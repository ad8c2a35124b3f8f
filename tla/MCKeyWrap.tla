----------------------------- MODULE MCKeyWrap -----------------------------
(***************************************************************************)
(* Key wrap on two-byte half blocks of 5-bit bytes.  Keys of two and three *)
(* blocks are counted in a byte, one of six blocks is not (36 steps), one  *)
(* is not a whole number of blocks and one is too short.                   *)
(***************************************************************************)
EXTENDS KeyWrap

\* A permutation of four bytes: two rounds on the pair of half blocks.
Number(h) == h[1] * 32 + h[2]
Half(x) == <<x \div 32, x % 32>>

MCEncrypt(b) ==
  LET x == (Number(SubSeq(b, 1, 2)) + 7 * Number(SubSeq(b, 3, 4)) + 3) % 1024
      y == (Number(SubSeq(b, 3, 4)) + 5 * x + (x \div 32)) % 1024
  IN Half(x) \o Half(y)

MCDecrypt(b) ==
  LET x == Number(SubSeq(b, 1, 2))
      y == (Number(SubSeq(b, 3, 4)) - 5 * x - (x \div 32)) % 1024
  IN Half((x - 7 * y - 3) % 1024) \o Half(y)

MCKeys == {<<1, 2, 3, 4>>, <<9, 0, 31, 7, 7, 1>>, <<5, 6, 7, 8, 9>>, <<4, 4, 4>>,
           <<1, 2, 3, 4, 5, 6, 7, 8, 9, 10, 11, 12>>}
MCKeyLengths == {4, 6}
MCBefores == {<<>>, <<30>>}
MCSpaces == {5, 8, 20}
=============================================================================
