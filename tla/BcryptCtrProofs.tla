-------------------------- MODULE BcryptCtrProofs --------------------------
(***************************************************************************)
(* Proofs about BcryptCtr, for every block size, every width of the        *)
(* counter and every bound: the code is counter mode, uses no byte of      *)
(* keystream twice, has what it needs while it is good, and implements     *)
(* CipherStream.                                                           *)
(***************************************************************************)
EXTENDS BcryptCtr, ByteSpansProofs

-----------------------------------------------------------------------------
(* The inductive invariant. *)

\* The byte of keystream that position i of the output has met.
OnGrid(c, i) == c.ctr = iv + ((i - 1) \div Block) /\ c.off = (i - 1) % Block

\* Whatever has failed, output and keystream have moved together.
Aligned == \A i \in DOMAIN out : OnGrid(out[i], i)

\* While the good flag is up the counter is as many blocks past the IV as were written.
InStep == good => Counter >= iv /\ Len(out) = Block * (Counter - iv)

\* The bytes of a message that has not been broken are written in order, and the rest of
\* it is in cipher->overflow.
InOrder ==
  stream \in {"open", "closed"} =>
    /\ \A i \in DOMAIN out : out[i].byte = i
    /\ fed = Len(out) + Len(overflow)
    /\ overflow = Span(Len(out), fed)
    /\ stream = "closed" => overflow = <<>>

\* There is a message exactly when there is a cipher, and it is open only while the good
\* flag is up.
LifeOfStream ==
  /\ IF life = "none" THEN stream = "none" /\ fed = 0 /\ out = <<>> ELSE stream # "none"
  /\ good => stream \in {"open", "broken"}
  /\ stream = "open" => good

IInv ==
  /\ GoodMeansUsable
  /\ Aligned
  /\ InStep
  /\ InOrder
  /\ LifeOfStream

-----------------------------------------------------------------------------
(* Blocks and offsets. *)

\* A position is a block and an offset in it, in one way only.
LEMMA DivUnique ==
  ASSUME NEW q \in Int, NEW r \in 0..(Block - 1), NEW n \in Nat, n = Block * q + r
  PROVE  n \div Block = q /\ n % Block = r
<1> DEFINE p == n \div Block
           m == n % Block
<1>1. Block \in Nat \ {0}
  BY BlockAssumption
<1>2. p \in Nat /\ n = Block * p + m /\ m \in 0..(Block - 1)
  BY <1>1, ModDiv, ModRange, Zenon
<1> HIDE DEF p, m
<1>3. Block * (p - q) = r - m
  BY <1>1, <1>2
<1>4. p - q >= 1 => Block * (p - q) >= Block
  BY <1>1, <1>2
<1>5. p - q <= -1 => Block * (p - q) <= -Block
  BY <1>1, <1>2
<1>6. p = q
  BY <1>1, <1>2, <1>3, <1>4, <1>5
<1>7. m = r
  BY <1>1, <1>2, <1>6
<1> QED
  BY <1>6, <1>7 DEF p, m

\* q blocks further on the offset is the same and the block q later.
LEMMA DivShift ==
  ASSUME NEW q \in Nat, NEW n \in Nat
  PROVE  /\ (Block * q + n) \div Block = q + (n \div Block)
         /\ (Block * q + n) % Block = n % Block
<1> DEFINE p == n \div Block
           m == n % Block
<1>1. Block \in Nat \ {0}
  BY BlockAssumption
<1>2. p \in Nat /\ n = Block * p + m /\ m \in 0..(Block - 1)
  BY <1>1, ModDiv, ModRange, Zenon
<1> HIDE DEF p, m
<1>3. Block * q \in Nat /\ Block * p \in Nat /\ Block * (q + p) = Block * q + Block * p
  BY <1>1, <1>2
<1>4. Block * q + n = Block * (q + p) + m /\ Block * q + n \in Nat /\ q + p \in Int
  BY <1>1, <1>2, <1>3
<1>5. (Block * q + n) \div Block = q + p /\ (Block * q + n) % Block = m
  BY <1>2, <1>4, DivUnique, Zenon
<1> QED
  BY <1>5 DEF p, m

\* d blocks hold the positions of d blocks.
LEMMA DivBound ==
  ASSUME NEW d \in Nat, NEW n \in Nat, n < d * Block
  PROVE  n \div Block \in 0..(d - 1) /\ n % Block \in 0..(Block - 1)
<1> DEFINE p == n \div Block
           m == n % Block
<1>1. Block \in Nat \ {0}
  BY BlockAssumption
<1>2. p \in Nat /\ n = Block * p + m /\ m \in 0..(Block - 1)
  BY <1>1, ModDiv, ModRange, Zenon
<1> HIDE DEF p, m
<1>3. p >= d => Block * p >= d * Block
  BY <1>1, <1>2
<1>4. p < d
  BY <1>1, <1>2, <1>3
<1>5. p \in 0..(d - 1)
  BY <1>2, <1>4
<1> QED
  BY <1>2, <1>5 DEF p, m

\* A slice of encrypt is always a whole block.
LEMMA WholeSlices ==
  ASSUME NEW len \in Nat, NEW d \in 0..(len \div Block)
  PROVE  SliceBytes(len, d) = d * Block /\ d * Block \in 0..len
<1> DEFINE p == len \div Block
           m == len % Block
<1>1. Block \in Nat \ {0}
  BY BlockAssumption
<1>2. p \in Nat /\ len = Block * p + m /\ m \in 0..(Block - 1) /\ d \in 0..p
  BY <1>1, ModDiv, ModRange
<1> HIDE DEF p, m
<1>3. d * Block <= Block * p /\ d * Block \in Nat
  BY <1>1, <1>2
<1>4. d * Block <= len
  BY <1>1, <1>2, <1>3
<1> QED
  BY <1>3, <1>4 DEF SliceBytes

\* What encrypt leaves over is less than a block.
LEMMA LeftOver ==
  ASSUME NEW len \in Nat
  PROVE  /\ Slices(len, FALSE) \in Nat /\ Slices(len, FALSE) * Block \in 0..len
         /\ len - Slices(len, FALSE) * Block < Block
<1> DEFINE p == len \div Block
           m == len % Block
<1>1. Block \in Nat \ {0} /\ Slices(len, FALSE) = p
  BY BlockAssumption DEF Slices
<1>2. p \in Nat /\ len = Block * p + m /\ m \in 0..(Block - 1)
  BY <1>1, ModDiv, ModRange, Zenon
<1> HIDE DEF p, m
<1>3. p * Block = Block * p /\ Block * p \in Nat
  BY <1>1, <1>2
<1>4. p \in Nat /\ p * Block \in 0..len /\ len - p * Block < Block
  BY <1>1, <1>2, <1>3
<1> QED
  BY <1>1, <1>4, Zenon

\* finalize has one slice to write.
LEMMA LastSlice ==
  ASSUME NEW len \in 1..(Block - 1)
  PROVE  Slices(len, TRUE) = 1 /\ SliceBytes(len, 0) = 0 /\ SliceBytes(len, 1) = len
<1>1. Block \in Nat \ {0}
  BY BlockAssumption
<1>2. /\ len + Block - 1 \in Nat /\ 1 \in Int /\ len - 1 \in 0..(Block - 1)
      /\ len + Block - 1 = Block * 1 + (len - 1)
  BY <1>1
<1>3. (len + Block - 1) \div Block = 1
  BY <1>2, DivUnique, Zenon
<1>4. 0 * Block = 0 /\ 1 * Block = Block /\ ~(Block <= len) /\ 0 <= len
  BY <1>1
<1> QED
  BY <1>3, <1>4 DEF Slices, SliceBytes

\* The first d slices are no more than d blocks and no more than there is.
LEMMA SliceBound ==
  ASSUME NEW len \in Nat, NEW d \in Nat
  PROVE  SliceBytes(len, d) \in 0..len /\ SliceBytes(len, d) <= d * Block
<1>1. Block \in Nat \ {0} /\ d * Block \in Nat
  BY BlockAssumption
<1> QED
  BY <1>1 DEF SliceBytes

-----------------------------------------------------------------------------
(* The loop. *)

\* What d slices write.
LEMMA XorType ==
  ASSUME NEW bytes \in Seq(Nat), NEW d \in Nat, Counter \in 0..CounterMax,
         Counter + d <= CounterMax + 1
  PROVE  /\ s_xor_cursors(bytes, d) \in Seq(Cell)
         /\ Len(s_xor_cursors(bytes, d)) = SliceBytes(Len(bytes), d)
         /\ \A j \in 1..SliceBytes(Len(bytes), d) :
              /\ j \in 1..Len(bytes)
              /\ s_xor_cursors(bytes, d)[j].byte = bytes[j]
              /\ s_xor_cursors(bytes, d)[j].ctr = Counter + ((j - 1) \div Block)
              /\ s_xor_cursors(bytes, d)[j].off = (j - 1) % Block
<1> DEFINE x == s_xor_cursors(bytes, d)
           m == SliceBytes(Len(bytes), d)
<1>1. /\ Block \in Nat \ {0} /\ Len(bytes) \in Nat /\ CounterMax \in Nat
      /\ \A j \in 1..Len(bytes) : bytes[j] \in Nat
  BY BlockAssumption, CtrAssumption, LenProperties, ElementOfSeq
<1>2. m \in 0..Len(bytes) /\ m <= d * Block
  BY <1>1, SliceBound, Zenon
<1>3. x = [j \in 1..m |-> [byte |-> bytes[j], ctr |-> Counter + ((j - 1) \div Block),
                          off |-> (j - 1) % Block]]
  BY DEF s_xor_cursors
<1> HIDE DEF x, m
<1>4. ASSUME NEW j \in 1..m
      PROVE  /\ j \in 1..Len(bytes)
             /\ x[j].byte = bytes[j]
             /\ x[j].ctr = Counter + ((j - 1) \div Block)
             /\ x[j].off = (j - 1) % Block
             /\ x[j] \in Cell
  <2> DEFINE q == (j - 1) \div Block
             r == (j - 1) % Block
             c == Counter + q
  <2>1. j \in 1..Len(bytes) /\ j - 1 \in Nat /\ j - 1 < d * Block
    BY <1>1, <1>2
  <2>2. q \in 0..(d - 1) /\ r \in 0..(Block - 1)
    BY <2>1, DivBound, Zenon
  <2>3. bytes[j] \in Nat
    BY <1>1, <2>1
  <2>4. x[j] = [byte |-> bytes[j], ctr |-> c, off |-> r]
    BY <1>3
  <2> HIDE DEF q, r
  <2>5. c \in 0..CounterMax
    BY <1>1, <2>2
  <2> HIDE DEF c
  <2>6. x[j].byte = bytes[j] /\ x[j].ctr = c /\ x[j].off = r /\ x[j] \in Cell
    BY <2>2, <2>3, <2>4, <2>5 DEF Cell
  <2> QED
    BY <2>1, <2>6, Zenon DEF q, r, c
<1>5. x \in Seq(Cell) /\ Len(x) = m
  <2>1. DOMAIN x = 1..m /\ m \in Nat
    BY <1>1, <1>2, <1>3
  <2>2. x \in [1..m -> Cell]
    BY <1>3, <1>4, <2>1
  <2>3. x \in Seq(Cell)
    BY <2>1, <2>2, SeqDef
  <2> QED
    BY <2>1, <2>3, LenProperties
<1>6. \A j \in 1..m : /\ j \in 1..Len(bytes) /\ x[j].byte = bytes[j]
                      /\ x[j].ctr = Counter + ((j - 1) \div Block)
                      /\ x[j].off = (j - 1) % Block
  BY <1>4, Zenon
<1> QED
  BY <1>5, <1>6 DEF x, m

\* A good cipher has one counter block.
LEMMA GoodCounter ==
  ASSUME IInv, good
  PROVE  /\ Counter \in 0..CounterMax /\ Counter - iv \in Nat /\ iv \in 0..CounterMax
         /\ Len(out) = Block * (Counter - iv) /\ out \in Seq(Cell) /\ Len(out) \in Nat
         /\ \A n : BCryptEncryptTakes(n) = n
<1>1. /\ working_iv \in Seq(0..CounterMax) /\ Len(working_iv) = 1 /\ iv \in 0..CounterMax
      /\ out \in Seq(Cell)
  BY DEF IInv, GoodMeansUsable, TypeOK
<1>2. working_iv # <<>> /\ working_iv[1] \in 0..CounterMax
  <2>1. working_iv \in [1..1 -> 0..CounterMax]
    BY <1>1, LenProperties, Zenon
  <2>2. Len(<<>>) = 0
    BY EmptySeq
  <2> QED
    BY <1>1, <2>1, <2>2
<1>3. Counter \in 0..CounterMax
  BY <1>2 DEF Counter
<1>4. Counter >= iv /\ Len(out) = Block * (Counter - iv)
  BY DEF IInv, InStep
<1> QED
  BY <1>1, <1>3, <1>4, CtrAssumption, LenProperties DEF BCryptEncryptTakes

\* Where a call that wrote d slices leaves the cipher.
LoopEffect(bytes, final, d) ==
  /\ d <= Slices(Len(bytes), final)
  /\ Counter + d <= CounterMax + 1
  /\ out' = out \o s_xor_cursors(bytes, d)
  /\ ret' \in {"ok", "short_buffer", "provider_error", "counter_overflow"}
  /\ ret' \notin Fatal => Counter + d <= CounterMax /\ working_iv' = Stored(Counter + d, final)
  /\ ret' = "ok" => d = Slices(Len(bytes), final)
  /\ working_iv' \in Seq(0..CounterMax)

\* The loop has written some number of slices when it ends, and only the counter's limit
\* or the provider make it a fatal error.
LEMMA LoopOutcome ==
  ASSUME IInv, good, NEW bytes \in Seq(Nat), NEW final \in BOOLEAN, NEW space \in Nat,
         Slices(Len(bytes), final) \in Nat, SliceLoop(bytes, final, space)
  PROVE  \E d \in Nat : LoopEffect(bytes, final, d)
<1> DEFINE n == Slices(Len(bytes), final)
<1>1. /\ Counter \in 0..CounterMax /\ CounterMax \in Nat /\ n \in Nat
      /\ BCryptEncryptTakes(n) = n
  BY GoodCounter, CtrAssumption
<1>2. PICK d \in 0..n :
        /\ out' = out \o s_xor_cursors(bytes, d)
        /\ \/ /\ Counter + d <= CounterMax
              /\ working_iv' = Stored(Counter + d, final)
              /\ \/ d = n /\ ret' = "ok"
                 \/ ret' = "short_buffer"
                 \/ ret' = "provider_error"
           \/ /\ d > 0 /\ Counter + d - 1 = CounterMax
              /\ working_iv' = Stored(CounterMax, final)
              /\ ret' = "counter_overflow"
  BY <1>1, Zenon DEF SliceLoop
<1> HIDE DEF n
<1>3. /\ d \in Nat /\ d <= n /\ Counter + d <= CounterMax + 1
      /\ ret' \in {"ok", "short_buffer", "provider_error", "counter_overflow"}
      /\ ret' \notin Fatal => Counter + d <= CounterMax /\ working_iv' = Stored(Counter + d, final)
      /\ ret' = "ok" => d = n
  BY <1>1, <1>2 DEF Fatal
<1>4. working_iv' \in Seq(0..CounterMax)
  <2>1. \A c \in 0..CounterMax : Stored(c, final) \in Seq(0..CounterMax)
    <3> TAKE c \in 0..CounterMax
    <3>1. <<c>> \in Seq(0..CounterMax) /\ <<>> \in Seq(0..CounterMax)
      OBVIOUS
    <3> QED
      BY <3>1, Zenon DEF Stored
  <2>2. CASE Counter + d <= CounterMax /\ working_iv' = Stored(Counter + d, final)
    BY <1>1, <1>3, <2>1, <2>2
  <2>3. CASE working_iv' = Stored(CounterMax, final)
    BY <1>1, <2>1, <2>3
  <2> QED
    BY <1>2, <2>2, <2>3
<1> QED
  BY <1>2, <1>3, <1>4, Zenon DEF LoopEffect, n

\* Output and keystream move together.
LEMMA WrittenAligned ==
  ASSUME IInv, good, NEW bytes \in Seq(Nat), NEW d \in Nat, Counter + d <= CounterMax + 1,
         out' = out \o s_xor_cursors(bytes, d), iv' = iv
  PROVE  /\ out' \in Seq(Cell) /\ Len(out') = Len(out) + SliceBytes(Len(bytes), d)
         /\ Aligned'
         /\ \A i \in DOMAIN out' :
              \/ i \in DOMAIN out /\ out'[i] = out[i]
              \/ /\ i - Len(out) \in 1..SliceBytes(Len(bytes), d)
                 /\ i - Len(out) \in 1..Len(bytes) /\ out'[i].byte = bytes[i - Len(out)]
<1> DEFINE x == s_xor_cursors(bytes, d)
           m == SliceBytes(Len(bytes), d)
           q == Counter - iv
           L == Len(out)
<1>1. /\ Counter \in 0..CounterMax /\ q \in Nat /\ iv \in 0..CounterMax
      /\ L = Block * q /\ out \in Seq(Cell) /\ L \in Nat /\ Block \in Nat \ {0}
  BY GoodCounter, BlockAssumption, Zenon
<1>2. /\ x \in Seq(Cell) /\ Len(x) = m
      /\ \A j \in 1..m : /\ j \in 1..Len(bytes) /\ x[j].byte = bytes[j]
                         /\ x[j].ctr = Counter + ((j - 1) \div Block)
                         /\ x[j].off = (j - 1) % Block
  BY <1>1, XorType, Zenon
<1>3. m \in Nat
  BY <1>2, LenProperties
<1> HIDE DEF x, m, L, q
<1>4. /\ out' \in Seq(Cell) /\ Len(out') = L + m /\ DOMAIN out' = 1..(L + m)
      /\ DOMAIN out = 1..L
      /\ \A i \in 1..(L + m) : out'[i] = IF i <= L THEN out[i] ELSE x[i - L]
  <2>1. /\ out \o x \in Seq(Cell) /\ Len(out \o x) = Len(out) + Len(x)
        /\ \A i \in 1..(Len(out) + Len(x)) :
             (out \o x)[i] = IF i <= Len(out) THEN out[i] ELSE x[i - Len(out)]
    BY <1>1, <1>2, ConcatProperties, Zenon
  <2>2. Len(out) = L /\ Len(x) = m /\ out' = out \o x /\ DOMAIN out = 1..Len(out)
    BY <1>1, <1>2, LenProperties DEF L, x
  <2>3. DOMAIN (out \o x) = 1..Len(out \o x)
    BY <2>1, LenProperties
  <2> QED
    BY <2>1, <2>2, <2>3
<1>5. ASSUME NEW i \in DOMAIN out'
      PROVE  \/ i \in DOMAIN out /\ out'[i] = out[i]
             \/ i - L \in 1..m /\ out'[i] = x[i - L]
  <2>1. i \in 1..(L + m) /\ L \in Nat /\ m \in Nat
    BY <1>1, <1>3, <1>4, Zenon
  <2>2. (i <= L /\ i \in 1..L) \/ (~(i <= L) /\ i - L \in 1..m)
    BY <2>1
  <2>3. out'[i] = IF i <= L THEN out[i] ELSE x[i - L]
    BY <1>4, <2>1, Zenon
  <2> QED
    BY <1>4, <2>2, <2>3, Zenon
<1>6. ASSUME NEW i \in DOMAIN out'
      PROVE  OnGrid(out'[i], i)
  <2>1. CASE i \in DOMAIN out /\ out'[i] = out[i]
    BY <2>1 DEF IInv, Aligned
  <2>2. CASE i - L \in 1..m /\ out'[i] = x[i - L]
    <3> DEFINE n == (i - L) - 1
    <3>1. n \in Nat /\ i - 1 = L + n /\ i \in Nat
      <4>1. i \in 1..(L + m) /\ L \in Nat /\ m \in Nat
        BY <1>1, <1>3, <1>4, Zenon
      <4> QED
        BY <2>2, <4>1
    <3>2. out'[i].ctr = Counter + (n \div Block) /\ out'[i].off = n % Block
      BY <1>2, <2>2, SMTT(30)
    <3> HIDE DEF n, q
    <3>3. (Block * q + n) \div Block = q + (n \div Block) /\ (Block * q + n) % Block = n % Block
      BY <1>1, <3>1, DivShift, Zenon
    <3>4. (i - 1) \div Block = q + (n \div Block) /\ (i - 1) % Block = n % Block
      BY <1>1, <3>1, <3>3, Zenon
    <3>5. Counter + (n \div Block) = iv + (q + (n \div Block))
      <4>1. n \div Block \in Nat
        BY <1>1, <3>1, ModDiv, Zenon
      <4> QED
        BY <1>1, <4>1 DEF q
    <3> QED
      BY <3>2, <3>4, <3>5 DEF OnGrid
  <2> QED
    BY <1>5, <2>1, <2>2
<1>7. Aligned'
  BY <1>6 DEF Aligned, OnGrid
<1>8. \A i \in DOMAIN out' :
        \/ i \in DOMAIN out /\ out'[i] = out[i]
        \/ i - L \in 1..m /\ i - L \in 1..Len(bytes) /\ out'[i].byte = bytes[i - L]
  BY <1>2, <1>5, SMTT(30)
<1> QED
  BY <1>4, <1>7, <1>8 DEF m, L

-----------------------------------------------------------------------------
(* The calls. *)

\* A call that the front end refuses.
Refused == ret' \in Returns /\ UNCHANGED <<life, good, others>>

\* An update that reaches the vtable.
UpdateCall(k, space) ==
  /\ good /\ good' = (ret' \notin Fatal) /\ UNCHANGED life
  /\ s_aes_ctr_encrypt(k, space) /\ Track(k, "open")

\* A finalize that reaches the vtable.
FinalCall(space) ==
  /\ good /\ good' = FALSE /\ UNCHANGED life
  /\ s_aes_ctr_finalize_encryption(space) /\ Track(0, "closed")

\* The front end refuses an update or dispatches it to the vtable.
LEMMA DispatchUpdate ==
  ASSUME NEW k, NEW space, Encrypt(k, space)
  PROVE  Refused \/ UpdateCall(k, space)
  BY DEF Encrypt, Refused, UpdateCall, Returns, aws_symmetric_cipher_encrypt

\* The front end refuses a finalize or dispatches it to the vtable.
LEMMA DispatchFinal ==
  ASSUME NEW space, FinalizeEncryption(space)
  PROVE  Refused \/ FinalCall(space)
  BY DEF FinalizeEncryption, Refused, FinalCall, Returns,
         aws_symmetric_cipher_finalize_encryption

\* A refused call, or no step at all, preserves the invariant.
LEMMA RefusedKeeps ==
  ASSUME IInv, Refused \/ UNCHANGED vars
  PROVE  IInv'
<1>1. ret' \in Returns /\ UNCHANGED <<life, good, others>>
  BY DEF IInv, GoodMeansUsable, TypeOK, Refused, vars
<1>2. UNCHANGED <<life, good, overflow, iv, working_iv, key_handle, out, fed, msg, stream>>
  BY <1>1 DEF others
<1>3. GoodMeansUsable'
  BY <1>1, <1>2 DEF IInv, GoodMeansUsable, TypeOK, Cell
<1>4. Aligned' /\ InStep' /\ InOrder' /\ LifeOfStream'
  BY <1>2 DEF IInv, Aligned, OnGrid, InStep, Counter, InOrder, LifeOfStream
<1> QED
  BY <1>3, <1>4 DEF IInv

\* A cipher that is good has a live key, and a message that is open or broken.
LEMMA GoodFacts ==
  ASSUME IInv, good
  PROVE  /\ TypeOK /\ life = "live" /\ key_handle = "live" /\ stream \in {"open", "broken"}
         /\ overflow \in Seq(Nat) /\ Len(overflow) \in Nat /\ Len(overflow) < Block
         /\ fed \in Nat /\ Block \in Nat \ {0} /\ CounterMax \in Nat
<1>1. TypeOK /\ overflow \in Seq(Nat) /\ fed \in Nat
  BY DEF IInv, GoodMeansUsable, TypeOK
<1> QED
  BY <1>1, BlockAssumption, CtrAssumption, LenProperties DEF IInv, GoodMeansUsable, LifeOfStream

\* The bytes that encrypt works on, and what it leaves over.
LEMMA Buffered ==
  ASSUME IInv, good, NEW k \in Nat
  PROVE  LET bytes == overflow \o Span(fed, fed + k) IN
         /\ bytes \in Seq(Nat) /\ Len(bytes) = Len(overflow) + k /\ Len(bytes) \in Nat
         /\ stream = "open" => bytes = Span(Len(out), fed + k) /\ Len(out) <= fed
<1>1. overflow \in Seq(Nat) /\ fed \in Nat /\ Len(overflow) \in Nat
  BY GoodFacts, Zenon
<1>2. Len(out) \in Nat
  BY GoodCounter, Zenon
<1>3. fed + k \in Nat /\ fed <= fed + k /\ (fed + k) - fed = k
  BY <1>1
<1>4. Span(fed, fed + k) \in Seq(Nat) /\ Len(Span(fed, fed + k)) = (fed + k) - fed
  BY <1>1, <1>3, SpanType, Zenon
<1>5. /\ overflow \o Span(fed, fed + k) \in Seq(Nat)
      /\ Len(overflow \o Span(fed, fed + k)) = Len(overflow) + k
  BY <1>1, <1>3, <1>4, ConcatProperties, Zenon
<1>6. ASSUME stream = "open"
      PROVE  overflow \o Span(fed, fed + k) = Span(Len(out), fed + k) /\ Len(out) <= fed
  <2>1. overflow = Span(Len(out), fed) /\ fed = Len(out) + Len(overflow)
    BY <1>6 DEF IInv, InOrder
  <2>2. Len(out) <= fed
    BY <1>1, <1>2, <2>1
  <2>3. Span(Len(out), fed) \o Span(fed, fed + k) = Span(Len(out), fed + k)
    BY <1>1, <1>2, <2>2, SpanJoin, Zenon
  <2> QED
    BY <2>1, <2>2, <2>3, Zenon
<1> QED
  BY <1>1, <1>5, <1>6

\* An encrypt of some bytes that reaches the vtable preserves the invariant.
LEMMA LoopKeeps ==
  ASSUME IInv, NEW k \in Nat, NEW space \in Nat, NEW d \in Nat,
         good, good' = (ret' \notin Fatal), UNCHANGED life, Track(k, "open"),
         LoopEffect(overflow \o Span(fed, fed + k), FALSE, d),
         overflow' = IF ret' = "ok"
                     THEN SubSeq(overflow \o Span(fed, fed + k),
                                 Slices(Len(overflow \o Span(fed, fed + k)), FALSE) * Block + 1,
                                 Len(overflow \o Span(fed, fed + k)))
                     ELSE <<>>
  PROVE  IInv'
<1> DEFINE bytes == overflow \o Span(fed, fed + k)
           len == Len(bytes)
           n == Slices(len, FALSE)
           m == SliceBytes(len, d)
           L == Len(out)
<1>1. /\ TypeOK /\ life = "live" /\ key_handle = "live" /\ stream \in {"open", "broken"}
      /\ fed \in Nat /\ Block \in Nat \ {0} /\ CounterMax \in Nat
  BY GoodFacts, Zenon
<1>2. /\ bytes \in Seq(Nat) /\ len \in Nat
      /\ stream = "open" => bytes = Span(L, fed + k) /\ L <= fed
  BY Buffered, Zenon
<1>3. /\ Counter \in 0..CounterMax /\ Counter - iv \in Nat /\ iv \in 0..CounterMax
      /\ L = Block * (Counter - iv) /\ L \in Nat
  BY GoodCounter, Zenon
<1>4. /\ n \in Nat /\ n * Block \in 0..len /\ len - n * Block < Block
  BY <1>2, LeftOver, Zenon
<1>5. /\ d <= n /\ Counter + d <= CounterMax + 1
      /\ out' = out \o s_xor_cursors(bytes, d)
      /\ ret' \in {"ok", "short_buffer", "provider_error", "counter_overflow"}
      /\ ret' \notin Fatal => Counter + d <= CounterMax /\ working_iv' = Stored(Counter + d, FALSE)
      /\ ret' = "ok" => d = n
      /\ working_iv' \in Seq(0..CounterMax)
  BY Zenon DEF LoopEffect
<1>6. /\ iv' = iv /\ key_handle' = key_handle /\ msg' = msg /\ fed' = fed + k
      /\ stream' = IF stream = "open" /\ ret' = "ok" THEN "open" ELSE "broken"
  BY DEF Track
<1>7. /\ out' \in Seq(Cell) /\ Len(out') = L + m
      /\ Aligned'
      /\ \A i \in DOMAIN out' :
           \/ i \in DOMAIN out /\ out'[i] = out[i]
           \/ /\ i - L \in 1..m
              /\ i - L \in 1..len /\ out'[i].byte = bytes[i - L]
  BY <1>2, <1>5, <1>6, WrittenAligned, Zenon
<1>8. m = d * Block
  <2>1. n = len \div Block
    BY DEF Slices
  <2>2. d \in 0..(len \div Block)
    <3> HIDE DEF n, len
    <3>1. d \in 0..n
      BY <1>4, <1>5
    <3> QED
      BY <2>1, <3>1
  <2> QED
    BY <1>2, <2>2, WholeSlices, Zenon
<1> HIDE DEF bytes, n, m, L, len
<1>9. /\ overflow' \in Seq(Nat) /\ Len(overflow') < Block
      /\ ret' = "ok" => Len(overflow') = len - n * Block
  <2>1. CASE ret' = "ok"
    <3>1. /\ SubSeq(bytes, n * Block + 1, len) \in Seq(Nat)
          /\ Len(SubSeq(bytes, n * Block + 1, len)) = len - n * Block
      <4>1. n * Block \in 0..Len(bytes)
        BY <1>4 DEF len
      <4> QED
        BY <1>2, <4>1, CutInTwo, Zenon DEF len
    <3>2. overflow' = SubSeq(bytes, n * Block + 1, len)
      BY <2>1 DEF bytes, n, len
    <3> QED
      BY <1>4, <3>1, <3>2, Zenon
  <2>2. CASE ret' # "ok"
    <3>1. overflow' = <<>>
      BY <2>2
    <3> QED
      BY <1>1, <2>2, <3>1, EmptySeq
  <2> QED
    BY <2>1, <2>2, Zenon
<1>10. good' => /\ Counter' = Counter + d /\ Len(working_iv') = 1
  <2>1. good' => working_iv' = <<Counter + d>>
    BY <1>5, Zenon DEF Stored
  <2> QED
    BY <2>1 DEF Counter
<1>11. GoodMeansUsable'
  <2>1. good' \in BOOLEAN /\ stream' \in {"none", "open", "closed", "broken"}
    BY <1>6
  <2>2. ret' \in Returns /\ life' \in Lives /\ fed' \in Nat /\ iv' \in 0..CounterMax
    BY <1>1, <1>3, <1>5, <1>6 DEF Returns, Lives
  <2>3. TypeOK'
    BY <1>1, <1>5, <1>6, <1>7, <1>9, <2>1, <2>2, Zenon DEF TypeOK, Cell
  <2> QED
    BY <1>1, <1>6, <1>9, <1>10, <2>3, Zenon DEF GoodMeansUsable
<1>12. InStep'
  <2> SUFFICES ASSUME good'
               PROVE  Counter' >= iv' /\ Len(out') = Block * (Counter' - iv')
    BY DEF InStep
  <2>1. Counter' = Counter + d
    BY <1>10
  <2>2. Len(out') = Block * (Counter - iv) + d * Block
    BY <1>3, <1>7, <1>8
  <2> DEFINE q == Counter - iv
  <2>3. q \in Nat /\ Counter' - iv' = q + d /\ Counter' >= iv'
    BY <1>3, <1>6, <2>1
  <2> HIDE DEF q
  <2>4. Block * q + d * Block = Block * (q + d)
    BY <1>1, <2>3
  <2> QED
    BY <2>2, <2>3, <2>4 DEF q
<1>13. InOrder'
  <2> SUFFICES ASSUME stream' \in {"open", "closed"}
               PROVE  /\ \A i \in DOMAIN out' : out'[i].byte = i
                      /\ fed' = Len(out') + Len(overflow')
                      /\ overflow' = Span(Len(out'), fed')
                      /\ stream' = "closed" => overflow' = <<>>
    BY Zenon DEF InOrder
  <2>1. stream' = "open" /\ stream = "open" /\ ret' = "ok" /\ d = n
    BY <1>5, <1>6
  <2>2. bytes = Span(L, fed + k) /\ L <= fed /\ fed + k \in Nat /\ L <= fed + k
    BY <1>1, <1>2, <1>3, <2>1
  <2>3. len = (fed + k) - L /\ \A j \in 1..((fed + k) - L) : bytes[j] = L + j
    BY <1>3, <2>2, SpanType, Zenon DEF len
  <2>4. ASSUME NEW i \in DOMAIN out'
        PROVE  out'[i].byte = i
    <3>1. CASE i \in DOMAIN out /\ out'[i] = out[i]
      BY <2>1, <3>1 DEF IInv, InOrder
    <3>2. CASE i - L \in 1..len /\ out'[i].byte = bytes[i - L]
      <4>1. i \in Nat
        BY <1>7, LenProperties
      <4>2. L + (i - L) = i
        BY <1>3, <4>1
      <4> QED
        BY <2>3, <3>2, <4>2
    <3> QED
      BY <1>7, <3>1, <3>2
  <2>5. Len(out') = L + n * Block /\ fed' = Len(out') + Len(overflow')
    <3> DEFINE c == n * Block
    <3>1. Len(out') = L + c /\ c \in 0..len /\ Len(overflow') = len - c
      BY <1>4, <1>7, <1>8, <1>9, <2>1, Zenon
    <3> HIDE DEF c
    <3>2. len \in Nat /\ L \in Nat /\ fed + k \in Nat
      BY <1>1, <1>2, <1>3
    <3>3. fed' = Len(out') + Len(overflow')
      <4>1. (L + c) + (len - c) = L + len /\ L + ((fed + k) - L) = fed + k
        BY <3>1, <3>2
      <4>2. fed' = fed + k /\ len = (fed + k) - L
        BY <1>6, <2>3
      <4> QED
        BY <3>1, <4>1, <4>2, Zenon
    <3> QED
      BY <3>1, <3>3, Zenon DEF c
  <2>6. overflow' = Span(Len(out'), fed')
    <3> DEFINE c == n * Block
               b == fed + k
    <3>1. c \in 0..(b - L) /\ b \in Nat /\ L <= b
      BY <1>4, <2>2, <2>3
    <3>2. SubSeq(Span(L, b), c + 1, b - L) = Span(L + c, b)
      <4> HIDE DEF c, b
      <4> QED
        BY <1>3, <3>1, SpanTail, Zenon
    <3>3. overflow' = SubSeq(bytes, n * Block + 1, len)
      BY <2>1 DEF bytes, n, len
    <3> QED
      BY <1>6, <2>2, <2>3, <2>5, <3>2, <3>3, Zenon
  <2> QED
    BY <2>1, <2>4, <2>5, <2>6, Zenon
<1>14. LifeOfStream'
  BY <1>1, <1>6, Zenon DEF LifeOfStream, Fatal
<1> QED
  BY <1>7, <1>11, <1>12, <1>13, <1>14 DEF IInv

\* An encrypt that reaches the vtable preserves the invariant.
LEMMA UpdateKeeps ==
  ASSUME IInv, NEW k \in Nat, NEW space \in Nat, UpdateCall(k, space)
  PROVE  IInv'
<1> DEFINE bytes == overflow \o Span(fed, fed + k)
<1>1. good /\ good' = (ret' \notin Fatal) /\ UNCHANGED life /\ Track(k, "open")
  BY DEF UpdateCall
<1>2. CASE k = 0 /\ ret' = "ok" /\ UNCHANGED <<overflow, working_iv, out>>
  <2>1. /\ TypeOK /\ life = "live" /\ stream \in {"open", "broken"} /\ fed \in Nat
    BY <1>1, GoodFacts, Zenon
  <2>2. /\ UNCHANGED <<overflow, working_iv, out, iv, key_handle, msg, fed, life, good>>
        /\ stream' = stream /\ ret' \in Returns
    <3>1. UNCHANGED good
      <4>1. good = TRUE
        BY <1>1, <2>1, Zenon DEF TypeOK
      <4>2. ret' \notin Fatal
        BY <1>2 DEF Fatal
      <4> QED
        BY <1>1, <4>1, <4>2, Zenon
    <3>2. UNCHANGED <<iv, key_handle, msg, fed, life, stream>>
      BY <1>1, <1>2, <2>1 DEF Track
    <3> QED
      BY <1>2, <3>1, <3>2 DEF Returns
  <2>3. Refused
    BY <2>2 DEF Refused, others
  <2> QED
    BY <2>3, RefusedKeeps
<1>3. CASE /\ SliceLoop(bytes, FALSE, space)
           /\ overflow' = IF ret' = "ok"
                          THEN SubSeq(bytes, Slices(Len(bytes), FALSE) * Block + 1, Len(bytes))
                          ELSE <<>>
  <2>1. bytes \in Seq(Nat) /\ Len(bytes) \in Nat
    BY <1>1, Buffered, Zenon
  <2>2. Slices(Len(bytes), FALSE) \in Nat
    BY <2>1, LeftOver, Zenon
  <2>3. PICK d \in Nat : LoopEffect(bytes, FALSE, d)
    BY <1>1, <1>3, <2>1, <2>2, LoopOutcome, Zenon
  <2> QED
    BY <1>1, <1>3, <2>3, LoopKeeps, Zenon
<1> QED
  BY <1>2, <1>3, Zenon DEF UpdateCall, s_aes_ctr_encrypt

\* What finalize leaves behind.
LEMMA FinalOutcome ==
  ASSUME IInv, NEW space \in Nat, FinalCall(space)
  PROVE  /\ ret' \in {"ok", "short_buffer", "provider_error", "counter_overflow"}
         /\ working_iv' \in Seq(0..CounterMax) /\ overflow' = <<>>
         /\ out' \in Seq(Cell) /\ Aligned' /\ Len(out') \in Nat
         /\ stream = "open" /\ ret' = "ok" =>
              Len(out') = fed /\ \A i \in DOMAIN out' : out'[i].byte = i
<1> DEFINE L == Len(out)
           len == Len(overflow)
<1>1. /\ good /\ iv' = iv /\ overflow' = <<>>
      /\ \/ overflow = <<>> /\ ret' = "ok" /\ working_iv' = <<>> /\ UNCHANGED out
         \/ overflow # <<>> /\ SliceLoop(overflow, TRUE, space)
  BY Zenon DEF FinalCall, s_aes_ctr_finalize_encryption, Track
<1>2. /\ overflow \in Seq(Nat) /\ len \in Nat /\ len < Block /\ fed \in Nat
      /\ Block \in Nat \ {0} /\ CounterMax \in Nat
  BY <1>1, GoodFacts, Zenon
<1>3. L \in Nat /\ out \in Seq(Cell)
  BY <1>1, GoodCounter, Zenon
<1>4. ASSUME stream = "open"
      PROVE  /\ \A i \in DOMAIN out : out[i].byte = i
             /\ fed = L + len /\ overflow = Span(L, fed)
  BY <1>4 DEF IInv, InOrder
<1>5. CASE overflow = <<>> /\ ret' = "ok" /\ working_iv' = <<>> /\ UNCHANGED out
  <2>1. Len(<<>>) = 0 /\ <<>> \in Seq(0..CounterMax)
    BY EmptySeq
  <2>2. Aligned'
    BY <1>1, <1>5 DEF IInv, Aligned, OnGrid
  <2>3. stream = "open" => Len(out') = fed /\ \A i \in DOMAIN out' : out'[i].byte = i
    BY <1>2, <1>3, <1>4, <1>5, <2>1
  <2> QED
    BY <1>1, <1>3, <1>5, <2>1, <2>2, <2>3
<1>6. CASE overflow # <<>> /\ SliceLoop(overflow, TRUE, space)
  <2>1. len \in 1..(Block - 1)
    BY <1>2, <1>6, EmptySeq
  <2>2. Slices(len, TRUE) = 1 /\ SliceBytes(len, 1) = len
    BY <2>1, LastSlice, Zenon
  <2>3. TRUE \in BOOLEAN /\ Slices(len, TRUE) \in Nat
    <3>1. 1 \in Nat
      OBVIOUS
    <3> QED
      BY <2>2, <3>1, Zenon
  <2>4. PICK d \in Nat : LoopEffect(overflow, TRUE, d)
    BY <1>1, <1>2, <1>6, <2>3, LoopOutcome, Zenon
  <2>5. /\ Counter + d <= CounterMax + 1
        /\ out' = out \o s_xor_cursors(overflow, d)
        /\ ret' \in {"ok", "short_buffer", "provider_error", "counter_overflow"}
        /\ ret' = "ok" => d = 1
        /\ working_iv' \in Seq(0..CounterMax)
    BY <2>2, <2>4, Zenon DEF LoopEffect
  <2>6. /\ out' \in Seq(Cell) /\ Len(out') = L + SliceBytes(len, d)
        /\ Aligned'
        /\ \A i \in DOMAIN out' :
             \/ i \in DOMAIN out /\ out'[i] = out[i]
             \/ i - L \in 1..len /\ out'[i].byte = overflow[i - L]
    BY <1>1, <1>2, <2>5, WrittenAligned, Zenon
  <2>7. ASSUME stream = "open", ret' = "ok"
        PROVE  Len(out') = fed /\ \A i \in DOMAIN out' : out'[i].byte = i
    <3>1. Len(out') = fed
      BY <1>4, <2>2, <2>5, <2>6, <2>7
    <3>2. L <= fed /\ \A j \in 1..(fed - L) : overflow[j] = L + j
      <4>1. L <= fed /\ overflow = Span(L, fed)
        BY <1>2, <1>3, <1>4, <2>7
      <4> QED
        BY <1>2, <1>3, <4>1, SpanType, ZenonT(40)
    <3>3. ASSUME NEW i \in DOMAIN out'
          PROVE  out'[i].byte = i
      <4>1. CASE i \in DOMAIN out /\ out'[i] = out[i]
        BY <1>4, <2>7, <4>1
      <4>2. CASE i - L \in 1..len /\ out'[i].byte = overflow[i - L]
        <5>1. i \in Nat
          BY <2>6, LenProperties
        <5> HIDE DEF L, len
        <5>2. L + (i - L) = i /\ fed - L = len
          BY <1>2, <1>3, <1>4, <2>7, <5>1
        <5> QED
          BY <3>2, <4>2, <5>2
      <4> QED
        BY <2>6, <4>1, <4>2
    <3> QED
      BY <3>1, <3>3
  <2>8. Len(out') \in Nat
    BY <2>6, LenProperties
  <2> QED
    BY <1>1, <2>5, <2>6, <2>7, <2>8
<1> QED
  BY <1>1, <1>5, <1>6, Zenon

\* A finalize that reaches the vtable preserves the invariant.
LEMMA FinalKeeps ==
  ASSUME IInv, NEW space \in Nat, FinalCall(space)
  PROVE  IInv'
<1>1. /\ good /\ good' = FALSE /\ UNCHANGED <<life, iv, key_handle, msg>> /\ fed' = fed + 0
      /\ stream' = IF stream = "open" /\ ret' = "ok" THEN "closed" ELSE "broken"
  BY DEF FinalCall, Track
<1>2. TypeOK /\ life = "live" /\ fed \in Nat
  BY <1>1, GoodFacts, Zenon
<1>3. /\ ret' \in {"ok", "short_buffer", "provider_error", "counter_overflow"}
      /\ working_iv' \in Seq(0..CounterMax) /\ overflow' = <<>>
      /\ out' \in Seq(Cell) /\ Aligned' /\ Len(out') \in Nat
      /\ stream = "open" /\ ret' = "ok" =>
           Len(out') = fed /\ \A i \in DOMAIN out' : out'[i].byte = i
  BY FinalOutcome, Zenon
<1>4. fed' = fed /\ <<>> \in Seq(Nat) /\ Len(<<>>) = 0
  BY <1>1, <1>2, EmptySeq
<1>5. GoodMeansUsable'
  BY <1>1, <1>2, <1>3, <1>4, Zenon DEF GoodMeansUsable, TypeOK, Returns, Cell
<1>6. InStep' /\ LifeOfStream'
  BY <1>1, <1>2 DEF InStep, LifeOfStream
<1>7. InOrder'
  <2>1. Span(fed, fed) = <<>>
    BY <1>2, SpanEmpty, Zenon
  <2> QED
    BY <1>1, <1>2, <1>3, <1>4, <2>1 DEF InOrder
<1> QED
  BY <1>3, <1>5, <1>6, <1>7 DEF IInv

-----------------------------------------------------------------------------
(* Construction, reset and destruction. *)

\* A message that has just begun, or no message at all.
FreshState ==
  /\ life \in Lives /\ good \in BOOLEAN /\ ret \in Returns
  /\ overflow = <<>> /\ out = <<>> /\ fed = 0 /\ msg \in Nat
  /\ iv \in 0..CounterMax /\ working_iv \in {<<>>, <<iv>>}
  /\ key_handle \in {"null", "live"}
  /\ good => life = "live" /\ key_handle = "live" /\ working_iv = <<iv>>
  /\ IF life = "none" THEN stream = "none" ELSE stream \in {"open", "broken"}
  /\ stream = "open" => good

\* A cipher that has seen no byte of its message satisfies the invariant.
LEMMA FreshInv == FreshState => IInv
<1> SUFFICES ASSUME FreshState
             PROVE  IInv
  OBVIOUS
<1>1. /\ Block \in Nat \ {0} /\ CounterMax \in Nat /\ iv \in 0..CounterMax
      /\ out = <<>> /\ overflow = <<>> /\ fed = 0 /\ 0 \in Nat
  BY BlockAssumption, CtrAssumption DEF FreshState
<1>2. /\ <<>> \in Seq(Nat) /\ <<>> \in Seq(Cell) /\ <<>> \in Seq(0..CounterMax)
      /\ Len(<<>>) = 0 /\ DOMAIN <<>> = {} /\ <<iv>> \in Seq(0..CounterMax)
      /\ Len(<<iv>>) = 1
  BY <1>1, EmptySeq
<1>3. Span(0, 0) = <<>>
  BY SpanEmpty
<1>4. GoodMeansUsable
  <2>1. /\ overflow \in Seq(Nat) /\ working_iv \in Seq(0..CounterMax) /\ out \in Seq(Cell)
        /\ fed \in Nat /\ stream \in {"none", "open", "closed", "broken"}
    BY <1>1, <1>2, Zenon DEF FreshState
  <2>2. TypeOK
    BY <2>1, Zenon DEF FreshState, TypeOK
  <2>3. Len(overflow) < Block
    BY <1>1, <1>2
  <2> QED
    BY <1>2, <2>2, <2>3, Zenon DEF FreshState, GoodMeansUsable
<1>5. Aligned /\ InOrder
  BY <1>1, <1>2, <1>3 DEF Aligned, InOrder
<1>6. InStep
  <2> SUFFICES ASSUME good
               PROVE  Counter >= iv /\ Len(out) = Block * (Counter - iv)
    BY DEF InStep
  <2>1. Counter = iv
    <3>1. working_iv = <<iv>>
      BY Zenon DEF FreshState
    <3> QED
      BY <3>1 DEF Counter
  <2>2. iv - iv = 0 /\ Block * 0 = 0 /\ iv >= iv
    BY <1>1
  <2> QED
    BY <1>1, <1>2, <2>1, <2>2
<1>7. LifeOfStream
  <2>1. good => life # "none"
    BY DEF FreshState
  <2> QED
    BY <2>1 DEF FreshState, LifeOfStream
<1> QED
  BY <1>4, <1>5, <1>6, <1>7 DEF IInv

\* The invariant holds before any cipher is constructed.
LEMMA InitInv == Init => IInv
<1>1. 0 \in 0..CounterMax /\ 0 \in Nat
  BY CtrAssumption
<1>2. Init => FreshState
  BY <1>1, Zenon DEF Init, FreshState, Lives, Returns
<1> QED
  BY <1>2, FreshInv

\* Construction, reset and destruction preserve the invariant, when they fail too.
LEMMA LifeKeeps ==
  ASSUME IInv, aws_aes_ctr_256_new_impl \/ Reset \/ s_aes_default_destroy
  PROVE  IInv'
<1>1. /\ CounterMax \in Nat /\ 0 \in 0..CounterMax /\ 0 \in Nat /\ InitCounters \subseteq 0..CounterMax
      /\ iv \in 0..CounterMax /\ msg \in Nat /\ msg + 1 \in Nat
  BY CtrAssumption DEF IInv, GoodMeansUsable, TypeOK
<1>2. CASE aws_aes_ctr_256_new_impl
  <2>1. CASE life' = "crashed"
    <3>1. ret' \in Returns /\ life' \in Lives /\ life' # "none" /\ Nothing /\ stream' = "broken"
      BY <1>2, <2>1 DEF aws_aes_ctr_256_new_impl, Returns, Lives
    <3>2. stream' # "open" /\ stream' \in {"open", "broken"}
      BY <3>1
    <3>3. FreshState'
      BY <1>1, <3>1, <3>2, Zenon DEF FreshState, Nothing
    <3> QED
      BY <3>3, FreshInv, PTL
  <2>2. CASE life' # "crashed"
    <3>1. /\ life' = "live" /\ good' = TRUE /\ ret' = "ok" /\ overflow' = <<>>
          /\ iv' \in InitCounters /\ working_iv' = <<iv'>> /\ key_handle' = "live"
          /\ NewMessage
      BY <1>2, <2>2 DEF aws_aes_ctr_256_new_impl, s_initialize_cipher_materials
    <3>2. stream' = "open" /\ ret' \in Returns /\ life' \in Lives /\ life' # "none"
      BY <3>1 DEF NewMessage, Returns, Lives
    <3>3. iv' \in 0..CounterMax
      BY <1>1, <3>1
    <3>4. FreshState'
      BY <1>1, <3>1, <3>2, <3>3, Zenon DEF FreshState, NewMessage
    <3> QED
      BY <3>4, FreshInv, PTL
  <2> QED
    BY <2>1, <2>2
<1>3. CASE Reset
  <2>1. /\ life' = "live" /\ good' = (ret' = "ok") /\ overflow' = <<>>
        /\ iv' = iv /\ working_iv' = <<iv>> /\ key_handle' \in {"null", "live"}
        /\ ret' = "ok" => key_handle' = "live"
        /\ ret' \in {"ok", "provider_error"} /\ NewMessage
    BY <1>3, Zenon DEF Reset, aws_symmetric_cipher_reset, s_reset_ctr_cipher,
                s_clear_reusable_components, s_initialize_cipher_materials
  <2>2. /\ life' \in Lives /\ life' # "none" /\ ret' \in Returns
        /\ stream' \in {"open", "broken"} /\ (stream' = "open" => ret' = "ok")
    BY <2>1 DEF NewMessage, Lives, Returns
  <2>3. FreshState'
    BY <1>1, <2>1, <2>2, Zenon DEF FreshState, NewMessage
  <2> QED
    BY <2>3, FreshInv, PTL
<1>4. CASE s_aes_default_destroy
  <2>1. /\ life' = "none" /\ life' \in Lives /\ ret' \in Returns /\ Nothing
        /\ stream' = "none" /\ stream' # "open"
    BY <1>4 DEF s_aes_default_destroy, Lives, Returns
  <2>2. FreshState'
    BY <1>1, <2>1, Zenon DEF FreshState, Nothing
  <2> QED
    BY <2>2, FreshInv, PTL
<1> QED
  BY <1>2, <1>3, <1>4

-----------------------------------------------------------------------------
(* The theorems. *)

\* Every step of the back end preserves the invariant.
LEMMA NextKeeps ==
  ASSUME IInv, [Next]_vars
  PROVE  IInv'
<1>1. ASSUME NEW space \in Spaces, NEW k \in 0..MaxChunk, Encrypt(k, space)
      PROVE  IInv'
  <2>1. space \in Nat /\ k \in Nat
    BY CtrAssumption
  <2>2. Refused \/ UpdateCall(k, space)
    BY <1>1, DispatchUpdate, Zenon
  <2> QED
    BY <2>1, <2>2, RefusedKeeps, UpdateKeeps, Zenon
<1>2. ASSUME NEW space \in Spaces, FinalizeEncryption(space)
      PROVE  IInv'
  <2>1. space \in Nat
    BY CtrAssumption
  <2>2. Refused \/ FinalCall(space)
    BY <1>2, DispatchFinal, Zenon
  <2> QED
    BY <2>1, <2>2, RefusedKeeps, FinalKeeps, Zenon
<1>3. CASE aws_aes_ctr_256_new_impl \/ Reset \/ s_aes_default_destroy
  BY <1>3, LifeKeeps
<1>4. CASE UNCHANGED vars
  BY <1>4, RefusedKeeps
<1> QED
  BY <1>1, <1>2, <1>3, <1>4 DEF Next

\* The invariant holds in every reachable state.
THEOREM Inductive == Spec => []IInv
<1>1. Init => IInv
  BY InitInv
<1>2. IInv /\ [Next]_vars => IInv'
  BY NextKeeps
<1> QED
  BY <1>1, <1>2, PTL DEF Spec

\* A cipher that is good has a key handle, exactly one counter block in working_iv and less
\* than a block in overflow; and the state has its type.
THEOREM GoodIsUsable == Spec => []GoodMeansUsable
<1>1. IInv => GoodMeansUsable
  BY DEF IInv
<1> QED
  BY <1>1, Inductive, PTL

\* The slice loop is counter mode, for every block size, every IV and every way a message
\* is cut into calls, up to and including the last value of the counter.
THEOREM IsCounterMode == Spec => []CounterMode
<1>1. ASSUME IInv, stream \in {"open", "closed"}
      PROVE  /\ out = [i \in 1..Len(out) |-> [byte |-> i,
                                              ctr |-> iv + ((i - 1) \div Block),
                                              off |-> (i - 1) % Block]]
             /\ Len(overflow) < Block
  <2>1. out \in Seq(Cell) /\ DOMAIN out = 1..Len(out) /\ out \in [1..Len(out) -> Cell]
    BY <1>1, LenProperties DEF IInv, GoodMeansUsable, TypeOK
  <2>2. ASSUME NEW i \in 1..Len(out)
        PROVE  out[i] = [byte |-> i, ctr |-> iv + ((i - 1) \div Block), off |-> (i - 1) % Block]
    <3> DEFINE c == iv + ((i - 1) \div Block)
               o == (i - 1) % Block
    <3>1. out[i] \in Cell
      BY <2>1
    <3>2. out[i].byte = i
      BY <1>1, <2>1 DEF IInv, InOrder
    <3>3. out[i].ctr = c /\ out[i].off = o
      BY <1>1, <2>1 DEF IInv, Aligned, OnGrid
    <3> HIDE DEF c, o
    <3>4. out[i] = [byte |-> i, ctr |-> c, off |-> o]
      BY <3>1, <3>2, <3>3 DEF Cell
    <3> QED
      BY <3>4 DEF c, o
  <2> DEFINE f(i) == [byte |-> i, ctr |-> iv + ((i - 1) \div Block), off |-> (i - 1) % Block]
  <2>3. \A i \in 1..Len(out) : out[i] = f(i)
    BY <2>2
  <2> HIDE DEF f
  <2>4. out = [i \in 1..Len(out) |-> f(i)]
    BY <2>1, <2>3
  <2>5. Len(overflow) < Block
    BY <1>1, EmptySeq, BlockAssumption DEF IInv, InOrder, LifeOfStream, GoodMeansUsable
  <2> QED
    BY <2>4, <2>5 DEF f
<1>2. IInv => CounterMode
  BY <1>1 DEF IInv, InOrder, CounterMode
<1> QED
  BY <1>2, Inductive, PTL

\* No byte of keystream meets two bytes of data between two resets, whatever call fails for
\* lack of room, in the provider or at the counter's limit, and however the caller goes on.
THEOREM KeystreamOnce == Spec => []KeystreamUsedOnce
<1>1. ASSUME IInv, NEW i \in DOMAIN out, NEW j \in DOMAIN out,
             out[i].ctr = out[j].ctr, out[i].off = out[j].off
      PROVE  i = j
  <2> DEFINE p == (i - 1) \div Block
             q == (j - 1) \div Block
             r == (i - 1) % Block
             t == (j - 1) % Block
  <2>1. /\ i - 1 \in Nat /\ j - 1 \in Nat /\ Block \in Nat \ {0} /\ iv \in Nat
        /\ i \in Nat /\ j \in Nat
    <3>1. out \in Seq(Cell) /\ iv \in 0..CounterMax /\ CounterMax \in Nat
      BY <1>1, CtrAssumption DEF IInv, GoodMeansUsable, TypeOK
    <3>2. Len(out) \in Nat /\ i \in 1..Len(out) /\ j \in 1..Len(out)
      BY <3>1, LenProperties
    <3> QED
      BY <3>1, <3>2, BlockAssumption
  <2>2. out[i].ctr = iv + p /\ out[i].off = r /\ out[j].ctr = iv + q /\ out[j].off = t
    BY <1>1 DEF IInv, Aligned, OnGrid
  <2>3. p \in Nat /\ i - 1 = Block * p + r /\ q \in Nat /\ j - 1 = Block * q + t
    BY <2>1, ModDiv, Zenon
  <2> HIDE DEF p, q, r, t
  <2>4. p = q /\ r = t
    <3>1. iv + p = iv + q /\ r = t
      BY <1>1, <2>2, Zenon
    <3>2. p \in Nat /\ q \in Nat /\ iv \in Nat
      BY <2>1, <2>3, Zenon
    <3> QED
      BY <3>1, <3>2
  <2>5. i - 1 = j - 1
    BY <2>3, <2>4, Zenon
  <2> QED
    BY <2>1, <2>5
<1>2. IInv => KeystreamUsedOnce
  BY <1>1 DEF KeystreamUsedOnce
<1> QED
  BY <1>2, Inductive, PTL

-----------------------------------------------------------------------------
(* The back end implements CipherStream, step by step. *)

Emitted == [i \in DOMAIN out |-> out[i].byte]

\* What a message that has not been broken has emitted is a prefix of it.
EmittedInOrder ==
  /\ out = <<>> => Emitted = <<>>
  /\ stream \in {"open", "closed"} =>
       /\ Emitted = [i \in 1..Len(out) |-> i] /\ Len(Emitted) = Len(out)
       /\ Len(out) \in 0..fed
       /\ stream = "closed" => Len(out) = fed

\* That follows from the invariant.
LEMMA EmittedPrefix == IInv => EmittedInOrder
<1> SUFFICES ASSUME IInv
             PROVE  EmittedInOrder
  OBVIOUS
<1>1. /\ out \in Seq(Cell) /\ DOMAIN out = 1..Len(out) /\ Len(out) \in Nat
      /\ overflow \in Seq(Nat) /\ Len(overflow) \in Nat /\ fed \in Nat
  <2>1. out \in Seq(Cell) /\ overflow \in Seq(Nat) /\ fed \in Nat
    BY DEF IInv, GoodMeansUsable, TypeOK
  <2> QED
    BY <2>1, LenProperties
<1>2. \A n \in Nat : Span(0, n) = [i \in 1..n |-> i] /\ Len(Span(0, n)) = n
  BY MessageType
<1>3. ASSUME out = <<>>
      PROVE  Emitted = <<>>
  <2>1. Len(out) = 0 /\ 0 \in Nat
    BY <1>3, EmptySeq
  <2>2. DOMAIN out = {} /\ 1..0 = {}
    BY <1>1, <2>1
  <2>3. Emitted = [i \in 1..0 |-> i]
    BY <2>2 DEF Emitted
  <2>4. Span(0, 0) = <<>>
    BY SpanEmpty
  <2> QED
    BY <1>2, <2>1, <2>3, <2>4
<1>4. ASSUME stream \in {"open", "closed"}
      PROVE  /\ Emitted = [i \in 1..Len(out) |-> i] /\ Len(Emitted) = Len(out)
             /\ Len(out) \in 0..fed
             /\ stream = "closed" => Len(out) = fed
  <2>1. /\ \A i \in 1..Len(out) : out[i].byte = i
        /\ fed = Len(out) + Len(overflow)
        /\ stream = "closed" => overflow = <<>>
    BY <1>1, <1>4 DEF IInv, InOrder
  <2>2. Emitted = [i \in 1..Len(out) |-> i]
    BY <1>1, <2>1 DEF Emitted
  <2>3. Len(Emitted) = Len(out)
    BY <1>1, <1>2, <2>2
  <2>4. Len(out) \in 0..fed /\ (stream = "closed" => Len(out) = fed)
    <3>1. Len(<<>>) = 0
      BY EmptySeq
    <3>2. stream = "closed" => Len(overflow) = 0
      BY <2>1, <3>1, Zenon
    <3> DEFINE a == Len(out)
               b == Len(overflow)
    <3>3. fed = a + b /\ a \in Nat /\ b \in Nat /\ (stream = "closed" => b = 0)
      BY <1>1, <2>1, <3>2, Zenon
    <3> HIDE DEF a, b
    <3>4. a \in 0..fed /\ (b = 0 => a = fed)
      BY <3>3
    <3> QED
      BY <3>3, <3>4, Zenon DEF a, b
  <2> QED
    BY <2>2, <2>3, <2>4
<1> QED
  BY <1>3, <1>4 DEF EmittedInOrder

\* An encrypt that reaches the vtable is an update of the stream, or breaks it.
LEMMA UpdateRefines ==
  ASSUME IInv, IInv', NEW k \in Nat, NEW space \in Nat, UpdateCall(k, space)
  PROVE  Stream!Next
<1>1. EmittedInOrder /\ EmittedInOrder'
  BY EmittedPrefix, PTL
<1>2. good /\ Track(k, "open")
  BY DEF UpdateCall
<1>3. stream \in {"open", "broken"} /\ fed \in Nat
  BY <1>2, GoodFacts, Zenon
<1>4. CASE stream' = "broken"
  BY <1>3, <1>4 DEF Stream!Next, Stream!Break
<1>5. CASE stream' # "broken"
  <2>1. stream' = "open" /\ stream = "open" /\ fed' = fed + k /\ ret' = "ok"
    BY <1>2, <1>5 DEF Track
  <2>2. /\ Emitted' = [i \in 1..Len(out') |-> i] /\ Len(Emitted') = Len(out')
        /\ Len(Emitted) = Len(out) /\ Len(out') \in 0..fed'
    BY <1>1, <2>1 DEF EmittedInOrder
  <2>3. Len(out) \in Nat /\ Len(out') \in Nat /\ Len(out') >= Len(out)
    <3>1. CASE UNCHANGED out
      <4>1. Len(out) \in Nat
        BY <1>2, GoodCounter, Zenon
      <4> QED
        BY <3>1, <4>1
    <3>2. CASE \E d \in Nat : LoopEffect(overflow \o Span(fed, fed + k), FALSE, d)
      <4> DEFINE bytes == overflow \o Span(fed, fed + k)
      <4>1. bytes \in Seq(Nat) /\ Len(bytes) \in Nat
        BY <1>2, Buffered, Zenon
      <4> HIDE DEF bytes
      <4>2. PICK d \in Nat : LoopEffect(bytes, FALSE, d)
        BY <3>2, Zenon DEF bytes
      <4>3. Counter + d <= CounterMax + 1 /\ out' = out \o s_xor_cursors(bytes, d) /\ iv' = iv
        BY <1>2, <4>2 DEF LoopEffect, Track
      <4>4. Len(out') = Len(out) + SliceBytes(Len(bytes), d)
        BY <1>2, <4>1, <4>3, WrittenAligned, Zenon
      <4>5. SliceBytes(Len(bytes), d) \in 0..Len(bytes)
        BY <4>1, SliceBound, Zenon
      <4>6. Len(out) \in Nat
        BY <1>2, GoodCounter, Zenon
      <4> QED
        BY <4>1, <4>4, <4>5, <4>6
    <3>3. UNCHANGED out \/ \E d \in Nat : LoopEffect(overflow \o Span(fed, fed + k), FALSE, d)
      <4> DEFINE bytes == overflow \o Span(fed, fed + k)
      <4>1. UNCHANGED out \/ SliceLoop(bytes, FALSE, space)
        BY Zenon DEF UpdateCall, s_aes_ctr_encrypt
      <4>2. bytes \in Seq(Nat) /\ Len(bytes) \in Nat
        BY <1>2, Buffered, Zenon
      <4>3. Slices(Len(bytes), FALSE) \in Nat
        BY <4>2, LeftOver, Zenon
      <4> HIDE DEF bytes
      <4>4. FALSE \in BOOLEAN
        BY Zenon
      <4>5. SliceLoop(bytes, FALSE, space) => \E d \in Nat : LoopEffect(bytes, FALSE, d)
        BY <1>2, <4>2, <4>3, <4>4, LoopOutcome, Zenon
      <4> QED
        BY <4>1, <4>5, Zenon DEF bytes
    <3> QED
      BY <3>1, <3>2, <3>3, Zenon
  <2>4. Len(Emitted') \in Len(Emitted)..fed' /\ fed' \in Nat /\ fed' >= fed
    BY <1>3, <2>1, <2>2, <2>3
  <2> QED
    BY <2>1, <2>2, <2>4 DEF Stream!Next, Stream!Update, Stream!Prefix, Emitted
<1> QED
  BY <1>4, <1>5

\* A finalize that reaches the vtable completes the stream, or breaks it.
LEMMA FinalRefines ==
  ASSUME IInv, IInv', NEW space \in Nat, FinalCall(space)
  PROVE  Stream!Next
<1>1. EmittedInOrder'
  BY EmittedPrefix, PTL
<1>2. good /\ Track(0, "closed")
  BY DEF FinalCall
<1>3. stream \in {"open", "broken"} /\ fed \in Nat
  BY <1>2, GoodFacts, Zenon
<1>4. CASE stream' = "broken"
  BY <1>3, <1>4 DEF Stream!Next, Stream!Break
<1>5. CASE stream' # "broken"
  <2>1. stream' = "closed" /\ stream = "open" /\ fed' = fed
    BY <1>2, <1>3, <1>5 DEF Track
  <2>2. Emitted' = [i \in 1..fed |-> i]
    BY <1>1, <2>1 DEF EmittedInOrder
  <2> QED
    BY <2>1, <2>2 DEF Stream!Next, Stream!Finalize, Stream!Prefix, Emitted
<1> QED
  BY <1>4, <1>5

\* Every step of the back end is a step of the stream, or leaves it as it is.
LEMMA NextRefines ==
  ASSUME IInv, IInv', [Next]_vars
  PROVE  [Stream!Next]_(Stream!streamVars)
<1>1. Refused \/ UNCHANGED vars => UNCHANGED Stream!streamVars
  BY DEF Refused, others, vars, Stream!streamVars
<1>2. ASSUME NEW space \in Spaces, NEW k \in 0..MaxChunk, Encrypt(k, space)
      PROVE  [Stream!Next]_(Stream!streamVars)
  <2>1. space \in Nat /\ k \in Nat
    BY CtrAssumption
  <2>2. Refused \/ UpdateCall(k, space)
    BY <1>2, DispatchUpdate, Zenon
  <2> QED
    BY <1>1, <2>1, <2>2, UpdateRefines, Zenon
<1>3. ASSUME NEW space \in Spaces, FinalizeEncryption(space)
      PROVE  [Stream!Next]_(Stream!streamVars)
  <2>1. space \in Nat
    BY CtrAssumption
  <2>2. Refused \/ FinalCall(space)
    BY <1>3, DispatchFinal, Zenon
  <2> QED
    BY <1>1, <2>1, <2>2, FinalRefines, Zenon
<1>4. CASE aws_aes_ctr_256_new_impl \/ Reset \/ s_aes_default_destroy
  <2>1. fed' = 0 /\ out' = <<>>
    BY <1>4, Zenon DEF aws_aes_ctr_256_new_impl, Reset, s_aes_default_destroy, NewMessage, Nothing,
                aws_symmetric_cipher_reset
  <2>2. EmittedInOrder'
    BY EmittedPrefix, PTL
  <2>3. Emitted' = <<>>
    BY <2>1, <2>2 DEF EmittedInOrder
  <2>4. CASE aws_aes_ctr_256_new_impl
    <3>1. stream = "none" /\ stream' \in {"open", "broken"}
      BY <2>4 DEF aws_aes_ctr_256_new_impl, NewMessage, IInv, LifeOfStream
    <3> QED
      BY <2>1, <2>3, <3>1 DEF Stream!Next, Stream!Create, Emitted
  <2>5. CASE Reset
    <3>1. stream # "none" /\ stream' \in {"open", "broken"}
      BY <2>5 DEF Reset, aws_symmetric_cipher_reset, NewMessage, IInv, LifeOfStream
    <3> QED
      BY <2>1, <2>3, <3>1 DEF Stream!Next, Stream!Reset, Stream!Break, Emitted
  <2>6. CASE s_aes_default_destroy
    <3>1. stream # "none" /\ stream' = "none"
      BY <2>6 DEF s_aes_default_destroy, IInv, LifeOfStream
    <3> QED
      BY <2>1, <2>3, <3>1 DEF Stream!Next, Stream!Destroy, Emitted
  <2> QED
    BY <1>4, <2>4, <2>5, <2>6
<1>5. CASE UNCHANGED vars
  BY <1>1, <1>5
<1> QED
  BY <1>2, <1>3, <1>4, <1>5 DEF Next

\* AES-CTR over CNG implements the stream the header promises, for every block size and
\* every way a message is cut in pieces.
THEOREM StreamRefined == Spec => ImplementsStream
<1>1. Init => Stream!Init
  <2>1. IInv => EmittedInOrder
    BY EmittedPrefix
  <2>2. Init => Emitted = <<>>
    BY <2>1, InitInv DEF Init, EmittedInOrder
  <2> QED
    BY <2>2 DEF Init, Stream!Init, Emitted
<1>2. IInv /\ IInv' /\ [Next]_vars => [Stream!Next]_(Stream!streamVars)
  BY NextRefines
<1> QED
  BY <1>1, <1>2, Inductive, PTL DEF Spec, ImplementsStream, Stream!Spec
=============================================================================
