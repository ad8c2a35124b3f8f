-------------------------------- MODULE MCDer --------------------------------
EXTENDS DerDecoder

\* Bytes of a length count to 9, so the forms change at 5, 10 and 100.
Fill(n, first) == [i \in 1..n |-> IF i = 1 THEN first ELSE 1]

\* Zero, and the sign bit in a length that takes the next form with the byte
\* the sign adds; a bit string that does so with its count of skipped bits.
MCIntegers == {<<0>>, Fill(4, 5)}
MCBitStrings == {Fill(9, 1)}
\* A value that starts with a newline and takes the 32-bit form.
MCOctetStrings == {Fill(100, Newline)}
MCCapacities == {9, 150}
MCTails == {<<>>, <<Newline, Newline>>, <<AWS_DER_NULL, Sign + 1>>}
=============================================================================
