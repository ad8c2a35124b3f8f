-------------------------- MODULE ByteSpansProofs --------------------------
(***************************************************************************)
(* Facts about messages (Span), about cutting a buffer in two and about    *)
(* remainders, shared by the proofs about the back ends.                   *)
(***************************************************************************)
EXTENDS ByteSpans, SequenceTheorems, TLAPS

\* A remainder is smaller than the divisor.
LEMMA ModRange ==
  ASSUME NEW n \in Nat, NEW d \in Nat \ {0}
  PROVE  n % d \in 0..(d - 1)
  BY SMT

\* Quotient and remainder make up the number.
LEMMA ModDiv ==
  ASSUME NEW n \in Nat, NEW d \in Nat \ {0}
  PROVE  n \div d \in Nat /\ n = d * (n \div d) + (n % d)
  BY SMT

\* A multiple leaves no remainder.
LEMMA MultipleMod ==
  ASSUME NEW q \in Nat, NEW d \in Nat \ {0}
  PROVE  (d * q) % d = 0
  BY SMT

\* A span is a sequence of naturals of the expected length.
LEMMA SpanType ==
  ASSUME NEW a \in Nat, NEW b \in Nat, a <= b
  PROVE  /\ Span(a, b) \in Seq(Nat)
         /\ Len(Span(a, b)) = b - a
         /\ \A i \in 1..(b - a) : Span(a, b)[i] = a + i
<1>1. Span(a, b) \in [1..(b - a) -> Nat]
  BY DEF Span
<1>2. b - a \in Nat
  OBVIOUS
<1>3. Span(a, b) \in Seq(Nat)
  BY <1>1, <1>2, SeqDef
<1>4. DOMAIN Span(a, b) = 1..(b - a)
  BY DEF Span
<1>5. Len(Span(a, b)) = b - a
  BY <1>2, <1>3, <1>4, LenProperties
<1> QED
  BY <1>3, <1>5 DEF Span

\* A whole message.
LEMMA MessageType ==
  ASSUME NEW n \in Nat
  PROVE  /\ Span(0, n) \in Seq(Nat) /\ Len(Span(0, n)) = n
         /\ \A i \in 1..n : Span(0, n)[i] = i
         /\ Span(0, n) = [i \in 1..n |-> i]
<1>1. 0 \in Nat /\ 0 <= n /\ n - 0 = n
  OBVIOUS
<1>2. /\ Span(0, n) \in Seq(Nat) /\ Len(Span(0, n)) = n - 0
      /\ \A i \in 1..(n - 0) : Span(0, n)[i] = 0 + i
  BY <1>1, SpanType, Zenon
<1> QED
  BY <1>1, <1>2 DEF Span

\* Handing over k more bytes of a message makes it k bytes longer.
LEMMA SpanConcat ==
  ASSUME NEW n \in Nat, NEW k \in Nat
  PROVE  Span(0, n) \o Span(n, n + k) = Span(0, n + k)
<1> DEFINE s == Span(0, n)
           t == Span(n, n + k)
           u == Span(0, n + k)
<1>0. 0 \in Nat /\ n + k \in Nat /\ 0 <= n /\ n <= n + k /\ 0 <= n + k
  OBVIOUS
<1>1. /\ s \in Seq(Nat) /\ Len(s) = n /\ \A i \in 1..n : s[i] = i
  BY MessageType, Zenon
<1>2. /\ t \in Seq(Nat) /\ Len(t) = k /\ \A i \in 1..k : t[i] = n + i
  <2>1. /\ t \in Seq(Nat) /\ Len(t) = (n + k) - n
        /\ \A i \in 1..((n + k) - n) : t[i] = n + i
    BY <1>0, SpanType, Zenon
  <2>2. (n + k) - n = k
    OBVIOUS
  <2> QED
    BY <2>1, <2>2
<1>3. /\ u \in Seq(Nat) /\ Len(u) = n + k /\ \A i \in 1..(n + k) : u[i] = i
  BY <1>0, MessageType, Zenon
<1> HIDE DEF s, t, u
<1>4. /\ s \o t \in Seq(Nat) /\ Len(s \o t) = n + k
      /\ \A i \in 1..(n + k) : (s \o t)[i] = IF i <= n THEN s[i] ELSE t[i - n]
  BY <1>1, <1>2, ConcatProperties, Zenon
<1>5. \A i \in 1..(n + k) : (s \o t)[i] = u[i]
  BY <1>1, <1>2, <1>3, <1>4, SMTT(30)
<1>6. s \o t = u
  BY <1>3, <1>4, <1>5, SeqEqual, Zenon
<1> QED
  BY <1>6 DEF s, t, u

\* A buffer cut in two is the concatenation of its parts.
LEMMA CutInTwo ==
  ASSUME NEW s \in Seq(Nat), NEW n \in 0..Len(s)
  PROVE  /\ SubSeq(s, 1, n) \in Seq(Nat) /\ Len(SubSeq(s, 1, n)) = n
         /\ SubSeq(s, n + 1, Len(s)) \in Seq(Nat)
         /\ Len(SubSeq(s, n + 1, Len(s))) = Len(s) - n
         /\ SubSeq(s, 1, n) \o SubSeq(s, n + 1, Len(s)) = s
<1>1. Len(s) \in Nat /\ \A i \in 1..Len(s) : s[i] \in Nat
  BY LenProperties, ElementOfSeq
<1>2. SubSeq(s, 1, n) \in Seq(Nat) /\ Len(SubSeq(s, 1, n)) = n
  <2>1. \A i \in 1..n : s[i] \in Nat
    BY <1>1
  <2>2. /\ SubSeq(s, 1, n) \in Seq(Nat)
        /\ Len(SubSeq(s, 1, n)) = IF 1 <= n THEN n - 1 + 1 ELSE 0
    BY <1>1, <2>1, SubSeqProperties
  <2> QED
    BY <1>1, <2>2
<1>3. SubSeq(s, n + 1, Len(s)) \in Seq(Nat) /\ Len(SubSeq(s, n + 1, Len(s))) = Len(s) - n
  <2>1. \A i \in (n + 1)..Len(s) : s[i] \in Nat
    BY <1>1
  <2>2. /\ SubSeq(s, n + 1, Len(s)) \in Seq(Nat)
        /\ Len(SubSeq(s, n + 1, Len(s)))
             = IF n + 1 <= Len(s) THEN Len(s) - (n + 1) + 1 ELSE 0
    BY <1>1, <2>1, SubSeqProperties
  <2> QED
    BY <1>1, <2>2
<1>4. SubSeq(s, 1, n) \o SubSeq(s, n + 1, Len(s)) = SubSeq(s, 1, Len(s))
  <2>1. 1 \in 1..(Len(s) + 1) /\ n \in (1 - 1)..Len(s) /\ Len(s) \in n..Len(s)
    BY <1>1
  <2> QED
    BY <2>1, ConcatAdjacentSubSeq, Zenon
<1> QED
  BY <1>2, <1>3, <1>4, SubSeqFull, Zenon

\* Concatenation of byte sequences is closed.
LEMMA ConcatNat ==
  ASSUME NEW s \in Seq(Nat), NEW t \in Seq(Nat)
  PROVE  s \o t \in Seq(Nat)
  BY SMT

\* The empty sequence is its unit.
LEMMA ConcatUnit ==
  ASSUME NEW s \in Seq(Nat)
  PROVE  s \o <<>> = s /\ <<>> \o s = s
  BY SMT

\* Concatenation of byte sequences is associative.
LEMMA ConcatAssoc ==
  ASSUME NEW s \in Seq(Nat), NEW t \in Seq(Nat), NEW u \in Seq(Nat)
  PROVE  (s \o t) \o u = s \o (t \o u)
  BY SMTT(60)

\* Appending one element: the earlier ones stay where they are.
LEMMA AppendLast ==
  ASSUME NEW S, NEW s \in Seq(S), NEW e \in S
  PROVE  /\ Append(s, e) \in Seq(S)
         /\ Len(Append(s, e)) = Len(s) + 1 /\ Len(s) \in Nat
         /\ Append(s, e)[Len(s) + 1] = e
         /\ \A i \in DOMAIN Append(s, e) :
              \/ i \in DOMAIN s /\ i <= Len(s) /\ Append(s, e)[i] = s[i]
              \/ i = Len(s) + 1 /\ Append(s, e)[i] = e
  BY SMT

\* What is followed by something to make up a message is a prefix of the message.
LEMMA PrefixOfSpan ==
  ASSUME NEW n \in Nat, NEW s \in Seq(Nat), NEW t \in Seq(Nat), s \o t = Span(0, n)
  PROVE  /\ Len(s) \in 0..n /\ Len(s) + Len(t) = n
         /\ s = Span(0, Len(s))
         /\ \A i \in 1..Len(t) : t[i] = Len(s) + i
<1>1. /\ Span(0, n) \in Seq(Nat) /\ Len(Span(0, n)) = n
      /\ \A i \in 1..n : Span(0, n)[i] = i
  BY MessageType, Zenon
<1>2. /\ Len(s) \in Nat /\ Len(t) \in Nat
      /\ Len(s \o t) = Len(s) + Len(t)
      /\ \A i \in 1..(Len(s) + Len(t)) :
           (s \o t)[i] = IF i <= Len(s) THEN s[i] ELSE t[i - Len(s)]
  BY ConcatProperties, LenProperties
<1>3. Len(s) + Len(t) = n
  BY <1>1, <1>2, Zenon
<1>4. \A i \in 1..Len(s) : s[i] = i
  BY <1>1, <1>2, <1>3, SMTT(30)
<1>5. \A i \in 1..Len(t) : t[i] = Len(s) + i
  <2> TAKE i \in 1..Len(t)
  <2>1. /\ Len(s) + i \in 1..(Len(s) + Len(t)) /\ ~(Len(s) + i <= Len(s))
        /\ (Len(s) + i) - Len(s) = i
    BY <1>2
  <2> QED
    BY <1>1, <1>2, <1>3, <2>1, Zenon
<1>6. s = Span(0, Len(s))
  <2> DEFINE u == Span(0, Len(s))
  <2>1. u \in Seq(Nat) /\ Len(u) = Len(s) /\ \A i \in 1..Len(s) : u[i] = i
    BY <1>2, MessageType, Zenon
  <2> HIDE DEF u
  <2>2. \A i \in 1..Len(s) : s[i] = u[i]
    BY <1>4, <2>1
  <2>3. s = u
    BY <2>1, <2>2, SeqEqual
  <2> QED
    BY <2>3 DEF u
<1> QED
  BY <1>2, <1>3, <1>5, <1>6

\* No bytes.
LEMMA SpanEmpty ==
  ASSUME NEW n \in Nat
  PROVE  Span(n, n) = <<>>
<1>1. n <= n /\ n - n = 0
  OBVIOUS
<1>2. Span(n, n) \in Seq(Nat) /\ Len(Span(n, n)) = n - n
  BY <1>1, SpanType, Zenon
<1> QED
  BY <1>1, <1>2, EmptySeq

\* Two sequences make up the empty one only if both are empty.
LEMMA ConcatEmpty ==
  ASSUME NEW s \in Seq(Nat), NEW t \in Seq(Nat), s \o t = <<>>
  PROVE  s = <<>> /\ t = <<>>
<1>1. Len(s \o t) = Len(s) + Len(t) /\ Len(s) \in Nat /\ Len(t) \in Nat /\ Len(<<>>) = 0
  BY ConcatProperties, LenProperties, EmptySeq
<1>2. Len(s) = 0 /\ Len(t) = 0
  BY <1>1
<1> QED
  BY <1>2, EmptySeq

\* What is missing of a message, and k more bytes, is missing of the longer message.
LEMMA Extend ==
  ASSUME NEW n \in Nat, NEW k \in Nat, NEW s \in Seq(Nat), NEW t \in Seq(Nat),
         s \o t = Span(0, n)
  PROVE  s \o (t \o Span(n, n + k)) = Span(0, n + k)
<1>1. n + k \in Nat /\ n <= n + k
  OBVIOUS
<1>2. Span(n, n + k) \in Seq(Nat)
  BY <1>1, SpanType, Zenon
<1>3. s \o (t \o Span(n, n + k)) = (s \o t) \o Span(n, n + k)
  BY <1>2, ConcatAssoc, Zenon
<1>4. Span(0, n) \o Span(n, n + k) = Span(0, n + k)
  BY SpanConcat, Zenon
<1> QED
  BY <1>3, <1>4, Zenon

\* Two adjacent spans make one.
LEMMA SpanJoin ==
  ASSUME NEW a \in Nat, NEW b \in Nat, NEW k \in Nat, a <= b
  PROVE  Span(a, b) \o Span(b, b + k) = Span(a, b + k)
<1> DEFINE s == Span(a, b)
           t == Span(b, b + k)
           u == Span(a, b + k)
<1>1. b + k \in Nat /\ b <= b + k /\ a <= b + k /\ (b + k) - b = k
  OBVIOUS
<1>2. s \in Seq(Nat) /\ Len(s) = b - a /\ \A i \in 1..(b - a) : s[i] = a + i
  BY SpanType, Zenon
<1>3. t \in Seq(Nat) /\ Len(t) = k /\ \A i \in 1..k : t[i] = b + i
  <2>1. t \in Seq(Nat) /\ Len(t) = (b + k) - b /\ \A i \in 1..((b + k) - b) : t[i] = b + i
    BY <1>1, SpanType, Zenon
  <2> QED
    BY <1>1, <2>1
<1>4. u \in Seq(Nat) /\ Len(u) = (b + k) - a /\ \A i \in 1..((b + k) - a) : u[i] = a + i
  BY <1>1, SpanType, Zenon
<1> HIDE DEF s, t, u
<1>5. /\ s \o t \in Seq(Nat) /\ Len(s \o t) = Len(s) + Len(t)
      /\ \A i \in 1..(Len(s) + Len(t)) : (s \o t)[i] = IF i <= Len(s) THEN s[i] ELSE t[i - Len(s)]
  BY <1>2, <1>3, ConcatProperties, Zenon
<1>6. Len(s \o t) = Len(u) /\ \A i \in 1..Len(s \o t) : (s \o t)[i] = u[i]
  <2>1. Len(s) + Len(t) = (b + k) - a /\ Len(s) = b - a /\ Len(t) = k
    BY <1>2, <1>3
  <2>2. ASSUME NEW i \in 1..((b + k) - a)
        PROVE  (s \o t)[i] = u[i]
    <3>1. CASE i <= b - a
      BY <1>2, <1>4, <1>5, <2>1, <3>1
    <3>2. CASE ~(i <= b - a)
      <4>1. i - (b - a) \in 1..k /\ b + (i - (b - a)) = a + i
        BY <3>2
      <4> QED
        BY <1>3, <1>4, <1>5, <2>1, <3>2, <4>1, SMTT(30)
    <3> QED
      BY <3>1, <3>2, Zenon
  <2> QED
    BY <1>4, <1>5, <2>1, <2>2, SMTT(30)
<1>7. s \o t = u
  BY <1>4, <1>5, <1>6, SeqEqual, Zenon
<1> QED
  BY <1>7 DEF s, t, u

\* The end of a span is a span.
LEMMA SpanTail ==
  ASSUME NEW a \in Nat, NEW b \in Nat, a <= b, NEW m \in 0..(b - a)
  PROVE  SubSeq(Span(a, b), m + 1, b - a) = Span(a + m, b)
<1> DEFINE s == Span(a, b)
           t == SubSeq(s, m + 1, b - a)
           u == Span(a + m, b)
<1>1. a + m \in Nat /\ a + m <= b /\ m \in Nat
  OBVIOUS
<1>2. s \in Seq(Nat) /\ Len(s) = b - a /\ \A i \in 1..(b - a) : s[i] = a + i
  BY SpanType, Zenon
<1>3. u \in Seq(Nat) /\ Len(u) = b - (a + m) /\ \A i \in 1..(b - (a + m)) : u[i] = (a + m) + i
  BY <1>1, SpanType, Zenon
<1> HIDE DEF s, u
<1>4. \A i \in (m + 1)..(b - a) : s[i] \in Nat
  BY <1>1, <1>2
<1>5. /\ t \in Seq(Nat)
      /\ Len(t) = IF m + 1 <= b - a THEN (b - a) - (m + 1) + 1 ELSE 0
      /\ \A i \in 1..((b - a) - (m + 1) + 1) : t[i] = s[(m + 1) + i - 1]
  BY <1>1, <1>4, SubSeqProperties
<1> HIDE DEF t
<1>6. Len(t) = Len(u)
  BY <1>1, <1>3, <1>5
<1>7. \A i \in 1..Len(t) : t[i] = u[i]
  BY <1>1, <1>2, <1>3, <1>5, <1>6
<1>8. t = u
  BY <1>3, <1>5, <1>6, <1>7, SeqEqual
<1> QED
  BY <1>8 DEF s, t, u
=============================================================================
