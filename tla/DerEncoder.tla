----------------------------- MODULE DerEncoder -----------------------------
(***************************************************************************)
(* The DER encoder of source/der.c: TLVs (tag, length, value) are appended *)
(* to the storage, or to the buffer of the innermost open container; a     *)
(* container that ends becomes a TLV of the next outer buffer.  No buffer  *)
(* ever grows: each has the capacity given to aws_der_encoder_new.         *)
(*                                                                         *)
(* Tags have their values in the code.  The widths of a length are scaled  *)
(* down: a byte of a length counts to UINT8_MAX, and its sign bit and the  *)
(* 16 and 32-bit forms follow from that.                                   *)
(***************************************************************************)
EXTENDS Integers, SequencesExt

CONSTANTS INT8_MAX, UINT8_MAX, UINT16_MAX, \* the limits of the length forms
          Integers_, BitStrings, OctetStrings, \* the values the caller writes
          Capacities, \* the capacities the caller asks for
          MaxCalls    \* bound: calls of one encoder, where a write counts twice

Sign == INT8_MAX + 1
Radix == UINT8_MAX + 1

\* INTEGERs are not empty: the code reads their first byte unconditionally.
ASSUME DerAssumption ==
  /\ INT8_MAX \in Nat /\ INT8_MAX >= 4
  /\ UINT8_MAX = 2 * INT8_MAX + 1
  /\ UINT16_MAX = Radix * Radix - 1
  /\ <<>> \notin Integers_
  /\ Capacities \subseteq Nat
  /\ MaxCalls \in Nat

AWS_DER_BOOLEAN == 1
AWS_DER_INTEGER == 2
AWS_DER_BIT_STRING == 3
AWS_DER_OCTET_STRING == 4
AWS_DER_NULL == 5
AWS_DER_SEQUENCE == 48
AWS_DER_SET == 49
AWS_DER_FORM_CONSTRUCTED == 32

Constructed(tag) == (tag \div AWS_DER_FORM_CONSTRUCTED) % 2 = 1

VARIABLES
  encoder,  \* is there an encoder?
  capacity, \* storage.capacity
  storage,  \* the bytes of the storage
  stack,    \* the open containers: [tag, buf]
  buffer,   \* the buffer written to: 0 for the storage, i for stack[i]
  live,     \* container buffers of this encoder that are not released
  calls,    \* calls made to this encoder, up to MaxCalls
  clean,    \* history: no call on this encoder has failed
  levels    \* history: what was written, one level per open buffer

encoderVars == <<encoder, capacity, storage, stack, buffer, live, calls, clean, levels>>

\* A level records the elements in the order of their tags, those of a
\* container behind it; how many of them are its own; how deep they nest.
NoElements == [n |-> 0, deep |-> 0, items |-> <<>>]

EncoderInit ==
  /\ encoder = FALSE /\ capacity = 0 /\ storage = <<>> /\ stack = <<>>
  /\ buffer = 0 /\ live = 0 /\ calls = 0 /\ clean = TRUE
  /\ levels = <<NoElements>>

-----------------------------------------------------------------------------
(* Writing one TLV *)

be16(len) == <<len \div Radix, len % Radix>>
be32(len) == be16(len \div (Radix * Radix)) \o be16(len % (Radix * Radix))

s_encoded_len(tlv) ==
  CASE tlv.tag = AWS_DER_INTEGER ->
         Len(tlv.value) + (IF tlv.value[1] >= Sign THEN 1 ELSE 0)
    [] tlv.tag = AWS_DER_BIT_STRING -> Len(tlv.value) + 1
    [] OTHER -> Len(tlv.value)

\* The pieces of the length, each written by a call that may find no room.
LengthPieces(len) ==
  CASE len > UINT16_MAX -> << <<Sign + 4>>, be32(len) >>
    [] len > UINT8_MAX /\ len <= UINT16_MAX -> << <<Sign + 2>>, be16(len) >>
    [] len > INT8_MAX /\ len <= UINT8_MAX -> << <<Sign + 1>>, <<len>> >>
    [] len <= INT8_MAX -> << <<len>> >>

\* The pieces of the value.  The value of a BOOLEAN is one byte, 0 or not.
ValuePieces(tlv) ==
  CASE tlv.tag = AWS_DER_INTEGER ->
         IF tlv.value[1] >= Sign THEN << <<0>>, tlv.value >> ELSE << tlv.value >>
    [] tlv.tag = AWS_DER_BOOLEAN ->
         << IF tlv.value[1] # 0 THEN <<UINT8_MAX>> ELSE <<0>> >>
    [] tlv.tag = AWS_DER_BIT_STRING -> << <<0>>, tlv.value >>
    [] tlv.tag = AWS_DER_NULL -> <<>>
    [] OTHER -> << tlv.value >>

\* The pieces are written in order until one does not fit; those before it
\* stay in the buffer.
s_der_write_tlv(tlv, buf) ==
  LET pieces == << <<tlv.tag>> >> \o LengthPieces(s_encoded_len(tlv)) \o ValuePieces(tlv)
      Fits(i) == Len(buf) + FoldLeft(LAMBDA sum, p : sum + Len(p), 0, SubSeq(pieces, 1, i))
                   <= capacity
      fit == CHOOSE i \in 0..Len(pieces) : Fits(i) /\ (i < Len(pieces) => ~Fits(i + 1))
  IN  [buf |-> buf \o FlattenSeq(SubSeq(pieces, 1, fit)), ok |-> fit = Len(pieces)]

-----------------------------------------------------------------------------
(* The calls *)

aws_der_encoder_new(cap) ==
  /\ ~encoder
  /\ encoder' = TRUE /\ capacity' = cap /\ storage' = <<>> /\ stack' = <<>>
  /\ buffer' = 0 /\ live' = 0 /\ calls' = 0 /\ clean' = TRUE
  /\ levels' = <<NoElements>>

\* Containers still open are not released: the stack holds only pointers.
aws_der_encoder_destroy ==
  /\ encoder
  /\ encoder' = FALSE /\ capacity' = 0 /\ storage' = <<>> /\ stack' = <<>>
  /\ buffer' = 0 /\ calls' = 0 /\ clean' = TRUE /\ levels' = <<NoElements>>
  /\ UNCHANGED live

Call(cost) ==
  /\ encoder /\ calls + cost <= MaxCalls
  /\ calls' = calls + cost
  /\ UNCHANGED <<encoder, capacity>>

\* The history of an element that went into the innermost level.
Record(level, element, inner) ==
  [n |-> level.n + 1,
   deep |-> IF Constructed(element.tag) /\ inner.deep + 1 > level.deep
              THEN inner.deep + 1 ELSE level.deep,
   items |-> level.items \o <<element>> \o inner.items]

Element(tag, value, count) == [tag |-> tag, value |-> value, count |-> count]

Write(tag, value) ==
  LET target == IF buffer = 0 THEN storage ELSE stack[buffer].buf
  IN  /\ Call(2)
      /\ \E w \in {s_der_write_tlv([tag |-> tag, value |-> value], target)} :
           /\ storage' = IF buffer = 0 THEN w.buf ELSE storage
           /\ stack' = IF buffer = 0 THEN stack ELSE [stack EXCEPT ![buffer].buf = w.buf]
           /\ clean' = (clean /\ w.ok)
           /\ levels' = IF w.ok
                          THEN [levels EXCEPT ![Len(levels)] =
                                  Record(@, Element(tag, value, 0), NoElements)]
                          ELSE levels
      /\ UNCHANGED <<buffer, live>>

aws_der_encoder_write_integer(integer) == Write(AWS_DER_INTEGER, integer)
aws_der_encoder_write_boolean(boolean) ==
  Write(AWS_DER_BOOLEAN, IF boolean THEN <<1>> ELSE <<0>>)
aws_der_encoder_write_null == Write(AWS_DER_NULL, <<>>)
aws_der_encoder_write_bit_string(bits) == Write(AWS_DER_BIT_STRING, bits)
aws_der_encoder_write_octet_string(octets) == Write(AWS_DER_OCTET_STRING, octets)

s_der_encoder_begin_container(type) ==
  /\ Call(1)
  /\ stack' = Append(stack, [tag |-> type, buf |-> <<>>])
  /\ buffer' = Len(stack) + 1
  /\ live' = live + 1
  /\ levels' = Append(levels, NoElements)
  /\ UNCHANGED <<storage, clean>>

aws_der_encoder_begin_sequence == s_der_encoder_begin_container(AWS_DER_SEQUENCE)
aws_der_encoder_begin_set == s_der_encoder_begin_container(AWS_DER_SET)

EndNothing ==
  /\ stack = <<>>
  /\ Call(1)
  /\ clean' = FALSE
  /\ UNCHANGED <<storage, stack, buffer, live, levels>>

EndContainer(next_buffer) ==
  LET tlv == Last(stack)
      rest == Front(stack)
      outer == Len(rest)
      target == IF outer = 0 THEN storage ELSE rest[outer].buf
      inner == Last(levels)
      below == Front(levels)
  IN  /\ stack # <<>>
      /\ Call(1)
      /\ \E w \in {s_der_write_tlv([tag |-> tlv.tag, value |-> tlv.buf], target)} :
           /\ storage' = IF outer = 0 THEN w.buf ELSE storage
           /\ stack' = IF outer = 0 THEN rest ELSE [rest EXCEPT ![outer].buf = w.buf]
           /\ clean' = (clean /\ w.ok)
           /\ levels' = IF w.ok
                          THEN [below EXCEPT ![outer + 1] =
                                  Record(@, Element(tlv.tag, tlv.buf, inner.n), inner)]
                          ELSE below
      /\ buffer' = next_buffer
      /\ live' = live - 1

s_der_encoder_end_container_left_inside == EndNothing \/ EndContainer(buffer)

\* The container is popped and released even when its TLV does not fit.
s_der_encoder_end_container == EndNothing \/ EndContainer(Len(stack) - 1)

\* aws_der_encoder_get_contents succeeds: something is written, nothing open.
aws_der_encoder_get_contents == storage # <<>> /\ buffer = 0

EncoderCall ==
  \/ \E integer \in Integers_ : aws_der_encoder_write_integer(integer)
  \/ \E boolean \in BOOLEAN : aws_der_encoder_write_boolean(boolean)
  \/ aws_der_encoder_write_null
  \/ \E bits \in BitStrings : aws_der_encoder_write_bit_string(bits)
  \/ \E octets \in OctetStrings : aws_der_encoder_write_octet_string(octets)
  \/ aws_der_encoder_begin_sequence
  \/ aws_der_encoder_begin_set
  \/ s_der_encoder_end_container

EncoderNext ==
  \/ \E cap \in Capacities : aws_der_encoder_new(cap)
  \/ EncoderCall
  \/ aws_der_encoder_destroy

-----------------------------------------------------------------------------
(* Properties *)

\* The encoder writes to the innermost open container, or to the storage
\* when none is open, and owns exactly the buffers of the open containers,
\* whatever ends, fails or fails to fit (encoder->buffer against the stack).
BufferIsInnermost ==
  encoder => /\ buffer = Len(stack)
             /\ live = Len(stack)
=============================================================================
