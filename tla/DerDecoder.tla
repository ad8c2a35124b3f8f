----------------------------- MODULE DerDecoder -----------------------------
(***************************************************************************)
(* The DER decoder of source/der.c, run on what the encoder produced.      *)
(* s_parse_cursor is a loop that calls itself on every container; here     *)
(* each turn of the loop and each return is a step, and the C stack is     *)
(* "frames".  A TLV points into the input, as in the code: [at, length].   *)
(*                                                                         *)
(* The list of TLVs moves when it grows (aws_array_list_push_back), and    *)
(* decoder->container is a pointer into it: [gen, idx] is the idx-th entry *)
(* of the list in its gen-th place.                                        *)
(***************************************************************************)
EXTENDS DerEncoder

CONSTANTS MaxDepth,     \* the limit of the recursion, 16 in the code
          ListCapacity, \* the initial capacity of the list, 16 in the code
          Tails         \* what may stand behind the encoding in the input

VARIABLES
  decoder,   \* "none", "parsing", "ready", or "null" when the parse failed
  input,     \* the bytes to decode
  tlvs,      \* decoder->tlvs: [tag, at, length, count]
  gen, room, \* how often the list has moved, and its capacity
  depth,     \* decoder->depth
  container, \* decoder->container
  frames,    \* the calls of s_parse_cursor: [at, len, outer_container]
  tlv_idx,   \* decoder->tlv_idx
  tail,      \* history: the part of the input behind the encoding
  seen       \* history: what the caller has read of each TLV

decoderVars == <<decoder, input, tlvs, gen, room, depth, container, frames, tlv_idx, tail, seen>>
vars == <<encoderVars, decoderVars>>

NULL == [gen |-> 0, idx |-> 0]
Newline == 10
Mismatch == [ok |-> FALSE, value |-> <<>>]
Returns(value) == [ok |-> TRUE, value |-> value]

DecoderInit ==
  /\ decoder = "none" /\ input = <<>> /\ tlvs = <<>> /\ gen = 1
  /\ room = ListCapacity /\ depth = 0 /\ container = NULL /\ frames = <<>>
  /\ tlv_idx = -1 /\ tail = <<>> /\ seen = <<>>

-----------------------------------------------------------------------------
(* Reading one TLV *)

\* aws_byte_cursor_advance leaves the cursor alone if it is too short.
Advance(cur, n) ==
  IF n <= cur.len THEN [at |-> cur.at + n, len |-> cur.len - n] ELSE cur

\* The number of the n digits at a place of the input.
Digits(at, n) == FoldLeft(LAMBDA sum, d : sum * Radix + d, 0, SubSeq(input, at, at + n - 1))

s_decode_tlv_keeps_zero(tlv) ==
  IF tlv.tag = AWS_DER_BIT_STRING
    THEN [tlv EXCEPT !.length = @ - 1, !.at = @ + 1] ELSE tlv

\* The zero that marks an INTEGER as unsigned and the count of skipped bits
\* of a BIT STRING are not part of the value.
s_decode_tlv(tlv) ==
  IF \/ tlv.tag = AWS_DER_INTEGER /\ input[tlv.at] = 0
     \/ tlv.tag = AWS_DER_BIT_STRING
    THEN [tlv EXCEPT !.length = @ - 1, !.at = @ + 1] ELSE tlv

\* The length forms s_der_read_tlv knows: the size of the header behind the
\* first byte of the length, or -1 for a form that is an error.
LengthBytes(first) ==
  CASE first < Sign -> 0
    [] first >= Sign /\ first - Sign \in {1, 2, 4} -> first - Sign
    [] OTHER -> -1

\* s_der_read_tlv at a cursor that is not empty.
s_der_read_tlv(cur) ==
  LET bytes == LengthBytes(input[cur.at + 1])
      ok == cur.len >= 2 /\ bytes # -1 /\ cur.len >= 2 + bytes
      value == Advance(cur, 2 + bytes)
      len == IF bytes = 0 THEN input[cur.at + 1] ELSE Digits(cur.at + 2, bytes)
      tag == input[cur.at]
  IN  IF ~ok THEN [ok |-> FALSE]
      ELSE [ok |-> TRUE,
            cur |-> Advance(value, len),
            tlv |-> s_decode_tlv([tag |-> tag, length |-> len, count |-> 0,
                                  at |-> IF tag = AWS_DER_NULL THEN 0 ELSE value.at])]

\* The newlines behind a TLV are skipped.
SkipNewlines(cur) ==
  Advance(cur, CHOOSE n \in 0..cur.len :
                 /\ \A i \in 0..(n - 1) : input[cur.at + i] = Newline
                 /\ n < cur.len => input[cur.at + n] # Newline)

-----------------------------------------------------------------------------
(* Parsing *)

\* The decoder parses what aws_der_encoder_get_contents returned, while the
\* encoder that owns the bytes exists.
aws_der_decoder_new ==
  /\ decoder = "none" /\ encoder /\ clean /\ aws_der_encoder_get_contents
  /\ \E t \in Tails :
       /\ tail' = t
       /\ input' = storage \o t
       /\ frames' = <<[at |-> 1, len |-> Len(storage \o t), outer |-> NULL]>>
  /\ decoder' = "parsing" /\ depth' = 1
  /\ UNCHANGED <<encoderVars, tlvs, gen, room, container, tlv_idx, seen>>

Malformed_ignored == UNCHANGED vars

\* Every error ends all the calls and the decoder with them.
Malformed ==
  /\ decoder' = "null"
  /\ tlvs' = <<>> /\ gen' = 1 /\ room' = ListCapacity /\ depth' = 0
  /\ container' = NULL /\ frames' = <<>>
  /\ UNCHANGED <<encoderVars, input, tlv_idx, tail, seen>>

TooDeep_off_by_one(d) == d >= MaxDepth
TooDeep(d) == d > MaxDepth

\* The list with tlv at its end, and one more counted in the container
\* whose pointer is "to", if that write reaches the list.
PushAndCount(tlv, to, lands) ==
  LET longer == Append(tlvs, tlv)
  IN  IF to # NULL /\ lands THEN [longer EXCEPT ![to.idx].count = @ + 1] ELSE longer

\* A turn of the loop of s_parse_cursor.  The write through a pointer to the
\* list's old place misses the list, unless the list has come back there.
s_parse_cursor ==
  LET top == Len(frames)
      cur == [at |-> frames[top].at, len |-> frames[top].len]
      grows == Len(tlvs) = room
  IN  /\ decoder = "parsing" /\ cur.len > 0
      /\ \E read \in {s_der_read_tlv(cur)} :
         \/ ~read.ok /\ Malformed
         \/ read.ok /\ Constructed(read.tlv.tag) /\ TooDeep(depth + 1) /\ Malformed
         \/ /\ read.ok
            /\ gen' = IF grows THEN gen + 1 ELSE gen
            /\ room' = IF grows THEN 2 * room ELSE room
            /\ \E lands \in IF container.gen = gen' THEN {TRUE}
                            ELSE IF container.gen = gen' - 1 THEN {FALSE} ELSE BOOLEAN :
                 tlvs' = PushAndCount(read.tlv, container, lands)
            /\ \E rest \in {SkipNewlines(read.cur)} :
               LET here == [frames EXCEPT ![top] = [at |-> rest.at, len |-> rest.len,
                                                    outer |-> container]]
                   inside == [at |-> read.tlv.at, len |-> read.tlv.length, outer |-> NULL]
               IN  \/ /\ ~Constructed(read.tlv.tag)
                      /\ frames' = here
                      /\ UNCHANGED <<depth, container>>
                   \/ /\ Constructed(read.tlv.tag) /\ ~TooDeep(depth + 1)
                      /\ depth' = depth + 1
                      /\ frames' = Append(here, inside)
                      /\ container' = [gen |-> gen', idx |-> Len(tlvs) + 1]
            /\ UNCHANGED <<encoderVars, decoder, input, tlv_idx, tail, seen>>

\* The loop is done: back to the caller, which restores its container.
ParseReturn_keeps_container ==
  /\ decoder = "parsing" /\ Last(frames).len = 0
  /\ depth' = depth - 1
  /\ frames' = Front(frames)
  /\ decoder' = IF Len(frames) = 1 THEN "ready" ELSE decoder
  /\ UNCHANGED <<encoderVars, input, tlvs, gen, room, container, tlv_idx, tail, seen>>

ParseReturn ==
  /\ decoder = "parsing" /\ Last(frames).len = 0
  /\ depth' = depth - 1
  /\ frames' = Front(frames)
  /\ IF Len(frames) = 1
       THEN decoder' = "ready" /\ UNCHANGED container
       ELSE container' = frames[Len(frames) - 1].outer /\ UNCHANGED decoder
  /\ UNCHANGED <<encoderVars, input, tlvs, gen, room, tlv_idx, tail, seen>>

aws_der_decoder_destroy ==
  /\ decoder \in {"ready", "null"}
  /\ decoder' = "none" /\ input' = <<>> /\ tlvs' = <<>> /\ gen' = 1
  /\ room' = ListCapacity /\ depth' = 0 /\ container' = NULL /\ frames' = <<>>
  /\ tlv_idx' = -1 /\ tail' = <<>> /\ seen' = <<>>
  /\ UNCHANGED encoderVars

-----------------------------------------------------------------------------
(* Reading the list *)

Bytes(tlv) == SubSeq(input, tlv.at, tlv.at + tlv.length - 1)

\* The accessors, on the TLV s_decoder_tlv returns.  Those the caller may not
\* call for a tag, because they assert it, show nothing.
aws_der_decoder_tlv_count(tlv) == IF Constructed(tlv.tag) THEN tlv.count ELSE 0

aws_der_decoder_tlv_string(tlv) ==
  IF tlv.tag \notin {AWS_DER_OCTET_STRING, AWS_DER_BIT_STRING} THEN Mismatch ELSE Returns(Bytes(tlv))

aws_der_decoder_tlv_integer(tlv) ==
  IF tlv.tag # AWS_DER_INTEGER THEN Mismatch ELSE Returns(Bytes(tlv))

aws_der_decoder_tlv_boolean(tlv) ==
  IF tlv.tag # AWS_DER_BOOLEAN THEN Mismatch ELSE Returns(<<input[tlv.at] # 0>>)

aws_der_decoder_tlv_blob(tlv) == IF tlv.tag = AWS_DER_NULL THEN <<>> ELSE Bytes(tlv)

Read(tlv) == [type |-> tlv.tag,
              length |-> tlv.length,
              count |-> aws_der_decoder_tlv_count(tlv),
              string |-> aws_der_decoder_tlv_string(tlv),
              integer |-> aws_der_decoder_tlv_integer(tlv),
              boolean |-> aws_der_decoder_tlv_boolean(tlv),
              blob |-> aws_der_decoder_tlv_blob(tlv)]

\* The caller's loop: advance, and read the TLV if there is one.
aws_der_decoder_next ==
  /\ decoder = "ready" /\ tlv_idx < Len(tlvs)
  /\ tlv_idx' = tlv_idx + 1
  /\ seen' = IF tlv_idx' < Len(tlvs) THEN Append(seen, Read(tlvs[tlv_idx' + 1])) ELSE seen
  /\ UNCHANGED <<encoderVars, decoder, input, tlvs, gen, room, depth, container, frames, tail>>

Parse == s_parse_cursor \/ ParseReturn

Init == EncoderInit /\ DecoderInit

\* One caller uses both; it leaves the encoder alone while it decodes.
Next ==
  \/ decoder = "none" /\ EncoderNext /\ UNCHANGED decoderVars
  \/ aws_der_decoder_new
  \/ Parse
  \/ aws_der_decoder_next
  \/ aws_der_decoder_destroy

\* s_decoder_parse runs to its end once it is called.
Spec == Init /\ [][Next]_vars /\ WF_vars(Parse)

-----------------------------------------------------------------------------
(* Properties *)

Written == levels[1].items

\* The state of both has its type; above all, a TLV lies inside the input
\* and the recursion within its limit.
TypeOK ==
  /\ encoder \in BOOLEAN /\ clean \in BOOLEAN
  /\ Len(storage) <= capacity
  /\ \A i \in 1..Len(stack) : Len(stack[i].buf) <= capacity
  /\ Len(levels) = Len(stack) + 1
  /\ decoder \in {"none", "parsing", "ready", "null"}
  /\ depth = Len(frames) /\ depth \in 0..MaxDepth
  /\ \A i \in 1..Len(tlvs) : /\ tlvs[i].length \in Nat
                              /\ tlvs[i].at + tlvs[i].length - 1 <= Len(input)
  /\ tlv_idx \in -1..Len(tlvs)

\* der.c:274-317 and :385-421.  After every sequence of writes, containers and failures the
\* encoder writes where its stack says it does, and owns no other buffer; and the parse
\* stays within the input and its depth limit.
WellFormed == TypeOK /\ BufferIsInnermost

\* The number an INTEGER stands for.
Number(bytes) == FoldLeft(LAMBDA sum, d : sum * Radix + d, 0, bytes)

\* What the accessors show of a TLV against what was written: the same
\* value, and for an INTEGER with a leading zero the same number.
Shows(read, e) ==
  /\ read.type = e.tag
  /\ read.length = Len(read.blob)
  /\ read.integer.ok <=> e.tag = AWS_DER_INTEGER
  /\ read.boolean.ok <=> e.tag = AWS_DER_BOOLEAN
  /\ read.string.ok <=> e.tag \in {AWS_DER_BIT_STRING, AWS_DER_OCTET_STRING}
  /\ CASE e.tag = AWS_DER_INTEGER -> IF e.value[1] = 0
                                      THEN Number(read.integer.value) = Number(e.value)
                                      ELSE read.integer.value = e.value
       [] e.tag = AWS_DER_BOOLEAN -> read.boolean.value = <<e.value[1] # 0>>
       [] e.tag \in {AWS_DER_BIT_STRING, AWS_DER_OCTET_STRING} -> read.string.value = e.value
       [] OTHER -> read.blob = e.value

\* Round trip: a caller that walks through the decoded list meets every
\* element written to the encoder, in order, with the value written, at
\* every length form and nesting, and no other (s_der_write_tlv against
\* s_der_read_tlv and s_parse_cursor).
RoundTrip ==
  decoder = "ready" =>
    /\ Len(tlvs) = Len(Written)
    /\ \A i \in 1..Len(seen) : Shows(seen[i], Written[i])
    /\ tlv_idx = Len(tlvs) => Len(seen) = Len(Written)

\* A completed encoding is refused exactly when its containers nest too
\* deeply for s_parse_cursor or an incomplete header follows it; newlines
\* behind it do no harm.
AcceptsEncodings ==
  LET refused == levels[1].deep >= MaxDepth \/ \E i \in 1..Len(tail) : tail[i] # Newline
  IN  /\ decoder = "null" => refused
      /\ decoder = "ready" => ~refused

\* aws_der_decoder_tlv_count, "Number of elements in the current container" (der.h): the
\* counts are right as long as the list stays within its first allocation, so that
\* decoder->container never dangles.
CountsUntilTheListMoves ==
  gen = 1 => \A i \in 1..Len(seen) : seen[i].count = Written[i].count

\* A parse comes to an end, with a list or with an error, whatever follows
\* the encoding (the loop and the recursion of s_parse_cursor).
ParseEnds == decoder = "parsing" ~> decoder \in {"ready", "null"}
=============================================================================
