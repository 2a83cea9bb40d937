----------------------------- MODULE Aggregate3 -----------------------------
(***************************************************************************)
(* chain/multicall.go: how the answer of Multicall3.aggregate3 is decoded. *)
(* HydratePosition and HydrateERC20 (chain/hydrate.go) read every field of *)
(* a position or a token through it.                                       *)
(*                                                                         *)
(* The answer is the ABI encoding of a (bool, bytes)[]: a sequence of      *)
(* 32-byte words, the first of them the offset of the array.  The decoder  *)
(* addresses it by bytes, and a wrong offset may point between two words,  *)
(* so that a read is modelled byte by byte.                                *)
(***************************************************************************)
EXTENDS Integers, Sequences, SequencesExt

CONSTANTS
  Batches,  \* how many calls a batch may have
  Values    \* the words a call may return, below 2^24

Result == [success: BOOLEAN, data: {<< >>} \cup {<<v>> : v \in Values}]

\* A call that failed returns nothing.
Results == {rs \in UNION {[1 .. n -> Result] : n \in Batches} :
              \A k \in DOMAIN rs : ~rs[k].success => rs[k].data = << >>}

\* One tuple: success, the offset of its bytes, their length, the bytes.
Tuple(r) == <<IF r.success THEN 1 ELSE 0, 64, 32 * Len(r.data)>> \o r.data

TuplesOf(rs) == FlattenSeq([k \in DOMAIN rs |-> Tuple(rs[k])])

\* The tuples' offsets count from the word after the array's length.
OffsetsOf(rs) ==
  [k \in DOMAIN rs |-> 32 * (Len(rs) + Len(TuplesOf(SubSeq(rs, 1, k - 1))))]

Answer(rs) == <<32, Len(rs)>> \o OffsetsOf(rs) \o TuplesOf(rs)

VARIABLES
  sent,     \* what the calls returned
  data,     \* the answer, a sequence of words
  i,        \* tuple that is decoded next
  out,      \* results decoded so far
  status    \* decoding, ok, or error

vars == <<sent, data, i, out, status>>

Size == 32 * Len(data)

\* Byte p of the answer; of a word only the last three bytes are not zero.
ByteAt(p) ==
  LET shift == 31 - (p % 32)
  IN  IF shift > 2 THEN 0 ELSE (data[(p \div 32) + 1] \div 256 ^ shift) % 256

\* binary.BigEndian.Uint64(data[p : p+8]); numbers beyond every answer's size
\* are as good as one another.
Uint64At(p) ==
  FoldLeft(LAMBDA n, b : IF n > 2 ^ 20 THEN n ELSE 256 * n + b,
           0, [k \in 1 .. 8 |-> ByteAt(p + k - 1)])

\* The number of results, as the decoder reads it.
Count == Uint64At(24)

Init ==
  /\ sent \in Results
  /\ data = Answer(sent)
  /\ i = 0 /\ out = << >> /\ status = "decoding"

\* Tuple i, by the offsets of the table, the tuple and its bytes.
TupleStart == 64 + Uint64At(64 + 32 * i + 24)
BytesPos == TupleStart + Uint64At(TupleStart + 56)

InBounds ==
  /\ Size >= 64 + 32 * i + 32
  /\ Size >= TupleStart + 96
  /\ Size >= BytesPos + 32
  /\ Size >= BytesPos + 32 + Uint64At(BytesPos + 24)

\* A result's bytes, as words where they are whole words.
Decoded ==
  [success |-> ByteAt(TupleStart + 31) # 0,
   data |-> [k \in 1 .. Uint64At(BytesPos + 24) \div 32 |->
               Uint64At(BytesPos + 32 * k + 24)]]

DecodeTuple ==
  /\ status = "decoding" /\ i < Count
  /\ InBounds
  /\ out' = Append(out, Decoded)
  /\ i' = i + 1
  /\ UNCHANGED <<sent, data, status>>

\* A check of the bounds fails: the results so far are dropped.
Reject ==
  /\ status = "decoding"
  /\ Size < 64 \/ (i < Count /\ ~InBounds)
  /\ status' = "error" /\ out' = << >>
  /\ UNCHANGED <<sent, data, i>>

Return ==
  /\ status = "decoding" /\ Size >= 64 /\ i = Count
  /\ status' = "ok"
  /\ UNCHANGED <<sent, data, i, out>>

Done == status # "decoding" /\ UNCHANGED vars

Next == DecodeTuple \/ Reject \/ Return \/ Done

Spec == Init /\ [][Next]_vars
-----------------------------------------------------------------------------
\* "decodeAggregate3Result parses the return of aggregate3": what the decoder
\* hands to HydratePosition is what the calls returned, in their order.
AnswerDecoded == status # "decoding" => status = "ok" /\ out = sent
=============================================================================
