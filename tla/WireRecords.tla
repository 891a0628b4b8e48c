---------------------------- MODULE WireRecords -----------------------------
(***************************************************************************)
(* The three loops that take a payload apart into records of different     *)
(* sizes: decode_param_read(), decode_param_write_result()                 *)
(* (protocol/params.py) and _decode_info_items() (protocol/data.py).       *)
(*                                                                         *)
(* The gateway puts a payload together, and bytes at its end may be        *)
(* missing.  Bytes are abstracted: a record is its place and its kind.  A  *)
(* decoder that looks at a place where no record begins finds any kind.    *)
(* The payload begins with a header of the right kind, which the decoders  *)
(* check before they look at a record; here they are past that.            *)
(***************************************************************************)
EXTENDS Naturals, Sequences

CONSTANTS
    ValueLengths,   \* length bytes of Info values
    MaxRecords,     \* bound on the records of a payload
    MaxCut          \* bound on the missing bytes

ASSUME WireRecordsAssumption ==
    /\ ValueLengths \subseteq 0..255
    /\ MaxRecords \in 0..254
    /\ MaxCut \in Nat

VARIABLES
    format,     \* which decoder the payload is for
    stage,      \* who works on the payload
    records,    \* what the gateway put into it
    count,      \* the count byte of a write result
    size,       \* bytes that arrived behind the payload's header
    place,      \* where the decoder is in them
    taken       \* the kinds of the records it has found

payload == <<format, records, count, size>>
answer == <<payload, stage, place, taken>>

Formats == {"read", "write", "info"}

\* What a record can be; an Info item also has the length byte of its value.
Kinds(f) ==
    CASE f = "read" -> [name : {"hidden", "unavailable", "read_only", "editable", "unknown"},
                        length : {0}]
      [] f = "write" -> [name : {"result"}, length : {0}]
      [] f = "info" -> [name : {"item"}, length : ValueLengths]

RecordsTypeOK ==
    /\ format \in Formats
    /\ stage \in {"gateway", "decoder", "returned", "raised"}
    /\ \A i \in 1..Len(records) : records[i].kind \in Kinds(format) /\ records[i].at \in Nat
    /\ count \in 0..255
    /\ size \in Nat
    /\ place \in Nat
    /\ \A i \in 1..Len(taken) : taken[i] \in Kinds(format)

RecordsInit ==
    /\ format \in Formats
    /\ stage = "gateway"
    /\ records = << >>
    /\ count = 0
    /\ size = 0
    /\ place = 0
    /\ taken = << >>

-----------------------------------------------------------------------------
(* The gateway (external): the record layouts that src/ relies on *)

LaidOut(kind) ==
    CASE kind.name \in {"read_only", "result"} -> 4 + 1 + 4
      [] kind.name = "editable" -> 4 + 1 + 12
      [] kind.name = "item" -> 3 + 6 + 1 + (kind.length + 1)
      [] OTHER -> 4 + 1

Put(kind) ==
    /\ stage = "gateway"
    /\ Len(records) < MaxRecords
    /\ records' = Append(records, [at |-> size, kind |-> kind])
    /\ size' = size + LaidOut(kind)
    /\ UNCHANGED <<format, stage, count, place, taken>>

\* The payload arrives without its last `cut` bytes, and may announce more
\* results than it has.
Deliver(cut, c) ==
    /\ stage = "gateway"
    /\ cut <= size
    /\ size' = size - cut
    /\ count' = c
    /\ stage' = "decoder"
    /\ UNCHANGED <<format, records, place, taken>>

-----------------------------------------------------------------------------
(* The decoders *)

\* What a decoder can find where it is.
Found ==
    LET here == {i \in 1..Len(records) : records[i].at = place} IN
    IF here = {} THEN Kinds(format) ELSE {records[i].kind : i \in here}

\* The bytes that a record of that kind takes.
Needs(kind) ==
    CASE kind.name = "read_only" -> 5 + 4
      [] kind.name = "editable" -> 5 + 4 + 4 + 4
      [] kind.name = "result" -> 9
      [] kind.name = "item" -> 10 + (kind.length + 1)
      [] OTHER -> 5

\* The bytes without which the kind is not looked at.
Least ==
    CASE format = "read" -> 5
      [] format = "write" -> 9
      [] format = "info" -> 11

\* The condition of the loop.
GoesOn ==
    CASE format = "read" -> place < size
      [] format = "write" -> Len(taken) < count
      [] format = "info" -> place + Least <= size

Readable(kind) == kind.name # "unknown" /\ place + Needs(kind) <= size

\* Mutant: a record of an unknown kind is skipped.
TakeKnown ==
    /\ stage = "decoder"
    /\ GoesOn
    /\ place + Least <= size
    /\ \E kind \in Found :
        /\ place + Needs(kind) <= size
        /\ taken' = IF kind.name = "unknown" THEN taken ELSE Append(taken, kind)
        /\ place' = place + Needs(kind)
    /\ UNCHANGED <<payload, stage>>

\* One turn of the loop takes a record off.
TakeRecord ==
    /\ stage = "decoder"
    /\ GoesOn
    /\ place + Least <= size
    /\ \E kind \in Found :
        /\ Readable(kind)
        /\ taken' = Append(taken, kind)
        /\ place' = place + Needs(kind)
    /\ UNCHANGED <<payload, stage>>

\* Mutant: what is left at the end is let pass.
EndAnyhow ==
    /\ stage = "decoder"
    /\ ~GoesOn
    /\ stage' = "returned"
    /\ UNCHANGED <<payload, place, taken>>

\* ProtocolError: the record is truncated or of an unknown kind.
TakeFails ==
    /\ stage = "decoder"
    /\ GoesOn
    /\ place + Least > size \/ \E kind \in Found : ~Readable(kind)
    /\ stage' = "raised"
    /\ UNCHANGED <<payload, place, taken>>

\* The loop is over: bytes behind the last record are an error.
End ==
    /\ stage = "decoder"
    /\ ~GoesOn
    /\ stage' = IF place = size THEN "returned" ELSE "raised"
    /\ UNCHANGED <<payload, place, taken>>

RecordsDecode == TakeRecord \/ TakeFails \/ End

RecordsNext ==
    \/ \E kind \in Kinds(format) : Put(kind)
    \/ \E cut \in 0..MaxCut, more \in 0..1 : Deliver(cut, Len(records) + more)
    \/ RecordsDecode

RecordsSpec == RecordsInit /\ [][RecordsNext]_answer

-----------------------------------------------------------------------------
(* What the decoders promise *)

\* Where the records end: the payload as it was records.
Laid == IF records = << >> THEN 0 ELSE records[Len(records)].at + LaidOut(records[Len(records)].kind)

Whole ==
    /\ size = Laid
    /\ count = Len(records)
    /\ \A i \in 1..Len(records) : records[i].kind.name # "unknown"

\* A decoder that returns has found records that were records, each where it was,
\* and in their order: a lost byte never shifts one record into the next.  And a
\* payload that arrived whole is taken apart completely, and never refused.
FoundAsSent ==
    /\ stage = "returned" =>
        /\ Len(taken) <= Len(records)
        /\ \A i \in 1..Len(taken) : taken[i] = records[i].kind
    /\ Whole => stage # "raised" /\ (stage = "returned" => Len(taken) = Len(records))

\* A payload cut inside a record is refused, whichever decoder it is for; a
\* write result also when whole records are missing.
CutIsRefused ==
    stage = "returned" =>
        /\ size = Laid \/ \E i \in 1..Len(records) : records[i].at = size
        /\ format = "write" => Len(taken) = count

=============================================================================
