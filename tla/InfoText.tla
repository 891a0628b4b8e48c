------------------------------ MODULE InfoText ------------------------------
(***************************************************************************)
(* The expansion of an Info value (protocol/data.py): bytes of text, and   *)
(* escapes of three bytes, 0xFF and the 16-bit index of a regulator text.  *)
(*                                                                         *)
(* The gateway writes a value part by part and ends it with NULs; UTF-8    *)
(* text has neither 0xFF nor, inside a value, NUL.  What lookup() returns  *)
(* for an index is left as the index.                                      *)
(***************************************************************************)
EXTENDS Naturals, Sequences

CONSTANTS
    Characters, \* bytes of text
    Low, High,  \* bytes of the indices
    MaxParts,   \* bound on the parts of a value
    MaxNuls     \* bound on the NULs behind them

TEXT_INDEX == 255
AllBytes == 0..255

ASSUME InfoTextAssumption ==
    /\ Characters \subseteq AllBytes \ {0, TEXT_INDEX}
    /\ Low \subseteq AllBytes /\ High \subseteq AllBytes
    /\ MaxParts \in Nat /\ MaxNuls \in Nat

VARIABLES
    phase,      \* who works on the value
    written,    \* the parts that the gateway put into it
    bytes,      \* its bytes
    at,         \* bytes consumed by the scan
    expanded    \* the parts that it has found

expansion == <<phase, written, bytes, at, expanded>>

TextPart(byte) == [what |-> "text", of |-> byte]
IndexPart(low, high) == [what |-> "index", of |-> low + 256 * high]
ValueParts == [what : {"text", "index"}, of : Nat]

ValueTypeOK ==
    /\ phase \in {"writing", "stripping", "scanning", "returned"}
    /\ written \in Seq(ValueParts)
    /\ bytes \in Seq(AllBytes)
    /\ at \in 0..Len(bytes)
    /\ expanded \in Seq(ValueParts)

ValueInit ==
    /\ phase = "writing"
    /\ written = << >>
    /\ bytes = << >>
    /\ at = 0
    /\ expanded = << >>

-----------------------------------------------------------------------------
(* The gateway (external) *)

WriteText(c) ==
    /\ phase = "writing"
    /\ Len(written) < MaxParts
    /\ written' = Append(written, TextPart(c))
    /\ bytes' = Append(bytes, c)
    /\ UNCHANGED <<phase, at, expanded>>

WriteIndex(low, high) ==
    /\ phase = "writing"
    /\ Len(written) < MaxParts
    /\ written' = Append(written, IndexPart(low, high))
    /\ bytes' = bytes \o <<TEXT_INDEX, low, high>>
    /\ UNCHANGED <<phase, at, expanded>>

Terminate(nuls) ==
    /\ phase = "writing"
    /\ bytes' = bytes \o [k \in 1..nuls |-> 0]
    /\ phase' = "stripping"
    /\ UNCHANGED <<written, at, expanded>>

-----------------------------------------------------------------------------
(* expand_info_value_with() *)

\* rstrip(b"\x00"), one NUL at a time.
Strip ==
    /\ phase = "stripping"
    /\ IF bytes # << >> /\ bytes[Len(bytes)] = 0
       THEN bytes' = SubSeq(bytes, 1, Len(bytes) - 1) /\ UNCHANGED phase
       ELSE phase' = "scanning" /\ UNCHANGED bytes
    /\ UNCHANGED <<written, at, expanded>>

\* Mutant: an escape needs a byte behind it.
AtIndexStrictly == bytes[at + 1] = TEXT_INDEX /\ at + 3 < Len(bytes)

\* An escape begins here, and its two bytes are there.
AtIndex == bytes[at + 1] = TEXT_INDEX /\ at + 2 < Len(bytes)

Expand ==
    /\ phase = "scanning"
    /\ at < Len(bytes)
    /\ AtIndex
    /\ expanded' = Append(expanded, IndexPart(bytes[at + 2], bytes[at + 3]))
    /\ at' = at + 3
    /\ UNCHANGED <<phase, written, bytes>>

Copy ==
    /\ phase = "scanning"
    /\ at < Len(bytes)
    /\ ~AtIndex
    /\ expanded' = Append(expanded, TextPart(bytes[at + 1]))
    /\ at' = at + 1
    /\ UNCHANGED <<phase, written, bytes>>

Return ==
    /\ phase = "scanning"
    /\ at >= Len(bytes)
    /\ phase' = "returned"
    /\ UNCHANGED <<written, bytes, at, expanded>>

ValueNext ==
    \/ \E c \in Characters : WriteText(c)
    \/ \E low \in Low, high \in High : WriteIndex(low, high)
    \/ \E nuls \in 0..MaxNuls : Terminate(nuls)
    \/ Strip
    \/ Expand
    \/ Copy
    \/ Return

ValueSpec == ValueInit /\ [][ValueNext]_expansion

-----------------------------------------------------------------------------
(* What the expansion promises *)

\* The last part is an escape with a high byte of zero: an index below 256.
EndsInShortIndex ==
    written # << >> /\ LET last == written[Len(written)] IN last.what = "index" /\ last.of < 256

\* "Text after expanding index escapes" (data.py:212), with "trailing NULs
\* ignored" (data.py:227): the parts of a value come out as they were written.
ExpandsAsWritten == phase = "returned" => expanded = written

\* The same, where the code achieves it: all parts, or all but the last if the
\* NULs that are ignored are the high byte of an escape there.  NULs inside
\* escapes and bytes of an index that look like an escape do no harm.
ExpandsUnlessShortIndexLast ==
    phase = "returned" =>
        IF EndsInShortIndex
        THEN \A k \in 1..Len(written) - 1 : k <= Len(expanded) /\ expanded[k] = written[k]
        ELSE expanded = written

=============================================================================
