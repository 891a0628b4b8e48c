------------------------------ MODULE OwnText -------------------------------
(***************************************************************************)
(* The own texts of a controller (protocol/data.py): names that its owner  *)
(* gave to circuits, which come as one string of slots, any of them empty, *)
(* with a NUL behind each or between them.                                 *)
(*                                                                         *)
(* A text is the sequence of its words.                                    *)
(***************************************************************************)
EXTENDS Integers, Sequences, SequencesExt

CONSTANTS
    SlotTexts,      \* what a slot may say
    MaxSlots        \* bound on the slots of a panel

NUL == "NUL"

ASSUME OwnTextAssumption ==
    /\ SlotTexts \subseteq Seq(STRING \ {NUL})
    /\ MaxSlots \in Nat

VARIABLES
    stage,          \* who works on the own texts
    slots,          \* those at the panel
    body,           \* the string
    split,          \* words of it that split() has looked at
    own_text        \* the slots that the client has found

own == <<stage, slots, body, split, own_text>>

OwnInit ==
    /\ stage = "panel"
    /\ slots = << >>
    /\ body = << >>
    /\ split = 0
    /\ own_text = << >>

-----------------------------------------------------------------------------
(* The panel and the gateway (external) *)

PutSlot(text) ==
    /\ stage = "panel"
    /\ Len(slots) < MaxSlots
    /\ slots' = Append(slots, text)
    /\ body' = body \o Append(text, NUL)
    /\ UNCHANGED <<stage, split, own_text>>

\* A NUL behind each slot, or only between them; the client begins with one piece.
SendSlots ==
    /\ stage = "panel"
    /\ stage' = "splitting"
    /\ body' \in {body} \cup {SubSeq(body, 1, Len(body) - 1)}
    /\ own_text' = << << >> >>
    /\ UNCHANGED <<slots, split>>

-----------------------------------------------------------------------------
(* decode_own_text() *)

\* body.split(b"\x00"): a NUL begins another piece.
SplitWord ==
    /\ stage = "splitting"
    /\ split < Len(body)
    /\ own_text' = IF body[split + 1] = NUL THEN Append(own_text, << >>)
                   ELSE [own_text EXCEPT ![Len(own_text)] = Append(@, body[split + 1])]
    /\ split' = split + 1
    /\ UNCHANGED <<stage, slots, body>>

\* Mutant: empty slots are dropped.
KeepFilled ==
    /\ stage = "splitting"
    /\ split = Len(body)
    /\ stage' = "decoded"
    /\ own_text' = SelectSeq(own_text, LAMBDA text : text # << >>)
    /\ UNCHANGED <<slots, body, split>>

\* Nothing behind the last NUL is no slot.
KeepSlots ==
    /\ stage = "splitting"
    /\ split = Len(body)
    /\ stage' = "decoded"
    /\ own_text' = IF Last(own_text) = << >> THEN Front(own_text) ELSE own_text
    /\ UNCHANGED <<slots, body, split>>

OwnNext ==
    \/ \E text \in SlotTexts : PutSlot(text)
    \/ SendSlots
    \/ SplitWord
    \/ KeepSlots

OwnSpec == OwnInit /\ [][OwnNext]_own

=============================================================================
