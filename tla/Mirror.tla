------------------------------- MODULE Mirror -------------------------------
(***************************************************************************)
(* What a feed promises to whoever reads its store, abstractly: a copy of  *)
(* a source that changes on its own.  Each key of the copy is a value that *)
(* the source has had, and each refresh of a key is a step forward.        *)
(*                                                                         *)
(* The values of a key are numbered in the order the source has them.      *)
(***************************************************************************)
EXTENDS Integers

CONSTANTS Keys

VARIABLES
    source,     \* the number of the value that the source has
    copy        \* the number of the value that the copy has, -1 at first

vars == <<source, copy>>

Init ==
    /\ source = [k \in Keys |-> 0]
    /\ copy = [k \in Keys |-> -1]

Change(k) ==
    /\ source' = [source EXCEPT ![k] = @ + 1]
    /\ UNCHANGED copy

\* Any keys of the copy take values that are newer than those they have.
Refresh ==
    /\ copy' \in [Keys -> Int]
    /\ \A k \in Keys : copy'[k] # copy[k] => copy[k] < copy'[k] /\ copy'[k] <= source[k]
    /\ UNCHANGED source

Next == Refresh \/ \E k \in Keys : Change(k)

Spec == Init /\ [][Next]_vars

=============================================================================
