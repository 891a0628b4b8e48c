----------------------------- MODULE MCExchange -----------------------------
(* Exchange on small instances. *)
EXTENDS Exchange, TLC

CONSTANTS a, b, c, s1, s2, s3, read, ok

\* Tasks that connect and close are alike, and so are the others.
Symmetric == Permutations(Connectors) \cup Permutations(Tasks \ Connectors)

=============================================================================
