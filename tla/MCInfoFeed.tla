----------------------------- MODULE MCInfoFeed -----------------------------
(* InfoFeed on a small instance. *)
EXTENDS InfoFeed, TLC

CONSTANTS l1, p1, u1

=============================================================================
