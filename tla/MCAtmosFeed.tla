---------------------------- MODULE MCAtmosFeed -----------------------------
(* AtmosFeed on small instances. *)
EXTENDS AtmosFeed, TLC

CONSTANTS l1, l2, p1, o1, u1, u2, x1, x2, y1, c1

=============================================================================
