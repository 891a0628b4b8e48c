----------------------------- MODULE MCInfoText -----------------------------
(* InfoText with bytes that look like an escape or a terminator. *)
EXTENDS InfoText
=============================================================================
