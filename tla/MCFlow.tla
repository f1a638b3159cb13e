------------------------------- MODULE MCFlow -------------------------------
(* Two nodes whose messages are larger than what the connection holds.     *)
EXTENDS Flow
=============================================================================
