------------------------------ MODULE MCAskFor ------------------------------
(* One peer that answers, one that need not, and two objects.              *)
EXTENDS AskFor
=============================================================================
