-------------------------- MODULE CheckQueuePromise --------------------------
(***************************************************************************)
(* What CCheckQueue promises ConnectBlock: one thread hands over checks,   *)
(* then asks for the verdict, and gets it: whether every check handed over *)
(* since the last verdict succeeded.                                       *)
(***************************************************************************)
VARIABLES
    open,       \* a control object is in use
    allGood,    \* every check handed over to it succeeds
    verdict,    \* what the last Wait returned
    stopping    \* the node is being shut down

vars == <<open, allGood, verdict, stopping>>

Init == open = FALSE /\ allGood = TRUE /\ verdict = TRUE /\ stopping = FALSE

\* A new control object.
Construct == ~open /\ open' = TRUE /\ allGood' = TRUE /\ UNCHANGED <<verdict, stopping>>

\* A batch of checks, some of which may fail.
Add == open /\ allGood' \in {allGood, FALSE} /\ UNCHANGED <<open, verdict, stopping>>

\* Wait returns.
Return == open /\ open' = FALSE /\ verdict' = allGood /\ UNCHANGED <<allGood, stopping>>

\* The node is shut down, and then an exception may end Wait without a verdict.
Stop == ~stopping /\ stopping' = TRUE /\ UNCHANGED <<open, allGood, verdict>>
Abandon == stopping /\ open /\ open' = FALSE /\ UNCHANGED <<allGood, verdict, stopping>>

Next == Construct \/ Add \/ Return \/ Stop \/ Abandon

Safety == Init /\ [][Next]_vars

\* A control object does not stay in use for ever.
Spec == Safety /\ WF_vars(Return \/ Abandon)

=============================================================================
