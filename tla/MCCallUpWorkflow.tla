-------------------------- MODULE MCCallUpWorkflow --------------------------
(***************************************************************************)
(* Small instances of the call-up queue with its runs and its sweeper: one *)
(* terminal, one perishable request among standard ones.                   *)
(***************************************************************************)
EXTENDS CallUpWorkflow

MCTerminal == [q \in Requests |-> "T1"]
MCClass == [q \in Requests |-> IF q = "q2" THEN "PERISHABLE" ELSE "STANDARD"]
=============================================================================
