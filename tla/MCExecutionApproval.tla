-------------------------- MODULE MCExecutionApproval --------------------------
(* Instances of ExecutionApproval for TLC. *)
EXTENDS ExecutionApproval, TLC

CONSTANTS n1, n2, o1, o2, u1, f1

MCAskedOne == n1 :> o1
MCAskedTwo == n1 :> o1 @@ n2 :> o2
MCFeatureOf == [b \in Binding |-> f1]
MCUserOf == [b \in Binding |-> u1]
=============================================================================
