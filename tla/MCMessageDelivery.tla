-------------------------- MODULE MCMessageDelivery --------------------------
(* Instances of MessageDelivery for TLC.                                   *)
EXTENDS MessageDelivery

CONSTANT w1

ForOne == [m \in Messages |-> w1]
FirstOnly == [m \in Messages |-> IF m = 1 THEN 1 ELSE 0]
=============================================================================
