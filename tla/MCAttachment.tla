---------------------------- MODULE MCAttachment ----------------------------
(***************************************************************************)
(* Attachment with two nodes: n1 is a node name, under which machine m1    *)
(* and, once m1 is deleted, its replacement m3 run; m2 is a node known by  *)
(* its machine identity.                                                   *)
(***************************************************************************)
EXTENDS Attachment

CONSTANTS m1, m2, m3, n1

MCMachines == {m1, m2, m3}
MCNodeIds == {n1, m2}
MCNodeId == [m \in MCMachines |-> IF m = m2 THEN m2 ELSE n1]
=============================================================================
