------------------------------ MODULE MCSystem ------------------------------
(***************************************************************************)
(* System with the nodes of MCAttachment: this node is n1, a node name     *)
(* under which machine m1 and its replacement m3 run, the other one is m2. *)
(***************************************************************************)
EXTENDS System

CONSTANTS m1, m2, m3, n1

MCMachines == {m1, m2, m3}
MCNodeIds == {n1, m2}
MCNodeId == [m \in MCMachines |-> IF m = m2 THEN m2 ELSE n1]

\* Bound: a volume annotated not to be formatted is left to NodeVolume's runs.
MCInit == SystemInit /\ ~vol.noFormat

MCSpec == MCInit /\ [][SystemNext]_systemVars
=============================================================================
