---------------------------- MODULE MCSnapshots ----------------------------
(***************************************************************************)
(* Snapshots with a volume v1, another one v2 of the same name n1, and a   *)
(* volume v3 of another name; the CO asks for v1 or for n1.                *)
(***************************************************************************)
EXTENDS Snapshots

CONSTANTS v1, v2, v3, n1, n2

MCVolumes == {v1, v2, v3}
MCName == [v \in MCVolumes |-> IF v = v3 THEN n2 ELSE n1]
MCSources == {v1, n1}
=============================================================================
