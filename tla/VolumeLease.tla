---------------------------- MODULE VolumeLease ----------------------------
(***************************************************************************)
(* What ControllerPublishVolume and ControllerUnpublishVolume promise the  *)
(* CO: a volume is lent to one machine at a time.  A machine gets it only  *)
(* for a node that asks for it, keeps it until that node returns it or the *)
(* machine is gone, and a node that has returned it does not hold it.      *)
(* Attachment implements this as long as no request outlives its call.     *)
(***************************************************************************)
CONSTANTS
  Machines,  \* machine identities
  NodeIds,   \* node ids
  NodeId     \* [Machines -> NodeIds], the node id under which a machine runs

VARIABLES
  holders,  \* the machines that hold the volume
  gone,     \* the machines that are no more
  claim     \* per node id: none, asked for, granted, being returned

leaseVars == <<holders, gone, claim>>

Holds(n) == \E m \in holders \ gone : NodeId[m] = n

\* A machine under this node id has been lost, and the volume with it.
Lost(n) == \E m \in gone : NodeId[m] = n

Init ==
  /\ holders = {}
  /\ gone = {}
  /\ claim = [n \in NodeIds |-> "none"]

Ask(n) ==
  /\ claim[n] \in {"none", "asked"}
  /\ claim' = [claim EXCEPT ![n] = "asked"]
  /\ UNCHANGED <<holders, gone>>

Take(m) ==
  /\ holders = {}
  /\ m \notin gone
  /\ claim[NodeId[m]] = "asked"
  /\ holders' = {m}
  /\ UNCHANGED <<gone, claim>>

Grant(n) ==
  /\ claim[n] = "asked"
  /\ Holds(n) \/ Lost(n)
  /\ claim' = [claim EXCEPT ![n] = "granted"]
  /\ UNCHANGED <<holders, gone>>

Return(n) ==
  /\ claim[n] # "none"
  /\ claim' = [claim EXCEPT ![n] = "returned"]
  /\ UNCHANGED <<holders, gone>>

Drop ==
  /\ \A m \in holders : m \in gone \/ claim[NodeId[m]] = "returned"
  /\ holders' = {}
  /\ UNCHANGED <<gone, claim>>

Close(n) ==
  /\ claim[n] = "returned"
  /\ ~Holds(n)
  /\ claim' = [claim EXCEPT ![n] = "none"]
  /\ UNCHANGED <<holders, gone>>

Lose(m) ==
  /\ gone' = gone \cup {m}
  /\ UNCHANGED <<holders, claim>>

Next ==
  \/ \E n \in NodeIds : Ask(n) \/ Grant(n) \/ Return(n) \/ Close(n)
  \/ \E m \in Machines : Take(m) \/ Lose(m)
  \/ Drop

Spec == Init /\ [][Next]_leaseVars
=============================================================================
