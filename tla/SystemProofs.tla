---------------------------- MODULE SystemProofs ----------------------------
(***************************************************************************)
(* Proofs about System, for any number of machines, nodes, target paths,   *)
(* failed calls and failures of the node.                                  *)
(*                                                                         *)
(* System narrows when the CO calls and what the API does, and adds no     *)
(* step to the controller: what AttachmentProofs shows of the controller   *)
(* holds.  That the controller in turn is the environment NodeVolume       *)
(* describes takes an invariant, DeviceInv; then what NodeVolumeProofs     *)
(* shows of the node holds too.                                            *)
(***************************************************************************)
EXTENDS System, AttachmentProofs, NodeVolumeProofs

-----------------------------------------------------------------------------
(* The controller *)

\* Every step of System is a step of Attachment, or leaves its state alone.
LEMMA NextAttachment == [SystemNext]_systemVars => [Next]_vars
<1> SUFFICES ASSUME [SystemNext]_systemVars PROVE Next \/ UNCHANGED vars
  OBVIOUS
<1>1. ASSUME NEW n \in NodeIds, CalledByCO(n) \/ Controller(n) PROVE Next
  BY <1>1, Zenon DEF CalledByCO, Controller, Next
<1>2. CASE Detached \/ OtherApi \/ ThisMachineDeleted
  BY <1>2, Zenon DEF Detached, OtherApi, ThisMachineDeleted, Next, Api
<1>3. CASE SeesAttached \/ DeviceComes \/ WrittenElsewhere \/ OnNode
  BY <1>3, Zenon DEF SeesAttached, DeviceComes, WrittenElsewhere, OnNode
<1>4. CASE UNCHANGED systemVars
  BY <1>4 DEF systemVars
<1> QED
  BY <1>1, <1>2, <1>3, <1>4, Zenon DEF SystemNext

\* System restricts Attachment.
LEMMA SystemIsAttachment == SystemSpec => Spec
<1>1. SystemInit => Init
  BY DEF SystemInit
<1> QED
  BY <1>1, NextAttachment, PTL DEF SystemSpec, Spec

\* With the node service in place the CO's view stays true in both directions: a
\* published node's machine has the volume or is deleted, and a detached node has
\* no live machine that holds it.
THEOREM SystemClaimsExact == SystemSpec => [](PublishedIsAttached /\ DetachedIsDetached)
BY SystemAssumption, SystemIsAttachment, PublishExact, DetachExact, PTL

\* With the node service in place the controller still lends the volume as
\* VolumeLease says.
THEOREM SystemLends == SystemSpec => ImplementsLease
BY SystemAssumption, SystemIsAttachment, LeaseImplemented, PTL

-----------------------------------------------------------------------------
(* The controller is the environment the node counts on *)

\* The kubelet has the volume attached only between its publish and its unpublish,
\* and the device is there only while the API has the volume attached here.
DeviceInv ==
  /\ coDev => co[Here] = "published"
  /\ dev # "absent" => AttachedHere

\* A handler of the controller leaves a published volume published.
LEMMA StaysPublished ==
  ASSUME Inv, NEW n \in NodeIds, co[Here] = "published",
         PublishCall(n) \/ Controller(n)
  PROVE  co'[Here] = "published"
BY SystemAssumption DEF Inv, Base, TypeOK, CallInv, Controller, PublishCall, PollTimeout,
  CallFails, Publish, PubGetVolume, PubListMachines, PubAttach, PubPoll, Unpublish,
  UnpubGetVolume, UnpubGetMachine, UnpubListMachines, UnpubDetach, UnpubPoll,
  PublishPC, UnpublishPC, COStates, Goto, Success, Failure

\* Only a detachment, or the end of the machine, takes the attachment away.
LEMMA StaysAttached ==
  ASSUME Inv, AttachedHere, NEW n \in NodeIds,
         PublishCall(n) \/ UnpublishCall(n) \/ Controller(n) \/ OtherApi
  PROVE  AttachedHere'
<1> USE DEF Inv, Base, TypeOK, ApiInv, AttachedHere, Resolve, Live, apiVars
<1>1. CASE UNCHANGED apiVars
  BY <1>1
<1>2. CASE OtherApi
  BY <1>2 DEF OtherApi, ApiAttached, ApiReleases, ApiDetach, DeleteVolume,
    MachineCreated, MachineDeleted
<1>3. CASE PubAttach(n) \/ UnpubDetach(n)
  BY <1>3 DEF PubAttach, CanAttach, UnpubDetach, ApiDetach
<1> QED
  BY <1>1, <1>2, <1>3 DEF PublishCall, UnpublishCall, Controller, PollTimeout, CallFails,
    Publish, PubGetVolume, PubListMachines, PubPoll, Unpublish, UnpubGetVolume,
    UnpubGetMachine, UnpubListMachines, UnpubPoll

\* A call, a command and a failure on the node leave the kubelet's attachment
\* alone, and make no device appear.
LEMMA OnNodeQuiet ==
  ASSUME OnNode PROVE UNCHANGED coDev /\ dev' \in {dev, "absent"}
<1> USE DEF diskVars, coVars, NodeGoto, NodeSuccess, NodeFailure, Return
<1>1. ASSUME NEW s \in Slots, Handler(s) PROVE UNCHANGED <<coDev, dev>>
  <2>1. ASSUME NEW op \in {"unstage", "unpublish"}, Unmount(s, op) \/ Cleanup(s, op)
        PROVE  UNCHANGED <<coDev, dev>>
    BY <2>1 DEF Unmount, Cleanup
  <2> QED
    BY <1>1, <2>1 DEF Handler, StageIsAttached, StageIsFormatted, StageFormat,
      StageIsMounted, StageMount, StageResize, UnstageIsMounted, PublishResolve,
      PublishIsMounted, PublishMount, ExpandIsMounted, ExpandResize
<1>2. ASSUME NEW t \in Targets, NodePublishCall(t) \/ NodeUnpublishCall(t) \/ PodWrites(t)
      PROVE  UNCHANGED <<coDev, dev>>
  BY <1>2 DEF NodePublishCall, NodeUnpublishCall, PodWrites, Start
<1>3. CASE StageCall \/ UnstageCall
  BY <1>3 DEF StageCall, UnstageCall, AnswersAtOnce, Start
<1>4. ASSUME NEW s \in Slots, CommandFails(s) PROVE UNCHANGED <<coDev, dev>>
  BY <1>4 DEF CommandFails
<1>5. CASE Abandon \/ DriverRestart \/ Reboot
  BY <1>5 DEF Abandon, DriverRestart, Reboot
<1> QED
  BY <1>1, <1>2, <1>3, <1>4, <1>5 DEF OnNode

\* Every step keeps DeviceInv.
LEMMA NextDevice ==
  ASSUME Inv, DeviceInv, [SystemNext]_systemVars PROVE DeviceInv'
<1> USE DEF DeviceInv, nodeVars, diskVars, coVars
<1>0. ASSUME UNCHANGED vars PROVE UNCHANGED co /\ (AttachedHere' <=> AttachedHere)
  BY <1>0 DEF vars, AttachedHere, Resolve, Live
<1>1. ASSUME NEW n \in NodeIds, CalledByCO(n) PROVE DeviceInv'
  <2>1. CASE PublishCall(n) /\ UNCHANGED nodeVars
    BY <2>1, StaysPublished, StaysAttached
  <2>2. CASE UnpublishCall(n) /\ (n # Here \/ ~coDev) /\ UNCHANGED nodeVars
    <3>1. n # Here => co'[Here] = co[Here]
      BY <2>2, SystemAssumption DEF UnpublishCall, Inv, Base, TypeOK
    <3> QED
      BY <2>2, <3>1, StaysAttached
  <2>3. CASE UnpublishCall(n) /\ n = Here /\ Detach
    BY <2>3, StaysAttached DEF Detach
  <2> QED
    BY <1>1, <2>1, <2>2, <2>3 DEF CalledByCO
<1>2. ASSUME NEW n \in NodeIds, Controller(n) PROVE DeviceInv'
  <2>1. UNCHANGED nodeVars
    BY <1>2 DEF Controller
  <2> QED
    BY <1>2, <2>1, StaysPublished, StaysAttached
<1>3. CASE Detached
  <2>1. UNCHANGED <<coDev, co, mstate>> /\ att' \in {att, {}}
    BY <1>3 DEF Detached, ApiDetached
  <2>2. dev' = IF AttachedHere /\ att' = {} THEN "absent" ELSE dev
    BY <1>3 DEF Detached
  <2> QED
    BY <2>1, <2>2 DEF AttachedHere, Resolve, Live
<1>4. CASE OtherApi
  <2>1. UNCHANGED co /\ UNCHANGED nodeVars
    BY <1>4 DEF OtherApi, ApiAttached, ApiReleases, DeleteVolume,
      MachineCreated, MachineDeleted
  <2>2. Here \in NodeIds
    BY SystemAssumption
  <2> QED
    BY <1>4, <2>1, <2>2, StaysAttached
<1>5. CASE ThisMachineDeleted
  BY <1>5 DEF ThisMachineDeleted, MachineDeleted, Reboot
<1>6. CASE SeesAttached
  BY <1>0, <1>6 DEF SeesAttached, Attach
<1>7. CASE DeviceComes
  BY <1>0, <1>7 DEF DeviceComes, DeviceAppears
<1>8. CASE WrittenElsewhere
  BY <1>0, <1>8 DEF WrittenElsewhere, UsedElsewhere
<1>9. CASE OnNode
  <2>1. UNCHANGED vars
    BY <1>9 DEF OnNode
  <2> QED
    BY <1>0, <1>9, <2>1, OnNodeQuiet
<1>10. CASE UNCHANGED systemVars
  BY <1>0, <1>10 DEF systemVars
<1> QED
  BY <1>1, <1>2, <1>3, <1>4, <1>5, <1>6, <1>7, <1>8, <1>9, <1>10 DEF SystemNext

\* Every step is a step of the node service's specification or leaves the node
\* alone: the device goes only with a machine, or once it has been handed back.
LEMMA NextNode ==
  ASSUME Inv, DeviceInv, [SystemNext]_systemVars PROVE [NodeNext]_nodeVars
<1>1. ASSUME NEW n \in NodeIds, CalledByCO(n) \/ Controller(n)
      PROVE  NodeNext \/ UNCHANGED nodeVars
  BY <1>1 DEF CalledByCO, Controller, NodeNext
<1>2. CASE Detached
  <2>1. CASE dev' = dev
    BY <1>2, <2>1 DEF Detached, nodeVars, diskVars, mountVars, coVars
  <2>2. CASE dev' # dev
    <3>1. AttachedHere /\ status = "detaching" /\ dev' = "absent" /\ dev # "absent"
      BY <1>2, <2>2 DEF Detached, ApiDetached
    <3>2. ~coDev
      <4>1. PICK x \in att : Live(x) /\ NodeId[x] = Here
        BY <3>1 DEF AttachedHere, Resolve
      <4>2. co[Here] = "unpublishing"
        BY <3>1, <4>1 DEF Inv, ClaimInv
      <4> QED
        BY <4>2 DEF DeviceInv
    <3>3. DeviceGone
      BY <1>2, <3>1, <3>2 DEF Detached, DeviceGone, mountVars, coVars
    <3> QED
      BY <3>3 DEF NodeNext
  <2> QED
    BY <2>1, <2>2
<1>3. CASE OtherApi
  BY <1>3 DEF OtherApi
<1>4. CASE ThisMachineDeleted \/ SeesAttached \/ DeviceComes \/ WrittenElsewhere
  BY <1>4 DEF ThisMachineDeleted, SeesAttached, DeviceComes, WrittenElsewhere, NodeNext
<1>5. CASE OnNode
  BY <1>5 DEF OnNode, NodeNext
<1>6. CASE UNCHANGED systemVars
  BY <1>6 DEF systemVars
<1> QED
  BY <1>1, <1>2, <1>3, <1>4, <1>5, <1>6 DEF SystemNext

\* DeviceInv holds throughout, and so does what AttachmentProofs shows.
LEMMA HereInvariant == SystemSpec => [](Inv /\ DeviceInv)
<1>1. SystemInit => DeviceInv
  BY DEF SystemInit, NodeInit, DeviceInv
<1>2. Inv /\ DeviceInv /\ [SystemNext]_systemVars => DeviceInv'
  BY NextDevice
<1>3. SystemSpec => []Inv
  BY SystemAssumption, SystemIsAttachment, InvInvariant, PTL
<1> QED
  BY <1>1, <1>2, <1>3, PTL DEF SystemSpec

\* The controller, however its calls fail and its machines are replaced, attaches
\* and detaches the volume the way the node service's specification counts on.
THEOREM NodeImplemented == SystemSpec => ImplementsNode
<1>1. SystemInit => NodeInit
  BY DEF SystemInit
<1>2. Inv /\ DeviceInv /\ [SystemNext]_systemVars => [NodeNext]_nodeVars
  BY NextNode
<1> QED
  BY <1>1, <1>2, HereInvariant, PTL DEF SystemSpec, ImplementsNode, NodeSpec

\* System restricts NodeVolume.
LEMMA SystemIsNode == SystemSpec => NodeSpec
BY NodeImplemented DEF ImplementsNode

\* A volume that is mounted on this node is attached to this node's machine and to
\* no other, for any number of machines, nodes, pods and failures: what the CO, the
\* controller, the API and the node service each promise adds up to it.
THEOREM UsedIsHeld ==
  ASSUME OneSlot PROVE SystemSpec => []InUseIsHeldHere
<1>1. Inv /\ DeviceInv /\ NodeInv => InUseIsHeldHere
  <2> SUFFICES ASSUME Inv, DeviceInv, NodeInv, InUse
               PROVE  AttachedHere /\ att \subseteq Resolve(Here)
    BY DEF InUseIsHeldHere
  <2>1. dev # "absent"
    BY InUseHasDevice
  <2>2. AttachedHere
    BY <2>1 DEF DeviceInv
  <2>3. \A x, y \in att : x = y
    BY DEF Inv, Base, ApiInv
  <2>4. PICK x \in Resolve(Here) : x \in att
    BY <2>2 DEF AttachedHere
  <2> QED
    BY <2>2, <2>3, <2>4
<1> QED
  BY <1>1, HereInvariant, SystemIsNode, NodeInvariant, PTL

\* A pod whose publish succeeded sees the volume, mounted once, and what the CO is
\* done with on this node has nothing mounted, although the device comes and goes
\* as the controller, its failed calls and replaced machines make it.
THEOREM PodsServed ==
  ASSUME OneSlot PROVE SystemSpec => [](PublishedSeesVolume /\ UnusedIsUnmounted)
BY SystemIsNode, PublishedSees, UnusedUnmounted, PTL

\* The data survives: no history of publishes, replaced machines and other nodes
\* that write the volume makes NodeStageVolume format it again.
THEOREM DataKept ==
  ASSUME OneSlot, ValidateAttachment PROVE SystemSpec => NoReformat
BY SystemIsNode, NeverReformats, PTL
=============================================================================
