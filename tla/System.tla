------------------------------- MODULE System -------------------------------
(***************************************************************************)
(* The controller and the node service of one node together: Attachment,   *)
(* and NodeVolume for the node id Here.  The other nodes are present by    *)
(* their attachments and by what they write.                               *)
(*                                                                         *)
(* The two meet in three places.  The CO stages a volume once its publish  *)
(* has succeeded, and unpublishes it once it is unstaged.  The device is   *)
(* there while the API has the volume attached to the machine.  A machine  *)
(* that is deleted takes its mounts with it, and its replacement runs a    *)
(* new node service under the same node id.  Expansion is left to the      *)
(* components' own modules.                                                *)
(***************************************************************************)
EXTENDS Attachment, NodeVolume

CONSTANT Here   \* the node id of the node service

\* No request outlives its call here; Attachment has those.
ASSUME SystemAssumption == Here \in NodeIds /\ MaxLate = 0

systemVars == <<vars, nodeVars>>

SystemInit == Init /\ NodeInit

AttachedHere == Resolve(Here) \cap att # {}

-----------------------------------------------------------------------------
(* Steps of the controller, its callers and the API *)

\* The CO unpublishes a volume from this node only once it is unstaged there.
CalledByCO(n) ==
  \/ PublishCall(n) /\ UNCHANGED nodeVars
  \/ UnpublishCall(n) /\ (n # Here \/ ~coDev) /\ UNCHANGED nodeVars
  \/ UnpublishCall(n) /\ n = Here /\ Detach

Controller(n) ==
  /\ Publish(n) \/ Unpublish(n) \/ PollTimeout(n) \/ CallFails(n)
  /\ UNCHANGED nodeVars

\* The device leaves with the attachment, whatever is mounted.
Detached ==
  /\ ApiDetached
  /\ dev' = IF AttachedHere /\ att' = {} THEN "absent" ELSE dev
  /\ UNCHANGED <<vol, disk, full, staged, bound, call, waiting,
                 coDev, coStage, coPod, coGrow, nodeFails>>

OtherApi ==
  /\ \/ ApiAttached \/ ApiReleases \/ DeleteVolume
     \/ \E m \in Machines : MachineCreated(m)
     \/ \E m \in Machines : NodeId[m] # Here /\ MachineDeleted(m)
  /\ UNCHANGED nodeVars

ThisMachineDeleted ==
  \E m \in Machines : NodeId[m] = Here /\ MachineDeleted(m) /\ Reboot

-----------------------------------------------------------------------------
(* Steps of the node *)

\* The kubelet sees the VolumeAttachment.
SeesAttached == co[Here] = "published" /\ Attach /\ UNCHANGED vars

DeviceComes ==
  AttachedHere /\ status = "attached" /\ DeviceAppears /\ UNCHANGED vars

WrittenElsewhere ==
  att # {} /\ ~AttachedHere /\ UsedElsewhere /\ UNCHANGED vars

OnNode ==
  /\ Resolve(Here) # {}
  /\ \/ StageCall \/ UnstageCall
     \/ \E t \in Targets : NodePublishCall(t) \/ NodeUnpublishCall(t) \/ PodWrites(t)
     \/ \E s \in Slots : Handler(s) \/ CommandFails(s)
     \/ Abandon \/ DriverRestart \/ Reboot
  /\ UNCHANGED vars

SystemNext ==
  \/ \E n \in NodeIds : CalledByCO(n) \/ Controller(n)
  \/ Detached \/ OtherApi \/ ThisMachineDeleted
  \/ SeesAttached \/ DeviceComes \/ WrittenElsewhere \/ OnNode

SystemSpec == SystemInit /\ [][SystemNext]_systemVars

-----------------------------------------------------------------------------
(* Properties *)

\* While the volume is mounted on this node, at the staging path or for a pod,
\* the API has it attached to this machine and to no other: neither a handler of
\* another node, nor a replaced machine, nor a repeated call takes it away.
InUseIsHeldHere == InUse => AttachedHere /\ att \subseteq Resolve(Here)

\* The controller is the environment the node service counts on (NodeVolume): a
\* device comes only after a publish, and never leaves before its volume is
\* unstaged and handed back.  So what NodeVolume shows of the node holds here.
ImplementsNode == NodeSpec
=============================================================================
