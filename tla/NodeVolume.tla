----------------------------- MODULE NodeVolume -----------------------------
(***************************************************************************)
(* The node service (driver/node.go, driver/mounter.go) for ONE volume on  *)
(* one node: NodeStageVolume, NodeUnstageVolume, NodePublishVolume,        *)
(* NodeUnpublishVolume and NodeExpandVolume, called by the kubelet (CO).   *)
(*                                                                         *)
(* Each command a handler runs (blkid, mkfs, findmnt, mount, umount,       *)
(* resize2fs) is a step.  The handlers ignore their context and take no    *)
(* lock: one whose caller has given up runs on as an orphan, beside the    *)
(* call the CO makes next.  Slots bounds how many run at a time; with one  *)
(* slot the CO's next call waits for the orphan to end.                    *)
(*                                                                         *)
(* A driver restart kills the handlers, a reboot the mounts too.           *)
(* NodeGetVolumeStats, NodeGetInfo and NodeGetCapabilities change nothing. *)
(***************************************************************************)
EXTENDS Naturals, Sequences

CONSTANTS
  Targets,             \* target paths: the pods that use the volume
  Slots,               \* handlers that may run at the same time
  Staging,             \* the staging path
  NoCall,              \* no call
  ValidateAttachment,  \* --validate-attachment
  MaxNodeFails         \* bound: failed commands, deadlines, restarts, reboots

ASSUME NodeVolumeAssumption ==
  /\ Staging \notin Targets
  /\ NoCall \notin Slots
  /\ ValidateAttachment \in BOOLEAN
  /\ MaxNodeFails \in Nat

VARIABLES
  vol,      \* the volume's access type and annotation, fixed
  dev,      \* the /dev/disk/by-id link: absent, present, in state running
  disk,     \* what is on the volume
  full,     \* the filesystem uses the whole device
  staged,   \* the volume is mounted at the staging path
  bound,    \* per target path: what is mounted there, the last on top
  call,     \* per slot: the running handler
  waiting,  \* the slot of the call the CO waits for
  coDev,    \* the CO has the volume attached to this node
  coStage,  \* the CO's view of the staging path
  coPod,    \* the CO's view of each target path
  coGrow,   \* the CO has yet to see NodeExpandVolume succeed
  nodeFails \* failures so far

diskVars == <<dev, disk, full>>
mountVars == <<staged, bound>>
coVars == <<coDev, coStage, coPod, coGrow>>
nodeVars == <<vol, diskVars, mountVars, call, waiting, coVars, nodeFails>>

Paths == Targets \cup {Staging}
Labels == {"isAttached", "isFormatted", "format", "resolve", "isMounted",
           "mount", "resize", "unmount", "cleanup"}
Calls == [op : {"stage", "unstage", "publish", "unpublish", "expand"},
          path : Paths, pc : Labels]

NodeTypeOK ==
  /\ vol \in [block : BOOLEAN, noFormat : BOOLEAN]
  /\ dev \in {"absent", "present", "running"}
  /\ disk \in {"blank", "formatted", "written"}
  /\ full \in BOOLEAN
  /\ staged \in BOOLEAN
  /\ bound \in [Targets -> Seq({"volume", "directory"})]
  /\ call \in [Slots -> Calls \cup {NoCall}]
  /\ waiting \in Slots \cup {NoCall}
  /\ coDev \in BOOLEAN
  /\ coStage \in {"unstaged", "staging", "staged", "unstaging"}
  /\ coPod \in [Targets -> {"none", "publishing", "published", "unpublishing"}]
  /\ coGrow \in BOOLEAN
  /\ nodeFails \in 0..MaxNodeFails

\* A new volume is blank; one with data may stem from a smaller snapshot.
NodeInit ==
  /\ vol \in [block : BOOLEAN, noFormat : BOOLEAN]
  /\ dev = "absent"
  /\ \/ disk = "blank" /\ full = TRUE
     \/ disk = "written" /\ full \in BOOLEAN
  /\ staged = FALSE
  /\ bound = [t \in Targets |-> <<>>]
  /\ call = [s \in Slots |-> NoCall]
  /\ waiting = NoCall
  /\ coDev = FALSE
  /\ coStage = "unstaged"
  /\ coPod = [t \in Targets |-> "none"]
  /\ coGrow = FALSE
  /\ nodeFails = 0

-----------------------------------------------------------------------------
(* The node's mounts *)

IsMounted(p) == IF p = Staging THEN staged ELSE bound[p] # <<>>

\* What a user of the path sees is the volume.
ShowsVolume(p) ==
  IF p = Staging THEN staged
  ELSE bound[p] # <<>> /\ bound[p][Len(bound[p])] = "volume"

\* mkfs refuses a device that is mounted anywhere.
InUse ==
  staged \/ \E t \in Targets : \E i \in 1..Len(bound[t]) : bound[t][i] = "volume"

\* A bind mount goes on top of what is mounted at the path.
Bind(t, what) == bound' = [bound EXCEPT ![t] = Append(@, what)] /\ UNCHANGED staged

\* umount takes the topmost mount away.
Umount(p) ==
  IF p = Staging
  THEN staged' = FALSE /\ UNCHANGED bound
  ELSE bound' = [bound EXCEPT ![p] = SubSeq(@, 1, Len(@) - 1)] /\ UNCHANGED staged

-----------------------------------------------------------------------------
(* How a handler proceeds and ends *)

At(s, op, label) == call[s] # NoCall /\ call[s].op = op /\ call[s].pc = label

NodeGoto(s, label) ==
  call' = [call EXCEPT ![s].pc = label] /\ UNCHANGED <<waiting, coVars>>

Return(s) ==
  /\ call' = [call EXCEPT ![s] = NoCall]
  /\ waiting' = IF waiting = s THEN NoCall ELSE waiting
  /\ UNCHANGED coDev

NodeFailure(s) == Return(s) /\ UNCHANGED <<coStage, coPod, coGrow>>

\* The CO hears of a success only while it waits for that call.
NodeSuccess(s) ==
  /\ Return(s)
  /\ LET c == call[s]
         heard(op) == waiting = s /\ c.op = op
     IN  /\ coStage' = CASE heard("stage") -> "staged"
                         [] heard("unstage") -> "unstaged"
                         [] OTHER -> coStage
         /\ coPod' = CASE heard("publish") -> [coPod EXCEPT ![c.path] = "published"]
                       [] heard("unpublish") -> [coPod EXCEPT ![c.path] = "none"]
                       [] OTHER -> coPod
         /\ coGrow' = (coGrow /\ ~heard("expand"))

-----------------------------------------------------------------------------
(* The CO (kubelet): one call at a time; a volume is staged before it is    *)
(* published and unstaged once no target path is in use.                    *)

\* A call the handler answers before it runs a command.
AnswersAtOnce ==
  /\ vol.block
  /\ waiting = NoCall
  /\ UNCHANGED <<vol, diskVars, mountVars, call, waiting, coDev, nodeFails>>

Start(op, p, label) ==
  /\ waiting = NoCall
  /\ \E s \in Slots :
       /\ call[s] = NoCall
       /\ call' = [call EXCEPT ![s] = [op |-> op, path |-> p, pc |-> label]]
       /\ waiting' = s
  /\ UNCHANGED <<vol, diskVars, mountVars, coDev, coGrow, nodeFails>>

Unused == \A t \in Targets : coPod[t] = "none"

\* NodeStageVolume, up to its first command; a block volume is not staged.
StageCall ==
  /\ coDev
  /\ coStage # "staged"
  /\ Unused
  /\ UNCHANGED coPod
  /\ \/ AnswersAtOnce /\ coStage' = "staged" /\ UNCHANGED coGrow
     \/ /\ ~vol.block
        /\ coStage' = "staging"
        /\ Start("stage", Staging, IF vol.noFormat THEN "isMounted"
                                   ELSE IF ValidateAttachment THEN "isAttached"
                                   ELSE "isFormatted")

UnstageCall ==
  /\ coStage # "unstaged"
  /\ Unused
  /\ coStage' = "unstaging"
  /\ UNCHANGED coPod
  /\ Start("unstage", Staging, "isMounted")

NodePublishCall(t) ==
  /\ coStage = "staged"
  /\ coPod[t] \in {"none", "publishing"}
  /\ coPod' = [coPod EXCEPT ![t] = "publishing"]
  /\ UNCHANGED coStage
  /\ Start("publish", t, IF vol.block THEN "resolve" ELSE "isMounted")

NodeUnpublishCall(t) ==
  /\ coPod[t] # "none"
  /\ coPod' = [coPod EXCEPT ![t] = "unpublishing"]
  /\ UNCHANGED coStage
  /\ Start("unpublish", t, "unmount")

\* NodeExpandVolume; the volume path is the staging path or a target path.
ExpandCall(p) ==
  /\ coGrow
  /\ coStage = "staged"
  /\ p # Staging => coPod[p] = "published"
  /\ UNCHANGED <<coStage, coPod>>
  /\ \/ AnswersAtOnce /\ coGrow' = FALSE
     \/ ~vol.block /\ Start("expand", p, "isMounted")

-----------------------------------------------------------------------------
(* NodeStageVolume *)

\* Mutant: the result of IsAttached is dropped.
StageIsAttached_Ignored(s) ==
  /\ At(s, "stage", "isAttached")
  /\ NodeGoto(s, "isFormatted")
  /\ UNCHANGED <<vol, diskVars, mountVars, nodeFails>>

StageIsAttached(s) ==
  /\ At(s, "stage", "isAttached")
  /\ \/ dev = "running" /\ NodeGoto(s, "isFormatted")
     \/ dev # "running" /\ NodeFailure(s)
  /\ UNCHANGED <<vol, diskVars, mountVars, nodeFails>>

\* blkid exits with 2 for a blank device and for one that is not there.
StageIsFormatted(s) ==
  /\ At(s, "stage", "isFormatted")
  /\ \/ (dev = "absent" \/ disk = "blank") /\ NodeGoto(s, "format")
     \/ dev # "absent" /\ disk # "blank" /\ NodeGoto(s, "isMounted")
  /\ UNCHANGED <<vol, diskVars, mountVars, nodeFails>>

\* mkfs -F does not ask what is on the device.
StageFormat(s) ==
  /\ At(s, "stage", "format")
  /\ \/ /\ dev # "absent" /\ ~InUse
        /\ disk' = "formatted"
        /\ full' = TRUE
        /\ NodeGoto(s, "isMounted")
     \/ (dev = "absent" \/ InUse) /\ NodeFailure(s) /\ UNCHANGED <<disk, full>>
  /\ UNCHANGED <<vol, dev, mountVars, nodeFails>>

\* Mutant: the volume is mounted without a look at the staging path.
StageIsMounted_Never(s) ==
  /\ At(s, "stage", "isMounted")
  /\ NodeGoto(s, "mount")
  /\ UNCHANGED <<vol, diskVars, mountVars, nodeFails>>

StageIsMounted(s) ==
  /\ At(s, "stage", "isMounted")
  /\ NodeGoto(s, IF IsMounted(Staging) THEN "resize" ELSE "mount")
  /\ UNCHANGED <<vol, diskVars, mountVars, nodeFails>>

\* mount needs the device and a filesystem, and refuses to mount it twice.
StageMount(s) ==
  /\ At(s, "stage", "mount")
  /\ LET ok == dev # "absent" /\ disk # "blank" /\ ~staged
     IN  \/ ok /\ staged' = TRUE /\ NodeGoto(s, "resize")
         \/ ~ok /\ NodeFailure(s) /\ UNCHANGED staged
  /\ UNCHANGED <<vol, diskVars, bound, nodeFails>>

\* Mutant: the filesystem is left at its size.
StageResize_Skipped(s) ==
  /\ At(s, "stage", "resize")
  /\ NodeSuccess(s)
  /\ UNCHANGED <<vol, diskVars, mountVars, nodeFails>>

\* Without the device link the resize is skipped; without the mount it may fail.
StageResize(s) ==
  /\ At(s, "stage", "resize")
  /\ \/ dev = "absent" /\ UNCHANGED full /\ NodeSuccess(s)
     \/ dev # "absent" /\ full' = TRUE /\ NodeSuccess(s)
     \/ dev # "absent" /\ ~staged /\ UNCHANGED full /\ NodeFailure(s)
  /\ UNCHANGED <<vol, dev, disk, mountVars, nodeFails>>

-----------------------------------------------------------------------------
(* NodeUnstageVolume and NodeUnpublishVolume; Unmount is CleanupMountPoint: *)
(* umount once, then look again.                                            *)

\* Mutant: the test for a mounted staging path is inverted.
UnstageIsMounted_Inverted(s) ==
  /\ At(s, "unstage", "isMounted")
  /\ \/ IsMounted(Staging) /\ NodeSuccess(s)
     \/ ~IsMounted(Staging) /\ NodeGoto(s, "unmount")
  /\ UNCHANGED <<vol, diskVars, mountVars, nodeFails>>

UnstageIsMounted(s) ==
  /\ At(s, "unstage", "isMounted")
  /\ \/ IsMounted(Staging) /\ NodeGoto(s, "unmount")
     \/ ~IsMounted(Staging) /\ NodeSuccess(s)
  /\ UNCHANGED <<vol, diskVars, mountVars, nodeFails>>

\* Mutant: one umount is taken to be enough.
Unmount_NoSecondLook(s, op) ==
  /\ At(s, op, "unmount")
  /\ LET p == call[s].path
     IN  \/ IsMounted(p) /\ Umount(p)
         \/ ~IsMounted(p) /\ UNCHANGED mountVars
  /\ NodeSuccess(s)
  /\ UNCHANGED <<vol, diskVars, nodeFails>>

\* Mutant: a path that is not mounted is an error.
Unmount_NotMountedFails(s, op) ==
  /\ At(s, op, "unmount")
  /\ LET p == call[s].path
     IN  \/ IsMounted(p) /\ Umount(p) /\ NodeGoto(s, "cleanup")
         \/ ~IsMounted(p) /\ NodeFailure(s) /\ UNCHANGED mountVars
  /\ UNCHANGED <<vol, diskVars, nodeFails>>

Unmount(s, op) ==
  /\ At(s, op, "unmount")
  /\ LET p == call[s].path
     IN  \/ IsMounted(p) /\ Umount(p) /\ NodeGoto(s, "cleanup")
         \/ ~IsMounted(p) /\ NodeSuccess(s) /\ UNCHANGED mountVars
  /\ UNCHANGED <<vol, diskVars, nodeFails>>

Cleanup(s, op) ==
  /\ At(s, op, "cleanup")
  /\ LET p == call[s].path
     IN  \/ IsMounted(p) /\ NodeFailure(s)
         \/ ~IsMounted(p) /\ NodeSuccess(s)
  /\ UNCHANGED <<vol, diskVars, mountVars, nodeFails>>

-----------------------------------------------------------------------------
(* NodePublishVolume *)

PublishResolve(s) ==
  /\ At(s, "publish", "resolve")
  /\ \/ dev # "absent" /\ NodeGoto(s, "isMounted")
     \/ dev = "absent" /\ NodeFailure(s)
  /\ UNCHANGED <<vol, diskVars, mountVars, nodeFails>>

\* Mutant: the source path is tested in place of the target path.
PublishIsMounted_Source(s) ==
  /\ At(s, "publish", "isMounted")
  /\ \/ IsMounted(Staging) /\ NodeSuccess(s)
     \/ ~IsMounted(Staging) /\ NodeGoto(s, "mount")
  /\ UNCHANGED <<vol, diskVars, mountVars, nodeFails>>

PublishIsMounted(s) ==
  /\ At(s, "publish", "isMounted")
  /\ \/ IsMounted(call[s].path) /\ NodeSuccess(s)
     \/ ~IsMounted(call[s].path) /\ NodeGoto(s, "mount")
  /\ UNCHANGED <<vol, diskVars, mountVars, nodeFails>>

\* Mutant: the source is not looked for.
PublishMount_NoStat(s) ==
  /\ At(s, "publish", "mount")
  /\ LET source == IF vol.block THEN dev # "absent" ELSE staged
     IN  Bind(call[s].path, IF source THEN "volume" ELSE "nothing")
  /\ NodeSuccess(s)
  /\ UNCHANGED <<vol, diskVars, nodeFails>>

\* The bind mount shows what is at the source at this moment: a staging path
\* that nothing is mounted at is a plain directory, if it exists at all.
PublishMount(s) ==
  /\ At(s, "publish", "mount")
  /\ LET t == call[s].path
         source == IF vol.block THEN dev # "absent" ELSE staged
     IN  \/ source /\ Bind(t, "volume") /\ NodeSuccess(s)
         \/ ~source /\ ~vol.block /\ Bind(t, "directory") /\ NodeSuccess(s)
         \/ ~source /\ NodeFailure(s) /\ UNCHANGED mountVars
  /\ UNCHANGED <<vol, diskVars, nodeFails>>

-----------------------------------------------------------------------------
(* NodeExpandVolume *)

ExpandIsMounted(s) ==
  /\ At(s, "expand", "isMounted")
  /\ \/ IsMounted(call[s].path) /\ NodeGoto(s, "resize")
     \/ ~IsMounted(call[s].path) /\ NodeFailure(s)
  /\ UNCHANGED <<vol, diskVars, mountVars, nodeFails>>

\* The device resized is the one mounted at the path now.
ExpandResize(s) ==
  /\ At(s, "expand", "resize")
  /\ LET p == call[s].path
     IN  \/ ShowsVolume(p) /\ full' = TRUE /\ NodeSuccess(s)
         \/ IsMounted(p) /\ ~ShowsVolume(p) /\ UNCHANGED full /\ NodeSuccess(s)
         \/ ~IsMounted(p) /\ UNCHANGED full /\ NodeFailure(s)
  /\ UNCHANGED <<vol, dev, disk, mountVars, nodeFails>>

-----------------------------------------------------------------------------
(* Failures *)

Fail == nodeFails < MaxNodeFails /\ nodeFails' = nodeFails + 1

\* A command fails, or its answer cannot be read.
CommandFails(s) ==
  /\ call[s] # NoCall
  /\ Fail
  /\ NodeFailure(s)
  /\ UNCHANGED <<vol, diskVars, mountVars>>

\* The CO's deadline passes; the handler does not notice.
Abandon ==
  /\ waiting # NoCall
  /\ Fail
  /\ waiting' = NoCall
  /\ UNCHANGED <<vol, diskVars, mountVars, call, coVars>>

DriverRestart ==
  /\ \E s \in Slots : call[s] # NoCall
  /\ Fail
  /\ call' = [s \in Slots |-> NoCall]
  /\ waiting' = NoCall
  /\ UNCHANGED <<vol, diskVars, mountVars, coVars>>

\* The kubelet starts over from the mounts it finds, which are none.
Reboot ==
  /\ Fail
  /\ dev' = "absent"
  /\ staged' = FALSE
  /\ bound' = [t \in Targets |-> <<>>]
  /\ call' = [s \in Slots |-> NoCall]
  /\ waiting' = NoCall
  /\ coStage' = "unstaged"
  /\ coPod' = [t \in Targets |-> "none"]
  /\ UNCHANGED <<vol, disk, full, coDev, coGrow>>

-----------------------------------------------------------------------------
(* The volume: attached and detached by the controller, grown by it, used   *)
(* by other nodes and written by the pods.                                 *)

Attach ==
  /\ ~coDev
  /\ coDev' = TRUE
  /\ UNCHANGED <<vol, diskVars, mountVars, call, waiting, coStage, coPod, coGrow,
                 nodeFails>>

\* udev creates the link, then the device comes up, after the attachment.
DeviceAppears ==
  /\ coDev
  /\ \/ dev = "absent" /\ dev' = "present"
     \/ dev = "present" /\ dev' = "running"
  /\ UNCHANGED <<vol, disk, full, mountVars, call, waiting, coVars, nodeFails>>

\* The CO hands the volume back; the device leaves in time.
Detach ==
  /\ coDev
  /\ coStage = "unstaged"
  /\ waiting = NoCall
  /\ coDev' = FALSE
  /\ UNCHANGED <<vol, diskVars, mountVars, call, waiting, coStage, coPod, coGrow,
                 nodeFails>>

DeviceGone ==
  /\ ~coDev
  /\ dev # "absent"
  /\ dev' = "absent"
  /\ UNCHANGED <<vol, disk, full, mountVars, call, waiting, coVars, nodeFails>>

\* Another node formats, grows and writes the volume.
UsedElsewhere ==
  /\ dev = "absent"
  /\ disk' = "written"
  /\ full' \in {full, TRUE}
  /\ UNCHANGED <<vol, dev, mountVars, call, waiting, coVars, nodeFails>>

\* ControllerExpandVolume has grown the volume; the CO asks the node to follow.
Grow ==
  /\ full \/ ~coGrow
  /\ disk # "blank"
  /\ coGrow' = TRUE
  /\ full' = FALSE
  /\ UNCHANGED <<vol, dev, disk, mountVars, call, waiting, coDev, coStage, coPod,
                 nodeFails>>

PodWrites(t) ==
  /\ coPod[t] = "published"
  /\ ShowsVolume(t)
  /\ disk # "written"
  /\ disk' = "written"
  /\ UNCHANGED <<vol, dev, full, mountVars, call, waiting, coVars, nodeFails>>

-----------------------------------------------------------------------------
Handler(s) ==
  \/ StageIsAttached(s) \/ StageIsFormatted(s) \/ StageFormat(s)
  \/ StageIsMounted(s) \/ StageMount(s) \/ StageResize(s)
  \/ UnstageIsMounted(s)
  \/ \E op \in {"unstage", "unpublish"} : Unmount(s, op) \/ Cleanup(s, op)
  \/ PublishResolve(s) \/ PublishIsMounted(s) \/ PublishMount(s)
  \/ ExpandIsMounted(s) \/ ExpandResize(s)

NodeNext ==
  \/ StageCall \/ UnstageCall
  \/ \E t \in Targets : NodePublishCall(t) \/ NodeUnpublishCall(t) \/ PodWrites(t)
  \/ \E p \in Paths : ExpandCall(p)
  \/ \E s \in Slots : Handler(s) \/ CommandFails(s)
  \/ Abandon \/ DriverRestart \/ Reboot
  \/ Attach \/ DeviceAppears \/ Detach \/ DeviceGone \/ UsedElsewhere \/ Grow

NodeSpec == NodeInit /\ [][NodeNext]_nodeVars

\* A handler runs on, the kubelet comes back to every operation it has pending,
\* and an attached device appears.
NodeFairness ==
  /\ \A s \in Slots : WF_nodeVars(Handler(s))
  /\ SF_nodeVars(coStage = "staging" /\ StageCall)
  /\ SF_nodeVars(coStage = "unstaging" /\ UnstageCall)
  /\ \A t \in Targets : SF_nodeVars(coPod[t] = "unpublishing" /\ NodeUnpublishCall(t))
  /\ WF_nodeVars(DeviceAppears)

FairNodeSpec == NodeSpec /\ NodeFairness

-----------------------------------------------------------------------------
(* Properties *)

\* A volume that holds data is never formatted again: NodeStageVolume's checks
\* hold from IsAttached over IsFormatted up to the mkfs, also for a device that
\* appears while it runs, after retries, restarts and reboots.
NoReformat == [][disk = "written" => disk' = "written"]_nodeVars

\* A pod whose NodePublishVolume succeeded sees the volume at its target path and
\* not the bare staging directory, mounted exactly once, so that the one umount
\* of NodeUnpublishVolume frees it; the staging mount is still there.
PublishedSeesVolume ==
  \A t \in Targets :
    coPod[t] = "published" =>
      /\ bound[t] = <<"volume">>
      /\ ~vol.block => staged

\* A path the CO is done with has nothing mounted, whatever calls failed, timed
\* out or were repeated before: the device of a volume that is not staged can be
\* detached without taking it away under a filesystem.
UnusedIsUnmounted ==
  /\ \A t \in Targets : coPod[t] = "none" => bound[t] = <<>>
  /\ coStage = "unstaged" => ~InUse

\* The filesystem of a staged volume uses the whole device, unless an expansion
\* is still to come: a volume restored from a smaller snapshot is resized by
\* NodeStageVolume, a grown one by NodeExpandVolume.
StagedSpansDevice ==
  coStage = "staged" /\ ~vol.block /\ ~coGrow => full

\* The moment NodeUnpublishVolume or NodeUnstageVolume answers with success the
\* path has nothing mounted, even if orphans of earlier calls stacked mounts.
UnmountReplyTruthful ==
  [][/\ \A t \in Targets :
          coPod[t] = "unpublishing" /\ coPod'[t] = "none" => bound'[t] = <<>>
     /\ coStage = "unstaging" /\ coStage' = "unstaged" => ~staged'
    ]_nodeVars

\* Tearing down always ends: NodeUnpublishVolume is retried until it succeeds,
\* and NodeUnstageVolume does not fail for ever, although orphans may have
\* mounted or unmounted the path in between.
TeardownConverges ==
  /\ \A t \in Targets : coPod[t] = "unpublishing" ~> coPod[t] = "none"
  /\ ~<>[](coStage = "unstaging")

\* NodeStageVolume does not fail for ever for an attached volume that has a
\* filesystem or may get one: half done calls, lost answers and a device that
\* appears late only delay it.
StageConverges ==
  ~<>[](/\ coStage = "staging" /\ coDev
        /\ ~(vol.noFormat /\ disk = "blank"))
=============================================================================
