-------------------------- MODULE NodeVolumeProofs --------------------------
(***************************************************************************)
(* Proofs about NodeVolume, for any number of target paths, failures,      *)
(* restarts and reboots.                                                   *)
(*                                                                         *)
(* Types and UnmountReplyTruthful hold however many handlers run beside    *)
(* each other.  What is mounted where is known when one runs at a time     *)
(* (OneSlot): the handlers take no lock, so what one has looked at stays   *)
(* true up to its next command only if no other acts meanwhile.            *)
(***************************************************************************)
EXTENDS NodeVolume, SequenceTheorems, TLAPS

-----------------------------------------------------------------------------
(* Any number of handlers at a time *)

\* A handler works on the path its request names, of the kind its operation has.
PathInv ==
  \A s \in Slots :
    call[s] # NoCall =>
      /\ call[s].op \in {"stage", "unstage"} => call[s].path = Staging
      /\ call[s].op \in {"publish", "unpublish"} => call[s].path \in Targets

NodeBase == NodeTypeOK /\ PathInv

\* No handler and no mount.
LEMMA InitNodeBase == NodeInit => NodeBase
<1> SUFFICES ASSUME NodeInit PROVE NodeBase
  OBVIOUS
<1>1. bound \in [Targets -> Seq({"volume", "directory"})]
  BY EmptySeq DEF NodeInit
<1>2. full \in BOOLEAN /\ staged \in BOOLEAN /\ coDev \in BOOLEAN /\ coGrow \in BOOLEAN
  BY DEF NodeInit
<1>3. disk \in {"blank", "formatted", "written"}
  BY DEF NodeInit
<1>4. nodeFails \in 0..MaxNodeFails
  BY NodeVolumeAssumption DEF NodeInit
<1> QED
  BY <1>1, <1>2, <1>3, <1>4 DEF NodeInit, NodeBase, NodeTypeOK, PathInv

\* A handler that goes on to its next command keeps its operation and path.
LEMMA GotoBase ==
  ASSUME NodeBase, NEW s \in Slots, NEW label \in Labels,
         call[s] # NoCall, NodeGoto(s, label), UNCHANGED vol
  PROVE  /\ call' \in [Slots -> Calls \cup {NoCall}]
         /\ PathInv'
         /\ UNCHANGED <<waiting, coVars>>
<1>1. call[s] \in Calls
  BY DEF NodeBase, NodeTypeOK
<1>2. call' = [call EXCEPT ![s] = [call[s] EXCEPT !.pc = label]]
  BY DEF NodeGoto
<1>3. [call[s] EXCEPT !.pc = label] \in Calls
  BY <1>1 DEF Calls
<1>4. /\ [call[s] EXCEPT !.pc = label].op = call[s].op
      /\ [call[s] EXCEPT !.pc = label].path = call[s].path
  BY <1>1 DEF Calls
<1> QED
  BY <1>2, <1>3, <1>4 DEF NodeBase, NodeTypeOK, PathInv, NodeGoto

\* A handler that ends leaves the CO in one of its states.
LEMMA FailureBase ==
  ASSUME NodeBase, NEW s \in Slots, NodeFailure(s)
  PROVE  /\ call' \in [Slots -> Calls \cup {NoCall}]
         /\ PathInv'
         /\ waiting' \in Slots \cup {NoCall}
         /\ UNCHANGED coVars
BY DEF NodeBase, NodeTypeOK, PathInv, NodeFailure, Return, coVars

LEMMA SuccessBase ==
  ASSUME NodeBase, NEW s \in Slots, call[s] # NoCall, NodeSuccess(s)
  PROVE  /\ call' \in [Slots -> Calls \cup {NoCall}]
         /\ PathInv'
         /\ waiting' \in Slots \cup {NoCall}
         /\ coDev' \in BOOLEAN
         /\ coStage' \in {"unstaged", "staging", "staged", "unstaging"}
         /\ coPod' \in [Targets -> {"none", "publishing", "published", "unpublishing"}]
         /\ coGrow' \in BOOLEAN
BY DEF NodeBase, NodeTypeOK, PathInv, NodeSuccess, Return

\* umount leaves a list of mounts.
LEMMA UmountType ==
  ASSUME NodeBase, NEW p \in Paths, IsMounted(p), Umount(p)
  PROVE  /\ staged' \in BOOLEAN
         /\ bound' \in [Targets -> Seq({"volume", "directory"})]
<1> DEFINE Kinds == {"volume", "directory"}
<1>1. ASSUME NEW q \in Seq(Kinds), q # <<>>
      PROVE  SubSeq(q, 1, Len(q) - 1) \in Seq(Kinds)
  <2>1. Len(q) \in Nat \ {0} /\ \A i \in 1..(Len(q) - 1) : q[i] \in Kinds
    BY <1>1, EmptySeq, LenProperties
  <2> QED
    BY <2>1, SubSeqProperties
<1>2. CASE p = Staging
  BY <1>2 DEF NodeBase, NodeTypeOK, Umount
<1>3. CASE p # Staging
  <2>1. p \in Targets /\ bound[p] # <<>> /\ bound[p] \in Seq(Kinds)
    BY <1>3 DEF NodeBase, NodeTypeOK, Paths, IsMounted
  <2>2. SubSeq(bound[p], 1, Len(bound[p]) - 1) \in Seq(Kinds)
    BY <2>1, <1>1
  <2>3. /\ bound' = [bound EXCEPT ![p] = SubSeq(bound[p], 1, Len(bound[p]) - 1)]
        /\ UNCHANGED staged
    BY <1>3 DEF Umount
  <2> QED
    BY <2>1, <2>2, <2>3 DEF NodeBase, NodeTypeOK
<1> QED
  BY <1>2, <1>3

\* Every command of a handler keeps NodeBase.
LEMMA HandlerBase ==
  ASSUME NodeBase, NEW s \in Slots, Handler(s) PROVE NodeBase'
<1>1. CASE StageIsAttached(s)
  BY <1>1, GotoBase, FailureBase
     DEF StageIsAttached, At, NodeBase, NodeTypeOK, Labels, diskVars, mountVars, coVars
<1>2. CASE StageIsFormatted(s)
  BY <1>2, GotoBase
     DEF StageIsFormatted, At, NodeBase, NodeTypeOK, Labels, diskVars, mountVars, coVars
<1>3. CASE StageFormat(s)
  <2>1. disk' \in {"blank", "formatted", "written"} /\ full' \in BOOLEAN
    BY <1>3 DEF StageFormat, NodeBase, NodeTypeOK
  <2>2. NodeGoto(s, "isMounted") \/ NodeFailure(s)
    BY <1>3 DEF StageFormat
  <2>3. call[s] # NoCall /\ UNCHANGED <<vol, dev, mountVars, nodeFails>>
    BY <1>3 DEF StageFormat, At
  <2> QED
    BY <2>1, <2>2, <2>3, GotoBase, FailureBase
       DEF NodeBase, NodeTypeOK, Labels, mountVars, coVars
<1>4. CASE StageIsMounted(s)
  BY <1>4, GotoBase
     DEF StageIsMounted, At, NodeBase, NodeTypeOK, Labels, diskVars, mountVars, coVars
<1>5. CASE StageMount(s)
  <2>1. staged' \in BOOLEAN
    BY <1>5 DEF StageMount, NodeBase, NodeTypeOK
  <2>2. NodeGoto(s, "resize") \/ NodeFailure(s)
    BY <1>5 DEF StageMount
  <2>3. call[s] # NoCall /\ UNCHANGED <<vol, diskVars, bound, nodeFails>>
    BY <1>5 DEF StageMount, At
  <2> QED
    BY <2>1, <2>2, <2>3, GotoBase, FailureBase
       DEF NodeBase, NodeTypeOK, Labels, diskVars, coVars
<1>6. CASE StageResize(s)
  BY <1>6, SuccessBase, FailureBase
     DEF StageResize, At, NodeBase, NodeTypeOK, diskVars, mountVars, coVars
<1>7. CASE UnstageIsMounted(s)
  BY <1>7, GotoBase, SuccessBase
     DEF UnstageIsMounted, At, NodeBase, NodeTypeOK, Labels, diskVars, mountVars, coVars
<1>8. ASSUME NEW op \in {"unstage", "unpublish"}, Unmount(s, op) PROVE NodeBase'
  <2>1. call[s] # NoCall /\ call[s].path \in Paths
    BY <1>8 DEF Unmount, At, NodeBase, NodeTypeOK, Calls
  <2>2. CASE IsMounted(call[s].path)
    <3>1. Umount(call[s].path) /\ NodeGoto(s, "cleanup")
      BY <1>8, <2>2 DEF Unmount
    <3> QED
      BY <1>8, <2>1, <2>2, <3>1, UmountType, GotoBase
         DEF Unmount, NodeBase, NodeTypeOK, Labels, diskVars, coVars
  <2>3. CASE ~IsMounted(call[s].path)
    BY <1>8, <2>1, <2>3, SuccessBase
       DEF Unmount, NodeBase, NodeTypeOK, diskVars, mountVars
  <2> QED
    BY <2>2, <2>3
<1>9. ASSUME NEW op \in {"unstage", "unpublish"}, Cleanup(s, op) PROVE NodeBase'
  BY <1>9, SuccessBase, FailureBase
     DEF Cleanup, At, NodeBase, NodeTypeOK, diskVars, mountVars, coVars
<1>10. CASE PublishResolve(s)
  BY <1>10, GotoBase, FailureBase
     DEF PublishResolve, At, NodeBase, NodeTypeOK, Labels, diskVars, mountVars, coVars
<1>11. CASE PublishIsMounted(s)
  BY <1>11, GotoBase, SuccessBase
     DEF PublishIsMounted, At, NodeBase, NodeTypeOK, Labels, diskVars, mountVars, coVars
<1>12. CASE PublishMount(s)
  <2>1. call[s] # NoCall /\ call[s].path \in Targets
    BY <1>12 DEF PublishMount, At, NodeBase, PathInv
  <2>2. ASSUME NEW what \in {"volume", "directory"}, Bind(call[s].path, what)
        PROVE  staged' \in BOOLEAN /\ bound' \in [Targets -> Seq({"volume", "directory"})]
    <3>1. Append(bound[call[s].path], what) \in Seq({"volume", "directory"})
      BY <2>1 DEF NodeBase, NodeTypeOK
    <3> QED
      BY <2>1, <2>2, <3>1 DEF Bind, NodeBase, NodeTypeOK
  <2> QED
    BY <1>12, <2>1, <2>2, SuccessBase, FailureBase
       DEF PublishMount, NodeBase, NodeTypeOK, diskVars, mountVars, coVars
<1>13. CASE ExpandIsMounted(s)
  BY <1>13, GotoBase, FailureBase
     DEF ExpandIsMounted, At, NodeBase, NodeTypeOK, Labels, diskVars, mountVars, coVars
<1>14. CASE ExpandResize(s)
  <2>1. full' \in BOOLEAN
    BY <1>14 DEF ExpandResize, NodeBase, NodeTypeOK
  <2>2. NodeSuccess(s) \/ NodeFailure(s)
    BY <1>14 DEF ExpandResize
  <2>3. call[s] # NoCall /\ UNCHANGED <<vol, dev, disk, mountVars, nodeFails>>
    BY <1>14 DEF ExpandResize, At
  <2> QED
    BY <2>1, <2>2, <2>3, SuccessBase, FailureBase
       DEF NodeBase, NodeTypeOK, mountVars, coVars
<1> QED
  BY <1>1, <1>2, <1>3, <1>4, <1>5, <1>6, <1>7, <1>8, <1>9, <1>10, <1>11, <1>12,
     <1>13, <1>14 DEF Handler

\* A call that starts works on its request's path.
LEMMA StartBase ==
  ASSUME NodeBase, NEW op, NEW p, NEW label, [op |-> op, path |-> p, pc |-> label] \in Calls,
         op \in {"stage", "unstage"} => p = Staging,
         op \in {"publish", "unpublish"} => p \in Targets,
         Start(op, p, label)
  PROVE  /\ call' \in [Slots -> Calls \cup {NoCall}]
         /\ PathInv'
         /\ waiting' \in Slots \cup {NoCall}
         /\ UNCHANGED <<vol, diskVars, mountVars, coDev, coGrow, nodeFails>>
<1>1. PICK s \in Slots :
        call' = [call EXCEPT ![s] = [op |-> op, path |-> p, pc |-> label]] /\ waiting' = s
  BY DEF Start
<1>2. UNCHANGED <<vol, diskVars, mountVars, coDev, coGrow, nodeFails>>
  BY DEF Start
<1> QED
  BY <1>1, <1>2 DEF NodeBase, NodeTypeOK, PathInv

\* Every step of the CO, every failure and every step of the volume keeps NodeBase.
LEMMA NextNodeBase == NodeBase /\ [NodeNext]_nodeVars => NodeBase'
<1> SUFFICES ASSUME NodeBase, [NodeNext]_nodeVars PROVE NodeBase'
  OBVIOUS
<1> USE NodeVolumeAssumption DEF diskVars, mountVars, coVars
<1>1. CASE StageCall
  <2>1. CASE AnswersAtOnce /\ coStage' = "staged" /\ UNCHANGED coGrow
    BY <1>1, <2>1 DEF StageCall, AnswersAtOnce, NodeBase, NodeTypeOK, PathInv
  <2>2. ASSUME NEW label \in Labels, Start("stage", Staging, label), coStage' = "staging"
        PROVE  NodeBase'
    <3>1. [op |-> "stage", path |-> Staging, pc |-> label] \in Calls
      BY DEF Calls, Paths
    <3> QED
      BY <1>1, <2>2, <3>1, StartBase DEF StageCall, NodeBase, NodeTypeOK
  <2> QED
    BY <1>1, <2>1, <2>2 DEF StageCall, Labels
<1>2. CASE UnstageCall
  <2>1. [op |-> "unstage", path |-> Staging, pc |-> "isMounted"] \in Calls
    BY DEF Calls, Paths, Labels
  <2> QED
    BY <1>2, <2>1, StartBase DEF UnstageCall, NodeBase, NodeTypeOK
<1>3. ASSUME NEW t \in Targets, NodePublishCall(t) PROVE NodeBase'
  <2>1. \A label \in Labels : [op |-> "publish", path |-> t, pc |-> label] \in Calls
    BY DEF Calls, Paths
  <2>2. (IF vol.block THEN "resolve" ELSE "isMounted") \in Labels
    BY DEF Labels
  <2> QED
    BY <1>3, <2>1, <2>2, StartBase DEF NodePublishCall, NodeBase, NodeTypeOK
<1>4. ASSUME NEW t \in Targets, NodeUnpublishCall(t) PROVE NodeBase'
  <2>1. [op |-> "unpublish", path |-> t, pc |-> "unmount"] \in Calls
    BY DEF Calls, Paths, Labels
  <2> QED
    BY <1>4, <2>1, StartBase DEF NodeUnpublishCall, NodeBase, NodeTypeOK
<1>5. ASSUME NEW t \in Targets, PodWrites(t) PROVE NodeBase'
  BY <1>5 DEF PodWrites, NodeBase, NodeTypeOK, PathInv
<1>6. ASSUME NEW p \in Paths, ExpandCall(p) PROVE NodeBase'
  <2>1. [op |-> "expand", path |-> p, pc |-> "isMounted"] \in Calls
    BY DEF Calls, Labels
  <2>2. CASE AnswersAtOnce /\ coGrow' = FALSE
    BY <1>6, <2>2 DEF ExpandCall, AnswersAtOnce, NodeBase, NodeTypeOK, PathInv
  <2>3. CASE Start("expand", p, "isMounted")
    BY <1>6, <2>1, <2>3, StartBase DEF ExpandCall, NodeBase, NodeTypeOK
  <2> QED
    BY <1>6, <2>2, <2>3 DEF ExpandCall
<1>7. ASSUME NEW s \in Slots, Handler(s) PROVE NodeBase'
  BY <1>7, HandlerBase
<1>8. ASSUME NEW s \in Slots, CommandFails(s) PROVE NodeBase'
  BY <1>8, FailureBase DEF CommandFails, Fail, NodeBase, NodeTypeOK
<1>9. CASE Abandon
  BY <1>9 DEF Abandon, Fail, NodeBase, NodeTypeOK, PathInv
<1>10. CASE DriverRestart
  BY <1>10 DEF DriverRestart, Fail, NodeBase, NodeTypeOK, PathInv
<1>11. CASE Reboot
  <2>1. bound' \in [Targets -> Seq({"volume", "directory"})]
    BY <1>11, EmptySeq DEF Reboot
  <2>2. call' \in [Slots -> Calls \cup {NoCall}] /\ PathInv'
    BY <1>11 DEF Reboot, PathInv
  <2>3. coPod' \in [Targets -> {"none", "publishing", "published", "unpublishing"}]
    BY <1>11 DEF Reboot
  <2>4. nodeFails' \in 0..MaxNodeFails
    BY <1>11 DEF Reboot, Fail, NodeBase, NodeTypeOK
  <2>5. staged' \in BOOLEAN
    BY <1>11 DEF Reboot
  <2> QED
    BY <1>11, <2>1, <2>2, <2>3, <2>4, <2>5 DEF Reboot, NodeBase, NodeTypeOK
<1>12. CASE Attach
  BY <1>12 DEF Attach, NodeBase, NodeTypeOK, PathInv
<1>13. CASE DeviceAppears
  BY <1>13 DEF DeviceAppears, NodeBase, NodeTypeOK, PathInv
<1>14. CASE Detach
  BY <1>14 DEF Detach, NodeBase, NodeTypeOK, PathInv
<1>15. CASE DeviceGone
  BY <1>15 DEF DeviceGone, NodeBase, NodeTypeOK, PathInv
<1>16. CASE UsedElsewhere
  BY <1>16 DEF UsedElsewhere, NodeBase, NodeTypeOK, PathInv
<1>17. CASE Grow
  BY <1>17 DEF Grow, NodeBase, NodeTypeOK, PathInv
<1>18. CASE UNCHANGED nodeVars
  BY <1>18 DEF nodeVars, NodeBase, NodeTypeOK, PathInv
<1> QED
  BY <1>1, <1>2, <1>3, <1>4, <1>5, <1>6, <1>7, <1>8, <1>9, <1>10, <1>11, <1>12,
     <1>13, <1>14, <1>15, <1>16, <1>17, <1>18 DEF NodeNext

\* NodeBase holds throughout.
LEMMA NodeBaseInvariant == NodeSpec => []NodeBase
<1>1. NodeInit => NodeBase
  BY InitNodeBase
<1>2. NodeBase /\ [NodeNext]_nodeVars => NodeBase'
  BY NextNodeBase
<1> QED
  BY <1>1, <1>2, PTL DEF NodeSpec

\* Every variable keeps its type, however many handlers run at the same time.
THEOREM NodeTypeCorrect == NodeSpec => []NodeTypeOK
<1>1. NodeBase => NodeTypeOK
  BY DEF NodeBase
<1> QED
  BY <1>1, NodeBaseInvariant, PTL

\* A handler that tells the CO of an unmounted path has just found nothing mounted
\* there.
LEMMA HandlerTells ==
  ASSUME NodeBase, NEW s \in Slots, Handler(s)
  PROVE  \/ UNCHANGED <<coStage, coPod>>
         \/ /\ call[s] # NoCall /\ NodeSuccess(s)
            /\ call[s].op \in {"unstage", "unpublish"} =>
                 ~IsMounted(call[s].path) /\ UNCHANGED mountVars
<1> USE DEF At, NodeGoto, NodeFailure, coVars
<1>1. CASE StageIsAttached(s) \/ StageIsFormatted(s) \/ StageFormat(s)
             \/ StageIsMounted(s) \/ StageMount(s) \/ PublishResolve(s)
             \/ ExpandIsMounted(s)
  BY <1>1 DEF StageIsAttached, StageIsFormatted, StageFormat, StageIsMounted,
       StageMount, PublishResolve, ExpandIsMounted
<1>2. CASE StageResize(s) \/ PublishIsMounted(s) \/ PublishMount(s) \/ ExpandResize(s)
  BY <1>2 DEF StageResize, PublishIsMounted, PublishMount, ExpandResize
<1>3. CASE UnstageIsMounted(s)
  BY <1>3 DEF UnstageIsMounted, NodeBase, PathInv
<1>4. ASSUME NEW op \in {"unstage", "unpublish"}, Unmount(s, op) \/ Cleanup(s, op)
      PROVE  \/ UNCHANGED <<coStage, coPod>>
             \/ /\ call[s] # NoCall /\ NodeSuccess(s)
                /\ ~IsMounted(call[s].path) /\ UNCHANGED mountVars
  BY <1>4 DEF Unmount, Cleanup
<1> QED
  BY <1>1, <1>2, <1>3, <1>4 DEF Handler

\* NodeUnpublishVolume and NodeUnstageVolume tell the truth at the moment they
\* answer, whatever orphans of earlier calls do beside them.
THEOREM UnmountTruthful == NodeSpec => UnmountReplyTruthful
<1> DEFINE Truthful ==
      /\ \A t \in Targets :
           coPod[t] = "unpublishing" /\ coPod'[t] = "none" => bound'[t] = <<>>
      /\ coStage = "unstaging" /\ coStage' = "unstaged" => ~staged'
<1>1. NodeBase /\ [NodeNext]_nodeVars => [Truthful]_nodeVars
  <2> SUFFICES ASSUME NodeBase, NodeNext PROVE Truthful
    BY Zenon
  <2> USE NodeVolumeAssumption DEF NodeBase, NodeTypeOK
  <2>1. ASSUME NEW s \in Slots, Handler(s) PROVE Truthful
    <3>1. CASE UNCHANGED <<coStage, coPod>>
      BY <3>1
    <3>2. CASE /\ call[s] # NoCall /\ NodeSuccess(s)
               /\ call[s].op \in {"unstage", "unpublish"} =>
                    ~IsMounted(call[s].path) /\ UNCHANGED mountVars
      <4>1. ASSUME NEW t \in Targets, coPod[t] = "unpublishing", coPod'[t] = "none"
            PROVE  call[s].op = "unpublish" /\ call[s].path = t
        BY <3>2, <4>1 DEF NodeSuccess, PathInv
      <4>2. ASSUME coStage = "unstaging", coStage' = "unstaged"
            PROVE  call[s].op = "unstage" /\ call[s].path = Staging
        BY <3>2, <4>2 DEF NodeSuccess, PathInv
      <4> QED
        BY <3>2, <4>1, <4>2 DEF IsMounted, mountVars
    <3> QED
      BY <2>1, <3>1, <3>2, HandlerTells
  <2>2. CASE UNCHANGED <<coStage, coPod>>
    BY <2>2
  <2>3. CASE Reboot
    BY <2>3 DEF Reboot
  <2>4. CASE StageCall \/ UnstageCall
    BY <2>4 DEF StageCall, UnstageCall
  <2>5. ASSUME NEW t \in Targets, NodePublishCall(t) \/ NodeUnpublishCall(t) PROVE Truthful
    BY <2>5 DEF NodePublishCall, NodeUnpublishCall
  <2>6. ASSUME NEW p \in Paths, ExpandCall(p) PROVE UNCHANGED <<coStage, coPod>>
    BY <2>6 DEF ExpandCall
  <2>7. ASSUME NEW s \in Slots, CommandFails(s) PROVE UNCHANGED <<coStage, coPod>>
    BY <2>7 DEF CommandFails, NodeFailure
  <2>8. ASSUME NEW t \in Targets, PodWrites(t) PROVE UNCHANGED <<coStage, coPod>>
    BY <2>8 DEF PodWrites, coVars
  <2>9. CASE Abandon \/ DriverRestart \/ Attach \/ DeviceAppears \/ Detach
               \/ DeviceGone \/ UsedElsewhere \/ Grow
    BY <2>9, <2>2 DEF Abandon, DriverRestart, Attach, DeviceAppears, Detach, DeviceGone,
         UsedElsewhere, Grow, coVars
  <2> QED
    BY <2>1, <2>2, <2>3, <2>4, <2>5, <2>6, <2>7, <2>8, <2>9 DEF NodeNext
<1> QED
  BY <1>1, NodeBaseInvariant, PTL DEF NodeSpec, UnmountReplyTruthful

-----------------------------------------------------------------------------
(* One handler at a time *)

OneSlot == \A r, s \in Slots : r = s

\* The CO has the volume attached from before it stages it until it has unstaged
\* it, and publishes only what is staged.
COInv ==
  /\ coStage # "unstaged" => coDev
  /\ coStage # "staged" => Unused

\* A handler runs for what the CO wants at this time, orphan or not; only an
\* unstage of a block volume may be overtaken, by a stage that is answered at
\* once.
CallerInv ==
  \A s \in Slots :
    call[s] # NoCall =>
      LET c == call[s]
      IN  /\ c.op = "stage" => coStage = "staging" /\ ~vol.block
          /\ c.op = "unstage" => coStage = "unstaging" \/ (vol.block /\ waiting # s)
          /\ c.op = "publish" => coPod[c.path] = "publishing"
          /\ c.op = "unpublish" => coPod[c.path] = "unpublishing"
          /\ c.op = "expand" =>
               /\ ~vol.block
               /\ coStage = "staged"
               /\ c.path # Staging => coPod[c.path] = "published"

\* The staging path: mounted when the CO has the volume staged, not mounted when
\* it has it unstaged, and only while the device is there.
StagedInv ==
  /\ staged => ~vol.block /\ dev # "absent"
  /\ coStage = "unstaged" => ~staged
  /\ coStage = "staged" => staged \/ vol.block

\* The target paths: the volume, once and only while the device is there, or
\* nothing.
BoundInv ==
  \A t \in Targets :
    /\ bound[t] \in {<<>>, <<"volume">>}
    /\ bound[t] # <<>> => dev # "absent"
    /\ coPod[t] = "none" => bound[t] = <<>>
    /\ coPod[t] = "published" => bound[t] = <<"volume">>

\* What a handler has found out holds until it acts on it.
CheckedInv ==
  \A s \in Slots :
    call[s] # NoCall =>
      /\ call[s].op = "stage" /\ call[s].pc = "resize" => staged
      /\ call[s].op = "publish" /\ call[s].pc = "mount" => bound[call[s].path] = <<>>

NodeInv == NodeBase /\ COInv /\ CallerInv /\ StagedInv /\ BoundInv /\ CheckedInv /\ StagedSpansDevice

\* From IsAttached on the device is there; at the mkfs it is still blank.
FormatInv ==
  \A s \in Slots :
    call[s] # NoCall /\ call[s].op = "stage" =>
      /\ call[s].pc \in {"isFormatted", "format"} => dev # "absent"
      /\ call[s].pc = "format" => disk = "blank"

\* No handler, nothing mounted, and the CO is done with every path.
LEMMA InitNodeInv == NodeInit => NodeInv /\ FormatInv
BY InitNodeBase
   DEF NodeInit, NodeInv, COInv, CallerInv, StagedInv, BoundInv, CheckedInv,
  StagedSpansDevice, FormatInv, Unused

\* A path has nothing mounted, one volume is mounted there, and it is taken away.
LEMMA OneMount ==
  /\ <<"volume">> # <<>>
  /\ Append(<<>>, "volume") = <<"volume">>
  /\ SubSeq(<<"volume">>, 1, Len(<<"volume">>) - 1) = <<>>
  /\ Len(<<"volume">>) = 1 /\ <<"volume">>[1] = "volume"
<1>1. Len(<<"volume">>) = 1
  OBVIOUS
<1>2. SubSeq(<<"volume">>, 1, 0) = <<>>
  BY SubSeqEmpty
<1> QED
  BY <1>1, <1>2

\* When the only handler ends there is none.
LEMMA Ended ==
  ASSUME OneSlot, NodeBase, NEW s \in Slots, Return(s)
  PROVE  CallerInv' /\ CheckedInv' /\ FormatInv'
<1>1. \A r \in Slots : call'[r] = NoCall
  BY DEF OneSlot, NodeBase, NodeTypeOK, Return
<1> QED
  BY <1>1 DEF CallerInv, CheckedInv, FormatInv

\* When the only handler goes on it has its operation and path.
LEMMA Continues ==
  ASSUME OneSlot, NodeBase, NEW s \in Slots, NEW label \in Labels, call[s] # NoCall,
         NodeGoto(s, label)
  PROVE  /\ \A r \in Slots :
              r = s /\ call'[r].pc = label
                    /\ call'[r].op = call[s].op /\ call'[r].path = call[s].path
         /\ UNCHANGED <<waiting, coVars>>
<1>1. call[s] \in Calls
  BY DEF NodeBase, NodeTypeOK
<1>2. call' = [call EXCEPT ![s] = [call[s] EXCEPT !.pc = label]]
  BY DEF NodeGoto
<1>3. call'[s] = [call[s] EXCEPT !.pc = label]
  BY <1>2 DEF NodeBase, NodeTypeOK
<1> QED
  BY <1>1, <1>3 DEF OneSlot, Calls, NodeGoto

\* A handler that only looks and goes on changes nothing but its own place.
LEMMA LooksOn ==
  ASSUME OneSlot, NodeInv, NEW s \in Slots, NEW label \in Labels, call[s] # NoCall,
         NodeGoto(s, label), UNCHANGED vol
  PROVE  COInv' /\ CallerInv'
<1>1. NodeBase
  BY DEF NodeInv
<1> QED
  BY <1>1, Continues DEF NodeInv, COInv, CallerInv, Unused, coVars

\* A handler that fails leaves the CO where it was.
LEMMA Fails ==
  ASSUME OneSlot, NodeInv, NEW s \in Slots, NodeFailure(s),
         UNCHANGED <<vol, dev, full, mountVars>>
  PROVE  NodeBase' => NodeInv'
<1>1. CallerInv' /\ CheckedInv'
  BY Ended DEF NodeInv, NodeFailure
<1>2. UNCHANGED coVars
  BY DEF NodeFailure, Return, coVars
<1> QED
  BY <1>1, <1>2
     DEF NodeInv, COInv, StagedInv, BoundInv, StagedSpansDevice, Unused, coVars, mountVars

\* Every command of the only handler keeps NodeInv.
LEMMA HandlerInv ==
  ASSUME OneSlot, NodeInv, NEW s \in Slots, Handler(s) PROVE NodeInv'
<1>1. NodeBase' /\ NodeBase
  BY HandlerBase DEF NodeInv
<1> USE <1>1, NodeVolumeAssumption DEF NodeInv, At, diskVars, mountVars, Labels
<1>2. ASSUME NEW label \in Labels, call[s] # NoCall, NodeGoto(s, label),
             UNCHANGED <<vol, dev, mountVars>>, full' = full \/ full' = TRUE,
             CheckedInv'
      PROVE  NodeInv'
  <2>1. COInv' /\ CallerInv' /\ UNCHANGED coVars
    BY <1>2, LooksOn DEF NodeGoto
  <2> QED
    BY <1>2, <2>1 DEF StagedInv, BoundInv, StagedSpansDevice, coVars
<1>3. CASE StageIsAttached(s)
  <2>1. CASE NodeGoto(s, "isFormatted")
    BY <1>2, <1>3, <2>1, Continues DEF StageIsAttached, CheckedInv
  <2> QED
    BY <1>3, <2>1, Fails DEF StageIsAttached
<1>4. CASE StageIsFormatted(s)
  BY <1>2, <1>4, Continues DEF StageIsFormatted, CheckedInv
<1>5. CASE StageFormat(s)
  <2>1. CASE NodeGoto(s, "isMounted")
    BY <1>2, <1>5, <2>1, Continues DEF StageFormat, CheckedInv
  <2> QED
    BY <1>5, <2>1, Fails DEF StageFormat
<1>6. CASE StageIsMounted(s)
  BY <1>2, <1>6, Continues DEF StageIsMounted, CheckedInv, IsMounted
<1>7. CASE StageMount(s)
  <2>1. CASE /\ dev # "absent" /\ staged' = TRUE /\ NodeGoto(s, "resize")
    <3>1. coStage = "staging" /\ ~vol.block
      BY <1>7 DEF StageMount, CallerInv
    <3>2. COInv' /\ CallerInv' /\ UNCHANGED coVars
      BY <1>7, <2>1, LooksOn DEF NodeGoto, StageMount
    <3>3. CheckedInv'
      BY <1>7, <2>1, Continues DEF StageMount, CheckedInv
    <3> QED
      BY <1>7, <2>1, <3>1, <3>2, <3>3
         DEF StageMount, StagedInv, BoundInv, StagedSpansDevice, coVars
  <2> QED
    BY <1>7, <2>1, Fails DEF StageMount
<1>8. CASE StageResize(s)
  <2>1. staged /\ dev # "absent" /\ coStage = "staging" /\ ~vol.block
    BY <1>8 DEF StageResize, CallerInv, CheckedInv, StagedInv
  <2>2. full' = TRUE /\ NodeSuccess(s) /\ UNCHANGED <<vol, dev, disk, staged, bound, nodeFails>>
    BY <1>8, <2>1 DEF StageResize
  <2>3. CallerInv' /\ CheckedInv'
    BY <2>2, Ended DEF NodeSuccess
  <2>4. coStage' \in {"staged", coStage} /\ UNCHANGED <<coPod, coDev>>
    BY <1>8, <2>2 DEF StageResize, NodeSuccess, Return
  <2> QED
    BY <2>1, <2>2, <2>3, <2>4 DEF COInv, StagedInv, BoundInv, StagedSpansDevice, Unused
<1>9. ASSUME call[s] # NoCall, call[s].op = "unstage", ~staged, NodeSuccess(s),
             UNCHANGED <<vol, dev, disk, full, staged, bound, nodeFails>>
      PROVE  NodeInv'
  <2>1. CallerInv' /\ CheckedInv'
    BY <1>9, Ended DEF NodeSuccess
  <2>2. \/ coStage = "unstaging" /\ coStage' \in {"unstaged", coStage}
        \/ UNCHANGED coStage
    BY <1>9 DEF NodeSuccess, CallerInv
  <2>3. UNCHANGED <<coPod, coDev>> /\ (coGrow' <=> coGrow)
    BY <1>9 DEF NodeSuccess, Return
  <2> QED
    BY <1>9, <2>1, <2>2, <2>3 DEF COInv, StagedInv, BoundInv, StagedSpansDevice, Unused
<1>10. CASE UnstageIsMounted(s)
  <2>1. CASE NodeGoto(s, "unmount")
    BY <1>2, <1>10, <2>1, Continues DEF UnstageIsMounted, CheckedInv
  <2> QED
    BY <1>9, <1>10, <2>1 DEF UnstageIsMounted, IsMounted
<1>11. ASSUME call[s] # NoCall, call[s].op = "unpublish", bound[call[s].path] = <<>>,
              NodeSuccess(s), UNCHANGED <<vol, dev, disk, full, staged, bound, nodeFails>>
       PROVE  NodeInv'
  <2>1. CallerInv' /\ CheckedInv'
    BY <1>11, Ended DEF NodeSuccess
  <2>2. call[s].path \in Targets /\ coPod[call[s].path] = "unpublishing"
    BY <1>11 DEF NodeBase, PathInv, CallerInv
  <2>3. coPod' \in {coPod, [coPod EXCEPT ![call[s].path] = "none"]}
    BY <1>11 DEF NodeSuccess
  <2>4. UNCHANGED <<coStage, coDev>> /\ (coGrow' <=> coGrow)
    BY <1>11 DEF NodeSuccess, Return
  <2> QED
    BY <1>11, <2>1, <2>2, <2>3, <2>4
       DEF COInv, StagedInv, BoundInv, StagedSpansDevice, Unused, NodeBase, NodeTypeOK
<1>12. ASSUME NEW op \in {"unstage", "unpublish"}, Unmount(s, op) PROVE NodeInv'
  <2>1. call[s] # NoCall /\ call[s].op = op
    BY <1>12 DEF Unmount
  <2>2. CASE ~IsMounted(call[s].path)
    BY <1>9, <1>11, <1>12, <2>1, <2>2 DEF Unmount, IsMounted, NodeBase, PathInv
  <2>3. CASE IsMounted(call[s].path) /\ op = "unstage"
    <3>1. /\ staged' = FALSE /\ UNCHANGED bound
          /\ NodeGoto(s, "cleanup") /\ UNCHANGED <<vol, diskVars, nodeFails>>
      BY <1>12, <2>1, <2>3 DEF Unmount, Umount, NodeBase, PathInv
    <3>2. staged /\ ~vol.block /\ coStage = "unstaging"
      BY <2>1, <2>3 DEF IsMounted, NodeBase, PathInv, StagedInv, CallerInv
    <3>3. COInv' /\ CallerInv' /\ UNCHANGED coVars
      BY <2>1, <3>1, LooksOn DEF NodeGoto
    <3>4. CheckedInv'
      BY <2>1, <2>3, <3>1, Continues DEF CheckedInv
    <3> QED
      BY <3>1, <3>2, <3>3, <3>4 DEF StagedInv, BoundInv, StagedSpansDevice, coVars
  <2>4. CASE IsMounted(call[s].path) /\ op = "unpublish"
    <3> DEFINE t == call[s].path
    <3>1. t \in Targets /\ t # Staging /\ coPod[t] = "unpublishing"
      BY <2>1, <2>4 DEF NodeBase, PathInv, CallerInv
    <3>2. bound[t] = <<"volume">>
      BY <2>4, <3>1 DEF IsMounted, BoundInv
    <3>3. /\ bound' = [bound EXCEPT ![t] = <<>>] /\ UNCHANGED staged
          /\ NodeGoto(s, "cleanup") /\ UNCHANGED <<vol, diskVars, nodeFails>>
      BY <1>12, <2>4, <3>1, <3>2, OneMount DEF Unmount, Umount
    <3>4. COInv' /\ CallerInv' /\ UNCHANGED coVars
      BY <2>1, <3>3, LooksOn DEF NodeGoto
    <3>5. CheckedInv'
      BY <2>1, <2>4, <3>3, Continues DEF CheckedInv
    <3>6. BoundInv'
      BY <3>1, <3>3, <3>4 DEF BoundInv, NodeBase, NodeTypeOK, coVars
    <3> QED
      BY <3>3, <3>4, <3>5, <3>6 DEF StagedInv, StagedSpansDevice, coVars
  <2> QED
    BY <2>2, <2>3, <2>4
<1>13. ASSUME NEW op \in {"unstage", "unpublish"}, Cleanup(s, op) PROVE NodeInv'
  <2>1. CASE NodeFailure(s)
    BY <1>13, <2>1, Fails DEF Cleanup
  <2>2. CASE NodeSuccess(s) /\ ~IsMounted(call[s].path)
    BY <1>9, <1>11, <1>13, <2>2 DEF Cleanup, IsMounted, NodeBase, PathInv
  <2> QED
    BY <1>13, <2>1, <2>2 DEF Cleanup
<1>14. CASE PublishResolve(s)
  <2>1. CASE NodeGoto(s, "isMounted")
    BY <1>2, <1>14, <2>1, Continues DEF PublishResolve, CheckedInv
  <2> QED
    BY <1>14, <2>1, Fails DEF PublishResolve
<1>15. ASSUME call[s] # NoCall, call[s].op = "publish", bound'[call[s].path] = <<"volume">>,
              dev # "absent", NodeSuccess(s), BoundInv,
              \A t \in Targets : t # call[s].path => bound'[t] = bound[t],
              UNCHANGED <<vol, dev, disk, full, staged, nodeFails>>
       PROVE  NodeInv'
  <2>1. CallerInv' /\ CheckedInv'
    BY <1>15, Ended DEF NodeSuccess
  <2>2. call[s].path \in Targets /\ coPod[call[s].path] = "publishing"
    BY <1>15 DEF NodeBase, PathInv, CallerInv
  <2>3. coPod' \in {coPod, [coPod EXCEPT ![call[s].path] = "published"]}
    BY <1>15 DEF NodeSuccess
  <2>4. UNCHANGED <<coStage, coDev>> /\ (coGrow' <=> coGrow)
    BY <1>15 DEF NodeSuccess, Return
  <2>5. coStage = "staged"
    BY <2>2 DEF COInv, Unused
  <2>6. BoundInv'
    <3> SUFFICES ASSUME NEW t \in Targets
                 PROVE  /\ bound'[t] \in {<<>>, <<"volume">>}
                        /\ bound'[t] # <<>> => dev' # "absent"
                        /\ coPod'[t] = "none" => bound'[t] = <<>>
                        /\ coPod'[t] = "published" => bound'[t] = <<"volume">>
      BY DEF BoundInv
    <3>1. CASE t = call[s].path
      BY <1>15, <2>2, <2>3, <3>1 DEF NodeBase, NodeTypeOK
    <3>2. CASE t # call[s].path
      <4>1. coPod'[t] = coPod[t] /\ bound'[t] = bound[t] /\ UNCHANGED dev
        BY <1>15, <2>2, <2>3, <3>2 DEF NodeBase, NodeTypeOK
      <4> QED
        BY <4>1 DEF BoundInv
    <3> QED
      BY <3>1, <3>2
  <2> QED
    BY <1>15, <2>1, <2>4, <2>5, <2>6 DEF COInv, StagedInv, StagedSpansDevice
<1>16. CASE PublishIsMounted(s)
  <2>1. call[s] # NoCall /\ call[s].op = "publish" /\ call[s].path \in Targets
    BY <1>16 DEF PublishIsMounted, NodeBase, PathInv
  <2>2. CASE IsMounted(call[s].path)
    BY <1>15, <1>16, <2>1, <2>2 DEF PublishIsMounted, IsMounted, BoundInv
  <2>3. CASE ~IsMounted(call[s].path)
    BY <1>2, <1>16, <2>1, <2>3, Continues DEF PublishIsMounted, IsMounted, CheckedInv
  <2> QED
    BY <2>2, <2>3
<1>17. CASE PublishMount(s)
  <2>1. /\ call[s] # NoCall /\ call[s].op = "publish" /\ call[s].path \in Targets
        /\ bound[call[s].path] = <<>> /\ coPod[call[s].path] = "publishing"
    BY <1>17 DEF PublishMount, NodeBase, PathInv, CheckedInv, CallerInv
  <2>2. staged \/ vol.block
    BY <2>1 DEF COInv, Unused, StagedInv
  <2>3. CASE NodeFailure(s) /\ UNCHANGED mountVars
    BY <1>17, <2>3, Fails DEF PublishMount
  <2>4. CASE /\ IF vol.block THEN dev # "absent" ELSE staged
             /\ Bind(call[s].path, "volume") /\ NodeSuccess(s)
    <3>1. bound' = [bound EXCEPT ![call[s].path] = <<"volume">>] /\ UNCHANGED staged
      BY <2>1, <2>4, OneMount DEF Bind
    <3>2. dev # "absent"
      BY <2>4 DEF StagedInv
    <3> QED
      BY <1>15, <1>17, <2>1, <2>4, <3>1, <3>2 DEF PublishMount, NodeBase, NodeTypeOK
  <2> QED
    BY <1>17, <2>2, <2>3, <2>4 DEF PublishMount
<1>18. CASE ExpandIsMounted(s)
  <2>1. CASE NodeGoto(s, "resize")
    BY <1>2, <1>18, <2>1, Continues DEF ExpandIsMounted, CheckedInv
  <2> QED
    BY <1>18, <2>1, Fails DEF ExpandIsMounted
<1>19. CASE ExpandResize(s)
  <2>1. call[s] # NoCall /\ call[s].op = "expand" /\ ShowsVolume(call[s].path)
    <3>1. /\ call[s] # NoCall /\ call[s].op = "expand" /\ call[s].path \in Paths
          /\ coStage = "staged" /\ ~vol.block
          /\ call[s].path # Staging => coPod[call[s].path] = "published"
      BY <1>19 DEF ExpandResize, CallerInv, NodeBase, NodeTypeOK, Calls
    <3>2. CASE call[s].path = Staging
      BY <3>1, <3>2 DEF StagedInv, ShowsVolume
    <3>3. CASE call[s].path # Staging
      BY <3>1, <3>3, OneMount DEF BoundInv, ShowsVolume, Paths
    <3> QED
      BY <3>1, <3>2, <3>3
  <2>2. IsMounted(call[s].path)
    BY <2>1 DEF ShowsVolume, IsMounted
  <2>3. full' = TRUE /\ NodeSuccess(s) /\ UNCHANGED <<vol, dev, disk, staged, bound, nodeFails>>
    BY <1>19, <2>1, <2>2 DEF ExpandResize
  <2>4. CallerInv' /\ CheckedInv'
    BY <2>3, Ended DEF NodeSuccess
  <2>5. UNCHANGED <<coStage, coPod, coDev>>
    BY <2>1, <2>3 DEF NodeSuccess, Return
  <2> QED
    BY <2>3, <2>4, <2>5 DEF COInv, StagedInv, BoundInv, StagedSpansDevice, Unused
<1> QED
  BY <1>3, <1>4, <1>5, <1>6, <1>7, <1>8, <1>10, <1>12, <1>13, <1>14, <1>16, <1>17,
     <1>18, <1>19 DEF Handler

\* A call starts only when no handler runs; it is then the only one.
LEMMA Started ==
  ASSUME OneSlot, NodeBase, NEW op, NEW p, NEW label, Start(op, p, label)
  PROVE  /\ \A s \in Slots : call'[s] = [op |-> op, path |-> p, pc |-> label]
         /\ UNCHANGED <<vol, dev, disk, full, staged, bound, coDev, coGrow, nodeFails>>
<1>1. PICK s \in Slots : call' = [call EXCEPT ![s] = [op |-> op, path |-> p, pc |-> label]]
  BY DEF Start
<1>2. \A r \in Slots : r = s
  BY DEF OneSlot
<1> QED
  BY <1>1, <1>2 DEF NodeBase, NodeTypeOK, Start, diskVars, mountVars

\* Every step of the CO, of the only handler, of failures and of the volume keeps
\* NodeInv.
LEMMA NextNodeInv ==
  ASSUME OneSlot, NodeInv, [NodeNext]_nodeVars PROVE NodeInv'
<1>1. NodeBase /\ NodeBase'
  BY NextNodeBase DEF NodeInv
<1> USE <1>1, NodeVolumeAssumption DEF NodeInv, diskVars, mountVars, coVars
<1>2. CASE StageCall
  <2>1. CASE AnswersAtOnce /\ coStage' = "staged" /\ UNCHANGED coGrow
    <3>1. /\ vol.block /\ waiting = NoCall /\ coDev /\ coStage # "staged" /\ Unused
          /\ UNCHANGED <<vol, dev, disk, full, staged, bound, call, waiting, coDev,
                         coPod, nodeFails>>
      BY <1>2, <2>1 DEF StageCall, AnswersAtOnce
    <3>2. CallerInv'
      BY <2>1, <3>1 DEF CallerInv
    <3> QED
      BY <2>1, <3>1, <3>2 DEF COInv, StagedInv, BoundInv, CheckedInv, StagedSpansDevice
  <2>2. ASSUME NEW label \in {"isMounted", "isAttached", "isFormatted"}, ~vol.block,
               Start("stage", Staging, label), coStage' = "staging"
        PROVE  NodeInv'
    <3>1. coDev /\ Unused /\ coStage # "staged" /\ UNCHANGED coPod
      BY <1>2 DEF StageCall
    <3>2. /\ \A s \in Slots : call'[s] = [op |-> "stage", path |-> Staging, pc |-> label]
          /\ UNCHANGED <<vol, dev, disk, full, staged, bound, coDev, coGrow, nodeFails>>
      BY <2>2, Started
    <3> QED
      BY <2>2, <3>1, <3>2 DEF COInv, CallerInv, StagedInv, BoundInv, CheckedInv,
        StagedSpansDevice, Unused
  <2> QED
    BY <1>2, <2>1, <2>2 DEF StageCall
<1>3. CASE UnstageCall
  <2>1. coStage # "unstaged" /\ Unused /\ coStage' = "unstaging" /\ UNCHANGED coPod
    BY <1>3 DEF UnstageCall
  <2>2. /\ \A s \in Slots : call'[s] = [op |-> "unstage", path |-> Staging, pc |-> "isMounted"]
        /\ UNCHANGED <<vol, dev, disk, full, staged, bound, coDev, coGrow, nodeFails>>
    BY <1>3, Started DEF UnstageCall
  <2> QED
    BY <2>1, <2>2 DEF COInv, CallerInv, StagedInv, BoundInv, CheckedInv,
      StagedSpansDevice, Unused
<1>4. ASSUME NEW t \in Targets, NodePublishCall(t) PROVE NodeInv'
  <2>1. /\ coStage = "staged" /\ coPod[t] \in {"none", "publishing"} /\ UNCHANGED coStage
        /\ coPod' = [coPod EXCEPT ![t] = "publishing"]
    BY <1>4 DEF NodePublishCall
  <2>2. PICK label \in {"resolve", "isMounted"} : Start("publish", t, label)
    BY <1>4 DEF NodePublishCall
  <2>3. /\ \A s \in Slots : call'[s] = [op |-> "publish", path |-> t, pc |-> label]
        /\ UNCHANGED <<vol, dev, disk, full, staged, bound, coDev, coGrow, nodeFails>>
    BY <2>2, Started
  <2>4. coPod'[t] = "publishing" /\ \A u \in Targets : u # t => coPod'[u] = coPod[u]
    BY <2>1 DEF NodeBase, NodeTypeOK
  <2> QED
    BY <2>1, <2>3, <2>4 DEF COInv, CallerInv, StagedInv, BoundInv, CheckedInv,
      StagedSpansDevice
<1>5. ASSUME NEW t \in Targets, NodeUnpublishCall(t) PROVE NodeInv'
  <2>1. /\ coPod[t] # "none" /\ UNCHANGED coStage
        /\ coPod' = [coPod EXCEPT ![t] = "unpublishing"]
    BY <1>5 DEF NodeUnpublishCall
  <2>2. /\ \A s \in Slots : call'[s] = [op |-> "unpublish", path |-> t, pc |-> "unmount"]
        /\ UNCHANGED <<vol, dev, disk, full, staged, bound, coDev, coGrow, nodeFails>>
    BY <1>5, Started DEF NodeUnpublishCall
  <2>3. coPod'[t] = "unpublishing" /\ \A u \in Targets : u # t => coPod'[u] = coPod[u]
    BY <2>1 DEF NodeBase, NodeTypeOK
  <2>4. coStage = "staged"
    BY <2>1 DEF COInv, Unused
  <2> QED
    BY <2>1, <2>2, <2>3, <2>4 DEF COInv, CallerInv, StagedInv, BoundInv, CheckedInv,
      StagedSpansDevice
<1>6. ASSUME NEW t \in Targets, PodWrites(t) PROVE NodeInv'
  BY <1>6 DEF PodWrites, COInv, CallerInv, StagedInv, BoundInv, CheckedInv,
    StagedSpansDevice, Unused
<1>7. ASSUME NEW p \in Paths, ExpandCall(p) PROVE NodeInv'
  <2>1. coStage = "staged" /\ (p # Staging => coPod[p] = "published")
    BY <1>7 DEF ExpandCall
  <2>2. UNCHANGED <<coStage, coPod>>
    BY <1>7 DEF ExpandCall
  <2>3. CASE AnswersAtOnce /\ coGrow' = FALSE
    BY <2>2, <2>3 DEF AnswersAtOnce, COInv, CallerInv, StagedInv, BoundInv, CheckedInv,
      StagedSpansDevice, Unused
  <2>4. CASE ~vol.block /\ Start("expand", p, "isMounted")
    <3>1. /\ \A s \in Slots : call'[s] = [op |-> "expand", path |-> p, pc |-> "isMounted"]
          /\ UNCHANGED <<vol, dev, disk, full, staged, bound, coDev, coGrow, nodeFails>>
      BY <2>4, Started
    <3> QED
      BY <2>1, <2>2, <2>4, <3>1 DEF COInv, CallerInv, StagedInv, BoundInv, CheckedInv,
        StagedSpansDevice, Unused
  <2> QED
    BY <1>7, <2>3, <2>4 DEF ExpandCall
<1>8. ASSUME NEW s \in Slots, Handler(s) PROVE NodeInv'
  BY <1>8, HandlerInv
<1>9. ASSUME NEW s \in Slots, CommandFails(s) PROVE NodeInv'
  BY <1>9, Fails DEF CommandFails
<1>10. CASE Abandon
  BY <1>10 DEF Abandon, COInv, CallerInv, StagedInv, BoundInv, CheckedInv,
    StagedSpansDevice, Unused
<1>11. CASE DriverRestart
  BY <1>11 DEF DriverRestart, COInv, CallerInv, StagedInv, BoundInv, CheckedInv,
    StagedSpansDevice, Unused
<1>12. CASE Reboot
  BY <1>12 DEF Reboot, COInv, CallerInv, StagedInv, BoundInv, CheckedInv,
    StagedSpansDevice, Unused
<1>13. CASE Attach
  BY <1>13 DEF Attach, COInv, CallerInv, StagedInv, BoundInv, CheckedInv,
    StagedSpansDevice, Unused
<1>14. CASE DeviceAppears
  BY <1>14 DEF DeviceAppears, COInv, CallerInv, StagedInv, BoundInv, CheckedInv,
    StagedSpansDevice, Unused
<1>15. CASE Detach
  BY <1>15 DEF Detach, COInv, CallerInv, StagedInv, BoundInv, CheckedInv,
    StagedSpansDevice, Unused
<1>16. CASE DeviceGone
  BY <1>16 DEF DeviceGone, COInv, CallerInv, StagedInv, BoundInv, CheckedInv,
    StagedSpansDevice, Unused
<1>17. CASE UsedElsewhere
  BY <1>17 DEF UsedElsewhere, COInv, CallerInv, StagedInv, BoundInv, CheckedInv,
    StagedSpansDevice, Unused
<1>18. CASE Grow
  BY <1>18 DEF Grow, COInv, CallerInv, StagedInv, BoundInv, CheckedInv,
    StagedSpansDevice, Unused
<1>19. CASE UNCHANGED nodeVars
  BY <1>19 DEF nodeVars, COInv, CallerInv, StagedInv, BoundInv, CheckedInv,
    StagedSpansDevice, Unused
<1> QED
  BY <1>2, <1>3, <1>4, <1>5, <1>6, <1>7, <1>8, <1>9, <1>10, <1>11, <1>12, <1>13,
     <1>14, <1>15, <1>16, <1>17, <1>18, <1>19 DEF NodeNext

\* NodeInv holds throughout when one handler runs at a time.
LEMMA NodeInvariant == ASSUME OneSlot PROVE NodeSpec => []NodeInv
<1>1. NodeInit => NodeInv
  BY InitNodeInv
<1>2. NodeInv /\ [NodeNext]_nodeVars => NodeInv'
  BY NextNodeInv
<1> QED
  BY <1>1, <1>2, PTL DEF NodeSpec

\* A pod whose publish succeeded sees its volume, once, on top of a staging mount
\* that is still there.
THEOREM PublishedSees ==
  ASSUME OneSlot PROVE NodeSpec => []PublishedSeesVolume
<1>1. NodeInv => PublishedSeesVolume
  BY DEF NodeInv, BoundInv, StagedInv, COInv, Unused, PublishedSeesVolume
<1> QED
  BY <1>1, NodeInvariant, PTL

\* A path the CO is done with has nothing mounted; an unstaged volume is not in
\* use anywhere on the node.
THEOREM UnusedUnmounted ==
  ASSUME OneSlot PROVE NodeSpec => []UnusedIsUnmounted
<1>1. NodeInv => UnusedIsUnmounted
  <2> SUFFICES ASSUME NodeInv PROVE UnusedIsUnmounted
    OBVIOUS
  <2>1. \A t \in Targets : coPod[t] = "none" => bound[t] = <<>>
    BY DEF NodeInv, BoundInv
  <2>2. ASSUME coStage = "unstaged" PROVE ~InUse
    <3>1. ~staged /\ \A t \in Targets : bound[t] = <<>>
      BY <2>1, <2>2 DEF NodeInv, StagedInv, COInv, Unused
    <3>2. Len(<<>>) = 0
      BY EmptySeq
    <3> QED
      BY <3>1, <3>2 DEF InUse
  <2> QED
    BY <2>1, <2>2 DEF UnusedIsUnmounted
<1> QED
  BY <1>1, NodeInvariant, PTL

\* A volume that is in use on the node has its device: it does not leave while
\* the volume is mounted at the staging path or for a pod.
LEMMA InUseHasDevice == NodeInv => (InUse => dev # "absent")
<1> SUFFICES ASSUME NodeInv, InUse PROVE dev # "absent"
  OBVIOUS
<1>1. Len(<<>>) = 0
  BY EmptySeq
<1>2. staged \/ \E t \in Targets : bound[t] # <<>>
  BY <1>1 DEF InUse
<1> QED
  BY <1>2 DEF NodeInv, StagedInv, BoundInv

\* A staged filesystem fills its device, or an expansion is still to come.
THEOREM StagedSpans ==
  ASSUME OneSlot PROVE NodeSpec => []StagedSpansDevice
<1>1. NodeInv => StagedSpansDevice
  BY DEF NodeInv
<1> QED
  BY <1>1, NodeInvariant, PTL

\* With attachment validation the device that IsFormatted looks at and mkfs
\* formats is there, and blank.
LEMMA NextFormat ==
  ASSUME OneSlot, ValidateAttachment, NodeInv, FormatInv, [NodeNext]_nodeVars PROVE FormatInv'
<1>1. NodeBase
  BY DEF NodeInv
<1> USE <1>1 DEF diskVars, mountVars, coVars
<1>2. ASSUME NEW s \in Slots, Handler(s) PROVE FormatInv'
  <2> USE DEF At, Labels
  <2>1. ASSUME Return(s) PROVE FormatInv'
    BY <2>1, Ended
  <2>2. ASSUME NEW label \in Labels \ {"isFormatted", "format"}, call[s] # NoCall, NodeGoto(s, label)
        PROVE  FormatInv'
    BY <2>2, Continues DEF FormatInv
  <2>3. CASE StageIsAttached(s)
    BY <2>1, <2>3, Continues DEF StageIsAttached, NodeFailure, FormatInv
  <2>4. CASE StageIsFormatted(s)
    BY <2>4, <2>2, Continues DEF StageIsFormatted, FormatInv
  <2>5. CASE StageFormat(s) \/ StageIsMounted(s) \/ StageMount(s) \/ StageResize(s)
    BY <2>1, <2>2, <2>5 DEF StageFormat, StageIsMounted, StageMount, StageResize,
         NodeFailure, NodeSuccess
  <2>6. CASE UnstageIsMounted(s) \/ PublishResolve(s) \/ PublishIsMounted(s)
               \/ PublishMount(s) \/ ExpandIsMounted(s) \/ ExpandResize(s)
    BY <2>1, <2>2, <2>6 DEF UnstageIsMounted, PublishResolve, PublishIsMounted,
         PublishMount, ExpandIsMounted, ExpandResize, NodeFailure, NodeSuccess
  <2>7. ASSUME NEW op \in {"unstage", "unpublish"}, Unmount(s, op) \/ Cleanup(s, op)
        PROVE  FormatInv'
    BY <2>1, <2>2, <2>7 DEF Unmount, Cleanup, NodeFailure, NodeSuccess
  <2> QED
    BY <1>2, <2>3, <2>4, <2>5, <2>6, <2>7 DEF Handler
<1>3. ASSUME NEW op, NEW p, NEW label \in Labels \ {"isFormatted", "format"},
             Start(op, p, label)
      PROVE  FormatInv'
  <2>1. \A s \in Slots : call'[s] = [op |-> op, path |-> p, pc |-> label]
    BY <1>3, Started
  <2>2. \A s \in Slots : call'[s].pc \notin {"isFormatted", "format"}
    BY <1>3, <2>1
  <2> QED
    BY <2>2 DEF FormatInv
<1>4. CASE StageCall
  <2>1. CASE AnswersAtOnce
    BY <2>1 DEF AnswersAtOnce, FormatInv
  <2> QED
    BY <1>3, <1>4, <2>1 DEF StageCall, Labels
<1>5. CASE UnstageCall
  BY <1>3, <1>5 DEF UnstageCall, Labels
<1>6. ASSUME NEW t \in Targets, NodePublishCall(t) \/ NodeUnpublishCall(t) PROVE FormatInv'
  BY <1>3, <1>6 DEF NodePublishCall, NodeUnpublishCall, Labels
<1>7. ASSUME NEW t \in Targets, PodWrites(t) PROVE FormatInv'
  <2>1. coStage = "staged"
    BY <1>7 DEF PodWrites, NodeInv, COInv, Unused
  <2> QED
    BY <1>7, <2>1 DEF PodWrites, NodeInv, CallerInv, FormatInv
<1>8. ASSUME NEW p \in Paths, ExpandCall(p) PROVE FormatInv'
  <2>1. CASE AnswersAtOnce
    BY <2>1 DEF AnswersAtOnce, FormatInv
  <2> QED
    BY <1>3, <1>8, <2>1 DEF ExpandCall, Labels
<1>9. ASSUME NEW s \in Slots, CommandFails(s) PROVE FormatInv'
  BY <1>9, Ended DEF CommandFails, NodeFailure
<1>10. CASE DriverRestart \/ Reboot
  BY <1>10 DEF DriverRestart, Reboot, FormatInv
<1>11. CASE Abandon \/ Attach \/ Detach \/ Grow \/ DeviceAppears
  BY <1>11 DEF Abandon, Attach, Detach, Grow, DeviceAppears, FormatInv
<1>12. CASE DeviceGone
  BY <1>12 DEF DeviceGone, NodeInv, COInv, CallerInv, FormatInv
<1>13. CASE UsedElsewhere
  BY <1>13 DEF UsedElsewhere, FormatInv
<1>14. CASE UNCHANGED nodeVars
  BY <1>14 DEF nodeVars, FormatInv
<1> QED
  BY <1>2, <1>4, <1>5, <1>6, <1>7, <1>8, <1>9, <1>10, <1>11, <1>12, <1>13, <1>14
     DEF NodeNext

\* NodeStageVolume never formats a volume that holds data, if attachment is
\* validated and one handler runs at a time: however late the device appears,
\* whatever fails, and whoever else has written to the volume before.
THEOREM NeverReformats ==
  ASSUME OneSlot, ValidateAttachment PROVE NodeSpec => NoReformat
<1>1. NodeInit => FormatInv
  BY InitNodeInv
<1>2. NodeInv /\ FormatInv /\ [NodeNext]_nodeVars => FormatInv'
  BY NextFormat
<1>3. FormatInv /\ [NodeNext]_nodeVars => [disk = "written" => disk' = "written"]_nodeVars
  <2> SUFFICES ASSUME FormatInv, NodeNext, disk = "written" PROVE disk' = "written"
    OBVIOUS
  <2> USE DEF diskVars
  <2>1. ASSUME NEW s \in Slots, Handler(s) PROVE disk' = "written"
    <3>1. CASE StageFormat(s)
      BY <3>1 DEF StageFormat, At, FormatInv
    <3>2. CASE UNCHANGED disk
      BY <3>2
    <3>3. ASSUME NEW op \in {"unstage", "unpublish"}, Unmount(s, op) \/ Cleanup(s, op)
          PROVE  UNCHANGED disk
      BY <3>3 DEF Unmount, Cleanup
    <3> QED
      BY <2>1, <3>1, <3>2, <3>3
         DEF Handler, StageIsAttached, StageIsFormatted, StageIsMounted, StageMount,
             StageResize, UnstageIsMounted, PublishResolve, PublishIsMounted,
             PublishMount, ExpandIsMounted, ExpandResize
  <2>2. ASSUME NEW p \in Paths, ExpandCall(p) PROVE UNCHANGED disk
    BY <2>2 DEF ExpandCall, AnswersAtOnce, Start
  <2>3. ASSUME NEW t \in Targets, NodePublishCall(t) \/ NodeUnpublishCall(t) \/ PodWrites(t)
        PROVE  disk' = "written"
    BY <2>3 DEF NodePublishCall, NodeUnpublishCall, Start, PodWrites
  <2>4. CASE StageCall \/ UnstageCall
    BY <2>4 DEF StageCall, UnstageCall, AnswersAtOnce, Start
  <2>5. ASSUME NEW s \in Slots, CommandFails(s) PROVE UNCHANGED disk
    BY <2>5 DEF CommandFails
  <2>6. CASE Abandon \/ DriverRestart \/ Reboot \/ Attach \/ DeviceAppears \/ Detach
               \/ DeviceGone \/ UsedElsewhere \/ Grow
    BY <2>6 DEF Abandon, DriverRestart, Reboot, Attach, DeviceAppears, Detach,
         DeviceGone, UsedElsewhere, Grow
  <2> QED
    BY <2>1, <2>2, <2>3, <2>4, <2>5, <2>6 DEF NodeNext
<1> QED
  BY <1>1, <1>2, <1>3, NodeInvariant, PTL DEF NodeSpec, NoReformat
=============================================================================
