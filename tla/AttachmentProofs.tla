-------------------------- MODULE AttachmentProofs --------------------------
(***************************************************************************)
(* Proofs about Attachment, for any set of machines, any node ids and any  *)
(* number of failed calls.                                                 *)
(*                                                                         *)
(* PublishedIsAttached and DetachedIsDetached hold when no request         *)
(* outlives its call (MaxLate = 0).  Neither is inductive: each rests on   *)
(* what the handler's local variables still guarantee while other nodes'   *)
(* handlers, the API and machine replacement run between its API calls.    *)
(***************************************************************************)
EXTENDS Attachment, FiniteSetTheorems, TLAPS

-----------------------------------------------------------------------------
(* What holds whatever requests are late *)

\* Only a volume in use has attachments, at most one, to a machine that exists
\* or existed; the live machines have different node ids.
ApiInv ==
  /\ att # {} => status \in {"attaching", "attached", "detaching"}
  /\ \A x, y \in att : x = y
  /\ \A x \in att : mstate[x] # "absent"
  /\ UniqueNames(mstate)

\* The machine a handler chose exists or existed, under the handler's node id.
TargetInv ==
  \A n \in NodeIds :
    \/ pc[n] \in {"attach", "pollAttached", "detach", "pollDetached"}
    \/ co[n] = "published"
    => /\ target[n] \in Machines
       /\ NodeId[target[n]] = n
       /\ mstate[target[n]] # "absent"

\* Machine x has the volume, or may get it by a request nobody waits for.
MayHold(x) == x \in att \/ [op |-> "attach", machine |-> x] \in late

\* The unpublish handler detaches the only live machine that may hold the volume
\* under its node id: a replacement gets it only by a later publish.
DetachInv ==
  /\ \A r \in late : mstate[r.machine] # "absent"
  /\ \A n \in NodeIds, x \in Machines :
       pc[n] = "detach" /\ Live(x) /\ NodeId[x] = n /\ MayHold(x) => x = target[n]

Base == TypeOK /\ ApiInv /\ TargetInv /\ DetachInv

\* A free volume without handlers or late requests satisfies Base.
LEMMA InitBase == Init => Base
BY AttachmentAssumption DEF Init, Base, TypeOK, ApiInv, TargetInv, DetachInv,
  MayHold, UniqueNames, Statuses, COStates, Live

\* Every API call of a handler, every failure and every step of the API, the
\* machines or DeleteVolume keeps Base.
LEMMA NextBase == Base /\ [Next]_vars => Base'
<1> SUFFICES ASSUME Base, [Next]_vars PROVE Base'
  OBVIOUS
<1> USE AttachmentAssumption DEF Base, TypeOK, ApiInv, TargetInv, DetachInv,
  MayHold, UniqueNames, Live, Resolve, Statuses, COStates, PublishPC,
  UnpublishPC, Requests, apiVars, Goto, Success, Failure
<1>1. ASSUME NEW n \in NodeIds, PublishCall(n) PROVE Base'
  BY <1>1 DEF PublishCall
<1>2. ASSUME NEW n \in NodeIds, UnpublishCall(n) PROVE Base'
  BY <1>2 DEF UnpublishCall
<1>3. ASSUME NEW n \in NodeIds, PubGetVolume(n) PROVE Base'
  BY <1>3 DEF PubGetVolume
<1>4. ASSUME NEW n \in NodeIds, PubListMachines(n) PROVE Base'
  BY <1>4 DEF PubListMachines
<1>5. ASSUME NEW n \in NodeIds, PubAttach(n) PROVE Base'
  BY <1>5 DEF PubAttach, CanAttach, ApiAttach
<1>6. ASSUME NEW n \in NodeIds, PubPoll(n) PROVE Base'
  BY <1>6 DEF PubPoll
<1>7. ASSUME NEW n \in NodeIds, UnpubGetVolume(n) PROVE Base'
  BY <1>7 DEF UnpubGetVolume
<1>8. ASSUME NEW n \in NodeIds, UnpubGetMachine(n) PROVE Base'
  BY <1>8 DEF UnpubGetMachine
<1>9. ASSUME NEW n \in NodeIds, UnpubListMachines(n) PROVE Base'
  BY <1>9 DEF UnpubListMachines
<1>10. ASSUME NEW n \in NodeIds, UnpubDetach(n) PROVE Base'
  BY <1>10 DEF UnpubDetach, ApiDetach
<1>11. ASSUME NEW n \in NodeIds, UnpubPoll(n) PROVE Base'
  BY <1>11 DEF UnpubPoll
<1>12. ASSUME NEW n \in NodeIds, PollTimeout(n) PROVE Base'
  BY <1>12 DEF PollTimeout
<1>13. ASSUME NEW n \in NodeIds, CallFails(n) PROVE Base'
  BY <1>13 DEF CallFails
<1>14. ASSUME NEW r \in late, LateRequest(r) PROVE Base'
  BY <1>14 DEF LateRequest, CanAttach, ApiAttach, ApiDetach
<1>15. CASE ApiAttached
  BY <1>15 DEF ApiAttached
<1>16. CASE ApiDetached
  BY <1>16 DEF ApiDetached
<1>17. CASE ApiReleases
  BY <1>17 DEF ApiReleases, ApiDetach
<1>18. ASSUME NEW m \in Machines, MachineCreated(m) PROVE Base'
  BY <1>18 DEF MachineCreated
<1>19. ASSUME NEW m \in Machines, MachineDeleted(m) PROVE Base'
  BY <1>19 DEF MachineDeleted
<1>20. CASE DeleteVolume
  BY <1>20 DEF DeleteVolume
<1>21. CASE UNCHANGED vars
  BY <1>21 DEF vars
<1> QED
  BY <1>1, <1>2, <1>3, <1>4, <1>5, <1>6, <1>7, <1>8, <1>9, <1>10, <1>11,
     <1>12, <1>13, <1>14, <1>15, <1>16, <1>17, <1>18, <1>19, <1>20, <1>21 DEF Next, Publish, Unpublish, Api

\* Base holds throughout.
LEMMA BaseInvariant == Spec => []Base
<1>1. Init => Base
  BY InitBase
<1>2. Base /\ [Next]_vars => Base'
  BY NextBase
<1> QED
  BY <1>1, <1>2, PTL DEF Spec

\* Every variable keeps its type; in particular the machine a late request
\* names, and the machine a handler attaches or detaches, is never None.
THEOREM TypeCorrect == Spec => []TypeOK
<1>1. Base => TypeOK
  BY DEF Base
<1> QED
  BY <1>1, BaseInvariant, PTL

\* ControllerUnpublishVolume tells the truth for any number of machines, nodes,
\* failed calls and late requests: when it answers with success no live machine
\* of the node id holds the volume.
THEOREM UnpublishTruthful == Spec => UnpublishReplyTruthful
<1> DEFINE Truthful ==
      \A n \in NodeIds :
        co[n] = "unpublishing" /\ co'[n] = "detached" => Resolve(n) \cap att = {}
<1>1. Base /\ [Next]_vars => [Truthful]_vars
  <2> SUFFICES ASSUME Base, Next,
                      NEW n \in NodeIds,
                      co[n] = "unpublishing", co'[n] = "detached"
               PROVE  Resolve(n) \cap att = {}
    BY Zenon
  <2> USE DEF Base, TypeOK, COStates, Goto, Failure, Success
  <2>1. UnpubGetVolume(n) \/ UnpubListMachines(n) \/ UnpubDetach(n) \/ UnpubPoll(n)
    <3> SUFFICES ASSUME NEW k \in NodeIds,
                        \/ PublishCall(k) \/ UnpublishCall(k)
                        \/ Publish(k) \/ Unpublish(k)
                        \/ PollTimeout(k) \/ CallFails(k)
                 PROVE  UnpubGetVolume(n) \/ UnpubListMachines(n)
                          \/ UnpubDetach(n) \/ UnpubPoll(n)
      BY DEF Next, LateRequest, Api, ApiAttached, ApiDetached, ApiReleases,
        MachineCreated, MachineDeleted, DeleteVolume
    <3> QED
      BY DEF PublishCall, UnpublishCall, PollTimeout, CallFails, Publish,
        PubGetVolume, PubListMachines, PubAttach, PubPoll, Unpublish,
        UnpubGetVolume, UnpubGetMachine, UnpubListMachines, UnpubDetach, UnpubPoll
  <2>2. CASE UnpubGetVolume(n)
    BY <2>2 DEF UnpubGetVolume, ApiInv
  <2>3. CASE UnpubListMachines(n)
    BY <2>3 DEF UnpubListMachines
  <2>4. CASE UnpubDetach(n)
    BY <2>4 DEF UnpubDetach, DetachInv, MayHold, Resolve, Live
  <2>5. CASE UnpubPoll(n)
    BY <2>5 DEF UnpubPoll, ApiInv
  <2> QED
    BY <2>1, <2>2, <2>3, <2>4, <2>5
<1> QED
  BY <1>1, BaseInvariant, PTL DEF Spec, UnpublishReplyTruthful

\* Names are the only cause of ListVolumes hiding a publication: where the node ids
\* are machine identities, a published volume that is attached is listed under
\* its node id, over failures, late requests and replaced machines.
THEOREM ListedByIdentity ==
  ASSUME NodeIds \subseteq Machines PROVE Spec => []PublishedIsListed
<1>1. Base => PublishedIsListed
  <2> SUFFICES ASSUME Base, NEW n \in NodeIds, co[n] = "published", target[n] \in att
               PROVE  n \in PublishedNodeIds
    BY DEF PublishedIsListed
  <2>1. target[n] \in Machines /\ NodeId[target[n]] = n
    BY DEF Base, TargetInv
  <2>2. target[n] = n
    BY <2>1, AttachmentAssumption
  <2> QED
    BY <2>2 DEF PublishedNodeIds
<1> QED
  BY <1>1, BaseInvariant, PTL

-----------------------------------------------------------------------------
(* What holds when every request ends with its call *)

\* A handler runs only while the CO waits for that very call.
CallInv ==
  \A n \in NodeIds :
    /\ pc[n] \in PublishPC => co[n] = "publishing"
    /\ pc[n] \in UnpublishPC => co[n] = "unpublishing"

\* A live machine holds the volume only for a node the CO has a claim for, and
\* loses it only for a node the CO is unpublishing.
ClaimInv ==
  \A x \in att :
    Live(x) => /\ co[NodeId[x]] # "detached"
               /\ status = "detaching" => co[NodeId[x]] = "unpublishing"

\* What the publish handler read of its own node's attachment stays true, and an
\* accepted attachment stays until the machine is deleted.
PublishInv ==
  \A n \in NodeIds :
    /\ pc[n] = "pubListMachines" =>
         \A x \in snap[n] :
           /\ mstate[x] # "absent"
           /\ Live(x) /\ NodeId[x] = n => x \in att
    /\ pc[n] = "pollAttached" \/ co[n] = "published" =>
         target[n] \in att \/ mstate[target[n]] = "gone"

Inv == Base /\ late = {} /\ CallInv /\ ClaimInv /\ PublishInv

\* A free volume that no CO object refers to satisfies Inv.
LEMMA InitInv == Init => Inv
BY InitBase DEF Init, Inv, CallInv, ClaimInv, PublishInv, PublishPC, UnpublishPC

\* Without late requests every step keeps Inv.
LEMMA NextInv == MaxLate = 0 /\ Inv /\ [Next]_vars => Inv'
<1> SUFFICES ASSUME MaxLate = 0, Inv, [Next]_vars PROVE Inv'
  OBVIOUS
<1> DEFINE Rest == late = {} /\ CallInv /\ ClaimInv /\ PublishInv
<1>0. Base'
  BY NextBase DEF Inv
<1> SUFFICES Rest'
  BY <1>0 DEF Inv
<1> USE AttachmentAssumption DEF Inv, Base, TypeOK, ApiInv, TargetInv, CallInv,
  ClaimInv, PublishInv, UniqueNames, Live, Resolve, Statuses, COStates,
  PublishPC, UnpublishPC, apiVars, Goto, Success, Failure
<1>1. ASSUME NEW n \in NodeIds, PublishCall(n) PROVE Rest'
  BY <1>1 DEF PublishCall
<1>2. ASSUME NEW n \in NodeIds, UnpublishCall(n) PROVE Rest'
  BY <1>2 DEF UnpublishCall
<1>3. ASSUME NEW n \in NodeIds, PubGetVolume(n) PROVE Rest'
  BY <1>3 DEF PubGetVolume
<1>4. ASSUME NEW n \in NodeIds, PubListMachines(n) PROVE Rest'
  BY <1>4 DEF PubListMachines
<1>5. ASSUME NEW n \in NodeIds, PubAttach(n) PROVE Rest'
  BY <1>5 DEF PubAttach, CanAttach, ApiAttach
<1>6. ASSUME NEW n \in NodeIds, PubPoll(n) PROVE Rest'
  BY <1>6 DEF PubPoll
<1>7. ASSUME NEW n \in NodeIds, UnpubGetVolume(n) PROVE Rest'
  BY <1>7 DEF UnpubGetVolume
<1>8. ASSUME NEW n \in NodeIds, UnpubGetMachine(n) PROVE Rest'
  BY <1>8 DEF UnpubGetMachine
<1>9. ASSUME NEW n \in NodeIds, UnpubListMachines(n) PROVE Rest'
  BY <1>9 DEF UnpubListMachines
<1>10. ASSUME NEW n \in NodeIds, UnpubDetach(n) PROVE Rest'
  BY <1>10 DEF UnpubDetach, ApiDetach, DetachInv, MayHold
<1>11. ASSUME NEW n \in NodeIds, UnpubPoll(n) PROVE Rest'
  BY <1>11 DEF UnpubPoll
<1>12. ASSUME NEW n \in NodeIds, PollTimeout(n) PROVE Rest'
  BY <1>12 DEF PollTimeout
<1>13. ASSUME NEW n \in NodeIds, CallFails(n) PROVE Rest'
  BY FS_EmptySet, <1>13 DEF CallFails
<1>14. ASSUME NEW r \in late, LateRequest(r) PROVE Rest'
  BY <1>14 DEF Inv
<1>15. CASE ApiAttached
  BY <1>15 DEF ApiAttached
<1>16. CASE ApiDetached
  BY <1>16 DEF ApiDetached
<1>17. CASE ApiReleases
  BY <1>17 DEF ApiReleases, ApiDetach
<1>18. ASSUME NEW m \in Machines, MachineCreated(m) PROVE Rest'
  BY <1>18 DEF MachineCreated
<1>19. ASSUME NEW m \in Machines, MachineDeleted(m) PROVE Rest'
  BY <1>19 DEF MachineDeleted
<1>20. CASE DeleteVolume
  BY <1>20 DEF DeleteVolume
<1>21. CASE UNCHANGED vars
  BY <1>21 DEF vars
<1> QED
  BY <1>1, <1>2, <1>3, <1>4, <1>5, <1>6, <1>7, <1>8, <1>9, <1>10, <1>11,
     <1>12, <1>13, <1>14, <1>15, <1>16, <1>17, <1>18, <1>19, <1>20, <1>21 DEF Next, Publish, Unpublish, Api

\* Inv holds throughout when no request outlives its call.
LEMMA InvInvariant ==
  ASSUME MaxLate = 0 PROVE Spec => []Inv
<1>1. Init => Inv
  BY InitInv
<1>2. Inv /\ [Next]_vars => Inv'
  BY NextInv
<1> QED
  BY <1>1, <1>2, PTL DEF Spec

\* While the CO holds a successful publish answer the machine it is about has
\* the volume or is deleted, for any number of machines, nodes and failures.
THEOREM PublishExact ==
  ASSUME MaxLate = 0 PROVE Spec => []PublishedIsAttached
<1>1. Inv => PublishedIsAttached
  BY DEF Inv, PublishInv, PublishedIsAttached
<1> QED
  BY <1>1, InvInvariant, PTL

\* A node id without a claim has no live machine with the volume, for any number
\* of machines, nodes and failures.
THEOREM DetachExact ==
  ASSUME MaxLate = 0 PROVE Spec => []DetachedIsDetached
<1>1. Inv => DetachedIsDetached
  BY DEF Inv, ClaimInv, DetachedIsDetached, Resolve
<1> QED
  BY <1>1, InvInvariant, PTL

-----------------------------------------------------------------------------
(* The handlers implement the lease *)

\* A call that ends well, or is made, changes the claim of its own node only.
LEMMA ClaimStep ==
  ASSUME TypeOK, NEW n \in NodeIds, NEW s \in COStates,
         co' = [co EXCEPT ![n] = s]
  PROVE  Claim' = [Claim EXCEPT ![n] =
           CASE s = "detached" -> "none"
             [] s = "publishing" -> "asked"
             [] s = "published" -> "granted"
             [] OTHER -> "returned"]
BY DEF TypeOK, COStates, Claim

\* Every step of the controller, the API and the machines is a step of the
\* lease, or leaves what the lease tells of unchanged.
LEMMA NextLease ==
  MaxLate = 0 /\ Inv /\ [Next]_vars => [Lease!Next]_(Lease!leaseVars)
<1> SUFFICES ASSUME MaxLate = 0, Inv, [Next]_vars
             PROVE  Lease!Next \/ UNCHANGED <<att, Gone, Claim>>
  BY DEF Lease!leaseVars
<1> DEFINE Same == UNCHANGED <<att, Gone, Claim>>
<1> DEFINE Step == Lease!Next \/ Same
<1> SUFFICES Step
  OBVIOUS
<1>a. UNCHANGED mstate => UNCHANGED Gone
  BY DEF Gone
<1>b. UNCHANGED co => UNCHANGED Claim
  BY DEF Claim
<1> USE DEF Inv, Base
<1>c. \A n \in NodeIds : Claim[n] = CASE co[n] = "detached" -> "none"
                                     [] co[n] = "publishing" -> "asked"
                                     [] co[n] = "published" -> "granted"
                                     [] OTHER -> "returned"
  BY DEF Claim
<1>1. ASSUME NEW n \in NodeIds, PublishCall(n) PROVE Step
  <2>1. Claim' = [Claim EXCEPT ![n] = "asked"]
    BY <1>1, ClaimStep DEF PublishCall, COStates
  <2> QED
    BY <1>1, <1>a, <1>c, <2>1 DEF PublishCall, apiVars, Lease!Next, Lease!Ask
<1>2. ASSUME NEW n \in NodeIds, UnpublishCall(n) PROVE Step
  <2>1. Claim' = [Claim EXCEPT ![n] = "returned"]
    BY <1>2, ClaimStep DEF UnpublishCall, COStates
  <2>2. Claim[n] # "none"
    BY <1>2, <1>c DEF UnpublishCall, TypeOK, COStates
  <2> QED
    BY <1>2, <1>a, <2>1, <2>2 DEF UnpublishCall, apiVars, Lease!Next, Lease!Return
<1>3. ASSUME NEW n \in NodeIds, Success(n, "published"), UNCHANGED apiVars,
             co[n] = "publishing",
             (\E m \in att : Live(m) /\ NodeId[m] = n)
               \/ \E m \in Machines : mstate[m] = "gone" /\ NodeId[m] = n
      PROVE  Step
  <2>1. Claim' = [Claim EXCEPT ![n] = "granted"]
    BY <1>3, ClaimStep DEF Success, COStates
  <2>2. Lease!Holds(n) \/ Lease!Lost(n)
    BY <1>3 DEF Lease!Holds, Lease!Lost, Gone, Live
  <2> QED
    BY <1>3, <1>a, <1>c, <2>1, <2>2 DEF apiVars, Lease!Next, Lease!Grant
<1>4. ASSUME NEW n \in NodeIds, Success(n, "detached"), UNCHANGED apiVars,
             co[n] = "unpublishing", Resolve(n) \cap att = {}
      PROVE  Step
  <2>1. Claim' = [Claim EXCEPT ![n] = "none"]
    BY <1>4, ClaimStep DEF Success, COStates
  <2>2. ~Lease!Holds(n)
    BY <1>4 DEF Lease!Holds, Gone, Live, Resolve, ApiInv, TypeOK
  <2> QED
    BY <1>4, <1>a, <1>c, <2>1, <2>2 DEF apiVars, Lease!Next, Lease!Close
<1>5. ASSUME NEW n \in NodeIds, NEW l, Goto(n, l), UNCHANGED apiVars
      PROVE  Step
  BY <1>5, <1>a, <1>b DEF Goto, apiVars
<1>6. ASSUME NEW n \in NodeIds, Publish(n) PROVE Step
  <2>1. CASE PubGetVolume(n)
    BY <1>5, <2>1 DEF PubGetVolume, Failure
  <2>2. CASE PubListMachines(n)
    BY <1>3, <1>5, <2>2 DEF PubListMachines, Failure, Resolve, CallInv, PublishInv,
      PublishPC
  <2>3. CASE PubAttach(n)
    <3>1. CASE UNCHANGED <<status, att>>
      BY <1>a, <1>b, <2>3, <3>1 DEF PubAttach, Goto, Failure
    <3>2. CASE CanAttach(target[n]) /\ ApiAttach(target[n])
      <4>1. target[n] \in Machines /\ NodeId[target[n]] = n /\ co[n] = "publishing"
        BY <2>3 DEF PubAttach, TargetInv, CallInv, PublishPC
      <4>2. att = {} /\ target[n] \notin Gone
        BY <3>2 DEF CanAttach, ApiInv, Gone, Live
      <4>3. Lease!Take(target[n])
        BY <1>a, <1>b, <1>c, <2>3, <3>2, <4>1, <4>2
          DEF PubAttach, Goto, Failure, ApiAttach, Lease!Take
      <4> QED
        BY <4>1, <4>3 DEF Lease!Next
    <3> QED
      BY <2>3, <3>1, <3>2 DEF PubAttach
  <2>4. CASE PubPoll(n)
    <3>1. target[n] \in Machines /\ NodeId[target[n]] = n /\ co[n] = "publishing"
      BY <2>4 DEF PubPoll, TargetInv, CallInv, PublishPC
    <3>2. (target[n] \in att /\ Live(target[n])) \/ mstate[target[n]] = "gone"
      BY <2>4, <3>1 DEF PubPoll, PublishInv, ApiInv, Live, TypeOK
    <3> QED
      BY <1>3, <1>5, <2>4, <3>1, <3>2 DEF PubPoll, Failure
  <2> QED
    BY <1>6, <2>1, <2>2, <2>3, <2>4 DEF Publish
<1>7. ASSUME NEW n \in NodeIds, Unpublish(n) PROVE Step
  <2>0. co[n] = "unpublishing"
    BY <1>7 DEF Unpublish, UnpubGetVolume, UnpubGetMachine, UnpubListMachines,
      UnpubDetach, UnpubPoll, CallInv, UnpublishPC
  <2>1. CASE UnpubGetVolume(n)
    BY <1>4, <1>5, <2>0, <2>1 DEF UnpubGetVolume, ApiInv
  <2>2. CASE UnpubGetMachine(n)
    BY <1>5, <2>2 DEF UnpubGetMachine
  <2>3. CASE UnpubListMachines(n)
    BY <1>4, <1>5, <2>0, <2>3 DEF UnpubListMachines
  <2>4. CASE UnpubDetach(n)
    <3>1. CASE UNCHANGED <<status, att>> /\ Success(n, "detached")
      <4>1. Resolve(n) \cap att = {}
        BY <2>4, <3>1 DEF UnpubDetach, ApiDetach, Goto, Success, TypeOK, DetachInv,
          MayHold, Resolve, Live
      <4> QED
        BY <1>4, <2>0, <2>4, <3>1, <4>1 DEF UnpubDetach, apiVars
    <3>2. CASE ApiDetach /\ Goto(n, "pollDetached")
      BY <1>a, <1>b, <2>4, <3>2 DEF UnpubDetach, ApiDetach, Goto
    <3> QED
      BY <2>4, <3>1, <3>2 DEF UnpubDetach
  <2>5. CASE UnpubPoll(n)
    BY <1>4, <2>0, <2>5 DEF UnpubPoll, ApiInv
  <2> QED
    BY <1>7, <2>1, <2>2, <2>3, <2>4, <2>5 DEF Unpublish
<1>8. ASSUME NEW n \in NodeIds, PollTimeout(n) \/ CallFails(n) PROVE Step
  BY <1>5, <1>8 DEF PollTimeout, CallFails, Failure
<1>9. CASE ApiAttached \/ ApiReleases \/ DeleteVolume
  BY <1>9, <1>a, <1>b DEF ApiAttached, ApiReleases, ApiDetach, DeleteVolume
<1>10. CASE ApiDetached
  <2>1. CASE UNCHANGED att
    BY <1>10, <1>a, <1>b, <2>1 DEF ApiDetached
  <2>2. CASE att' = {}
    <3>1. ASSUME NEW m \in att PROVE m \in Gone \/ Claim[NodeId[m]] = "returned"
      BY <1>10, <1>c, <3>1, AttachmentAssumption
        DEF ApiDetached, ClaimInv, ApiInv, TypeOK, Live, Gone
    <3> QED
      BY <1>10, <1>a, <1>b, <2>2, <3>1 DEF ApiDetached, Lease!Next, Lease!Drop
  <2> QED
    BY <1>10, <2>1, <2>2 DEF ApiDetached
<1>11. ASSUME NEW m \in Machines, MachineCreated(m) PROVE Step
  <2>1. UNCHANGED Gone
    BY <1>11 DEF MachineCreated, Gone, TypeOK
  <2> QED
    BY <1>11, <1>b, <2>1 DEF MachineCreated
<1>12. ASSUME NEW m \in Machines, MachineDeleted(m) PROVE Step
  <2>1. Gone' = Gone \cup {m}
    BY <1>12 DEF MachineDeleted, Gone, TypeOK
  <2> QED
    BY <1>12, <1>b, <2>1 DEF MachineDeleted, Lease!Next, Lease!Lose
<1>13. CASE UNCHANGED vars
  BY <1>13, <1>a, <1>b DEF vars
<1> QED
  BY <1>1, <1>2, <1>6, <1>7, <1>8, <1>9, <1>10, <1>11, <1>12, <1>13 DEF Next, Api

\* For any number of machines, nodes and failed calls, as long as no request
\* outlives its call, the handlers lend the volume as VolumeLease says.
THEOREM LeaseImplemented ==
  ASSUME MaxLate = 0 PROVE Spec => ImplementsLease
<1>1. Init => Lease!Init
  BY DEF Init, Lease!Init, Gone, Claim
<1>2. Inv /\ [Next]_vars => [Lease!Next]_(Lease!leaseVars)
  BY NextLease
<1> QED
  BY <1>1, <1>2, InvInvariant, PTL DEF Spec, ImplementsLease, Lease!Spec
=============================================================================
