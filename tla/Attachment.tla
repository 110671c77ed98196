----------------------------- MODULE Attachment -----------------------------
(***************************************************************************)
(* ControllerPublishVolume and ControllerUnpublishVolume                   *)
(* (driver/controller_attachment.go) for ONE volume, running against the   *)
(* Thalassa IaaS API and called by the container orchestrator (CO).        *)
(*                                                                         *)
(* The driver keeps no state of its own: everything a handler knows is     *)
(* what its last API call told it, and every API call is a step of its own *)
(* here, so that the handlers for different nodes, the API's background    *)
(* work, machine replacement and DeleteVolume interleave with it.          *)
(* Handlers for different volumes share only the machine list.             *)
(*                                                                         *)
(* Requests the handlers refuse before they call the API (an empty volume  *)
(* or node id, no capability, Readonly) change nothing: they are stuttering *)
(* steps.  The kubeConfig branches are absent: NewDriver never copies      *)
(* NewDriverParams.KubeConfig into the Driver, so d.kubeConfig is "".      *)
(***************************************************************************)
EXTENDS Naturals, FiniteSets

CONSTANTS
  Machines,   \* machine identities, never reused by the API
  NodeIds,    \* node ids the CO passes: a machine's name, slug or identity
  NodeId,     \* [Machines -> NodeIds], the node id under which a machine runs
  None,       \* no machine
  MaxLate,    \* bound: API requests that may outlive the call that sent them
  MaxFails    \* bound: calls that fail (API error, lost answer, deadline, crash)

ASSUME AttachmentAssumption ==
  /\ NodeId \in [Machines -> NodeIds]
  \* a node id that is a machine's identity belongs to that machine only
  /\ \A m \in Machines : \A n \in NodeIds \cap Machines : NodeId[m] = n <=> m = n
  /\ None \notin Machines
  /\ MaxLate \in Nat
  /\ MaxFails \in Nat

VARIABLES
  status,   \* the volume's status in the API
  att,      \* the machines in the volume's Attachments
  mstate,   \* the machines: not yet created, live, deleted
  pc,       \* per node id: the API call its handler is about to make
  snap,     \* per node id: vol.Attachments between GetVolume and its use
  target,   \* per node id: attachToIdentity
  co,       \* per node id: the CO's VolumeAttachment
  late,     \* requests still on their way although their call has returned
  fails     \* number of calls that have failed

apiVars == <<status, att, mstate>>
vars == <<status, att, mstate, pc, snap, target, co, late, fails>>

Statuses == {"available", "attaching", "attached", "detaching", "deleted"}
PublishPC == {"pubGetVolume", "pubListMachines", "attach", "pollAttached"}
UnpublishPC == {"unpubGetVolume", "getMachine", "unpubListMachines", "detach",
                "pollDetached"}
COStates == {"detached", "publishing", "published", "unpublishing"}
Requests == [op : {"attach", "detach"}, machine : Machines]

TypeOK ==
  /\ status \in Statuses
  /\ att \in SUBSET Machines
  /\ mstate \in [Machines -> {"absent", "live", "gone"}]
  /\ pc \in [NodeIds -> {"idle"} \cup PublishPC \cup UnpublishPC]
  /\ snap \in [NodeIds -> SUBSET Machines]
  /\ target \in [NodeIds -> Machines \cup {None}]
  /\ co \in [NodeIds -> COStates]
  /\ late \in SUBSET Requests
  /\ fails \in 0..MaxFails

UniqueNames(ms) ==
  \A m1, m2 \in Machines :
    ms[m1] = "live" /\ ms[m2] = "live" /\ NodeId[m1] = NodeId[m2] => m1 = m2

Init ==
  /\ status = "available"
  /\ att = {}
  /\ mstate \in {ms \in [Machines -> {"absent", "live"}] : UniqueNames(ms)}
  /\ pc = [n \in NodeIds |-> "idle"]
  /\ snap = [n \in NodeIds |-> {}]
  /\ target = [n \in NodeIds |-> None]
  /\ co = [n \in NodeIds |-> "detached"]
  /\ late = {}
  /\ fails = 0

-----------------------------------------------------------------------------
(* The API's answers and effects. *)

Live(m) == mstate[m] = "live"

\* The machine ListMachines lets a handler resolve a node id to.
Resolve(n) == {m \in Machines : Live(m) /\ NodeId[m] = n}

CanAttach(m) == status = "available" /\ Live(m)

\* POST /attach: a volume takes one attachment, listed as soon as it is accepted.
ApiAttach(m) == status' = "attaching" /\ att' = {m}

\* POST /detach: the attachment stays listed until the detachment completes.
ApiDetach == status' = "detaching" /\ UNCHANGED att

\* What ListVolumes tells of the volume: its attachments' AttachedToIdentity.
PublishedNodeIds == att

-----------------------------------------------------------------------------
(* How a call ends. *)

Goto(n, label) == pc' = [pc EXCEPT ![n] = label] /\ UNCHANGED co

Success(n, state) ==
  pc' = [pc EXCEPT ![n] = "idle"] /\ co' = [co EXCEPT ![n] = state]

Failure(n) == Goto(n, "idle")

-----------------------------------------------------------------------------
(* The CO (external-attacher): one call at a time per volume and node; a    *)
(* publish is retried until it succeeds or is given up, an unpublish until *)
(* it succeeds.                                                            *)

PublishCall(n) ==
  /\ pc[n] = "idle"
  /\ co[n] \in {"detached", "publishing"}
  /\ pc' = [pc EXCEPT ![n] = "pubGetVolume"]
  /\ co' = [co EXCEPT ![n] = "publishing"]
  /\ UNCHANGED <<apiVars, snap, target, late, fails>>

UnpublishCall(n) ==
  /\ pc[n] = "idle"
  /\ co[n] # "detached"
  /\ pc' = [pc EXCEPT ![n] = "unpubGetVolume"]
  /\ co' = [co EXCEPT ![n] = "unpublishing"]
  /\ UNCHANGED <<apiVars, snap, target, late, fails>>

-----------------------------------------------------------------------------
(* ControllerPublishVolume *)

PubGetVolume(n) ==
  /\ pc[n] = "pubGetVolume"
  /\ \/ status = "deleted" /\ Failure(n) /\ UNCHANGED snap
     \/ /\ status # "deleted"
        /\ snap' = [snap EXCEPT ![n] = att]
        /\ Goto(n, "pubListMachines")
  /\ UNCHANGED <<apiVars, target, late, fails>>

\* Mutant: a node id that no listed machine matches is used as an identity.
PubListMachines_Unchecked(n) ==
  /\ pc[n] = "pubListMachines"
  /\ target' = [target EXCEPT ![n] = n]
  /\ Goto(n, "attach")
  /\ snap' = [snap EXCEPT ![n] = {}]
  /\ UNCHANGED <<apiVars, late, fails>>

\* Mutant: any attachment counts as the one asked for.
PubListMachines_AnyAttachment(n) ==
  /\ pc[n] = "pubListMachines"
  /\ \E m \in Resolve(n) :
       /\ target' = [target EXCEPT ![n] = m]
       /\ \/ snap[n] # {} /\ Success(n, "published")
          \/ snap[n] = {} /\ Goto(n, "attach")
  /\ snap' = [snap EXCEPT ![n] = {}]
  /\ UNCHANGED <<apiVars, late, fails>>

\* Mutant: an attachment to the very machine is refused like any other.
PubListMachines_NoEarlyReturn(n) ==
  /\ pc[n] = "pubListMachines"
  /\ \/ Resolve(n) = {} /\ Failure(n) /\ UNCHANGED target
     \/ \E m \in Resolve(n) :
          /\ target' = [target EXCEPT ![n] = m]
          /\ \/ snap[n] # {} /\ Failure(n)
             \/ snap[n] = {} /\ Goto(n, "attach")
  /\ snap' = [snap EXCEPT ![n] = {}]
  /\ UNCHANGED <<apiVars, late, fails>>

\* ListMachines, then the decision on the attachments GetVolume returned.
PubListMachines(n) ==
  /\ pc[n] = "pubListMachines"
  /\ \/ Resolve(n) = {} /\ Failure(n) /\ UNCHANGED target
     \/ \E m \in Resolve(n) :
          /\ target' = [target EXCEPT ![n] = m]
          /\ \/ m \in snap[n] /\ Success(n, "published")
             \/ m \notin snap[n] /\ snap[n] # {} /\ Failure(n)
             \/ snap[n] = {} /\ Goto(n, "attach")
  /\ snap' = [snap EXCEPT ![n] = {}]
  /\ UNCHANGED <<apiVars, late, fails>>

PubAttach(n) ==
  /\ pc[n] = "attach"
  /\ \/ /\ CanAttach(target[n])
        /\ ApiAttach(target[n])
        /\ Goto(n, "pollAttached")
     \/ ~CanAttach(target[n]) /\ Failure(n) /\ UNCHANGED <<status, att>>
  /\ UNCHANGED <<mstate, snap, target, late, fails>>

\* One round of PollUntilContextTimeout; any other status polls again.
PubPoll(n) ==
  /\ pc[n] = "pollAttached"
  /\ \/ status = "attached" /\ Success(n, "published")
     \/ status = "deleted" /\ Failure(n)
  /\ UNCHANGED <<apiVars, snap, target, late, fails>>

-----------------------------------------------------------------------------
(* ControllerUnpublishVolume *)

UnpubGetVolume(n) ==
  /\ pc[n] = "unpubGetVolume"
  /\ LET done == status = "deleted" \/ (att = {} /\ status = "available")
     IN  \/ done /\ Success(n, "detached")
         \/ ~done /\ Goto(n, "getMachine")
  /\ UNCHANGED <<apiVars, snap, target, late, fails>>

\* Mutant: no fallback to the node's name.
UnpubGetMachine_NoFallback(n) ==
  /\ pc[n] = "getMachine"
  /\ LET found == n \in Machines /\ Live(n)
     IN  \/ found /\ target' = [target EXCEPT ![n] = n] /\ Goto(n, "detach")
         \/ ~found /\ UNCHANGED target /\ Success(n, "detached")
  /\ UNCHANGED <<apiVars, snap, late, fails>>

\* GetMachine finds a machine by identity only.
UnpubGetMachine(n) ==
  /\ pc[n] = "getMachine"
  /\ LET found == n \in Machines /\ Live(n)
     IN  \/ found /\ target' = [target EXCEPT ![n] = n] /\ Goto(n, "detach")
         \/ ~found /\ UNCHANGED target /\ Goto(n, "unpubListMachines")
  /\ UNCHANGED <<apiVars, snap, late, fails>>

\* Mutant: the machine is taken from the volume's attachments.
UnpubListMachines_AnyHolder(n) ==
  /\ pc[n] = "unpubListMachines"
  /\ \/ att = {} /\ Success(n, "detached") /\ UNCHANGED target
     \/ \E m \in att : target' = [target EXCEPT ![n] = m] /\ Goto(n, "detach")
  /\ UNCHANGED <<apiVars, snap, late, fails>>

UnpubListMachines(n) ==
  /\ pc[n] = "unpubListMachines"
  /\ \/ Resolve(n) = {} /\ Success(n, "detached") /\ UNCHANGED target
     \/ \E m \in Resolve(n) :
          target' = [target EXCEPT ![n] = m] /\ Goto(n, "detach")
  /\ UNCHANGED <<apiVars, snap, late, fails>>

\* Mutant: the answer does not wait for the detachment.
UnpubDetach_NoPoll(n) ==
  /\ pc[n] = "detach"
  /\ \/ target[n] \in att /\ ApiDetach
     \/ target[n] \notin att /\ UNCHANGED <<status, att>>
  /\ Success(n, "detached")
  /\ UNCHANGED <<mstate, snap, target, late, fails>>

\* Mutant: not found is an error like any other.
UnpubDetach_NotFoundFails(n) ==
  /\ pc[n] = "detach"
  /\ \/ target[n] \in att /\ ApiDetach /\ Goto(n, "pollDetached")
     \/ /\ target[n] \notin att \/ ~Live(target[n])
        /\ Failure(n)
        /\ UNCHANGED <<status, att>>
  /\ UNCHANGED <<mstate, snap, target, late, fails>>

\* Not found (no such attachment, or no such machine) counts as detached.
UnpubDetach(n) ==
  /\ pc[n] = "detach"
  /\ \/ target[n] \in att /\ ApiDetach /\ Goto(n, "pollDetached")
     \/ /\ target[n] \notin att \/ ~Live(target[n])
        /\ Success(n, "detached")
        /\ UNCHANGED <<status, att>>
  /\ UNCHANGED <<mstate, snap, target, late, fails>>

UnpubPoll(n) ==
  /\ pc[n] = "pollDetached"
  /\ status \in {"available", "deleted"}
  /\ Success(n, "detached")
  /\ UNCHANGED <<apiVars, snap, target, late, fails>>

-----------------------------------------------------------------------------
(* Failures *)

\* The 5 minute timeout of either poll, or the shorter deadline of the caller.
PollTimeout(n) ==
  /\ pc[n] \in {"pollAttached", "pollDetached"}
  /\ Failure(n)
  /\ UNCHANGED <<apiVars, snap, target, late, fails>>

\* A call fails between two API calls, or its answer is lost.  A request that
\* was already sent may still be on its way to the API.
CallFails(n) ==
  /\ pc[n] # "idle"
  /\ fails < MaxFails
  /\ fails' = fails + 1
  /\ Failure(n)
  /\ \/ UNCHANGED late
     \/ /\ pc[n] \in {"attach", "detach"}
        /\ Cardinality(late) < MaxLate
        /\ late' = late \cup {[op |-> pc[n], machine |-> target[n]]}
  /\ snap' = [snap EXCEPT ![n] = {}]
  /\ UNCHANGED <<apiVars, target>>

\* A request whose sender is gone reaches the API.
LateRequest(r) ==
  /\ late' = late \ {r}
  /\ \/ r.op = "attach" /\ CanAttach(r.machine) /\ ApiAttach(r.machine)
     \/ r.op = "detach" /\ r.machine \in att /\ ApiDetach
     \/ /\ r.op = "attach" => ~CanAttach(r.machine)
        /\ r.op = "detach" => r.machine \notin att
        /\ UNCHANGED <<status, att>>
  /\ UNCHANGED <<mstate, pc, snap, target, co, fails>>

-----------------------------------------------------------------------------
(* The API's own steps and the other writers of the volume *)

ApiAttached ==
  /\ status = "attaching"
  /\ status' = "attached"
  /\ UNCHANGED <<att, mstate, pc, snap, target, co, late, fails>>

\* A detachment removes the attachment, then frees the volume.
ApiDetached ==
  /\ status = "detaching"
  /\ \/ att # {} /\ att' = {} /\ UNCHANGED status
     \/ att = {} /\ status' = "available" /\ UNCHANGED att
  /\ UNCHANGED <<mstate, pc, snap, target, co, late, fails>>

\* The attachment of a deleted machine is released.
ApiReleases ==
  /\ status \in {"attaching", "attached"}
  /\ \A m \in att : mstate[m] = "gone"
  /\ ApiDetach
  /\ UNCHANGED <<mstate, pc, snap, target, co, late, fails>>

MachineCreated(m) ==
  /\ mstate[m] = "absent"
  /\ Resolve(NodeId[m]) = {}
  /\ mstate' = [mstate EXCEPT ![m] = "live"]
  /\ UNCHANGED <<status, att, pc, snap, target, co, late, fails>>

MachineDeleted(m) ==
  /\ Live(m)
  /\ mstate' = [mstate EXCEPT ![m] = "gone"]
  /\ UNCHANGED <<status, att, pc, snap, target, co, late, fails>>

\* The DeleteVolume handler: one API call, which refuses a volume in use.
DeleteVolume ==
  /\ status = "available"
  /\ status' = "deleted"
  /\ UNCHANGED <<att, mstate, pc, snap, target, co, late, fails>>

-----------------------------------------------------------------------------
Publish(n) ==
  PubGetVolume(n) \/ PubListMachines(n) \/ PubAttach(n) \/ PubPoll(n)

Unpublish(n) ==
  \/ UnpubGetVolume(n) \/ UnpubGetMachine(n) \/ UnpubListMachines(n)
  \/ UnpubDetach(n) \/ UnpubPoll(n)

Api == ApiAttached \/ ApiDetached \/ ApiReleases

Next ==
  \/ \E n \in NodeIds :
       \/ PublishCall(n) \/ UnpublishCall(n)
       \/ Publish(n) \/ Unpublish(n)
       \/ PollTimeout(n) \/ CallFails(n)
  \/ \E r \in late : LateRequest(r)
  \/ Api
  \/ \E m \in Machines : MachineCreated(m) \/ MachineDeleted(m)
  \/ DeleteVolume

Spec == Init /\ [][Next]_vars

\* A handler runs on, a poll ends with its timeout, the CO retries a call that
\* has failed, and the API completes what it has accepted.
Fairness ==
  /\ \A n \in NodeIds :
       /\ WF_vars(Publish(n))
       /\ WF_vars(Unpublish(n))
       /\ WF_vars(PollTimeout(n))
       /\ WF_vars(co[n] = "publishing" /\ PublishCall(n))
       /\ WF_vars(co[n] = "unpublishing" /\ UnpublishCall(n))
  /\ WF_vars(Api)

FairSpec == Spec /\ Fairness

-----------------------------------------------------------------------------
(* Properties *)

\* While the CO holds a successful answer of ControllerPublishVolume, the API
\* lists the volume as attached to the machine the handler chose, or that
\* machine has been deleted: no handler of another node, no early return on a
\* stale GetVolume and no poll that sees another node's status breaks it.
PublishedIsAttached ==
  \A n \in NodeIds :
    co[n] = "published" => target[n] \in att \/ mstate[target[n]] = "gone"

\* A node id the CO has no attachment for (never published, or unpublished with
\* success) has no live machine that still holds the volume, so the CO may give
\* the volume to another node; each early return of ControllerUnpublishVolume
\* ("assuming volume is detached") has to justify it.
DetachedIsDetached ==
  \A n \in NodeIds : co[n] = "detached" => Resolve(n) \cap att = {}

\* The moment ControllerUnpublishVolume answers with success no live machine of
\* that node id holds the volume, even when requests of earlier, failed calls
\* are still on their way to the API.
UnpublishReplyTruthful ==
  [][\A n \in NodeIds :
       co[n] = "unpublishing" /\ co'[n] = "detached" => Resolve(n) \cap att = {}
    ]_vars

\* An unpublish that the CO keeps retrying ends in success, whatever the other
\* nodes do with the volume in between: the poll may miss "available" when
\* another node takes the volume at once, a retry then finds nothing to detach.
UnpublishConverges ==
  \A n \in NodeIds : co[n] = "unpublishing" ~> co[n] = "detached"

\* A publish that the CO keeps retrying does not fail for ever while no other
\* node has a claim on the volume or holds it by a late request, a machine
\* answers to the node id, and the volume exists: a timeout, a lost answer or
\* the attachment of a deleted machine only delays it.
PublishConverges ==
  \A n \in NodeIds :
    ~<>[](/\ co[n] = "publishing"
          /\ \A k \in NodeIds \ {n} : co[k] = "detached"
          /\ \A m \in att : Live(m) => NodeId[m] = n
          /\ Resolve(n) # {}
          /\ status # "deleted")

Gone == {m \in Machines : mstate[m] = "gone"}

Claim ==
  [n \in NodeIds |-> CASE co[n] = "detached" -> "none"
                      [] co[n] = "publishing" -> "asked"
                      [] co[n] = "published" -> "granted"
                      [] OTHER -> "returned"]

Lease == INSTANCE VolumeLease WITH holders <- att, gone <- Gone, claim <- Claim

\* The handlers lend the volume as VolumeLease says: to one machine, for a node
\* that asks, until that node returns it; no interleaving of the handlers, no
\* early return and no repeated call gives or takes it otherwise.
ImplementsLease == Lease!Spec

\* The CSI definition of published_node_ids: the entry of ListVolumes for a
\* volume names the node ids it is published on.
PublishedIsListed ==
  \A n \in NodeIds :
    co[n] = "published" /\ target[n] \in att => n \in PublishedNodeIds
=============================================================================
