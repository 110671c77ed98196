----------------------------- MODULE Snapshots -----------------------------
(***************************************************************************)
(* CreateSnapshot and DeleteSnapshot (driver/controller_snapshots.go) for  *)
(* ONE snapshot name, called by the external-snapshotter (CO).             *)
(*                                                                         *)
(* Every API call is a step.  Between them source volumes are attached     *)
(* and detached, deleted and created again under their names, and others   *)
(* (a snapshot policy, another cluster of the organisation) use the        *)
(* snapshot's name.  The API keeps names unique, shows a snapshot's        *)
(* source volume in full only while it exists, and its identity always.    *)
(***************************************************************************)
EXTENDS Naturals, FiniteSets

CONSTANTS
  Volumes,   \* volume identities
  Name,      \* [Volumes -> names], the volumes' names
  Sources,   \* SourceVolumeIds: identities and names of volumes
  None,      \* nothing
  MaxSnaps,  \* bound: snapshots that are ever created
  MaxFails   \* bound: calls that fail (API error, lost answer, crash)

ASSUME SnapshotsAssumption ==
  /\ DOMAIN Name = Volumes
  /\ Sources \subseteq Volumes \cup {Name[v] : v \in Volumes}
  \* no volume is named like a volume's identity
  /\ \A v \in Volumes : Name[v] \notin Volumes
  /\ None \notin Volumes
  /\ \A v \in Volumes : Name[v] # None
  /\ MaxSnaps \in Nat
  /\ MaxFails \in Nat

VARIABLES
  source,   \* SourceVolumeId of the CO's request, fixed
  vol,      \* the volumes: not yet created, free, attached, deleted
  snap,     \* the API's snapshot of the name
  created,  \* number of snapshots created
  late,     \* the source of a create request whose call has returned
  pc,       \* the API call the handler is about to make
  seen,     \* what ListSnapshots returned
  volume,   \* the resolved volume identity
  id,       \* the snapshot the handler waits for
  ans,      \* the answer
  co,       \* the CO's view
  coSnap,   \* the snapshot the CO has recorded
  fails     \* number of failed calls

vars == <<source, vol, snap, created, late, pc, seen, volume, id, ans, co, coSnap, fails>>

Ids == 1..MaxSnaps
Statuses == {"Creating", "Available", "Deleting", "Failed"}
Snaps == [id : Ids, src : Volumes, status : Statuses]
\* named: the API shows the source volume, and with it its name
Seen == [id : Ids, src : Volumes, named : BOOLEAN]
\* src is the true source, told what the CO hears
Answers == [id : Ids, src : Volumes, told : Volumes \cup {None}, ready : BOOLEAN]

TypeOK ==
  /\ source \in Sources
  /\ vol \in [Volumes -> {"absent", "available", "inUse", "gone"}]
  /\ snap \in Snaps \cup {None}
  /\ created \in 0..MaxSnaps
  /\ late \in Volumes \cup {None}
  /\ pc \in {"idle", "listSnapshots", "listByIdentity", "listByName", "createSnapshot",
             "wait", "getSnapshot", "reply", "deleteSnapshot", "replyDeleted"}
  /\ seen \in Seen \cup {None}
  /\ volume \in Volumes \cup {None}
  /\ id \in Ids \cup {None}
  /\ ans \in Answers \cup {None}
  /\ co \in {"none", "creating", "created", "deleting", "deleted"}
  /\ coSnap \in Answers \cup {None}
  /\ fails \in 0..MaxFails

Live(v) == vol[v] \in {"available", "inUse"}

\* The volumes the request may mean.
Denotes(v) == v = source \/ Name[v] = source

Init ==
  /\ source \in Sources
  /\ vol \in [Volumes -> {"absent", "available", "inUse"}]
  /\ snap = None
  /\ created = 0
  /\ late = None
  /\ pc = "idle"
  /\ seen = None
  /\ volume = None
  /\ id = None
  /\ ans = None
  /\ co = "none"
  /\ coSnap = None
  /\ fails = 0

-----------------------------------------------------------------------------
(* The API *)

Exists(i) == snap # None /\ snap.id = i

\* POST /v1/snapshots is refused if the name is taken, or if the volume is gone or
\* attached: it "must be in an available state and not currently attached".
CanCreate(v) == snap = None /\ vol[v] = "available" /\ created < MaxSnaps

ApiCreate(v) ==
  /\ created' = created + 1
  /\ snap' = [id |-> created', src |-> v, status |-> "Creating"]

-----------------------------------------------------------------------------
(* CreateSnapshot *)

Goto(label) == pc' = label /\ UNCHANGED <<co, coSnap>>

\* The handler's variables end with the call.
Forget == seen' = None /\ volume' = None /\ id' = None /\ ans' = None

Failure == Goto("idle") /\ Forget

WaitFor(i) == id' = i /\ Goto("wait") /\ UNCHANGED <<seen, volume, ans>>

CreateCall ==
  /\ pc = "idle"
  /\ co \in {"none", "creating"}
  /\ pc' = "listSnapshots"
  /\ co' = "creating"
  /\ UNCHANGED <<source, vol, snap, created, late, seen, volume, id, ans, coSnap, fails>>

ListSnapshots ==
  /\ pc = "listSnapshots"
  /\ seen' = IF snap = None THEN None
             ELSE [id |-> snap.id, src |-> snap.src, named |-> Live(snap.src)]
  /\ Goto("listByIdentity")
  /\ UNCHANGED <<source, vol, snap, created, late, volume, id, ans, fails>>

\* Mutant: a snapshot of the name is taken whatever its source is.
snapshotSourceVolumeMatches_Any(requested, resolved, s) == TRUE

\* Mutant: a source volume that is gone never matches.
snapshotSourceVolumeMatches_Resolved(requested, resolved, s) == resolved = s.src

\* The source of s is the resolved volume or, if the request could not be
\* resolved, the volume it names.
snapshotSourceVolumeMatches(requested, resolved, s) ==
  IF resolved # None THEN resolved = s.src
  ELSE requested = s.src \/ (s.named /\ requested = Name[s.src])

\* Mutant: a request that cannot be resolved is used as an identity.
Decide_Unresolved(resolved) ==
  \/ /\ seen # None
     /\ snapshotSourceVolumeMatches(source, resolved, seen)
     /\ WaitFor(seen.id)
  \/ /\ seen = None
     /\ volume' = IF resolved = None THEN source ELSE resolved
     /\ Goto("createSnapshot")
     /\ UNCHANGED <<seen, id, ans>>

\* getOrCreateSnapshot once the volume is resolved, or None if it is not found.
Decide(resolved) ==
  \/ /\ seen # None
     /\ snapshotSourceVolumeMatches(source, resolved, seen)
     /\ WaitFor(seen.id)
  \/ /\ seen # None
     /\ ~snapshotSourceVolumeMatches(source, resolved, seen)
     /\ Failure
  \/ /\ seen = None /\ resolved # None
     /\ volume' = resolved
     /\ Goto("createSnapshot")
     /\ UNCHANGED <<seen, id, ans>>
  \/ seen = None /\ resolved = None /\ Failure

\* resolveVolumeIdentity: by identity, then by name; several volumes of a name
\* are an error.
ListByIdentity ==
  /\ pc = "listByIdentity"
  /\ LET found == source \in Volumes /\ Live(source)
     IN  \/ found /\ Decide(source)
         \/ ~found /\ Goto("listByName") /\ UNCHANGED <<seen, volume, id, ans>>
  /\ UNCHANGED <<source, vol, snap, created, late, fails>>

ListByName ==
  /\ pc = "listByName"
  /\ LET found == {v \in Volumes : Live(v) /\ Name[v] = source}
     IN  \/ found = {} /\ Decide(None)
         \/ Cardinality(found) = 1 /\ \E v \in found : Decide(v)
         \/ Cardinality(found) > 1 /\ Failure
  /\ UNCHANGED <<source, vol, snap, created, late, fails>>

CreateSnapshot ==
  /\ pc = "createSnapshot"
  /\ \/ CanCreate(volume) /\ ApiCreate(volume) /\ WaitFor(created')
     \/ ~CanCreate(volume) /\ Failure /\ UNCHANGED <<snap, created>>
  /\ UNCHANGED <<source, vol, late, fails>>

\* One round of WaitUntilSnapshotIsAvailable; any other status polls again.
WaitUntilAvailable ==
  /\ pc = "wait"
  /\ \/ Exists(id) /\ snap.status = "Available" /\ Goto("getSnapshot")
                   /\ UNCHANGED <<seen, volume, id, ans>>
     \/ ~Exists(id) /\ Failure
  /\ UNCHANGED <<source, vol, snap, created, late, fails>>

\* The wait has no end of its own: the caller's deadline ends it.  It looks at
\* once, so that a snapshot that is available is not missed every time; a
\* deadline between two rounds is a CallFails.
WaitDeadline ==
  /\ pc = "wait"
  /\ Exists(id) => snap.status # "Available"
  /\ Failure
  /\ UNCHANGED <<source, vol, snap, created, late, fails>>

\* The last read, and mapToCSISnapshot: the source is told only if the API
\* shows the volume.
GetSnapshot ==
  /\ pc = "getSnapshot"
  /\ \/ /\ Exists(id)
        /\ ans' = [id |-> id, src |-> snap.src,
                   told |-> IF Live(snap.src) THEN snap.src ELSE None,
                   ready |-> snap.status = "Available"]
        /\ Goto("reply")
        /\ UNCHANGED <<seen, volume, id>>
     \/ ~Exists(id) /\ Failure
  /\ UNCHANGED <<source, vol, snap, created, late, fails>>

\* The CO gets the answer; it repeats the call until the snapshot is ready.
Reply ==
  /\ pc = "reply"
  /\ pc' = "idle"
  /\ Forget
  /\ \/ ans.ready /\ co' = "created" /\ coSnap' = ans
     \/ ~ans.ready /\ UNCHANGED <<co, coSnap>>
  /\ UNCHANGED <<source, vol, snap, created, late, fails>>

-----------------------------------------------------------------------------
(* DeleteSnapshot *)

DeleteCall ==
  /\ pc = "idle"
  /\ co \in {"created", "deleting"}
  /\ pc' = "deleteSnapshot"
  /\ co' = "deleting"
  /\ UNCHANGED <<source, vol, snap, created, late, seen, volume, id, ans, coSnap, fails>>

\* Mutant: not found is an error like any other.
DeleteSnapshot_NotFoundFails ==
  /\ pc = "deleteSnapshot"
  /\ \/ /\ Exists(coSnap.id)
        /\ snap' = [snap EXCEPT !.status = "Deleting"]
        /\ Goto("replyDeleted")
     \/ ~Exists(coSnap.id) /\ Goto("idle") /\ UNCHANGED snap
  /\ UNCHANGED <<source, vol, created, late, seen, volume, id, ans, fails>>

\* Mutant: whatever has the name is deleted.
DeleteSnapshot_ByName ==
  /\ pc = "deleteSnapshot"
  /\ snap' = IF snap = None THEN None ELSE [snap EXCEPT !.status = "Deleting"]
  /\ Goto("replyDeleted")
  /\ UNCHANGED <<source, vol, created, late, seen, volume, id, ans, fails>>

\* A snapshot that is not there counts as deleted.
DeleteSnapshot ==
  /\ pc = "deleteSnapshot"
  /\ \/ Exists(coSnap.id) /\ snap' = [snap EXCEPT !.status = "Deleting"]
     \/ ~Exists(coSnap.id) /\ UNCHANGED snap
  /\ Goto("replyDeleted")
  /\ UNCHANGED <<source, vol, created, late, seen, volume, id, ans, fails>>

ReplyDeleted ==
  /\ pc = "replyDeleted"
  /\ pc' = "idle"
  /\ co' = "deleted"
  /\ UNCHANGED <<source, vol, snap, created, late, seen, volume, id, ans, coSnap, fails>>

-----------------------------------------------------------------------------
(* Failures, the API's own steps and its other users *)

\* A call fails between two API calls, or its answer is lost; a create request
\* may still be on its way.
CallFails ==
  /\ pc # "idle"
  /\ fails < MaxFails
  /\ fails' = fails + 1
  /\ Failure
  /\ \/ UNCHANGED late
     \/ pc = "createSnapshot" /\ late' = volume
  /\ UNCHANGED <<source, vol, snap, created>>

LateCreate ==
  /\ late # None
  /\ late' = None
  /\ \/ CanCreate(late) /\ ApiCreate(late)
     \/ ~CanCreate(late) /\ UNCHANGED <<snap, created>>
  /\ UNCHANGED <<source, vol, pc, seen, volume, id, ans, co, coSnap, fails>>

ApiCompletes ==
  /\ snap # None
  /\ \/ snap.status = "Creating"
        /\ \E s \in {"Available", "Failed"} : snap' = [snap EXCEPT !.status = s]
     \/ snap.status = "Deleting" /\ snap' = None
  /\ UNCHANGED <<source, vol, created, late, pc, seen, volume, id, ans, co, coSnap, fails>>

\* Someone else takes a snapshot under the name, or deletes the one there is.
OthersCreate(v) ==
  /\ CanCreate(v)
  /\ ApiCreate(v)
  /\ UNCHANGED <<source, vol, late, pc, seen, volume, id, ans, co, coSnap, fails>>

OthersDelete ==
  /\ snap # None
  /\ snap.status # "Deleting"
  /\ snap' = [snap EXCEPT !.status = "Deleting"]
  /\ UNCHANGED <<source, vol, created, late, pc, seen, volume, id, ans, co, coSnap, fails>>

VolumeCreated(v) ==
  /\ vol[v] = "absent"
  /\ vol' = [vol EXCEPT ![v] = "available"]
  /\ UNCHANGED <<source, snap, created, late, pc, seen, volume, id, ans, co, coSnap, fails>>

VolumeAttached(v) ==
  /\ vol[v] = "available"
  /\ vol' = [vol EXCEPT ![v] = "inUse"]
  /\ UNCHANGED <<source, snap, created, late, pc, seen, volume, id, ans, co, coSnap, fails>>

VolumeDetached(v) ==
  /\ vol[v] = "inUse"
  /\ vol' = [vol EXCEPT ![v] = "available"]
  /\ UNCHANGED <<source, snap, created, late, pc, seen, volume, id, ans, co, coSnap, fails>>

VolumeDeleted(v) ==
  /\ vol[v] = "available"
  /\ vol' = [vol EXCEPT ![v] = "gone"]
  /\ UNCHANGED <<source, snap, created, late, pc, seen, volume, id, ans, co, coSnap, fails>>

-----------------------------------------------------------------------------
Handler ==
  \/ ListSnapshots \/ ListByIdentity \/ ListByName \/ CreateSnapshot
  \/ WaitUntilAvailable \/ GetSnapshot \/ Reply
  \/ DeleteSnapshot \/ ReplyDeleted

Next ==
  \/ CreateCall \/ DeleteCall \/ Handler
  \/ WaitDeadline \/ CallFails \/ LateCreate
  \/ ApiCompletes \/ OthersDelete
  \/ \E v \in Volumes : \/ OthersCreate(v) \/ VolumeCreated(v) \/ VolumeDeleted(v)
                         \/ VolumeAttached(v) \/ VolumeDetached(v)

Spec == Init /\ [][Next]_vars

\* A handler runs on, the caller's deadline ends a wait, the CO repeats a call
\* that has failed, and the API completes what it has accepted.
Fairness ==
  /\ WF_vars(Handler)
  /\ WF_vars(WaitDeadline)
  /\ WF_vars(co = "creating" /\ CreateCall)
  /\ WF_vars(co = "deleting" /\ DeleteCall)
  /\ WF_vars(ApiCompletes)

FairSpec == Spec /\ Fairness

-----------------------------------------------------------------------------
(* Properties *)

\* The snapshot the CO was told of is one of the volume it asked for: neither a
\* snapshot that others took under the name, nor a volume created anew under
\* the source's name, nor a repeated call slips in another source.
SnapshotOfSource == coSnap # None => Denotes(coSnap.src)

\* Once DeleteSnapshot has succeeded the snapshot the CO knew is gone or on its
\* way out, and a snapshot that others took under its name is left alone.
DeletesItsOwn ==
  [][/\ co' = "deleted" /\ co # "deleted" /\ Exists(coSnap.id) =>
          snap.status = "Deleting"
     /\ pc = "deleteSnapshot" /\ pc' = "replyDeleted" /\ ~Exists(coSnap.id) =>
          snap' = snap
    ]_vars

\* A create that the CO repeats does not fail for ever once there is a snapshot of
\* the volume it names by identity that does not end as Failed, even if that volume
\* is attached or deleted meanwhile, nor while the name is free and the volume is
\* available.  The snapshot of a volume that stays attached is refused every time.
CreateConverges ==
  ~<>[](/\ co = "creating"
        /\ \/ snap # None /\ snap.src = source /\ snap.status # "Failed"
           \/ snap = None /\ created < MaxSnaps /\ source \in Volumes
              /\ vol[source] = "available")

\* A delete that the CO repeats succeeds, whoever deletes the snapshot first.
DeleteConverges == co = "deleting" ~> co = "deleted"

\* The CSI definition of Snapshot.source_volume_id: "This field is REQUIRED".
AnswerNamesSource == pc = "reply" => ans.told # None
=============================================================================
