---------------------------- MODULE Provisioning ----------------------------
(***************************************************************************)
(* CreateVolume, DeleteVolume (driver/controller_volumes.go) and           *)
(* ControllerExpandVolume (driver/controller_resize.go) for ONE volume     *)
(* name, called by the external-provisioner and the external-resizer (CO). *)
(*                                                                         *)
(* Every API call is a step, and so is the answer to the CO, which a       *)
(* failure may lose after the API has done its part.  The CO retries a     *)
(* create, with the same request, and a delete until they succeed.         *)
(* Requests refused for an empty name, missing or unsupported capabilities *)
(* or a foreign region change nothing and are left out.                    *)
(***************************************************************************)
EXTENDS Capacity, FiniteSets

CONSTANTS
  Sizes,        \* values of RequiredBytes and LimitBytes, 0 for not set
  MaxVolumes,   \* bound: volumes the API creates
  MaxExpands,   \* bound: expansions the CO asks for
  MaxFails,     \* bound: calls that fail (API error, lost answer, crash)
  LateCreates,  \* TRUE: a create request may outlive its call
  NameLookups   \* whether GetVolume takes a name, too: FALSE as the client says

ASSUME ProvisioningAssumption ==
  /\ Sizes \subseteq Int
  /\ MaxVolumes \in Nat \ {0}
  /\ MaxExpands \in Nat
  /\ MaxFails \in Nat
  /\ LateCreates \in BOOLEAN
  /\ NameLookups \subseteq BOOLEAN

VARIABLES
  vols,       \* the API's volumes: those of this name, and the one to adopt
  created,    \* number of volume identities in use or used up
  snapshot,   \* the snapshot to restore from exists
  late,       \* sizes of create requests whose call has returned, one at most
  byName,     \* GetVolume takes a name for an identity, fixed
  req,        \* the CO's request
  pc,         \* the call the handler is about to make
  size,       \* the size the handler works with
  ans,        \* the answer: volume identity and CapacityBytes
  co,         \* the CO's view of the volume
  coVol,      \* the identity and capacity the CO has recorded
  expands,    \* number of expansions asked for
  fails       \* number of failed calls

vars == <<vols, created, snapshot, late, byName, req, pc, size, ans,
          co, coVol, expands, fails>>

Requests == [required : Sizes, limit : Sizes, known : BOOLEAN,
             restore : BOOLEAN, adopt : BOOLEAN]
Volumes == [id : 1..MaxVolumes, size : Nat]    \* size in GiB
Answers == [id : 0..MaxVolumes, capacity : Nat]
NoAnswer == [id |-> 0, capacity |-> 0]
Adopted == 1   \* the identity that the parameter volume-identity gives, if any

TypeOK ==
  /\ vols \in SUBSET Volumes
  /\ created \in 0..MaxVolumes
  /\ snapshot \in BOOLEAN
  /\ late \in SUBSET Nat
  /\ byName \in BOOLEAN
  /\ req \in Requests
  /\ pc \in {"idle", "getVolume", "listVolumeTypes", "getSnapshot", "createVolume",
             "deleteVolume", "expandGetVolume", "updateVolume", "reply"}
  /\ size \in Nat
  /\ ans \in Answers
  /\ co \in {"none", "creating", "bound", "expanding", "deleting", "deleted"}
  /\ coVol \in Answers
  /\ expands \in 0..MaxExpands
  /\ fails \in 0..MaxFails

\* The volume that volume-identity names was there before, or never was.
Init ==
  /\ req \in Requests
  /\ created = IF req.adopt THEN Adopted ELSE 0
  /\ \/ vols = {}
     \/ req.adopt /\ vols = {[id |-> Adopted, size |-> 1]}
  /\ snapshot = TRUE
  /\ late = {}
  /\ byName \in NameLookups
  /\ pc = "idle"
  /\ size = 0
  /\ ans = NoAnswer
  /\ co = "none"
  /\ coVol = NoAnswer
  /\ expands = 0
  /\ fails = 0

Goto(label) == pc' = label /\ UNCHANGED <<co, coVol>>

Failure == Goto("idle")

Answer(id, capacity) ==
  ans' = [id |-> id, capacity |-> capacity] /\ Goto("reply")

\* The handler's first step; a size of 0 is an error and ends the call.
Start(r, label, state) ==
  /\ pc = "idle"
  /\ size' = getStorageSizeFromCapacityRange(r.required, r.limit)
  /\ pc' = IF size' = 0 THEN "idle" ELSE label
  /\ co' = state
  /\ UNCHANGED coVol

\* The size in the API's unit: a rest below one GiB is cut off.
InGiB(bytes) == bytes \div giB

-----------------------------------------------------------------------------
(* CreateVolume *)

CreateCall ==
  /\ co \in {"none", "creating"}
  /\ Start(req, "getVolume", "creating")
  /\ UNCHANGED <<vols, created, snapshot, late, byName, req, ans, expands, fails>>

\* Mutant: sizes are compared in different units.
ExistingMatches_Units(v) == v.size = size

\* createVolumeResponseFromExisting accepts a volume of exactly the size.
ExistingMatches(v) == v.size * giB = size

\* GetVolume is given the volume-identity or else the name; a volume it returns
\* is the answer if it has the size asked for.
CreateGetVolume ==
  /\ pc = "getVolume"
  /\ LET found == {v \in vols : IF req.adopt THEN v.id = Adopted ELSE byName}
     IN  \/ \E v \in found :
              \/ ExistingMatches(v) /\ Answer(v.id, v.size * giB)
              \/ ~ExistingMatches(v) /\ Failure /\ UNCHANGED ans
         \/ found = {} /\ Goto("listVolumeTypes") /\ UNCHANGED ans
  /\ UNCHANGED <<vols, created, snapshot, late, byName, req, size, expands, fails>>

CreateListVolumeTypes ==
  /\ pc = "listVolumeTypes"
  /\ \/ ~req.known /\ Failure
     \/ req.known /\ Goto(IF req.restore THEN "getSnapshot" ELSE "createVolume")
  /\ UNCHANGED <<vols, created, snapshot, late, byName, req, size, ans, expands, fails>>

CreateGetSnapshot ==
  /\ pc = "getSnapshot"
  /\ \/ snapshot /\ Goto("createVolume")
     \/ ~snapshot /\ Failure
  /\ UNCHANGED <<vols, created, snapshot, late, byName, req, size, ans, expands, fails>>

\* POST /v1/volumes, for whole GiB; it fails if the snapshot is gone.
CanCreate == req.restore => snapshot

ApiCreate(gib) ==
  /\ created < MaxVolumes
  /\ created' = created + 1
  /\ vols' = vols \cup {[id |-> created', size |-> gib]}

\* Mutant: that the snapshot is gone is found out once the volume is created.
CreateCreateVolume_ThenCheck ==
  /\ pc = "createVolume"
  /\ ApiCreate(InGiB(size))
  /\ \/ CanCreate /\ Answer(created', size)
     \/ ~CanCreate /\ Failure /\ UNCHANGED ans
  /\ UNCHANGED <<snapshot, late, byName, req, size, expands, fails>>

\* The answer has the bytes asked for.
CreateCreateVolume ==
  /\ pc = "createVolume"
  /\ \/ CanCreate /\ ApiCreate(InGiB(size)) /\ Answer(created', size)
     \/ ~CanCreate /\ Failure /\ UNCHANGED <<vols, created, ans>>
  /\ UNCHANGED <<snapshot, late, byName, req, size, expands, fails>>

-----------------------------------------------------------------------------
(* DeleteVolume *)

DeleteCall ==
  /\ pc = "idle"
  /\ co \in {"bound", "expanding", "deleting"}
  /\ pc' = "deleteVolume"
  /\ co' = "deleting"
  /\ UNCHANGED <<vols, created, snapshot, late, byName, req, size, ans, coVol, expands, fails>>

\* Mutant: not found is an error like any other.
DeleteDeleteVolume_NotFoundFails ==
  /\ pc = "deleteVolume"
  /\ LET mine == {v \in vols : v.id = coVol.id}
     IN  /\ vols' = vols \ mine
         /\ Goto(IF mine = {} THEN "idle" ELSE "reply")
  /\ UNCHANGED <<created, snapshot, late, byName, req, size, ans, expands, fails>>

\* A volume that is not there counts as deleted.
DeleteDeleteVolume ==
  /\ pc = "deleteVolume"
  /\ vols' = {v \in vols : v.id # coVol.id}
  /\ Goto("reply")
  /\ UNCHANGED <<created, snapshot, late, byName, req, size, ans, expands, fails>>

-----------------------------------------------------------------------------
(* ControllerExpandVolume *)

\* The CO asks for more than it has, and repeats a call that failed.
ExpandCall(r) ==
  /\ \/ /\ co = "bound"
        /\ expands < MaxExpands
        /\ expands' = expands + 1
        /\ r.required > coVol.capacity
        /\ r = [req EXCEPT !.required = r.required, !.limit = r.limit]
     \/ co = "expanding" /\ r = req /\ UNCHANGED expands
  /\ req' = r
  /\ Start(r, "expandGetVolume", "expanding")
  /\ UNCHANGED <<vols, created, snapshot, late, byName, ans, fails>>

\* Mutant: a volume one GiB short is taken to be large enough.
isVolumeSizeEuqalOrLargerThanRequested_OffByOne(v) == v.size + 1 >= InGiB(size)

isVolumeSizeEuqalOrLargerThanRequested(v) == v.size >= InGiB(size)

ExpandGetVolume ==
  /\ pc = "expandGetVolume"
  /\ \E v \in vols :
       /\ v.id = coVol.id
       /\ \/ isVolumeSizeEuqalOrLargerThanRequested(v) /\ Answer(v.id, v.size * giB)
          \/ /\ ~isVolumeSizeEuqalOrLargerThanRequested(v)
             /\ Goto("updateVolume")
             /\ UNCHANGED ans
  /\ UNCHANGED <<vols, created, snapshot, late, byName, req, size, expands, fails>>

\* The update sets the size; it does not say by how much the volume grows.
ExpandUpdateVolume ==
  /\ pc = "updateVolume"
  /\ vols' = {IF v.id = coVol.id THEN [v EXCEPT !.size = InGiB(size)] ELSE v :
                v \in vols}
  /\ Answer(coVol.id, InGiB(size) * giB)
  /\ UNCHANGED <<created, snapshot, late, byName, req, size, expands, fails>>

-----------------------------------------------------------------------------
\* The CO gets the answer.
Reply ==
  /\ pc = "reply"
  /\ pc' = "idle"
  /\ co' = IF co = "deleting" THEN "deleted" ELSE "bound"
  /\ coVol' = IF co = "deleting" THEN NoAnswer ELSE ans
  /\ UNCHANGED <<vols, created, snapshot, late, byName, req, size, ans, expands, fails>>

\* A call fails between two API calls, or its answer is lost; a create request
\* may still be on its way.
CallFails ==
  /\ pc # "idle"
  /\ fails < MaxFails
  /\ fails' = fails + 1
  /\ Failure
  /\ \/ UNCHANGED late
     \/ LateCreates /\ late = {} /\ pc = "createVolume" /\ late' = {InGiB(size)}
  /\ UNCHANGED <<vols, created, snapshot, byName, req, size, ans, expands>>

LateCreate ==
  /\ late # {}
  /\ late' = {}
  /\ \/ CanCreate /\ \E gib \in late : ApiCreate(gib)
     \/ ~CanCreate /\ UNCHANGED <<vols, created>>
  /\ UNCHANGED <<snapshot, byName, req, pc, size, ans, co, coVol, expands, fails>>

DeleteSnapshot ==
  /\ snapshot
  /\ snapshot' = FALSE
  /\ UNCHANGED <<vols, created, late, byName, req, pc, size, ans, co, coVol, expands, fails>>

Create == CreateGetVolume \/ CreateListVolumeTypes \/ CreateGetSnapshot
            \/ CreateCreateVolume

Expand == ExpandGetVolume \/ ExpandUpdateVolume

Next ==
  \/ CreateCall \/ Create
  \/ DeleteCall \/ DeleteDeleteVolume
  \/ \E r \in Requests : ExpandCall(r)
  \/ Expand
  \/ Reply \/ CallFails \/ LateCreate \/ DeleteSnapshot

Spec == Init /\ [][Next]_vars

\* A handler runs on, its answer arrives, and the CO retries a failed call.
Fairness ==
  /\ WF_vars(Create \/ DeleteDeleteVolume \/ Expand)
  /\ WF_vars(Reply)
  /\ WF_vars(co = "creating" /\ CreateCall)
  /\ WF_vars(co = "deleting" /\ DeleteCall)
  /\ WF_vars(co = "expanding" /\ ExpandCall(req))

FairSpec == Spec /\ Fairness

-----------------------------------------------------------------------------
(* Properties *)

\* The size CreateVolume or ControllerExpandVolume works with honours the range
\* of the request: at least RequiredBytes, at most LimitBytes, and not above the
\* supported maximum, whichever bounds are set.
SizeHonoursRange ==
  size # 0 =>
    /\ req.required > 0 => size >= req.required
    /\ req.limit > 0 => size <= req.limit
    /\ size <= maximumVolumeSizeInBytes

\* The CSI definition of CreateVolumeRequest.name: "multiple CreateVolume calls
\* for the same name do not result in more than one piece of storage".
OneVolumePerName == Cardinality(vols) <= 1

\* Volumes that CreateVolume has made and nobody will delete: the CO does not know
\* their identities, nor is an answer with one on its way.
Orphans ==
  {v \in vols : /\ v.id # coVol.id
                /\ ~(req.adopt /\ v.id = Adopted)
                /\ ~(pc = "reply" /\ co = "creating" /\ v.id = ans.id)}

\* A volume is left over only by a call that failed half way, one by each: neither
\* the error paths of CreateVolume, nor its retries, nor a DeleteVolume that
\* answers with success leave a volume behind by themselves.
OrphansNeedFailures == Cardinality(Orphans) + Cardinality(late) <= fails

\* While the CO has a bound volume it exists, with at least the capacity the CO
\* was told and the RequiredBytes it last asked for.
CapacityTruthful ==
  co = "bound" =>
    \E v \in vols : /\ v.id = coVol.id
                    /\ v.size * giB >= coVol.capacity
                    /\ v.size * giB >= req.required

\* A create that the CO repeats does not fail for ever while the request is a
\* valid one, its snapshot exists and no volume of another size has the name: what
\* an earlier call created before its answer was lost is adopted if GetVolume finds
\* it, and does not stand in the way if not.
CreateConverges ==
  ~<>[](/\ co = "creating" /\ size # 0
        /\ req.known /\ (req.restore => snapshot)
        /\ \A v \in vols : v.size * giB = size)

\* A delete that the CO repeats succeeds, whether or not an earlier call has
\* deleted the volume already.
DeleteConverges == co = "deleting" ~> co = "deleted"
=============================================================================
