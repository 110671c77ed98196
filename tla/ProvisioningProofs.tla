------------------------- MODULE ProvisioningProofs -------------------------
(***************************************************************************)
(* Proofs about Capacity and Provisioning, for any sizes, any unit and any *)
(* minimum, maximum and default that satisfy CapacityAssumption.           *)
(***************************************************************************)
EXTENDS Provisioning, FiniteSetTheorems, TLAPS

\* What getStorageSizeFromCapacityRange returns for every pair of 64 bit or
\* larger integers: an error, or a size inside the range and the maximum.
LEMMA SizeInRange ==
  ASSUME NEW required \in Int, NEW limit \in Int
  PROVE  LET s == getStorageSizeFromCapacityRange(required, limit)
         IN  /\ s \in Nat
             /\ s # 0 => /\ required > 0 => s >= required
                         /\ limit > 0 => s <= limit
                         /\ s <= maximumVolumeSizeInBytes
BY CapacityAssumption DEF getStorageSizeFromCapacityRange

\* getStorageSizeFromCapacityRange lets a size below the minimum through in one
\* case only: RequiredBytes is below the minimum and LimitBytes is not.
THEOREM BelowMinimumCause ==
  ASSUME NEW required \in Int, NEW limit \in Int,
         LET s == getStorageSizeFromCapacityRange(required, limit)
         IN  s # 0 /\ s < minimumVolumeSizeInBytes
  PROVE  /\ 0 < required /\ required < minimumVolumeSizeInBytes
         /\ minimumVolumeSizeInBytes <= limit
BY CapacityAssumption DEF getStorageSizeFromCapacityRange

RangeInv == TypeOK /\ SizeHonoursRange

\* Before the first call there is no size to speak of.
LEMMA InitRange == Init => RangeInv
BY CapacityAssumption, ProvisioningAssumption DEF Init, RangeInv, TypeOK, Volumes,
  Answers, NoAnswer, Adopted, SizeHonoursRange

\* A call that starts works with a size in the range of its request.
LEMMA StartRange ==
  ASSUME NEW r \in Requests, NEW label, NEW state,
         Start(r, label, state), req' = r
  PROVE  size' \in Nat /\ SizeHonoursRange'
<1>1. r.required \in Int /\ r.limit \in Int
  BY ProvisioningAssumption DEF Requests
<1>2. size' = getStorageSizeFromCapacityRange(r.required, r.limit)
  BY DEF Start
<1> QED
  BY <1>1, <1>2, SizeInRange DEF SizeHonoursRange

\* Sizes in GiB are natural numbers.
LEMMA GiBTypes ==
  ASSUME NEW n \in Nat PROVE n * giB \in Nat /\ n \div giB \in Nat
BY CapacityAssumption

\* Every step of a handler and of the CO keeps RangeInv.
LEMMA NextRange == RangeInv /\ [Next]_vars => RangeInv'
<1> SUFFICES ASSUME RangeInv, [Next]_vars PROVE RangeInv'
  OBVIOUS
<1> USE ProvisioningAssumption DEF RangeInv, TypeOK, Goto, Failure
<1>1. CASE CreateCall
  BY <1>1, StartRange DEF CreateCall, Start
<1>2. ASSUME NEW r \in Requests, ExpandCall(r) PROVE RangeInv'
  <2>1. size' \in Nat /\ SizeHonoursRange'
    BY <1>2, StartRange DEF ExpandCall
  <2>2. expands' \in 0..MaxExpands
    BY <1>2 DEF ExpandCall
  <2> QED
    BY <1>2, <2>1, <2>2 DEF ExpandCall, Start
<1>3. CASE CreateGetVolume
  <2>1. SizeHonoursRange'
    BY <1>3 DEF CreateGetVolume, SizeHonoursRange
  <2>2. ans' \in Answers
    BY <1>3, GiBTypes DEF CreateGetVolume, Answer, Volumes, Answers
  <2> QED
    BY <1>3, <2>1, <2>2 DEF CreateGetVolume, Answer
<1>4. CASE CreateListVolumeTypes
  BY <1>4 DEF CreateListVolumeTypes, SizeHonoursRange
<1>5. CASE CreateGetSnapshot
  BY <1>5 DEF CreateGetSnapshot, SizeHonoursRange
<1>6. CASE CreateCreateVolume
  <2>1. SizeHonoursRange'
    BY <1>6 DEF CreateCreateVolume, SizeHonoursRange
  <2>2. CASE CanCreate /\ ApiCreate(InGiB(size)) /\ Answer(created', size)
    <3>1. created' \in 1..MaxVolumes /\ InGiB(size) \in Nat
      BY <2>2, GiBTypes DEF ApiCreate, InGiB
    <3>2. vols' \in SUBSET Volumes
      BY <2>2, <3>1 DEF ApiCreate, Volumes
    <3>3. ans' \in Answers
      BY <2>2, <3>1 DEF Answer, Answers
    <3> QED
      BY <1>6, <2>1, <2>2, <3>1, <3>2, <3>3 DEF CreateCreateVolume, Answer
  <2> QED
    BY <1>6, <2>1, <2>2 DEF CreateCreateVolume
<1>7. CASE DeleteCall
  BY <1>7 DEF DeleteCall, SizeHonoursRange
<1>8. CASE DeleteDeleteVolume
  BY <1>8 DEF DeleteDeleteVolume, SizeHonoursRange
<1>9. CASE ExpandGetVolume
  <2>1. SizeHonoursRange'
    BY <1>9 DEF ExpandGetVolume, SizeHonoursRange
  <2>2. ans' \in Answers
    BY <1>9, GiBTypes DEF ExpandGetVolume, Answer, Volumes, Answers
  <2> QED
    BY <1>9, <2>1, <2>2 DEF ExpandGetVolume, Answer
<1>10. CASE ExpandUpdateVolume
  <2>1. size \div giB \in Nat /\ (size \div giB) * giB \in Nat
    BY GiBTypes
  <2>2. vols' \in SUBSET Volumes
    BY <1>10, <2>1 DEF ExpandUpdateVolume, InGiB, Volumes
  <2>3. ans' \in Answers
    BY <1>10, <2>1 DEF ExpandUpdateVolume, InGiB, Answer, Answers
  <2> QED
    BY <1>10, <2>2, <2>3 DEF ExpandUpdateVolume, Answer, SizeHonoursRange
<1>11. CASE Reply
  BY <1>11 DEF Reply, Answers, NoAnswer, SizeHonoursRange
<1>12. CASE CallFails
  <2>1. size \div giB \in Nat
    BY GiBTypes
  <2>2. late' \in SUBSET Nat
    BY <1>12, <2>1 DEF CallFails, InGiB
  <2> QED
    BY <1>12, <2>2 DEF CallFails, SizeHonoursRange
<1>13. CASE LateCreate
  <2>1. created' \in 0..MaxVolumes /\ vols' \in SUBSET Volumes
    BY <1>13 DEF LateCreate, ApiCreate, Volumes
  <2> QED
    BY <1>13, <2>1 DEF LateCreate, SizeHonoursRange
<1>14. CASE DeleteSnapshot
  BY <1>14 DEF DeleteSnapshot, SizeHonoursRange
<1>15. CASE UNCHANGED vars
  BY <1>15 DEF vars, SizeHonoursRange
<1> QED
  BY <1>1, <1>2, <1>3, <1>4, <1>5, <1>6, <1>7, <1>8, <1>9, <1>10, <1>11, <1>12,
    <1>13, <1>14, <1>15 DEF Next, Create, Expand

\* RangeInv holds throughout.
LEMMA RangeInvariant == Spec => []RangeInv
<1>1. Init => RangeInv
  BY InitRange
<1>2. RangeInv /\ [Next]_vars => RangeInv'
  BY NextRange
<1> QED
  BY <1>1, <1>2, PTL DEF Spec

\* Every variable keeps its type; no size, stored or answered, is negative.
THEOREM TypeCorrect == Spec => []TypeOK
<1>1. RangeInv => TypeOK
  BY DEF RangeInv
<1> QED
  BY <1>1, RangeInvariant, PTL

\* The size a handler works with honours the capacity range of the request it
\* answers, for every request the CO can send.
THEOREM RangeHonoured == Spec => []SizeHonoursRange
<1>1. RangeInv => SizeHonoursRange
  BY DEF RangeInv
<1> QED
  BY <1>1, RangeInvariant, PTL

-----------------------------------------------------------------------------
(* Volumes that nobody will delete.  Whether GetVolume takes names or not, and *)
(* whether create requests outlive their calls or not, does not matter here.   *)

\* Which call is at work in which state of the CO.
PhaseInv ==
  /\ pc \in {"getVolume", "listVolumeTypes", "getSnapshot", "createVolume"} =>
       co = "creating"
  /\ pc \in {"expandGetVolume", "updateVolume"} => co = "expanding"
  /\ pc = "deleteVolume" => co = "deleting"
  /\ pc = "reply" => co \in {"creating", "expanding", "deleting"}

\* Identities name one volume each, and none is given out twice.
IdentityInv ==
  /\ \A v \in vols : v.id <= created
  /\ \A v, w \in vols : v.id = w.id => v = w
  /\ coVol.id <= created
  /\ ans.id <= created
  /\ req.adopt => Adopted <= created

\* What the CO knows of its volume before and after it has one, and the identity
\* an answer is about.
KnownInv ==
  /\ co \in {"none", "creating", "deleted"} => coVol.id = 0
  /\ pc = "reply" /\ co = "expanding" => ans.id = coVol.id
  /\ pc = "reply" /\ co = "deleting" => \A v \in vols : v.id # coVol.id

\* Each failed call accounts for one volume left over, or for one create request
\* still on its way.
CountInv ==
  /\ late = {} \/ \E gib \in Nat : late = {gib}
  /\ IsFiniteSet(Orphans)
  /\ OrphansNeedFailures

OrphanInv == PhaseInv /\ IdentityInv /\ KnownInv /\ CountInv

\* A set with at most one member that is not in a finite set S is finite, and has
\* at most one member more.
LEMMA OneMore ==
  ASSUME NEW S, NEW T, NEW e, IsFiniteSet(S), T \subseteq S \cup {e}
  PROVE  IsFiniteSet(T) /\ Cardinality(T) <= Cardinality(S) + 1
<1>1. /\ IsFiniteSet(S \cup {e}) /\ Cardinality(S) \in Nat
      /\ Cardinality(S \cup {e}) \in {Cardinality(S), Cardinality(S) + 1}
  BY FS_AddElement, FS_CardinalityType
<1>2. IsFiniteSet(T) /\ Cardinality(T) <= Cardinality(S \cup {e})
  BY <1>1, FS_Subset
<1>3. Cardinality(T) \in Nat
  BY <1>2, FS_CardinalityType
<1> QED
  BY <1>1, <1>2, <1>3

\* There is no late request, or one.
LEMMA LateCount == ASSUME CountInv PROVE Cardinality(late) \in Nat
<1>1. CASE late = {}
  BY <1>1, FS_EmptySet
<1>2. ASSUME NEW gib \in Nat, late = {gib} PROVE Cardinality(late) \in Nat
  BY <1>2, FS_Singleton
<1> QED
  BY <1>1, <1>2 DEF CountInv

\* The count stays right in a step that adds no orphan and no late request.
LEMMA NoMore ==
  ASSUME TypeOK, CountInv, Orphans' \subseteq Orphans, UNCHANGED <<late, fails>>
  PROVE  CountInv'
<1>1. /\ IsFiniteSet(Orphans')
      /\ Cardinality(Orphans') <= Cardinality(Orphans)
  BY FS_Subset DEF CountInv
<1>2. Cardinality(Orphans) \in Nat /\ Cardinality(Orphans') \in Nat
  BY <1>1, FS_CardinalityType DEF CountInv
<1>3. Cardinality(late) \in Nat
  BY LateCount
<1>4. fails \in Nat
  BY ProvisioningAssumption DEF TypeOK
<1> QED
  BY <1>1, <1>2, <1>3, <1>4 DEF CountInv, OrphansNeedFailures

\* There is no volume but the one to adopt, and no call under way.
LEMMA InitOrphan == Init => OrphanInv
<1> SUFFICES ASSUME Init PROVE OrphanInv
  OBVIOUS
<1>1. Orphans = {}
  BY DEF Init, Orphans
<1>2. PhaseInv /\ IdentityInv /\ KnownInv
  BY DEF Init, PhaseInv, IdentityInv, KnownInv, NoAnswer, Adopted
<1>3. CountInv
  BY <1>1, FS_EmptySet DEF Init, CountInv, OrphansNeedFailures
<1> QED
  BY <1>2, <1>3 DEF OrphanInv

\* Every step keeps OrphanInv.
LEMMA NextOrphan ==
  ASSUME TypeOK, OrphanInv, [Next]_vars PROVE OrphanInv'
<1> USE DEF OrphanInv, PhaseInv, IdentityInv, KnownInv, Goto, Failure, Answer
<1>t. /\ created \in Nat /\ coVol.id \in Nat /\ ans.id \in Nat
      /\ \A v \in vols : v.id \in Nat \ {0}
  BY ProvisioningAssumption DEF TypeOK, Volumes, Answers
<1>1. CASE CreateCall
  <2>1. /\ pc = "idle" /\ pc' # "reply" /\ co' = "creating"
        /\ UNCHANGED <<vols, created, late, req, ans, coVol, fails>>
    BY <1>1 DEF CreateCall, Start
  <2>2. CountInv'
    BY <2>1, NoMore DEF Orphans
  <2> QED
    BY <1>1, <2>1, <2>2 DEF CreateCall, Start
<1>2. CASE CreateGetVolume
  <2>1. CountInv'
    BY <1>2, NoMore DEF CreateGetVolume, Orphans
  <2>2. ans'.id <= created
    BY <1>2 DEF CreateGetVolume
  <2> QED
    BY <1>2, <2>1, <2>2 DEF CreateGetVolume
<1>3. CASE CreateListVolumeTypes
  <2>1. CountInv'
    BY <1>3, NoMore DEF CreateListVolumeTypes, Orphans
  <2> QED
    BY <1>3, <2>1 DEF CreateListVolumeTypes
<1>4. CASE CreateGetSnapshot
  <2>1. CountInv'
    BY <1>4, NoMore DEF CreateGetSnapshot, Orphans
  <2> QED
    BY <1>4, <2>1 DEF CreateGetSnapshot
<1>5. CASE CreateCreateVolume
  <2>1. CASE Failure /\ UNCHANGED <<vols, created, ans>>
    <3>1. CountInv'
      BY <1>5, <2>1, NoMore DEF CreateCreateVolume, Orphans
    <3> QED
      BY <1>5, <2>1, <3>1 DEF CreateCreateVolume
  <2>2. CASE ApiCreate(InGiB(size)) /\ Answer(created', size)
    <3> DEFINE new == [id |-> created + 1, size |-> InGiB(size)]
    <3>1. /\ pc' = "reply" /\ co = "creating" /\ ans'.id = created + 1
          /\ created' = created + 1 /\ vols' = vols \cup {new} /\ new.id = created + 1
          /\ UNCHANGED <<late, req, co, coVol, fails>>
      BY <1>5, <2>2 DEF CreateCreateVolume, ApiCreate
    <3> HIDE DEF new
    <3>2. Orphans' \subseteq Orphans
      BY <1>5, <3>1 DEF CreateCreateVolume, Orphans
    <3>3. CountInv'
      BY <3>1, <3>2, NoMore
    <3>4. IdentityInv'
      BY <1>t, <3>1 DEF Adopted
    <3> QED
      BY <3>1, <3>3, <3>4
  <2> QED
    BY <1>5, <2>1, <2>2 DEF CreateCreateVolume
<1>6. CASE DeleteCall
  <2>1. CountInv'
    BY <1>6, NoMore DEF DeleteCall, Orphans
  <2> QED
    BY <1>6, <2>1 DEF DeleteCall
<1>7. CASE DeleteDeleteVolume
  <2>1. CountInv'
    BY <1>7, NoMore DEF DeleteDeleteVolume, Orphans
  <2> QED
    BY <1>7, <2>1 DEF DeleteDeleteVolume
<1>8. ASSUME NEW r \in Requests, ExpandCall(r) PROVE OrphanInv'
  <2>1. /\ pc = "idle" /\ pc' \in {"idle", "expandGetVolume"} /\ co' = "expanding"
        /\ UNCHANGED <<vols, created, late, ans, coVol, fails>>
    BY <1>8 DEF ExpandCall, Start
  <2>2. req'.adopt = req.adopt
    BY <1>8 DEF ExpandCall, TypeOK, Requests
  <2>3. CountInv'
    BY <2>1, <2>2, NoMore DEF Orphans
  <2> QED
    BY <2>1, <2>2, <2>3
<1>9. CASE ExpandGetVolume
  <2>1. CountInv'
    BY <1>9, NoMore DEF ExpandGetVolume, Orphans
  <2>2. ans'.id = ans.id \/ ans'.id = coVol.id
    BY <1>9 DEF ExpandGetVolume
  <2> QED
    BY <1>9, <2>1, <2>2 DEF ExpandGetVolume
<1>10. CASE ExpandUpdateVolume
  <2> DEFINE new(v) ==
        IF v.id = coVol.id THEN [v EXCEPT !.size = InGiB(size)] ELSE v
  <2>1. vols' = {new(v) : v \in vols}
    BY <1>10 DEF ExpandUpdateVolume
  <2>2. /\ pc = "updateVolume" /\ co = "expanding" /\ pc' = "reply"
        /\ ans'.id = coVol.id
        /\ UNCHANGED <<created, late, req, co, coVol, fails>>
    BY <1>10 DEF ExpandUpdateVolume
  <2>3. \A v \in vols : new(v).id = v.id /\ (v.id # coVol.id => new(v) = v)
    BY DEF TypeOK, Volumes
  <2> HIDE DEF new
  <2>4. Orphans' \subseteq Orphans
    BY <2>1, <2>2, <2>3 DEF Orphans
  <2>5. CountInv'
    BY <2>2, <2>4, NoMore
  <2>6. IdentityInv'
    BY <2>1, <2>2, <2>3
  <2> QED
    BY <2>2, <2>5, <2>6
<1>11. CASE Reply
  <2>1. /\ pc = "reply" /\ pc' = "idle"
        /\ UNCHANGED <<vols, created, late, req, ans, fails>>
    BY <1>11 DEF Reply
  <2>2. CASE co = "deleting"
    <3>1. co' = "deleted" /\ coVol'.id = 0
      BY <1>11, <2>2 DEF Reply, NoAnswer
    <3>2. CountInv'
      BY <2>1, <2>2, <3>1, NoMore DEF Orphans
    <3> QED
      BY <1>t, <2>1, <3>1, <3>2
  <2>3. CASE co # "deleting"
    <3>1. co \in {"creating", "expanding"} /\ co' = "bound" /\ coVol' = ans
      BY <1>11, <2>1, <2>3 DEF Reply
    <3>2. Orphans' \subseteq Orphans
      BY <1>t, <2>1, <3>1 DEF Orphans
    <3>3. CountInv'
      BY <2>1, <3>2, NoMore
    <3> QED
      BY <2>1, <3>1, <3>3
  <2> QED
    BY <2>2, <2>3
<1>12. CASE CallFails
  <2>1. /\ pc # "idle" /\ pc' = "idle" /\ fails' = fails + 1
        /\ UNCHANGED <<vols, created, req, ans, co, coVol>>
    BY <1>12 DEF CallFails
  <2>2. CountInv'
    <3>f. fails \in Nat
      BY ProvisioningAssumption DEF TypeOK
    <3>c. /\ IsFiniteSet(Orphans) /\ Cardinality(Orphans) \in Nat
          /\ Cardinality(late) \in Nat
          /\ Cardinality(Orphans) + Cardinality(late) <= fails
      BY FS_CardinalityType, LateCount DEF CountInv, OrphansNeedFailures
    <3>1. CASE UNCHANGED late
      <4>1. PICK e : Orphans' \subseteq Orphans \cup {e}
        <5>1. CASE \E v \in vols : v.id = ans.id
          BY <2>1, <5>1 DEF Orphans
        <5>2. CASE ~\E v \in vols : v.id = ans.id
          BY <2>1, <5>2 DEF Orphans
        <5> QED
          BY <5>1, <5>2
      <4>2. IsFiniteSet(Orphans') /\ Cardinality(Orphans') <= Cardinality(Orphans) + 1
        BY <3>c, <4>1, OneMore
      <4>3. Cardinality(Orphans') \in Nat
        BY <4>2, FS_CardinalityType
      <4>4. OrphansNeedFailures'
        BY <2>1, <3>f, <3>c, <3>1, <4>2, <4>3 DEF OrphansNeedFailures
      <4> QED
        BY <3>1, <4>2, <4>4 DEF CountInv
    <3>2. CASE late = {} /\ pc = "createVolume" /\ late' = {InGiB(size)}
      <4>1. Orphans' = Orphans
        BY <2>1, <3>2 DEF Orphans
      <4>2. Cardinality(late) = 0 /\ Cardinality(late') = 1
        BY <3>2, FS_EmptySet, FS_Singleton
      <4>3. OrphansNeedFailures'
        BY <2>1, <3>f, <3>c, <4>1, <4>2 DEF OrphansNeedFailures
      <4>4. InGiB(size) \in Nat
        BY GiBTypes DEF TypeOK, InGiB
      <4> QED
        BY <3>c, <3>2, <4>1, <4>3, <4>4 DEF CountInv
    <3> QED
      BY <1>12, <3>1, <3>2 DEF CallFails
  <2> QED
    BY <2>1, <2>2
<1>13. CASE LateCreate
  <2>1. /\ late' = {} /\ UNCHANGED <<req, pc, ans, co, coVol, fails>>
    BY <1>13 DEF LateCreate
  <2>2. PICK gib : late = {gib}
    BY <1>13 DEF LateCreate, CountInv
  <2> DEFINE new == [id |-> created + 1, size |-> gib]
  <2>3. \/ created' = created + 1 /\ vols' = vols \cup {new}
        \/ UNCHANGED <<vols, created>>
    BY <1>13, <2>2 DEF LateCreate, ApiCreate
  <2>4. new.id = created + 1
    OBVIOUS
  <2> HIDE DEF new
  <2>5. Orphans' \subseteq Orphans \cup {new}
    BY <2>1, <2>3 DEF Orphans
  <2>6. IsFiniteSet(Orphans') /\ Cardinality(Orphans') <= Cardinality(Orphans) + 1
    BY <2>5, OneMore DEF CountInv
  <2>7. Cardinality(late) = 1 /\ Cardinality(late') = 0
    BY <2>1, <2>2, FS_EmptySet, FS_Singleton
  <2>8. Cardinality(Orphans) \in Nat /\ Cardinality(Orphans') \in Nat
    BY <2>6, FS_CardinalityType DEF CountInv
  <2>9. OrphansNeedFailures'
    <3>1. fails \in Nat
      BY ProvisioningAssumption DEF TypeOK
    <3>2. Cardinality(Orphans) + Cardinality(late) <= fails
      BY DEF CountInv, OrphansNeedFailures
    <3> QED
      BY <2>1, <2>6, <2>7, <2>8, <3>1, <3>2 DEF OrphansNeedFailures
  <2>10. CountInv'
    BY <2>1, <2>6, <2>9 DEF CountInv
  <2>11. IdentityInv'
    BY <1>t, <2>1, <2>3, <2>4 DEF Adopted
  <2>12. KnownInv'
    BY <1>t, <2>1, <2>3, <2>4
  <2> QED
    BY <2>1, <2>10, <2>11, <2>12
<1>14. CASE DeleteSnapshot
  <2>1. CountInv'
    BY <1>14, NoMore DEF DeleteSnapshot, Orphans
  <2> QED
    BY <1>14, <2>1 DEF DeleteSnapshot
<1>15. CASE UNCHANGED vars
  <2>1. CountInv'
    BY <1>15, NoMore DEF vars, Orphans
  <2> QED
    BY <1>15, <2>1 DEF vars
<1> QED
  BY <1>1, <1>2, <1>3, <1>4, <1>5, <1>6, <1>7, <1>8, <1>9, <1>10, <1>11, <1>12,
    <1>13, <1>14, <1>15 DEF Next, Create, Expand

\* However calls fail and are repeated, and whatever GetVolume finds, each volume
\* left over is due to a failed call of its own: CreateVolume, DeleteVolume and
\* ControllerExpandVolume lose no volume by their own doing.
THEOREM OrphansAccounted == Spec => []OrphansNeedFailures
<1>1. Init => OrphanInv
  BY InitOrphan
<1>2. TypeOK /\ OrphanInv /\ [Next]_vars => OrphanInv'
  BY NextOrphan
<1>3. OrphanInv => OrphansNeedFailures
  BY DEF OrphanInv, CountInv
<1> QED
  BY <1>1, <1>2, <1>3, TypeCorrect, PTL DEF Spec

-----------------------------------------------------------------------------
(* The capacity the CO is told.  Whether GetVolume takes names does not matter *)
(* here, nor do volumes left over.                                             *)

\* Cutting a size that can be asked for down to GiB loses nothing.
Whole ==
  \A s \in Sizes \cup {minimumVolumeSizeInBytes, defaultVolumeSizeInBytes} :
    s > 0 => InGiB(s) * giB = s

\* The bytes that counting in GiB loses at most.
Lost == IF Whole THEN 0 ELSE giB - 1

\* The API has volume i, short of a capacity c and of what was last asked for by
\* no more than what counting in GiB loses.
Covers(i, c) ==
  \E v \in vols : /\ v.id = i
                  /\ v.size * giB + Lost >= c
                  /\ v.size * giB + Lost >= req.required

\* A handler past its first step works with a size, and knows it up to Lost.
SizeInv ==
  /\ InGiB(size) * giB + Lost >= size
  /\ pc \in {"getVolume", "listVolumeTypes", "getSnapshot", "createVolume",
             "expandGetVolume", "updateVolume"} => size # 0

\* The answer on its way is true, and so is what the CO has recorded; a volume
\* under expansion exists.
CapacityInv ==
  /\ pc = "reply" /\ co \in {"creating", "expanding"} => Covers(ans.id, ans.capacity)
  /\ co = "bound" => Covers(coVol.id, coVol.capacity)
  /\ co = "expanding" => \E v \in vols : v.id = coVol.id

CapInv == PhaseInv /\ SizeInv /\ CapacityInv

\* Less than one GiB is lost, and nothing if all sizes are whole GiB.
LEMMA LostBounds == Lost \in Nat /\ Lost < giB /\ (Whole => Lost = 0)
BY CapacityAssumption DEF Lost

\* Cutting a size down to GiB loses less than one GiB.
LEMMA Remainder ==
  ASSUME NEW n \in Nat PROVE (n \div giB) * giB <= n /\ n < (n \div giB) * giB + giB
BY CapacityAssumption

\* The size for a capacity range loses no more than Lost.
LEMMA SizeLoss ==
  ASSUME NEW required \in Sizes, NEW limit \in Sizes
  PROVE  LET s == getStorageSizeFromCapacityRange(required, limit)
         IN  InGiB(s) * giB + Lost >= s
<1> DEFINE s == getStorageSizeFromCapacityRange(required, limit)
<1>1. required \in Int /\ limit \in Int
  BY ProvisioningAssumption
<1>2. s \in Nat
  BY <1>1, SizeInRange
<1>3. InGiB(s) \in Nat /\ InGiB(s) * giB \in Nat /\ InGiB(s) * giB <= s
        /\ s < InGiB(s) * giB + giB
  BY <1>2, GiBTypes, Remainder DEF InGiB
<1>4. Whole /\ s > 0 => InGiB(s) * giB = s
  <2>1. s = 0 \/ s \in {required, limit, minimumVolumeSizeInBytes, defaultVolumeSizeInBytes}
    BY <1>1, CapacityAssumption DEF getStorageSizeFromCapacityRange
  <2> QED
    BY <1>2, <2>1 DEF Whole
<1>5. InGiB(s) * giB + Lost >= s
  <2> HIDE DEF s
  <2> QED
    BY <1>2, <1>3, <1>4, CapacityAssumption DEF Lost
<1> QED
  BY <1>5

\* More GiB are more bytes.
LEMMA GiBMonotonic ==
  ASSUME NEW m \in Nat, NEW n \in Nat, m <= n PROVE m * giB <= n * giB
BY CapacityAssumption

\* A call that starts has a size, known up to Lost, or ends.
LEMMA StartSize ==
  ASSUME NEW r \in Requests, NEW label, NEW state, Start(r, label, state)
  PROVE  /\ InGiB(size') * giB + Lost >= size'
         /\ pc' \in {"idle", label} /\ (pc' # "idle" => size' # 0)
         /\ co' = state /\ coVol' = coVol
<1>1. r.required \in Sizes /\ r.limit \in Sizes
  BY DEF Requests
<1>2. size' = getStorageSizeFromCapacityRange(r.required, r.limit)
  BY DEF Start
<1>3. InGiB(size') * giB + Lost >= size'
  BY <1>1, <1>2, SizeLoss
<1> QED
  BY <1>3 DEF Start

\* No volume is bound and no call is under way.
LEMMA InitCap == Init => CapInv
BY CapacityAssumption, LostBounds
   DEF Init, CapInv, PhaseInv, SizeInv, CapacityInv, InGiB

\* Every step keeps CapInv.
LEMMA NextCap ==
  ASSUME RangeInv, CapInv, [Next]_vars PROVE CapInv'
<1>1. TypeOK /\ SizeHonoursRange
  BY DEF RangeInv
<1>2. ASSUME size # 0 PROVE size \in Nat /\ (req.required > 0 => size >= req.required)
  BY <1>1, <1>2 DEF TypeOK, SizeHonoursRange
<1>3. req.required \in Int
  BY <1>1, ProvisioningAssumption DEF TypeOK, Requests
<1>s. ASSUME size # 0
      PROVE  /\ InGiB(size) \in Nat /\ InGiB(size) * giB \in Nat
             /\ InGiB(size) * giB <= size
             /\ InGiB(size) * giB + Lost >= size
             /\ InGiB(size) * giB + Lost >= req.required
  <2>1. size \in Nat /\ size >= req.required
    BY <1>2, <1>3, <1>s
  <2>2. InGiB(size) \in Nat /\ InGiB(size) * giB \in Nat /\ InGiB(size) * giB <= size
    BY <2>1, GiBTypes, Remainder DEF InGiB
  <2>3. InGiB(size) * giB + Lost >= size
    BY DEF CapInv, SizeInv
  <2> QED
    BY <1>3, <2>1, <2>2, <2>3, LostBounds
<1> USE DEF CapInv, PhaseInv, SizeInv, Goto, Failure, Answer
<1>4. CASE CreateCall
  BY <1>1, <1>4, StartSize DEF CreateCall, Start, CapacityInv, TypeOK
<1>5. CASE CreateGetVolume
  <2>1. CASE UNCHANGED ans /\ pc' \in {"idle", "listVolumeTypes"}
    BY <1>5, <2>1 DEF CreateGetVolume, CapacityInv, Covers
  <2>2. ASSUME NEW v \in vols, ExistingMatches(v), Answer(v.id, v.size * giB) PROVE CapInv'
    <3>1. v.size * giB = size /\ size # 0 /\ size \in Nat
      BY <1>2, <1>5, <2>2 DEF CreateGetVolume, ExistingMatches
    <3>2. size >= req.required
      BY <1>2, <1>3, <3>1
    <3>3. Covers(v.id, v.size * giB)'
      BY <1>3, <1>5, <2>2, <3>1, <3>2, LostBounds DEF CreateGetVolume, Covers
    <3> QED
      BY <1>5, <2>2, <3>3 DEF CreateGetVolume, CapacityInv
  <2> QED
    BY <1>5, <2>1, <2>2 DEF CreateGetVolume
<1>6. CASE CreateListVolumeTypes
  BY <1>6 DEF CreateListVolumeTypes, CapacityInv, Covers
<1>7. CASE CreateGetSnapshot
  BY <1>7 DEF CreateGetSnapshot, CapacityInv, Covers
<1>8. CASE CreateCreateVolume
  <2>1. CASE Failure /\ UNCHANGED <<vols, created, ans>>
    BY <1>8, <2>1 DEF CreateCreateVolume, CapacityInv, Covers
  <2>2. CASE ApiCreate(InGiB(size)) /\ Answer(created', size)
    <3>1. size # 0 /\ size \in Nat
      BY <1>2, <1>8 DEF CreateCreateVolume
    <3>3. PICK v \in vols' : v.id = ans'.id /\ v.size = InGiB(size) /\ ans'.capacity = size
      <4>1. [id |-> created', size |-> InGiB(size)] \in vols'
        BY <2>2 DEF ApiCreate
      <4>2. ans'.id = created' /\ ans'.capacity = size
        BY <2>2
      <4> QED
        BY <4>1, <4>2
    <3>4. UNCHANGED <<req, size>>
      BY <1>8 DEF CreateCreateVolume
    <3>5. Covers(ans.id, ans.capacity)'
      BY <1>s, <3>1, <3>3, <3>4 DEF Covers
    <3> QED
      BY <1>8, <2>2, <3>4, <3>5 DEF CreateCreateVolume, CapacityInv
  <2> QED
    BY <1>8, <2>1, <2>2 DEF CreateCreateVolume
<1>9. CASE DeleteCall
  BY <1>9 DEF DeleteCall, CapacityInv
<1>10. CASE DeleteDeleteVolume
  BY <1>10 DEF DeleteDeleteVolume, CapacityInv
<1>11. ASSUME NEW r \in Requests, ExpandCall(r) PROVE CapInv'
  <2>1. /\ Start(r, "expandGetVolume", "expanding") /\ co \in {"bound", "expanding"}
        /\ UNCHANGED <<vols, ans>>
    BY <1>11 DEF ExpandCall
  <2>2. \E v \in vols : v.id = coVol.id
    BY <2>1 DEF CapacityInv, Covers
  <2> QED
    BY <2>1, <2>2, StartSize DEF CapacityInv
<1>12. CASE ExpandGetVolume
  <2>1. CASE UNCHANGED ans /\ pc' = "updateVolume"
    BY <1>12, <2>1 DEF ExpandGetVolume, CapacityInv, Covers
  <2>2. ASSUME NEW v \in vols, isVolumeSizeEuqalOrLargerThanRequested(v),
               Answer(v.id, v.size * giB)
        PROVE  CapInv'
    <3>1. size # 0
      BY <1>12 DEF ExpandGetVolume
    <3>2. InGiB(size) \in Nat /\ v.size \in Nat /\ v.size * giB \in Nat
      BY <1>1, <1>s, <3>1, GiBTypes DEF TypeOK, Volumes
    <3>3. v.size * giB >= InGiB(size) * giB
      BY <2>2, <3>2, GiBMonotonic, CapacityAssumption
         DEF isVolumeSizeEuqalOrLargerThanRequested
    <3>4. v.size * giB + Lost >= req.required
      BY <1>3, <1>s, <3>1, <3>2, <3>3, LostBounds
    <3>5. v.size * giB + Lost >= v.size * giB
      BY <3>2, LostBounds
    <3>6. Covers(v.id, v.size * giB)'
      BY <1>12, <3>4, <3>5 DEF ExpandGetVolume, Covers
    <3> QED
      BY <1>12, <2>2, <3>6 DEF ExpandGetVolume, CapacityInv
  <2> QED
    BY <1>12, <2>1, <2>2 DEF ExpandGetVolume
<1>13. CASE ExpandUpdateVolume
  <2>1. co = "expanding" /\ pc' = "reply" /\ UNCHANGED <<co, coVol, req, size>>
    BY <1>13 DEF ExpandUpdateVolume
  <2>2. size # 0
    BY <1>13 DEF ExpandUpdateVolume
  <2>4. PICK v \in vols : v.id = coVol.id
    BY <2>1 DEF CapacityInv
  <2> DEFINE w == [v EXCEPT !.size = InGiB(size)]
  <2>5. w \in vols'
    BY <1>13, <2>4 DEF ExpandUpdateVolume
  <2>6. w.id = coVol.id /\ w.size = InGiB(size)
    BY <1>1, <2>4 DEF TypeOK, Volumes
  <2>7. w.size * giB + Lost >= InGiB(size) * giB /\ w.size * giB + Lost >= req.required
    BY <1>s, <2>2, <2>6, LostBounds
  <2>8. Covers(coVol.id, InGiB(size) * giB)'
    BY <2>1, <2>5, <2>6, <2>7 DEF Covers
  <2>9. ans'.id = coVol.id /\ ans'.capacity = InGiB(size) * giB
    BY <1>13 DEF ExpandUpdateVolume
  <2> QED
    BY <2>1, <2>5, <2>6, <2>8, <2>9 DEF CapacityInv
<1>14. CASE Reply
  BY <1>14 DEF Reply, CapacityInv, Covers
<1>15. CASE CallFails
  BY <1>15 DEF CallFails, CapacityInv, Covers
<1>16. CASE LateCreate
  <2>1. vols \subseteq vols' /\ UNCHANGED <<req, pc, size, ans, co, coVol>>
    BY <1>16 DEF LateCreate, ApiCreate
  <2> QED
    BY <2>1 DEF CapacityInv, Covers
<1>17. CASE DeleteSnapshot
  BY <1>17 DEF DeleteSnapshot, CapacityInv, Covers
<1>18. CASE UNCHANGED vars
  BY <1>18 DEF vars, CapacityInv, Covers
<1> QED
  BY <1>4, <1>5, <1>6, <1>7, <1>8, <1>9, <1>10, <1>11, <1>12, <1>13, <1>14, <1>15,
     <1>16, <1>17, <1>18 DEF Next, Create, Expand

\* CapInv holds throughout, for all sizes.
LEMMA CapInvariant == Spec => []CapInv
<1>1. Init => CapInv
  BY InitCap
<1>2. RangeInv /\ CapInv /\ [Next]_vars => CapInv'
  BY NextCap
<1> QED
  BY <1>1, <1>2, RangeInvariant, PTL DEF Spec

\* While the CO has a bound volume it is there, with the capacity the CO was told
\* and the one it last asked for, if nothing is lost by counting in GiB: after
\* any create, adoption, expansion and repetition of those.
THEOREM CapacityIsTruthful ==
  ASSUME Whole PROVE Spec => []CapacityTruthful
<1>1. RangeInv /\ CapInv => CapacityTruthful
  <2> SUFFICES ASSUME RangeInv, CapInv, co = "bound"
               PROVE  \E v \in vols : /\ v.id = coVol.id
                                      /\ v.size * giB >= coVol.capacity
                                      /\ v.size * giB >= req.required
    BY DEF CapacityTruthful
  <2>1. PICK v \in vols : /\ v.id = coVol.id
                          /\ v.size * giB + Lost >= coVol.capacity
                          /\ v.size * giB + Lost >= req.required
    BY DEF CapInv, CapacityInv, Covers
  <2>2. Lost = 0 /\ v.size * giB \in Nat
    BY LostBounds, GiBTypes DEF RangeInv, TypeOK, Volumes
  <2> QED
    BY <2>1, <2>2
<1> QED
  BY <1>1, CapInvariant, RangeInvariant, PTL

\* While the CO has a bound volume it exists, less than one GiB smaller than the CO
\* was told and than the RequiredBytes it last asked for.
CapacityWithinGiB ==
  co = "bound" =>
    \E v \in vols : /\ v.id = coVol.id
                    /\ v.size * giB + giB > coVol.capacity
                    /\ v.size * giB + giB > req.required

\* Whatever sizes are asked for, whole GiB or not, the rests that CreateVolume and
\* ControllerExpandVolume cut off stay below one GiB: they do not add up over a
\* create, its adoption by a retry, and expansions.
THEOREM CapacityLossBounded == Spec => []CapacityWithinGiB
<1>1. RangeInv /\ CapInv => CapacityWithinGiB
  <2> SUFFICES ASSUME RangeInv, CapInv, co = "bound"
               PROVE  \E v \in vols : /\ v.id = coVol.id
                                      /\ v.size * giB + giB > coVol.capacity
                                      /\ v.size * giB + giB > req.required
    BY DEF CapacityWithinGiB
  <2>1. PICK v \in vols : /\ v.id = coVol.id
                          /\ v.size * giB + Lost >= coVol.capacity
                          /\ v.size * giB + Lost >= req.required
    BY DEF CapInv, CapacityInv, Covers
  <2>2. v.size * giB \in Nat /\ coVol.capacity \in Nat /\ req.required \in Int
    BY ProvisioningAssumption, GiBTypes DEF RangeInv, TypeOK, Volumes, Answers, Requests
  <2> QED
    BY <2>1, <2>2, LostBounds, CapacityAssumption
<1> QED
  BY <1>1, CapInvariant, RangeInvariant, PTL
=============================================================================
