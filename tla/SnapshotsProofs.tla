-------------------------- MODULE SnapshotsProofs --------------------------
(***************************************************************************)
(* Proofs about Snapshots, for any volumes, names, number of snapshots and *)
(* failed calls.                                                           *)
(*                                                                         *)
(* The handler works with identities it has read before, while others      *)
(* delete and create snapshots under the same name.  It is right because   *)
(* the API never uses an identity twice: every snapshot the handler or the *)
(* CO knows has an identity that is used up, so that what bears it now is  *)
(* what bore it then.                                                      *)
(***************************************************************************)
EXTENDS Snapshots, TLAPS

\* The snapshot there is, if any, has a used identity.
UsedInv == snap # None => snap.id <= created

\* What ListSnapshots returned is still true of that snapshot, if it exists.
SeenInv ==
  seen # None =>
    /\ seen.id <= created
    /\ Exists(seen.id) => snap.src = seen.src

\* It is a volume the request names that is about to be snapshotted.
VolumeInv == pc = "createSnapshot" => volume \in Volumes /\ Denotes(volume)

\* The handler waits for, and answers with, a snapshot of the right volume.
WaitInv ==
  /\ pc \in {"wait", "getSnapshot"} =>
       /\ id \in Ids /\ id <= created
       /\ Exists(id) => Denotes(snap.src)
  /\ pc = "reply" => ans \in Answers /\ Denotes(ans.src) /\ ans.id <= created

\* The CO knows its snapshot, and DeleteSnapshot has dealt with it before it
\* answers.
COInv ==
  /\ co \in {"created", "deleting"} => coSnap \in Answers /\ coSnap.id <= created
  /\ pc \in {"deleteSnapshot", "replyDeleted"} => co = "deleting"
  /\ pc \in {"listSnapshots", "listByIdentity", "listByName", "createSnapshot", "wait",
             "getSnapshot", "reply"} => co = "creating"
  /\ pc = "replyDeleted" /\ Exists(coSnap.id) => snap.status = "Deleting"

Inv == TypeOK /\ UsedInv /\ SeenInv /\ VolumeInv /\ WaitInv /\ COInv /\ SnapshotOfSource

\* No snapshot and no call.
LEMMA InitInv == Init => Inv
BY SnapshotsAssumption DEF Init, Inv, TypeOK, UsedInv, SeenInv, VolumeInv, WaitInv,
  COInv, SnapshotOfSource, Exists

\* snapshotSourceVolumeMatches accepts only a snapshot of a volume the request
\* names, whether or not that volume could be resolved.
LEMMA MatchDenotes ==
  ASSUME NEW resolved \in Volumes \cup {None}, NEW s \in Seen,
         resolved # None => Denotes(resolved),
         snapshotSourceVolumeMatches(source, resolved, s)
  PROVE  Denotes(s.src)
BY DEF snapshotSourceVolumeMatches, Denotes

\* A call that fails forgets what it knew.
LEMMA FailureInv ==
  ASSUME Inv, Failure, UNCHANGED <<source, vol, snap, created>>,
         late' \in Volumes \cup {None}, fails' \in 0..MaxFails
  PROVE  Inv'
BY DEF Inv, TypeOK, UsedInv, SeenInv, VolumeInv, WaitInv, COInv, SnapshotOfSource,
  Denotes, Exists, Failure, Forget, Goto

\* getOrCreateSnapshot goes on with a snapshot, or a volume, the request names.
LEMMA DecideInv ==
  ASSUME Inv, NEW resolved \in Volumes \cup {None}, resolved # None => Denotes(resolved),
         pc \in {"listByIdentity", "listByName"}, Decide(resolved),
         UNCHANGED <<source, vol, snap, created, late, fails>>
  PROVE  Inv'
<1>1. CASE seen # None /\ snapshotSourceVolumeMatches(source, resolved, seen) /\ WaitFor(seen.id)
  <2>1. seen \in Seen
    BY <1>1 DEF Inv, TypeOK
  <2>2. Denotes(seen.src)
    BY <1>1, <2>1, MatchDenotes
  <2>3. seen.id \in Ids /\ seen.id <= created /\ (Exists(seen.id) => snap.src = seen.src)
    BY <1>1, <2>1 DEF Inv, SeenInv, Seen
  <2> QED
    BY <1>1, <2>1, <2>2, <2>3
       DEF WaitFor, Goto, Inv, TypeOK, UsedInv, SeenInv, VolumeInv, WaitInv, COInv,
           SnapshotOfSource, Denotes, Exists
<1>2. CASE Failure
  BY <1>2, FailureInv DEF Inv, TypeOK
<1>3. CASE /\ resolved # None /\ volume' = resolved
           /\ Goto("createSnapshot") /\ UNCHANGED <<seen, id, ans>>
  BY <1>3 DEF Goto, Inv, TypeOK, UsedInv, SeenInv, VolumeInv, WaitInv, COInv,
    SnapshotOfSource, Denotes, Exists
<1> QED
  BY <1>1, <1>2, <1>3 DEF Decide

\* A new snapshot has a new identity: nothing that is known of others is touched.
LEMMA ApiCreateInv ==
  ASSUME Inv, NEW v \in Volumes, CanCreate(v), ApiCreate(v)
  PROVE  /\ snap' \in Snaps /\ created' \in 1..MaxSnaps
         /\ created' = created + 1 /\ snap'.id = created' /\ snap'.src = v
BY SnapshotsAssumption
   DEF Inv, TypeOK, CanCreate, ApiCreate, Snaps, Ids, Statuses

\* Every API call of a handler, every failure and every step of others keeps Inv.
LEMMA NextInv == Inv /\ [Next]_vars => Inv'
<1> SUFFICES ASSUME Inv, [Next]_vars PROVE Inv'
  OBVIOUS
<1> USE SnapshotsAssumption
<1>1. CASE CreateCall
  BY <1>1 DEF CreateCall, Inv, TypeOK, UsedInv, SeenInv, VolumeInv, WaitInv, COInv,
    SnapshotOfSource, Denotes, Exists
<1>2. CASE ListSnapshots
  <2>1. seen' \in Seen \cup {None}
    BY <1>2 DEF ListSnapshots, Inv, TypeOK, Snaps, Seen, Live
  <2>2. SeenInv'
    BY <1>2 DEF ListSnapshots, Inv, UsedInv, SeenInv, Exists
  <2> QED
    BY <1>2, <2>1, <2>2 DEF ListSnapshots, Goto, Inv, TypeOK, UsedInv, VolumeInv, WaitInv,
      COInv, SnapshotOfSource, Denotes, Exists
<1>3. CASE ListByIdentity
  <2>1. CASE source \in Volumes /\ Decide(source)
    BY <1>3, <2>1, DecideInv DEF ListByIdentity, Denotes
  <2>2. CASE Goto("listByName") /\ UNCHANGED <<seen, volume, id, ans>>
    BY <1>3, <2>2 DEF ListByIdentity, Goto, Inv, TypeOK, UsedInv, SeenInv, VolumeInv,
      WaitInv, COInv, SnapshotOfSource, Denotes, Exists
  <2> QED
    BY <1>3, <2>1, <2>2 DEF ListByIdentity
<1>4. CASE ListByName
  <2>1. CASE Decide(None)
    BY <1>4, <2>1, DecideInv DEF ListByName
  <2>2. ASSUME NEW v \in Volumes, Name[v] = source, Decide(v) PROVE Inv'
    BY <1>4, <2>2, DecideInv DEF ListByName, Denotes
  <2>3. CASE Failure
    BY <1>4, <2>3, FailureInv DEF ListByName, Inv, TypeOK
  <2> QED
    BY <1>4, <2>1, <2>2, <2>3 DEF ListByName
<1>5. CASE CreateSnapshot
  <2>1. volume \in Volumes /\ Denotes(volume)
    BY <1>5 DEF CreateSnapshot, Inv, VolumeInv
  <2>2. CASE CanCreate(volume) /\ ApiCreate(volume) /\ WaitFor(created')
    <3>1. /\ snap' \in Snaps /\ created' \in 1..MaxSnaps
          /\ created' = created + 1 /\ snap'.id = created' /\ snap'.src = volume
      BY <2>1, <2>2, ApiCreateInv
    <3> QED
      BY <1>5, <2>1, <2>2, <3>1
         DEF CreateSnapshot, WaitFor, Goto, Inv, TypeOK, UsedInv, SeenInv, VolumeInv,
             WaitInv, COInv, SnapshotOfSource, Denotes, Exists, Ids, Seen, Answers
  <2> QED
    BY <1>5, <2>2, FailureInv DEF CreateSnapshot, Inv, TypeOK
<1>6. CASE WaitUntilAvailable
  <2>1. CASE Goto("getSnapshot") /\ UNCHANGED <<seen, volume, id, ans>>
    BY <1>6, <2>1 DEF WaitUntilAvailable, Goto, Inv, TypeOK, UsedInv, SeenInv, VolumeInv,
      WaitInv, COInv, SnapshotOfSource, Denotes, Exists
  <2> QED
    BY <1>6, <2>1, FailureInv DEF WaitUntilAvailable, Inv, TypeOK
<1>7. CASE WaitDeadline
  BY <1>7, FailureInv DEF WaitDeadline, Inv, TypeOK
<1>8. CASE GetSnapshot
  <2>1. CASE /\ Exists(id)
             /\ ans' = [id |-> id, src |-> snap.src,
                        told |-> IF Live(snap.src) THEN snap.src ELSE None,
                        ready |-> snap.status = "Available"]
             /\ Goto("reply") /\ UNCHANGED <<seen, volume, id>>
    <3>1. snap \in Snaps /\ id \in Ids /\ id <= created /\ Denotes(snap.src)
      BY <1>8, <2>1 DEF GetSnapshot, Inv, TypeOK, WaitInv, Exists
    <3>2. ans' \in Answers /\ ans'.src = snap.src /\ ans'.id = id
      BY <2>1, <3>1 DEF Answers, Snaps
    <3> QED
      BY <1>8, <2>1, <3>1, <3>2
         DEF GetSnapshot, Goto, Inv, TypeOK, UsedInv, SeenInv, VolumeInv,
             WaitInv, COInv, SnapshotOfSource, Denotes, Exists
  <2> QED
    BY <1>8, <2>1, FailureInv DEF GetSnapshot, Inv, TypeOK
<1>9. CASE Reply
  BY <1>9 DEF Reply, Forget, Inv, TypeOK, UsedInv, SeenInv, VolumeInv,
    WaitInv, COInv, SnapshotOfSource, Denotes, Exists
<1>10. CASE DeleteCall
  BY <1>10 DEF DeleteCall, Inv, TypeOK, UsedInv, SeenInv, VolumeInv, WaitInv, COInv,
    SnapshotOfSource, Denotes, Exists
<1>11. ASSUME snap # None, snap' = [snap EXCEPT !.status = "Deleting"]
       PROVE  snap' \in Snaps /\ snap'.id = snap.id /\ snap'.src = snap.src
                /\ snap'.status = "Deleting"
  BY <1>11 DEF Inv, TypeOK, Snaps, Statuses
<1>12. CASE DeleteSnapshot
  <2>1. CASE Exists(coSnap.id) /\ snap' = [snap EXCEPT !.status = "Deleting"]
    BY <1>11, <1>12, <2>1 DEF DeleteSnapshot, Goto, Inv, TypeOK, UsedInv, SeenInv, VolumeInv,
      WaitInv, COInv, SnapshotOfSource, Denotes, Exists
  <2>2. CASE ~Exists(coSnap.id) /\ UNCHANGED snap
    BY <1>12, <2>2 DEF DeleteSnapshot, Goto, Inv, TypeOK, UsedInv, SeenInv, VolumeInv,
      WaitInv, COInv, SnapshotOfSource, Denotes, Exists
  <2> QED
    BY <1>12, <2>1, <2>2 DEF DeleteSnapshot
<1>13. CASE ReplyDeleted
  BY <1>13 DEF ReplyDeleted, Inv, TypeOK, UsedInv, SeenInv, VolumeInv,
    WaitInv, COInv, SnapshotOfSource, Denotes, Exists
<1>14. CASE CallFails
  <2>1. late' \in Volumes \cup {None} /\ fails' \in 0..MaxFails
    BY <1>14 DEF CallFails, Inv, TypeOK
  <2> QED
    BY <1>14, <2>1, FailureInv DEF CallFails
<1>15. ASSUME NEW v \in Volumes, CanCreate(v), ApiCreate(v), late' \in Volumes \cup {None},
              UNCHANGED <<source, vol, pc, seen, volume, id, ans, co, coSnap, fails>>
       PROVE  Inv'
  <2>1. /\ snap' \in Snaps /\ created' \in 1..MaxSnaps
        /\ created' = created + 1 /\ snap'.id = created' /\ snap'.src = v
    BY <1>15, ApiCreateInv
  <2> QED
    BY <1>15, <2>1
       DEF Inv, TypeOK, UsedInv, SeenInv, VolumeInv, WaitInv, COInv, SnapshotOfSource,
           Denotes, Exists, Ids, Seen, Answers
<1>16. CASE LateCreate
  <2>1. CASE CanCreate(late) /\ ApiCreate(late)
    BY <1>15, <1>16, <2>1 DEF LateCreate, Inv, TypeOK
  <2>2. CASE UNCHANGED <<snap, created>>
    BY <1>16, <2>2 DEF LateCreate, Inv, TypeOK, UsedInv, SeenInv, VolumeInv, WaitInv, COInv,
      SnapshotOfSource, Denotes, Exists
  <2> QED
    BY <1>16, <2>1, <2>2 DEF LateCreate
<1>17. ASSUME snap # None, snap' \in Snaps, snap'.id = snap.id, snap'.src = snap.src,
              snap.status = "Deleting" => snap'.status = "Deleting",
              UNCHANGED <<source, vol, created, late, pc, seen, volume, id, ans, co, coSnap, fails>>
       PROVE  Inv'
  BY <1>17 DEF Inv, TypeOK, UsedInv, SeenInv, VolumeInv, WaitInv, COInv, SnapshotOfSource,
    Denotes, Exists
<1>18. CASE ApiCompletes
  <2>1. CASE snap' = None
    BY <1>18, <2>1 DEF ApiCompletes, Inv, TypeOK, UsedInv, SeenInv, VolumeInv, WaitInv, COInv,
      SnapshotOfSource, Denotes, Exists
  <2>2. ASSUME NEW s \in {"Available", "Failed"}, snap.status = "Creating",
               snap' = [snap EXCEPT !.status = s]
        PROVE  Inv'
    <3>1. snap \in Snaps
      BY <1>18 DEF ApiCompletes, Inv, TypeOK
    <3>2. snap' \in Snaps /\ snap'.id = snap.id /\ snap'.src = snap.src
      BY <2>2, <3>1 DEF Snaps, Statuses
    <3> QED
      BY <1>17, <1>18, <2>2, <3>2 DEF ApiCompletes
  <2> QED
    BY <1>18, <2>1, <2>2 DEF ApiCompletes
<1>19. CASE OthersDelete
  BY <1>11, <1>17, <1>19 DEF OthersDelete
<1>20. ASSUME NEW v \in Volumes, OthersCreate(v) PROVE Inv'
  BY <1>15, <1>20 DEF OthersCreate, Inv, TypeOK
<1>21. ASSUME NEW v \in Volumes, VolumeCreated(v) \/ VolumeDeleted(v)
                                   \/ VolumeAttached(v) \/ VolumeDetached(v)
       PROVE  Inv'
  BY <1>21 DEF VolumeCreated, VolumeDeleted, VolumeAttached, VolumeDetached, Inv, TypeOK, UsedInv, SeenInv, VolumeInv,
    WaitInv, COInv, SnapshotOfSource, Denotes, Exists
<1>22. CASE UNCHANGED vars
  BY <1>22 DEF vars, Inv, TypeOK, UsedInv, SeenInv, VolumeInv, WaitInv, COInv,
    SnapshotOfSource, Denotes, Exists
<1> QED
  BY <1>1, <1>2, <1>3, <1>4, <1>5, <1>6, <1>7, <1>8, <1>9, <1>10, <1>12, <1>13, <1>14,
     <1>16, <1>18, <1>19, <1>20, <1>21, <1>22 DEF Next, Handler

\* Inv holds throughout.
LEMMA Invariant == Spec => []Inv
<1>1. Init => Inv
  BY InitInv
<1>2. Inv /\ [Next]_vars => Inv'
  BY NextInv
<1> QED
  BY <1>1, <1>2, PTL DEF Spec

\* Every variable keeps its type; in particular no identity is used beyond the
\* number of snapshots created.
THEOREM SnapshotsTypeCorrect == Spec => []TypeOK
<1>1. Inv => TypeOK
  BY DEF Inv
<1> QED
  BY <1>1, Invariant, PTL

\* The snapshot the CO records is one of the volume it asked for, by identity or
\* by name, whatever others create or delete between the handler's calls.
THEOREM SnapshotHasSource == Spec => []SnapshotOfSource
<1>1. Inv => SnapshotOfSource
  BY DEF Inv
<1> QED
  BY <1>1, Invariant, PTL

\* DeleteSnapshot answers with success only when the CO's snapshot is gone or on
\* its way out, and never touches another that has taken its name.
THEOREM DeleteIsExact == Spec => DeletesItsOwn
<1> DEFINE Exact ==
      /\ co' = "deleted" /\ co # "deleted" /\ Exists(coSnap.id) =>
           snap.status = "Deleting"
      /\ pc = "deleteSnapshot" /\ pc' = "replyDeleted" /\ ~Exists(coSnap.id) =>
           snap' = snap
<1>1. Inv /\ [Next]_vars => [Exact]_vars
  <2> SUFFICES ASSUME Inv, Next PROVE Exact
    BY Zenon
  <2> USE DEF Inv, COInv, Goto, Failure
  <2>1. CASE DeleteSnapshot
    BY <2>1 DEF DeleteSnapshot
  <2>2. CASE ReplyDeleted
    BY <2>2 DEF ReplyDeleted
  <2>3. CASE CreateCall \/ DeleteCall
    BY <2>3 DEF CreateCall, DeleteCall
  <2>4. CASE ListSnapshots \/ ListByIdentity \/ ListByName \/ CreateSnapshot
               \/ WaitUntilAvailable \/ GetSnapshot \/ WaitDeadline \/ CallFails
    BY <2>4 DEF ListSnapshots, ListByIdentity, ListByName, Decide, WaitFor, CreateSnapshot,
         WaitUntilAvailable, GetSnapshot, WaitDeadline, CallFails
  <2>5. CASE Reply
    BY <2>5 DEF Reply
  <2>6. CASE LateCreate \/ ApiCompletes \/ OthersDelete
    BY <2>6 DEF LateCreate, ApiCompletes, OthersDelete
  <2>7. ASSUME NEW v \in Volumes, OthersCreate(v) \/ VolumeCreated(v) \/ VolumeDeleted(v)
                                    \/ VolumeAttached(v) \/ VolumeDetached(v)
        PROVE  Exact
    BY <2>7 DEF OthersCreate, VolumeCreated, VolumeDeleted, VolumeAttached, VolumeDetached
  <2> QED
    BY <2>1, <2>2, <2>3, <2>4, <2>5, <2>6, <2>7 DEF Next, Handler
<1> QED
  BY <1>1, Invariant, PTL DEF Spec, DeletesItsOwn
-----------------------------------------------------------------------------
(* When an answer lacks its source *)

\* A source volume was there; an answer names it, or the volume is deleted.
ToldInv ==
  /\ snap # None => vol[snap.src] # "absent"
  /\ pc = "reply" => /\ ans.told \in {ans.src, None}
                     /\ ans.told = None => vol[ans.src] = "gone"

\* Every step keeps ToldInv: a deleted volume does not come back.
LEMMA NextTold == ASSUME Inv, ToldInv, [Next]_vars PROVE ToldInv'
<1> USE SnapshotsAssumption DEF ToldInv, Goto, Failure, Forget, Live
<1>1. TypeOK
  BY DEF Inv
<1>2. snap # None => snap.src \in Volumes
  BY <1>1 DEF TypeOK, Snaps
<1>3. CASE CreateSnapshot \/ LateCreate
  <2>1. UNCHANGED vol /\ (pc' # "reply" \/ UNCHANGED <<pc, ans>>)
    BY <1>3 DEF CreateSnapshot, LateCreate, WaitFor
  <2>2. snap' = snap \/ \E v \in {volume, late} : CanCreate(v) /\ ApiCreate(v)
    BY <1>3 DEF CreateSnapshot, LateCreate
  <2> QED
    BY <2>1, <2>2 DEF CanCreate, ApiCreate
<1>4. CASE GetSnapshot
  <2>1. CASE Exists(id) /\ pc' = "reply"
    <3>1. snap # None /\ vol[snap.src] \in {"available", "inUse", "gone"}
      BY <1>1, <1>2, <2>1 DEF Exists, TypeOK
    <3>2. /\ ans'.src = snap.src /\ UNCHANGED <<vol, snap>>
          /\ ans'.told = IF Live(snap.src) THEN snap.src ELSE None
      BY <1>4, <2>1 DEF GetSnapshot
    <3>3. snap.src # None
      BY <1>2, <3>1
    <3> QED
      BY <2>1, <3>1, <3>2, <3>3
  <2> QED
    BY <1>4, <2>1 DEF GetSnapshot
<1>5. CASE ListSnapshots \/ ListByIdentity \/ ListByName \/ WaitUntilAvailable \/ WaitDeadline
  BY <1>5 DEF ListSnapshots, ListByIdentity, ListByName, Decide, WaitFor,
    WaitUntilAvailable, WaitDeadline
<1>6. CASE CreateCall \/ DeleteCall \/ Reply \/ ReplyDeleted \/ CallFails
  BY <1>6 DEF CreateCall, DeleteCall, Reply, ReplyDeleted, CallFails
<1>7. CASE DeleteSnapshot \/ ApiCompletes \/ OthersDelete
  <2>1. vol' = vol /\ (pc' = "reply" => pc = "reply" /\ ans' = ans)
    BY <1>7 DEF DeleteSnapshot, ApiCompletes, OthersDelete
  <2>2. \/ snap' = None \/ snap' = snap
        \/ snap # None /\ \E s \in Statuses : snap' = [snap EXCEPT !.status = s]
    BY <1>7 DEF DeleteSnapshot, ApiCompletes, OthersDelete, Exists, Statuses
  <2>3. snap' # None => snap # None /\ snap'.src = snap.src
    BY <1>1, <2>2 DEF TypeOK, Snaps
  <2> QED
    BY <2>1, <2>3
<1>8. ASSUME NEW v \in Volumes, OthersCreate(v) PROVE ToldInv'
  BY <1>8 DEF OthersCreate, CanCreate, ApiCreate
<1>9. ASSUME NEW v \in Volumes, VolumeCreated(v) \/ VolumeDeleted(v)
                                  \/ VolumeAttached(v) \/ VolumeDetached(v)
      PROVE  ToldInv'
  <2>1. snap' = snap /\ pc' = pc /\ ans' = ans
    BY <1>9 DEF VolumeCreated, VolumeDeleted, VolumeAttached, VolumeDetached
  <2>2. \A w \in Volumes : /\ vol[w] # "absent" => vol'[w] # "absent"
                           /\ vol[w] = "gone" => vol'[w] = "gone"
    BY <1>1, <1>9 DEF VolumeCreated, VolumeDeleted, VolumeAttached, VolumeDetached, TypeOK
  <2>3. snap # None => vol'[snap.src] # "absent"
    BY <1>2, <2>2
  <2>4. pc = "reply" => ans.src \in Volumes
    BY DEF Inv, WaitInv, Answers
  <2>5. pc = "reply" /\ ans.told = None => vol'[ans.src] = "gone"
    BY <2>2, <2>4
  <2> QED
    BY <2>1, <2>3, <2>5, Zenon
<1>10. CASE UNCHANGED vars
  BY <1>10 DEF vars
<1> QED
  BY <1>3, <1>4, <1>5, <1>6, <1>7, <1>8, <1>9, <1>10 DEF Next, Handler

\* An answer of CreateSnapshot leaves source_volume_id empty in one case only: the
\* volume has been deleted.  It never names a wrong volume, also not one created
\* anew under the source's name.
THEOREM SourceMissingCause ==
  Spec => [](pc = "reply" => /\ ans.told \in {ans.src, None}
                             /\ ans.told = None => vol[ans.src] = "gone")
<1>1. Init => ToldInv
  BY DEF Init, ToldInv
<1>2. Inv /\ ToldInv /\ [Next]_vars => ToldInv'
  BY NextTold
<1>3. ToldInv => (pc = "reply" => /\ ans.told \in {ans.src, None}
                                  /\ ans.told = None => vol[ans.src] = "gone")
  BY DEF ToldInv
<1> QED
  BY <1>1, <1>2, <1>3, Invariant, PTL DEF Spec
=============================================================================
