------------------------------ MODULE Listing ------------------------------
(***************************************************************************)
(* ListVolumes (driver/controller_volumes.go) and ListSnapshots            *)
(* (driver/controller_snapshots.go) with paginateIdentities                *)
(* (driver/pagination.go), called page by page by a client while volumes   *)
(* or snapshots are created and deleted.                                   *)
(*                                                                         *)
(* An item is its identity, a number: identities are compared only for     *)
(* order, and never reused.  A page is computed from a fresh list of the   *)
(* API, so pages of one listing come from different lists.  Attachments,   *)
(* sizes and times of the entries are left out (see PublishedNodeIds in    *)
(* Attachment, and Snapshots).                                             *)
(***************************************************************************)
EXTENDS Integers, FiniteSets

CONSTANTS
  Ids,       \* identities
  Volumes,   \* source volumes of snapshots
  SourceOf,  \* [Ids -> Volumes]
  None,      \* nothing: a field that is not set, no answer
  MaxPage,   \* bound: the largest max_entries
  MaxFails   \* bound: calls that fail, or whose answer is lost

\* The empty token.
NoToken == 0

ASSUME ListingAssumption ==
  /\ Ids \subseteq Nat \ {NoToken}
  /\ IsFiniteSet(Ids)
  /\ SourceOf \in [Ids -> Volumes]
  /\ None \notin Ids \cup Volumes
  /\ MaxPage \in Nat
  /\ MaxFails \in Nat

VARIABLES
  items,   \* what exists
  unborn,  \* identities not used yet
  client,  \* what the client is doing
  req,     \* what it lists
  token,   \* the starting_token of its next call
  resp,    \* the answer on its way to it, if any
  got,     \* the entries it has received in this listing
  stay,    \* what has existed ever since this listing began
  seen,    \* what has existed at some time since this listing began
  fails    \* number of calls that have failed

vars == <<items, unborn, client, req, token, resp, got, stay, seen, fails>>
listVars == <<req, token, got>>

\* For volumes, id and source are not set.
Requests == [id : Ids \cup {None}, source : Volumes \cup {None}, max : -1..MaxPage]

Refusals == {"InvalidArgument", "Aborted", "Internal"}

\* An error has no entries and no token.
Responses ==
  [code : {"OK"}, page : SUBSET Ids, next : Ids \cup {NoToken}]
    \cup [code : Refusals, page : {{}}, next : {NoToken}]

TypeOK ==
  /\ items \in SUBSET Ids
  /\ unborn \in SUBSET Ids
  /\ client \in {"idle", "asking", "answered", "complete", "refused"}
  /\ req \in Requests
  /\ token \in Ids \cup {NoToken}
  /\ resp \in Responses \cup {None}
  /\ got \in SUBSET Ids
  /\ stay \in SUBSET Ids
  /\ seen \in SUBSET Ids
  /\ fails \in 0..MaxFails

Refuse(code) == [code |-> code, page |-> {}, next |-> NoToken]

Init ==
  /\ items \in SUBSET Ids
  /\ unborn = Ids \ items
  /\ client = "idle"
  /\ req = [id |-> None, source |-> None, max |-> 0]
  /\ token = NoToken
  /\ resp = None
  /\ got = {}
  /\ stay = {}
  /\ seen = {}
  /\ fails = 0

-----------------------------------------------------------------------------
(* paginateIdentities *)

\* sort.Strings: the identities in ascending order.
Sorted(ids) ==
  {s \in [1..Cardinality(ids) -> ids] :
     /\ \A i, j \in 1..Cardinality(ids) : i < j => s[i] < s[j]
     /\ \A x \in ids : \E i \in 1..Cardinality(ids) : s[i] = x}

\* The sorted list s of n identities does not have the token.
Lost(s, n, start) == start # NoToken /\ \A i \in 1..n : s[i] # start

\* The number of identities before the token.
StartOf(s, n, start) ==
  IF start = NoToken THEN 0 ELSE (CHOOSE i \in 1..n : s[i] = start) - 1

\* Mutant: the token names the first entry of the page.
Page_SameToken(s, n, from, max) ==
  LET more == max > 0 /\ max < n - from
      end == IF more THEN from + max ELSE n
  IN  [code |-> "OK",
       page |-> {s[i] : i \in (from + 1)..end},
       next |-> IF more THEN s[from + 1] ELSE NoToken]

\* Mutant: the page includes the entry the token names.
Page_OneMore(s, n, from, max) ==
  LET more == max > 0 /\ max < n - from
      end == IF more THEN from + max ELSE n
  IN  [code |-> "OK",
       page |-> {s[i] : i \in (from + 1)..(IF more THEN end + 1 ELSE end)},
       next |-> IF more THEN s[end + 1] ELSE NoToken]

\* The page behind the first "from" identities, all the rest if max is 0.
Page(s, n, from, max) ==
  LET more == max > 0 /\ max < n - from
      end == IF more THEN from + max ELSE n
  IN  [code |-> "OK",
       page |-> {s[i] : i \in (from + 1)..end},
       next |-> IF more THEN s[end + 1] ELSE NoToken]

\* Mutant: the page starts behind the token.
paginateIdentities_AfterToken(s, n, start, max) ==
  IF max < 0 THEN Refuse("InvalidArgument")
  ELSE IF Lost(s, n, start) THEN Refuse("Aborted")
  ELSE Page(s, n, IF start = NoToken THEN 0 ELSE StartOf(s, n, start) + 1, max)

\* Mutant: a token that is gone starts over instead of being refused.
paginateIdentities_StartOver(s, n, start, max) ==
  IF max < 0 THEN Refuse("InvalidArgument")
  ELSE Page(s, n, IF Lost(s, n, start) THEN 0 ELSE StartOf(s, n, start), max)

\* Mutant: the error for a token that is gone comes with the first page.
paginateIdentities_AbortWithPage(s, n, start, max) ==
  IF max < 0 THEN Refuse("InvalidArgument")
  ELSE IF Lost(s, n, start) THEN [Page(s, n, 0, max) EXCEPT !.code = "Aborted"]
  ELSE Page(s, n, StartOf(s, n, start), max)

paginateIdentities(s, n, start, max) ==
  IF max < 0 THEN Refuse("InvalidArgument")
  ELSE IF Lost(s, n, start) THEN Refuse("Aborted")
  ELSE Page(s, n, StartOf(s, n, start), max)

-----------------------------------------------------------------------------
(* The handlers: one call of the API each *)

\* Volumes in the region, or snapshots there, of the source volume if it is set.
Filtered == {x \in items : req.source = None \/ SourceOf[x] = req.source}

Answers(r) == resp' = r /\ client' = "answered"

\* ListVolumes, and ListSnapshots without a snapshot id.
ListPages ==
  /\ req.id = None
  /\ \E s \in Sorted(Filtered) :
       Answers(paginateIdentities(s, Cardinality(Filtered), token, req.max))

\* ListSnapshots for one snapshot id: the other fields are not looked at.
ListOne ==
  /\ req.id # None
  /\ Answers(IF req.id \in items
             THEN [code |-> "OK", page |-> {req.id}, next |-> NoToken]
             ELSE Refuse("Internal"))

List ==
  /\ client = "asking"
  /\ ListPages \/ ListOne
  /\ UNCHANGED <<items, unborn, listVars, stay, seen, fails>>

\* The API call fails.
ListFails ==
  /\ client = "asking"
  /\ fails < MaxFails
  /\ fails' = fails + 1
  /\ Answers(Refuse("Internal"))
  /\ UNCHANGED <<items, unborn, listVars, stay, seen>>

-----------------------------------------------------------------------------
(* The client: it follows next_token, and begins again when its token is    *)
(* refused ("Caller SHOULD start the ListVolumes operation again").         *)

FromTheStart ==
  /\ client' = "asking"
  /\ token' = NoToken
  /\ got' = {}
  /\ stay' = items
  /\ seen' = items

Begin ==
  /\ client \in {"idle", "complete", "refused"}
  /\ req' \in Requests
  /\ FromTheStart
  /\ resp' = None
  /\ UNCHANGED <<items, unborn, fails>>

Receive ==
  /\ client = "answered"
  /\ \/ /\ resp.code = "OK"
        /\ got' = got \cup resp.page
        /\ token' = resp.next
        /\ client' = IF resp.next = NoToken THEN "complete" ELSE "asking"
        /\ UNCHANGED <<stay, seen>>
     \/ resp.code = "Aborted" /\ FromTheStart
     \/ /\ resp.code \in {"InvalidArgument", "Internal"}
        /\ client' = "refused"
        /\ UNCHANGED <<token, got, stay, seen>>
  /\ resp' = None
  /\ UNCHANGED <<items, unborn, req, fails>>

\* The answer is lost, or an error that is worth a retry: the call is repeated.
Repeat ==
  /\ client = "answered"
  /\ fails < MaxFails
  /\ fails' = fails + 1
  /\ client' = "asking"
  /\ resp' = None
  /\ UNCHANGED <<items, unborn, listVars, stay, seen>>

-----------------------------------------------------------------------------
(* CreateVolume, DeleteVolume and their likes *)

Create(x) ==
  /\ x \in unborn
  /\ unborn' = unborn \ {x}
  /\ items' = items \cup {x}
  /\ seen' = seen \cup {x}
  /\ UNCHANGED <<client, listVars, resp, stay, fails>>

Delete(x) ==
  /\ x \in items
  /\ items' = items \ {x}
  /\ stay' = stay \ {x}
  /\ UNCHANGED <<unborn, client, listVars, resp, seen, fails>>

Next ==
  \/ List \/ ListFails
  \/ Begin \/ Receive \/ Repeat
  \/ \E x \in Ids : Create(x) \/ Delete(x)

Spec == Init /\ [][Next]_vars

\* The handlers answer, and the client takes the answer.
FairSpec == Spec /\ WF_vars(List) /\ WF_vars(Receive)

-----------------------------------------------------------------------------
(* Properties *)

\* What the client has asked for.
Asked(x) ==
  IF req.id # None THEN x = req.id
  ELSE req.source = None \/ SourceOf[x] = req.source

\* A complete listing has every item that existed all the time it took, and no
\* item that did not exist at any time of it or was not asked for, however many
\* items were created and deleted between its pages and calls repeated.
ListingExact ==
  client = "complete" =>
    /\ \A x \in stay : Asked(x) => x \in got
    /\ \A x \in got : Asked(x) /\ x \in seen

\* No item is on two pages of a listing, although the pages are cut from
\* different lists.
NoRepeats ==
  [][client = "answered" /\ resp.code = "OK" /\ client' # client /\ fails' = fails
       => resp.page \cap got = {}]_vars

\* A page has at most max_entries entries, and the listing gets on: only a page
\* with entries has a successor.
PageFits ==
  client = "answered" /\ resp.code = "OK" /\ req.id = None =>
    /\ req.max > 0 => Cardinality(resp.page) <= req.max
    /\ resp.next # NoToken => resp.page # {}

\* A listing ends: begun again or not, it does not go round in circles.
ListingEnds ==
  client \in {"asking", "answered"} ~> client \in {"complete", "refused"}
=============================================================================
