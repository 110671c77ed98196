--------------------------- MODULE ListingProofs ---------------------------
(***************************************************************************)
(* Proofs about Listing, for any identities, any source volumes and any    *)
(* number of changes and failures: what a page is, and that the pages of a *)
(* listing fit together although each is cut from another list.            *)
(***************************************************************************)
EXTENDS Listing, FiniteSetTheorems, TLAPS

\* What a page has to be: the identities from the token up to the next one.
IsPage(r, ids, start) ==
  /\ r.page = {x \in ids : start <= x /\ (r.next = NoToken \/ x < r.next)}
  /\ r.next \in ids \cup {NoToken}
  /\ r.next # NoToken => start <= r.next

\* Page cuts the sorted identities at the two tokens and nowhere else.
LEMMA PageIsInterval ==
  ASSUME NEW ids, ids \subseteq Nat \ {NoToken}, NEW n \in Nat,
         NEW s \in [1..n -> ids],
         \A i, j \in 1..n : i < j => s[i] < s[j],
         \A x \in ids : \E i \in 1..n : s[i] = x,
         NEW start \in Nat, NEW max \in Nat, ~Lost(s, n, start)
  PROVE  IsPage(Page(s, n, StartOf(s, n, start), max), ids, start)
<1> DEFINE from == StartOf(s, n, start)
           more == max > 0 /\ max < n - from
           end == IF more THEN from + max ELSE n
           r == Page(s, n, from, max)
<1>0. \A i \in 1..n : s[i] \in ids /\ s[i] \in Nat /\ s[i] # NoToken
  OBVIOUS
<1>1. from \in 0..n /\ \A i \in 1..n : start <= s[i] <=> i > from
  <2>1. CASE start = NoToken
    BY <1>0, <2>1 DEF StartOf, NoToken
  <2>2. CASE start # NoToken
    <3>1. PICK k \in 1..n : s[k] = start
      BY <2>2 DEF Lost
    <3>2. \A i \in 1..n : s[i] = start => i = k
      BY <3>1
    <3>3. from = k - 1
      BY <2>2, <3>1, <3>2 DEF StartOf
    <3>4. ASSUME NEW i \in 1..n PROVE start <= s[i] <=> i > from
      <4>1. i < k => s[i] < s[k]
        BY <3>1
      <4>2. i > k => s[i] > s[k]
        BY <3>1
      <4>3. s[i] \in Nat /\ s[k] \in Nat /\ (i = k => s[i] = s[k])
        BY <1>0
      <4> QED
        BY <3>1, <3>3, <4>1, <4>2, <4>3
    <3> QED
      BY <3>3, <3>4
  <2> QED
    BY <2>1, <2>2
<1> HIDE DEF from
<1>2. end \in 0..n /\ (more => end + 1 \in 1..n /\ end >= from)
  BY <1>1
<1>3. r.page = {s[i] : i \in (from + 1)..end} /\ r.next = IF more THEN s[end + 1] ELSE NoToken
  BY DEF Page
<1> HIDE DEF r
<1>4. r.next \in ids \cup {NoToken} /\ (r.next # NoToken => start <= r.next)
  BY <1>1, <1>2, <1>3
<1>5. ASSUME NEW i \in 1..n PROVE i <= end <=> (r.next = NoToken \/ s[i] < r.next)
  <2>1. CASE more
    <3>1. r.next = s[end + 1] /\ r.next # NoToken
      BY <1>0, <1>2, <1>3, <2>1
    <3>2. s[i] < s[end + 1] <=> i < end + 1
      <4>1. i < end + 1 => s[i] < s[end + 1]
        BY <1>2, <2>1
      <4>2. i > end + 1 => s[i] > s[end + 1]
        BY <1>2, <2>1
      <4>3. s[i] \in Nat /\ s[end + 1] \in Nat /\ (i = end + 1 => s[i] = s[end + 1])
        BY <1>0, <1>2, <2>1
      <4> QED
        BY <1>2, <4>1, <4>2, <4>3
    <3> QED
      BY <1>2, <3>1, <3>2
  <2>2. CASE ~more
    BY <1>3, <2>2
  <2> QED
    BY <2>1, <2>2
<1>6. r.page = {x \in ids : start <= x /\ (r.next = NoToken \/ x < r.next)}
  <2>1. ASSUME NEW x \in r.page
        PROVE  x \in ids /\ start <= x /\ (r.next = NoToken \/ x < r.next)
    <3>1. PICK i \in (from + 1)..end : x = s[i]
      BY <1>3, <2>1
    <3>2. i \in 1..n /\ i > from /\ i <= end
      BY <1>1, <1>2, <3>1
    <3> QED
      BY <1>1, <1>5, <3>1, <3>2
  <2>2. ASSUME NEW x \in ids, start <= x, r.next = NoToken \/ x < r.next
        PROVE  x \in r.page
    <3>1. PICK i \in 1..n : s[i] = x
      BY <2>2
    <3>2. i > from /\ i <= end
      BY <1>1, <1>5, <2>2, <3>1
    <3> QED
      BY <1>1, <1>2, <1>3, <3>1, <3>2
  <2> QED
    BY <2>1, <2>2
<1> QED
  BY <1>4, <1>6 DEF IsPage, r, from

\* What the handler answers to a call for a page.
LEMMA AnswerIsPage ==
  ASSUME TypeOK, NEW s \in Sorted(Filtered),
         NEW r, r = paginateIdentities(s, Cardinality(Filtered), token, req.max)
  PROVE  /\ r.code = "OK" => IsPage(r, Filtered, token)
         /\ r \in Responses
<1> DEFINE n == Cardinality(Filtered)
<1>1. Filtered \subseteq Ids /\ Filtered \subseteq Nat \ {NoToken} /\ n \in Nat
  <2>1. Filtered \subseteq Ids
    BY DEF Filtered, TypeOK
  <2> QED
    BY <2>1, ListingAssumption, FS_Subset, FS_CardinalityType
<1>2. token \in Nat /\ req.max \in Int
  BY ListingAssumption DEF TypeOK, Requests, NoToken
<1>3. /\ s \in [1..n -> Filtered]
      /\ \A i, j \in 1..n : i < j => s[i] < s[j]
      /\ \A x \in Filtered : \E i \in 1..n : s[i] = x
  BY DEF Sorted
<1>4. CASE req.max < 0 \/ Lost(s, n, token)
  BY <1>4 DEF paginateIdentities, Refuse, Responses, Refusals
<1>5. CASE ~(req.max < 0) /\ ~Lost(s, n, token)
  <2>1. r = Page(s, n, StartOf(s, n, token), req.max)
    BY <1>5 DEF paginateIdentities
  <2>2. req.max \in Nat
    BY <1>2, <1>5
  <2> HIDE DEF n
  <2>3. IsPage(r, Filtered, token)
    <3>1. IsPage(Page(s, n, StartOf(s, n, token), req.max), Filtered, token)
      BY ONLY <1>1, <1>2, <1>3, <1>5, <2>2, PageIsInterval
    <3> QED
      BY <2>1, <3>1
  <2>4. r = [code |-> "OK", page |-> r.page, next |-> r.next]
    BY <2>1 DEF Page
  <2>5. r.page \in SUBSET Ids /\ r.next \in Ids \cup {NoToken}
    BY <1>1, <2>3 DEF IsPage
  <2> QED
    BY <2>3, <2>4, <2>5 DEF Responses
<1> QED
  BY <1>4, <1>5

-----------------------------------------------------------------------------
(* The invariant *)

Listening == client \in {"asking", "answered"}

\* What exists was seen, what stays exists.
WorldInv ==
  /\ client # "idle" => items \subseteq seen
  /\ stay \subseteq items

\* Everything received lies before the token, and everything that stays and lies
\* before it has been received.
PrefixInv ==
  /\ \A x \in got : Asked(x) /\ x \in seen
  /\ Listening =>
       /\ \A x \in got : x < token
       /\ \A x \in stay : Asked(x) /\ x < token => x \in got
       /\ req.id # None => token = NoToken

\* The page on its way lies between its token and the next one, and is all of
\* what stays there, although the list it was cut from is no longer current.
AnswerInv ==
  client = "answered" =>
    /\ resp \in Responses
    /\ resp.code = "OK" =>
         /\ \A x \in resp.page :
              Asked(x) /\ x \in seen /\ token <= x /\ (resp.next = NoToken \/ x < resp.next)
         /\ \A x \in stay :
              Asked(x) /\ token <= x /\ (resp.next = NoToken \/ x < resp.next)
                => x \in resp.page
         /\ resp.next # NoToken => token <= resp.next
         /\ req.id # None => resp.next = NoToken

CompleteInv ==
  client = "complete" => \A x \in stay : Asked(x) => x \in got

Inv == TypeOK /\ WorldInv /\ PrefixInv /\ AnswerInv /\ CompleteInv

\* Before the first listing nothing is claimed.
LEMMA InitInv == Init => Inv
BY ListingAssumption DEF Init, Inv, TypeOK, WorldInv, PrefixInv, AnswerInv,
  CompleteInv, Listening, Requests

\* Every step of the handlers, the client and the creators keeps Inv.
LEMMA NextInv == Inv /\ [Next]_vars => Inv'
<1> SUFFICES ASSUME Inv, [Next]_vars PROVE Inv'
  OBVIOUS
<1>0. /\ \A x \in Ids : x \in Nat /\ NoToken <= x /\ ~(x < NoToken)
      /\ items \subseteq Ids /\ stay \subseteq Ids /\ got \subseteq Ids
      /\ token \in Nat
  BY ListingAssumption DEF Inv, TypeOK, NoToken
<1> USE DEF Inv, WorldInv, PrefixInv, AnswerInv, CompleteInv, Listening
<1>1. CASE List
  <2> USE <1>1 DEF List
  <2>1. client' = "answered" /\ UNCHANGED <<items, unborn, req, token, got, stay, seen, fails>>
    BY DEF ListPages, ListOne, Answers, listVars
  <2>2. \A x : Asked(x)' = Asked(x)
    BY <2>1 DEF Asked
  <2>3. CASE ListPages
    <3>1. PICK s \in Sorted(Filtered) :
            resp' = paginateIdentities(s, Cardinality(Filtered), token, req.max)
      BY <2>3 DEF ListPages, Answers
    <3>2. resp' \in Responses /\ (resp'.code = "OK" => IsPage(resp', Filtered, token))
      BY <3>1, AnswerIsPage
    <3>3. TypeOK'
      BY <2>1, <3>2 DEF TypeOK
    <3>4. \A x \in items : x \in Filtered <=> Asked(x)
      BY <2>3 DEF ListPages, Filtered, Asked
    <3>5. AnswerInv'
      BY <2>1, <2>2, <2>3, <3>2, <3>4 DEF IsPage, ListPages, Filtered
    <3> QED
      BY <2>1, <2>2, <3>3, <3>5
  <2>4. CASE ListOne
    <3>1. resp' \in Responses
      BY <2>4 DEF ListOne, Answers, Responses, Refuse, Refusals, TypeOK, Requests
    <3>2. TypeOK'
      BY <2>1, <3>1 DEF TypeOK
    <3>3. token = NoToken /\ req.id # None
      BY <2>4 DEF ListOne
    <3>4. ASSUME resp'.code = "OK"
          PROVE  req.id \in items /\ resp'.page = {req.id} /\ resp'.next = NoToken
      BY <2>4, <3>4 DEF ListOne, Answers, Refuse
    <3>5. \A x : Asked(x) <=> x = req.id
      BY <3>3 DEF Asked
    <3>6. AnswerInv'
      BY <1>0, <2>1, <2>2, <3>1, <3>3, <3>4, <3>5
    <3> QED
      BY <2>1, <2>2, <3>2, <3>6
  <2> QED
    BY <2>3, <2>4
<1>2. CASE ListFails
  <2>1. resp' \in Responses /\ resp'.code # "OK"
    BY <1>2 DEF ListFails, Answers, Refuse, Responses, Refusals
  <2>2. TypeOK'
    BY <1>2, <2>1, ListingAssumption DEF ListFails, Answers, TypeOK, listVars
  <2> QED
    BY <1>2, <2>1, <2>2 DEF ListFails, Answers, listVars, Asked
<1>3. CASE Begin
  BY <1>3, <1>0 DEF Begin, FromTheStart, TypeOK
<1>4. CASE Receive
  <2>0. resp \in Responses /\ UNCHANGED <<items, unborn, req, fails>> /\ resp' = None
    BY <1>4 DEF Receive
  <2>1. \A x : Asked(x)' = Asked(x)
    BY <2>0 DEF Asked
  <2>2. CASE resp.code = "OK"
    <3>1. /\ got' = got \cup resp.page
          /\ token' = resp.next
          /\ client' = IF resp.next = NoToken THEN "complete" ELSE "asking"
          /\ UNCHANGED <<stay, seen>>
      BY <1>4, <2>2 DEF Receive
    <3>2. resp.page \in SUBSET Ids /\ resp.next \in Ids \cup {NoToken}
      BY <2>0 DEF Responses
    <3>3. TypeOK'
      BY <2>0, <3>1, <3>2 DEF TypeOK
    <3>4. stay \subseteq Nat /\ got \subseteq Nat /\ resp.page \subseteq Nat /\ resp.next \in Nat
      BY ONLY <1>0, <3>2 DEF NoToken
    <3>5. PrefixInv'
      BY <1>4, <1>0, <2>0, <2>1, <2>2, <3>1, <3>4 DEF Receive, NoToken
    <3>6. CompleteInv'
      BY <1>4, <1>0, <2>0, <2>1, <2>2, <3>1, <3>4 DEF Receive, NoToken
    <3> QED
      BY <1>4, <2>0, <3>1, <3>3, <3>5, <3>6 DEF Receive
  <2>3. CASE resp.code = "Aborted"
    BY <1>4, <1>0, <2>0, <2>1, <2>3 DEF Receive, FromTheStart, TypeOK
  <2>4. CASE resp.code \in {"InvalidArgument", "Internal"}
    BY <1>4, <2>0, <2>1, <2>4 DEF Receive, TypeOK
  <2> QED
    BY <1>4, <2>2, <2>3, <2>4 DEF Receive
<1>5. CASE Repeat
  BY <1>5, ListingAssumption DEF Repeat, listVars, TypeOK, Asked
<1>6. ASSUME NEW x \in Ids, Create(x) PROVE Inv'
  BY <1>6 DEF Create, listVars, TypeOK, Asked
<1>7. ASSUME NEW x \in Ids, Delete(x) PROVE Inv'
  BY <1>7 DEF Delete, listVars, TypeOK, Asked
<1>8. CASE UNCHANGED vars
  BY <1>8 DEF vars, TypeOK, Asked
<1> QED
  BY <1>1, <1>2, <1>3, <1>4, <1>5, <1>6, <1>7, <1>8 DEF Next

\* Inv holds throughout.
LEMMA InvInvariant == Spec => []Inv
<1> QED
  BY InitInv, NextInv, PTL DEF Spec

\* Every answer, token and entry has its type; in particular no error answer of
\* a handler carries entries.
THEOREM ListingTypeCorrect == Spec => []TypeOK
<1>1. Inv => TypeOK
  BY DEF Inv
<1> QED
  BY <1>1, InvInvariant, PTL

\* A complete listing is exact for any identities, any page sizes and any
\* creations, deletions, failures and repeated calls between its pages.
THEOREM ListingIsExact == Spec => []ListingExact
<1>1. Inv => ListingExact
  BY DEF Inv, PrefixInv, CompleteInv, ListingExact
<1> QED
  BY <1>1, InvInvariant, PTL

\* No page of a listing repeats an item of an earlier one, under the same
\* conditions.
THEOREM PagesAreDisjoint == Spec => NoRepeats
<1> DEFINE Disjoint ==
      client = "answered" /\ resp.code = "OK" /\ client' # client /\ fails' = fails
        => resp.page \cap got = {}
<1>1. Inv => Disjoint
  <2> SUFFICES ASSUME Inv, client = "answered", resp.code = "OK"
               PROVE  resp.page \cap got = {}
    OBVIOUS
  <2>1. resp.page \subseteq Ids
    BY DEF Inv, AnswerInv, Responses
  <2>2. got \subseteq Ids /\ token \in Ids \cup {NoToken}
    BY DEF Inv, TypeOK
  <2>3. resp.page \subseteq Nat /\ got \subseteq Nat /\ token \in Nat
    <3>1. \A x \in Ids : x \in Nat
      BY ListingAssumption
    <3> QED
      BY ONLY <2>1, <2>2, <3>1 DEF NoToken
  <2> QED
    BY <2>3 DEF Inv, AnswerInv, PrefixInv, Listening
<1> QED
  BY <1>1, InvInvariant, PTL DEF NoRepeats, Spec
-----------------------------------------------------------------------------
(* The size of a page *)

\* Page keeps to max, and a page that is not the last one has entries.
LEMMA PageHasSize ==
  ASSUME NEW ids, NEW n \in Nat, NEW s \in [1..n -> ids], NEW from \in 0..n,
         NEW max \in Nat
  PROVE  LET r == Page(s, n, from, max)
         IN  /\ max > 0 => Cardinality(r.page) <= max
             /\ r.next # NoToken => r.page # {}
<1> DEFINE more == max > 0 /\ max < n - from
           end == IF more THEN from + max ELSE n
           P == {s[i] : i \in (from + 1)..end}
           m == end - from
           f == [k \in 1..m |-> s[from + k]]
<1>1. end \in from..n /\ m \in Nat /\ (max > 0 => m <= max)
  OBVIOUS
<1>2. Page(s, n, from, max).page = P
  BY DEF Page
<1>3. Page(s, n, from, max).next # NoToken => more
  BY DEF Page
<1>4. Cardinality(P) \in Nat /\ Cardinality(P) <= m
  <2>1. f \in [1..m -> P]
    BY <1>1
  <2>2. \A x \in P : \E k \in 1..m : f[k] = x
    <3> SUFFICES ASSUME NEW x \in P PROVE \E k \in 1..m : f[k] = x
      OBVIOUS
    <3>1. PICK i \in (from + 1)..end : x = s[i]
      OBVIOUS
    <3>2. i - from \in 1..m /\ from + (i - from) = i
      BY <1>1, <3>1
    <3> QED
      BY <3>1, <3>2
  <2>3. ExistsSurjection(1..m, P)
    BY <2>1, <2>2 DEF ExistsSurjection, Surjection
  <2>4. IsFiniteSet(P)
    BY <1>1, <2>3, FS_NatSurjection
  <2> QED
    BY <1>1, <2>3, <2>4, FS_SurjCardinalityBound, FS_CardinalityType
<1>5. more => P # {}
  <2>1. more => from + 1 \in (from + 1)..end
    OBVIOUS
  <2> QED
    BY <2>1
<1> HIDE DEF P, m, more
<1> QED
  BY <1>1, <1>2, <1>3, <1>4, <1>5

\* The number of identities before the token is one of 0 to n.
LEMMA StartInRange ==
  ASSUME NEW s, NEW n \in Nat, NEW start, ~Lost(s, n, start)
  PROVE  StartOf(s, n, start) \in 0..n
<1>1. CASE start = NoToken
  BY <1>1 DEF StartOf
<1>2. CASE start # NoToken
  <2>1. \E i \in 1..n : s[i] = start
    BY <1>2 DEF Lost
  <2>2. (CHOOSE i \in 1..n : s[i] = start) \in 1..n
    BY <2>1
  <2> QED
    BY <1>2, <2>2 DEF StartOf
<1> QED
  BY <1>1, <1>2

\* A page has at most max_entries entries, for any size of the list, and every
\* page but the last one brings the listing forward.
THEOREM PagesFit == Spec => []PageFits
<1>1. Init => PageFits
  BY DEF Init, PageFits
<1>2. TypeOK /\ PageFits /\ [Next]_vars => PageFits'
  <2> SUFFICES ASSUME TypeOK, PageFits, [Next]_vars PROVE PageFits'
    OBVIOUS
  <2>1. CASE List /\ ListPages
    <3> DEFINE n == Cardinality(Filtered)
    <3>1. PICK s \in Sorted(Filtered) : resp' = paginateIdentities(s, n, token, req.max)
      BY <2>1 DEF ListPages, Answers
    <3>2. req' = req /\ req.max \in Int
      BY <2>1 DEF List, listVars, TypeOK, Requests
    <3>3. n \in Nat /\ s \in [1..n -> Filtered]
      <4>1. Filtered \subseteq Ids
        BY DEF Filtered, TypeOK
      <4> QED
        BY <4>1, ListingAssumption, FS_Subset, FS_CardinalityType DEF Sorted
    <3> HIDE DEF n
    <3>4. CASE req.max < 0 \/ Lost(s, n, token)
      BY <3>1, <3>4 DEF paginateIdentities, Refuse, PageFits
    <3>5. CASE ~(req.max < 0) /\ ~Lost(s, n, token)
      <4>1. resp' = Page(s, n, StartOf(s, n, token), req.max)
        BY <3>1, <3>5 DEF paginateIdentities
      <4>2. req.max \in Nat /\ StartOf(s, n, token) \in 0..n
        BY <3>2, <3>3, <3>5, StartInRange
      <4>3. /\ req.max > 0 => Cardinality(resp'.page) <= req.max
            /\ resp'.next # NoToken => resp'.page # {}
        BY <3>3, <4>1, <4>2, PageHasSize
      <4> QED
        BY <3>2, <4>3 DEF PageFits
    <3> QED
      BY <3>4, <3>5
  <2>2. CASE List /\ ListOne
    BY <2>2 DEF List, ListOne, listVars, PageFits
  <2>3. CASE ListFails
    BY <2>3 DEF ListFails, Answers, Refuse, PageFits
  <2>4. CASE Begin \/ Repeat
    BY <2>4 DEF Begin, FromTheStart, Repeat, PageFits
  <2>5. CASE Receive
    BY <2>5 DEF Receive, FromTheStart, PageFits
  <2>6. ASSUME NEW x \in Ids, Create(x) \/ Delete(x) PROVE PageFits'
    BY <2>6 DEF Create, Delete, listVars, PageFits
  <2>7. CASE UNCHANGED vars
    BY <2>7 DEF vars, PageFits
  <2> QED
    BY <2>1, <2>2, <2>3, <2>4, <2>5, <2>6, <2>7 DEF Next, List
<1> QED
  BY <1>1, <1>2, ListingTypeCorrect, PTL DEF Spec
=============================================================================
