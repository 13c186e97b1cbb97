-------------------------- MODULE ObjectQueryProofs --------------------------
(***************************************************************************)
(* The queries of ObjectQuery beside any number of calls, documents and    *)
(* other queries: a query whose answer is not cut short misses nothing.    *)
(***************************************************************************)
EXTENDS ObjectQuery, FiniteSetTheorems, TLAPS

QueryTypeOK ==
  /\ filter \in [Queries -> Filters]
  /\ cursor \in [Queries -> {"idle", "running", "fetching", "returned"}]
  /\ tries \in [Queries -> 0 .. MaxRetries]
  /\ list \in [Queries -> Seq(Keys)]
  /\ failed \in [Queries -> BOOLEAN]
  /\ seen \in [Queries -> SUBSET Keys]
  /\ due \in [Queries -> SUBSET Keys]

\* What the cursor of this attempt has returned is in the list, and when the
\* query has returned there is nothing else to return, or a reason to miss it.
ListInv(q) ==
  /\ cursor[q] # "returned" => tries[q] < MaxRetries
  /\ cursor[q] = "fetching" => IsFiniteSet(seen[q]) /\ seen[q] \subseteq Listed(q)
  /\ cursor[q] = "returned" =>
       \/ failed[q]
       \/ tries[q] = MaxRetries
       \/ Cardinality(Listed(q)) > filter[q].max
       \/ due[q] \subseteq Listed(q)

QueryInv == QueryTypeOK /\ \A q \in Queries : ListInv(q)

-----------------------------------------------------------------------------
LEMMA ListedFinite ==
  ASSUME QueryTypeOK, NEW q \in Queries
  PROVE  IsFiniteSet(Listed(q)) /\ Cardinality(Listed(q)) \in Nat
<1>1. list[q] \in Seq(Keys)
  BY DEF QueryTypeOK
<1>2. Len(list[q]) \in Nat /\ DOMAIN list[q] = 1 .. Len(list[q])
  BY <1>1
<1>3. IsFiniteSet(DOMAIN list[q])
  BY <1>2, FS_Interval
<1>4. [i \in DOMAIN list[q] |-> list[q][i]] \in Surjection(DOMAIN list[q], Listed(q))
  BY DEF Listed, Surjection
<1> QED
  BY <1>3, <1>4, FS_Surjection, FS_CardinalityType

LEMMA ListedGrows ==
  ASSUME NEW s \in Seq(Keys), NEW k \in Keys
  PROVE  /\ Append(s, k) \in Seq(Keys)
         /\ {Append(s, k)[i] : i \in DOMAIN Append(s, k)} = {s[i] : i \in DOMAIN s} \union {k}
<1>1. /\ Len(s) \in Nat /\ DOMAIN s = 1 .. Len(s)
      /\ DOMAIN Append(s, k) = 1 .. Len(s) + 1
      /\ \A i \in DOMAIN s : Append(s, k)[i] = s[i]
      /\ Append(s, k)[Len(s) + 1] = k
  OBVIOUS
<1>2. \A i \in DOMAIN Append(s, k) : i \in DOMAIN s \/ i = Len(s) + 1
  BY <1>1
<1>3. DOMAIN s \subseteq DOMAIN Append(s, k) /\ Len(s) + 1 \in DOMAIN Append(s, k)
  BY <1>1
<1> QED
  BY <1>1, <1>2, <1>3

\* A step of one query leaves the others as they are.
LEMMA OthersKeepListInv ==
  ASSUME QueryInv, QueryTypeOK', NEW q \in Queries,
         \A p \in Queries : p # q =>
           /\ filter'[p] = filter[p] /\ cursor'[p] = cursor[p] /\ tries'[p] = tries[p]
           /\ list'[p] = list[p] /\ failed'[p] = failed[p] /\ seen'[p] = seen[p]
           /\ due'[p] = due[p],
         ListInv(q)'
  PROVE  QueryInv'
<1>1. ASSUME NEW p \in Queries, p # q PROVE ListInv(p)'
  <2>1. ListInv(p) /\ Listed(p)' = Listed(p)
    BY <1>1 DEF QueryInv, Listed
  <2> QED
    BY <1>1, <2>1 DEF ListInv
<1> QED
  BY <1>1 DEF QueryInv

-----------------------------------------------------------------------------
LEMMA BeginAndOpenKeep ==
  ASSUME QueryInv, NEW q \in Queries, BeginQuery(q) \/ OpenCursor(q)
  PROVE  QueryInv'
<1>1. QueryTypeOK /\ ListInv(q)
  BY DEF QueryInv
<1>2. QueryTypeOK'
  <2>1. UNCHANGED <<filter, tries, list, failed>>
    BY DEF BeginQuery, OpenCursor
  <2>2. cursor' \in [Queries -> {"idle", "running", "fetching", "returned"}]
    BY <1>1 DEF QueryTypeOK, BeginQuery, OpenCursor
  <2>3. seen' \in [Queries -> SUBSET Keys]
    BY <1>1 DEF QueryTypeOK, BeginQuery, OpenCursor
  <2>4. due' \in [Queries -> SUBSET Keys]
    <3>1. Matching(store, filter[q]) \subseteq Keys
      BY DEF Matching
    <3>2. due' = due \/ due' = [due EXCEPT ![q] = Matching(store, filter[q])]
      BY DEF BeginQuery, OpenCursor
    <3> QED
      BY <1>1, <3>1, <3>2 DEF QueryTypeOK
  <2> QED
    BY <1>1, <2>1, <2>2, <2>3, <2>4, Zenon DEF QueryTypeOK
<1>3. ListInv(q)'
  <2>1. CASE BeginQuery(q)
    BY <1>1, <2>1 DEF ListInv, QueryTypeOK, BeginQuery
  <2>2. CASE OpenCursor(q)
    <3>1. seen'[q] = {} /\ cursor'[q] = "fetching" /\ tries'[q] < MaxRetries
      BY <1>1, <2>2 DEF ListInv, QueryTypeOK, OpenCursor
    <3> QED
      BY <3>1, FS_EmptySet DEF ListInv
  <2> QED
    BY <2>1, <2>2
<1> QED
  BY <1>1, <1>2, <1>3, OthersKeepListInv DEF QueryTypeOK, BeginQuery, OpenCursor

LEMMA FetchKeeps ==
  ASSUME QueryInv, NEW q \in Queries, Fetch(q)
  PROVE  QueryInv'
<1>1. /\ QueryTypeOK /\ ListInv(q) /\ cursor[q] = "fetching"
      /\ UNCHANGED <<filter, cursor, tries, failed, due>>
  BY DEF QueryInv, Fetch
<1>2. PICK k \in Keys :
        /\ list' = [list EXCEPT ![q] = Append(list[q], k)]
        /\ seen' = [seen EXCEPT ![q] = seen[q] \union {k}]
  BY DEF Fetch, Matching
<1>3. /\ list[q] \in Seq(Keys) /\ list'[q] = Append(list[q], k)
      /\ seen'[q] = seen[q] \union {k}
  BY <1>1, <1>2 DEF QueryTypeOK
<1>4. Append(list[q], k) \in Seq(Keys) /\ Listed(q)' = Listed(q) \union {k}
  <2>1. /\ Append(list[q], k) \in Seq(Keys)
        /\ {Append(list[q], k)[i] : i \in DOMAIN Append(list[q], k)}
             = {list[q][i] : i \in DOMAIN list[q]} \union {k}
    BY <1>3, ListedGrows
  <2> QED
    BY <1>3, <2>1, Zenon DEF Listed
<1>5. QueryTypeOK'
  <2>1. list' \in [Queries -> Seq(Keys)]
    BY <1>1, <1>2, <1>4 DEF QueryTypeOK
  <2>2. seen' \in [Queries -> SUBSET Keys]
    BY <1>1, <1>2 DEF QueryTypeOK
  <2> QED
    BY <1>1, <2>1, <2>2, Zenon DEF QueryTypeOK
<1>6. IsFiniteSet(seen'[q])
  <2>1. IsFiniteSet(seen[q])
    BY <1>1 DEF ListInv
  <2> QED
    BY <1>3, <2>1, FS_AddElement
<1>7. ListInv(q)'
  BY <1>1, <1>3, <1>4, <1>6 DEF ListInv
<1> QED
  BY <1>1, <1>2, <1>5, <1>7, OthersKeepListInv DEF QueryTypeOK

\* The three ways an attempt ends.
LEMMA AttemptEndKeeps ==
  ASSUME QueryInv, NEW q \in Queries, EndQuery(q) \/ AbandonQuery(q) \/ InterruptQuery(q)
  PROVE  QueryInv'
<1>1. /\ QueryTypeOK /\ ListInv(q) /\ cursor[q] \in {"running", "fetching"}
      /\ UNCHANGED <<filter, list, seen, due>>
  BY DEF QueryInv, EndQuery, AbandonQuery, InterruptQuery
<1>2. tries[q] \in Nat /\ tries[q] < MaxRetries /\ MaxRetries \in Nat
  BY <1>1, StoreAssumption DEF ListInv, QueryTypeOK
<1>3. QueryTypeOK'
  <2>1. tries[q] + 1 \in 0 .. MaxRetries
    BY <1>2
  <2>2. tries' = tries \/ tries' = [tries EXCEPT ![q] = tries[q] + 1]
    BY DEF EndQuery, AbandonQuery, InterruptQuery
  <2>3. tries' \in [Queries -> 0 .. MaxRetries]
    BY <1>1, <2>1, <2>2 DEF QueryTypeOK
  <2>4. /\ cursor' \in [Queries -> {"idle", "running", "fetching", "returned"}]
        /\ failed' \in [Queries -> BOOLEAN]
    BY <1>1 DEF QueryTypeOK, EndQuery, AbandonQuery, InterruptQuery
  <2> QED
    BY <1>1, <2>3, <2>4 DEF QueryTypeOK
<1>4. Listed(q)' = Listed(q)
  BY <1>1 DEF Listed
<1>5. ListInv(q)'
  <2>1. CASE EndQuery(q)
    <3>1. /\ cursor'[q] = "returned" /\ filter'[q] = filter[q] /\ due'[q] = due[q]
          /\ IsFiniteSet(seen[q]) /\ seen[q] \subseteq Listed(q)
          /\ Cardinality(seen[q]) > filter[q].max \/ due[q] \subseteq seen[q]
      BY <1>1, <2>1 DEF EndQuery, ListInv, QueryTypeOK, ProcessedEnough
    <3>2. /\ Cardinality(seen[q]) \in Nat /\ Cardinality(Listed(q)) \in Nat
          /\ Cardinality(seen[q]) <= Cardinality(Listed(q))
      BY <1>1, <3>1, ListedFinite, FS_CardinalityType, FS_Subset
    <3>3. filter[q].max \in Nat
      BY <1>1, FilterAssumption DEF QueryTypeOK
    <3>4. Cardinality(Listed(q)) > filter[q].max \/ due[q] \subseteq Listed(q)
      BY <3>1, <3>2, <3>3
    <3> QED
      BY <1>4, <3>1, <3>4 DEF ListInv
  <2>2. CASE AbandonQuery(q)
    BY <1>1, <2>2 DEF AbandonQuery, ListInv, QueryTypeOK
  <2>3. CASE InterruptQuery(q)
    <3>1. /\ tries'[q] = tries[q] + 1
          /\ cursor'[q] = IF tries[q] + 1 < MaxRetries THEN "running" ELSE "returned"
      BY <1>1, <2>3 DEF InterruptQuery, QueryTypeOK
    <3>2. tries[q] + 1 < MaxRetries \/ tries'[q] = MaxRetries
      BY <1>2, <3>1
    <3> QED
      BY <3>1, <3>2 DEF ListInv
  <2> QED
    BY <2>1, <2>2, <2>3
<1> QED
  BY <1>1, <1>3, <1>5, OthersKeepListInv
  DEF QueryTypeOK, EndQuery, AbandonQuery, InterruptQuery

\* The calls beside the queries only make less due.
LEMMA CallKeeps ==
  ASSUME QueryInv, NEW r \in Requests, CallStep(r)
  PROVE  QueryInv'
<1>1. /\ UNCHANGED <<filter, cursor, tries, list, failed, seen>>
      /\ due' = [q \in Queries |-> IF cursor[q] = "fetching"
                                   THEN due[q] \intersect Matching(store', filter[q])
                                   ELSE due[q]]
  BY DEF CallStep
<1> DEFINE still(q) == Matching(store', filter[q])
<1>2. due' = [q \in Queries |-> IF cursor[q] = "fetching"
                                THEN due[q] \intersect still(q) ELSE due[q]]
  BY <1>1
<1> HIDE DEF still
<1>3. QueryTypeOK'
  BY <1>1, <1>2 DEF QueryInv, QueryTypeOK
<1>4. ASSUME NEW q \in Queries PROVE ListInv(q)'
  <2>1. Listed(q)' = Listed(q) /\ ListInv(q)
    BY <1>1 DEF Listed, QueryInv
  <2>2. cursor[q] = "returned" => due'[q] = due[q]
    BY <1>2
  <2> QED
    BY <1>1, <2>1, <2>2 DEF ListInv
<1> QED
  BY <1>3, <1>4 DEF QueryInv

LEMMA QueryInvAlways == QuerySpec => []QueryInv
<1>1. QueryInit => QueryInv
  BY StoreAssumption DEF QueryInit, QueryInv, QueryTypeOK, ListInv
<1>2. QueryInv /\ [QueryNext]_allVars => QueryInv'
  <2> SUFFICES ASSUME QueryInv, [QueryNext]_allVars PROVE QueryInv'
    OBVIOUS
  <2>1. CASE UNCHANGED allVars
    <3>1. UNCHANGED <<filter, cursor, tries, list, failed, seen, due>>
      BY <2>1 DEF allVars, queryVars
    <3>2. \A q \in Queries : Listed(q)' = Listed(q)
      BY <3>1 DEF Listed
    <3> QED
      BY <3>1, <3>2 DEF QueryInv, QueryTypeOK, ListInv
  <2>2. ASSUME NEW q \in Queries, QueryStep(q) \/ BeginQuery(q)
        PROVE  QueryInv'
    BY <2>2, BeginAndOpenKeep, FetchKeeps, AttemptEndKeeps DEF QueryStep
  <2> QED
    BY <2>1, <2>2, CallKeeps DEF QueryNext, AllReturned
<1> QED
  BY <1>1, <1>2, PTL DEF QuerySpec

(***************************************************************************)
(* Whatever the calls beside it do to the collection, a query misses no    *)
(* object that matches all the while its last attempt runs, unless an      *)
(* error, its limit or an interruption cuts the answer short.              *)
(***************************************************************************)
THEOREM HeldObjectsAreListed == QuerySpec => []HeldObjectsListed
<1>1. QueryInv => HeldObjectsListed
  <2> SUFFICES ASSUME QueryInv, NEW q \in Queries, cursor[q] = "returned", ~failed[q],
                      tries[q] < MaxRetries,
                      Cardinality(Listed(q)) <= filter[q].max
               PROVE  due[q] \subseteq Listed(q)
    BY DEF HeldObjectsListed
  <2>1. /\ Cardinality(Listed(q)) \in Nat /\ filter[q].max \in Nat
        /\ tries[q] \in Nat /\ MaxRetries \in Nat
    BY ListedFinite, FilterAssumption, StoreAssumption DEF QueryInv, QueryTypeOK
  <2>2. ~(Cardinality(Listed(q)) > filter[q].max) /\ tries[q] # MaxRetries
    BY <2>1
  <2> QED
    BY <2>2 DEF QueryInv, ListInv
<1> QED
  BY <1>1, QueryInvAlways, PTL

(***************************************************************************)
(* The queries disturb no call: with any number of them, the calls and the *)
(* documents behave as ObjectStore says, so that what is proved of its     *)
(* specification holds beside queries, too.                                *)
(***************************************************************************)
THEOREM QueriesOnlyRead == QuerySpec => Spec
<1>1. QueryInit => Init
  BY DEF QueryInit
<1>2. [QueryNext]_allVars => [Next]_vars
  BY DEF QueryNext, CallStep, QueryStep, AllReturned, allVars, Next
<1> QED
  BY <1>1, <1>2, PTL DEF QuerySpec, Spec
=============================================================================
