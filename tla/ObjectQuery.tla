----------------------------- MODULE ObjectQuery -----------------------------
(***************************************************************************)
(* ObjectDatabaseManager::query beside the calls of ObjectStore: the       *)
(* cursor of a query goes through the collection one document at a time,   *)
(* while other calls create, change and delete documents.                  *)
(*                                                                         *)
(* Each query is a thread of its own and has its own copy of the retry     *)
(* loop; its records stay in the list when an attempt is repeated.         *)
(***************************************************************************)
EXTENDS ObjectStore, Sequences

CONSTANTS
  Queries,   \* the queries in flight
  Filters    \* what they may ask for

ASSUME FilterAssumption ==
  Filters \subseteq [owner : Devices \union {NoDevice},
                     assets : {{}} \union {{a} : a \in Assets}, max : Nat]

VARIABLES
  filter,   \* the object of the request, and its num_records
  cursor,   \* idle, running, fetching or returned
  tries,    \* the local counter retries
  list,     \* the objects of the response, by key
  failed,   \* the response has an error message
  seen,     \* the documents that the cursor has returned
  due       \* history: those that have matched since it was opened

queryVars == <<filter, cursor, tries, list, failed, seen, due>>
allVars   == <<vars, queryVars>>

-----------------------------------------------------------------------------
\* build_query_doc leaves an empty string and an empty list of assets out, and
\* asks of a document that it has the one asset among its own.
Matches(doc, f) ==
  /\ f.owner = NoDevice \/ doc.owner = f.owner
  /\ \A a \in f.assets : doc.assets[a] > 0

Matching(docs, f) == {k \in Keys : docs[k] # Absent /\ Matches(docs[k], f)}

-----------------------------------------------------------------------------
QueryInit ==
  /\ Init
  /\ filter \in [Queries -> Filters]
  /\ cursor = [q \in Queries |-> "idle"]
  /\ tries = [q \in Queries |-> 0]
  /\ list = [q \in Queries |-> <<>>]
  /\ failed = [q \in Queries |-> FALSE]
  /\ seen = [q \in Queries |-> {}]
  /\ due = [q \in Queries |-> {}]

BeginQuery(q) ==
  /\ cursor[q] = "idle"
  /\ cursor' = [cursor EXCEPT ![q] = "running"]
  /\ UNCHANGED <<filter, tries, list, failed, seen, due>>

OpenCursor(q) ==
  /\ cursor[q] = "running"
  /\ cursor' = [cursor EXCEPT ![q] = "fetching"]
  /\ seen' = [seen EXCEPT ![q] = {}]
  /\ due' = [due EXCEPT ![q] = Matching(store, filter[q])]
  /\ UNCHANGED <<filter, tries, list, failed>>

\* results_processed > max_results.
ProcessedInAll(q) ==  \* mutant: results_processed outlives the attempt
  Len(list[q]) > filter[q].max
ProcessedEnough(q) == Cardinality(seen[q]) > filter[q].max

\* The cursor returns every document that has matched since it was opened, and
\* may return others that match by now.
Fetch(q) ==
  /\ cursor[q] = "fetching"
  /\ ~ProcessedEnough(q)
  /\ \E k \in Matching(store, filter[q]) \ seen[q] :
       /\ list' = [list EXCEPT ![q] = Append(@, k)]
       /\ seen' = [seen EXCEPT ![q] = @ \union {k}]
  /\ UNCHANGED <<filter, cursor, tries, failed, due>>

EndQuery(q) ==
  /\ cursor[q] = "fetching"
  /\ ProcessedEnough(q) \/ due[q] \subseteq seen[q]
  /\ cursor' = [cursor EXCEPT ![q] = "returned"]
  /\ UNCHANGED <<filter, tries, list, failed, seen, due>>

\* An exception of mongocxx leaves a message in the response and ends the query.
AbandonQuery(q) ==
  /\ "refused" \in Failures
  /\ cursor[q] \in {"running", "fetching"}
  /\ cursor' = [cursor EXCEPT ![q] = "returned"]
  /\ failed' = [failed EXCEPT ![q] = TRUE]
  /\ UNCHANGED <<filter, tries, list, seen, due>>

\* Any other is counted, and the query begins again.
InterruptQuery(q) ==
  /\ "interrupted" \in Failures
  /\ cursor[q] \in {"running", "fetching"}
  /\ tries' = [tries EXCEPT ![q] = @ + 1]
  /\ cursor' = [cursor EXCEPT ![q] = IF tries[q] + 1 < MaxRetries
                                     THEN "running" ELSE "returned"]
  /\ UNCHANGED <<filter, list, failed, seen, due>>

-----------------------------------------------------------------------------
QueryStep(q) ==
  /\ \/ OpenCursor(q)
     \/ Fetch(q)
     \/ EndQuery(q)
     \/ AbandonQuery(q)
     \/ InterruptQuery(q)
  /\ UNCHANGED vars

\* A call of ObjectStore, which the open cursors may notice.
CallStep(r) ==
  /\ Begin(r) \/ Step(r)
  /\ due' = [q \in Queries |->
               IF cursor[q] = "fetching" THEN due[q] \intersect Matching(store', filter[q])
               ELSE due[q]]
  /\ UNCHANGED <<filter, cursor, tries, list, failed, seen>>

AllReturned ==
  /\ \A r \in Requests : pc[r] = "returned"
  /\ \A q \in Queries : cursor[q] = "returned"
  /\ UNCHANGED allVars

QueryNext ==
  \/ \E r \in Requests : CallStep(r)
  \/ \E q \in Queries : QueryStep(q) \/ (BeginQuery(q) /\ UNCHANGED vars)
  \/ AllReturned

\* A thread that has begun a query, like one that has begun a call, goes on with
\* it.
QuerySpec ==
  /\ QueryInit /\ [][QueryNext]_allVars
  /\ Fairness /\ \A q \in Queries : WF_allVars(QueryStep(q))

-----------------------------------------------------------------------------
\* An object is in the answer of a query that was not cut short by an error, by
\* its limit or by the interruption of its last attempt, if it has matched from
\* the beginning to the end of that attempt: a device finds every object that it
\* has held all the while, whatever was locked, created or deleted meanwhile.
Listed(q) == {list[q][i] : i \in DOMAIN list[q]}
HeldObjectsListed ==
  \A q \in Queries :
    /\ cursor[q] = "returned" /\ ~failed[q] /\ tries[q] < MaxRetries
    /\ Cardinality(Listed(q)) <= filter[q].max
    => due[q] \subseteq Listed(q)
=============================================================================
