-------------------------- MODULE ConnectionManager --------------------------
(***************************************************************************)
(* The shared Mongo connection of CLyman: class CoreDatabaseManager        *)
(* (src/src/db/core_database_manager.cpp and its header) together with the *)
(* retry loop that every database call runs around it                      *)
(* (ObjectDatabaseManager::transaction and its siblings).                  *)
(*                                                                         *)
(* Each request is one database call, on a thread of the HTTP server or of *)
(* the event stream's pool.  A call takes the read lock for each query;    *)
(* when too many queries failed, set_new_connection takes the write lock,  *)
(* asks Consul for another Mongo instance and replaces the pool.           *)
(*                                                                         *)
(* Undefined behaviour (a null or deleted pool used, an object deleted     *)
(* twice) is recorded in fault and ends the behaviour: anything might      *)
(* follow it in the real process.                                          *)
(***************************************************************************)
EXTENDS Naturals

CONSTANTS
  Requests,           \* the database calls, each on a thread of its own
  NoRequest,          \* the writer when nobody holds the write lock
  MaxRetries,         \* max_retries: attempts of a call (11 in the code)
  MaxFailures,        \* max_failures of CoreDatabaseManager (5 in the code)
  Addresses,          \* may "mongo" be configured, may it be left out?
  Profiles,           \* may the profile have a Consul, may it have none?
  DiscoveryOutcomes   \* what asking Consul for an instance can lead to

ASSUME ConnectionAssumption ==
  /\ NoRequest \notin Requests
  /\ MaxRetries \in Nat \ {0}
  /\ MaxFailures \in Nat
  /\ Addresses \subseteq BOOLEAN
  /\ Profiles \subseteq BOOLEAN
  /\ DiscoveryOutcomes \subseteq {"found", "throws", "bad_address"}

VARIABLES
  mongo,              \* is "mongo" configured?  It never changes
  consul,             \* is there a Consul (get_consul)?  Nor does this
  initialized,        \* std::atomic<bool> initialized
  pool,               \* the raw pointer pool: null, open, or to a freed pool
  connected_service,  \* the raw pointer connected_service
  failures,           \* std::atomic<int> failures, saturating above the limit
  readers,            \* the requests that hold conn_usage_lock for reading
  writer,             \* the request that holds it for writing
  pc,                 \* where each request is
  call,               \* which database call each request makes
  retries,            \* the local counter of each call
  fault,              \* the first undefined behaviour met, or "none"
  cut_short,          \* history: did an exception end the latest update?
  unasked             \* history: was a failure counted without asking for a new
                      \* connection, since the counter was last reset?

vars == <<mongo, consul, initialized, pool, connected_service, failures, readers, writer,
          pc, call, retries, fault, cut_short, unasked>>

(***************************************************************************)
(* The five shapes of retry loop.  They differ in whether an answered but  *)
(* unsuccessful query is retried, in what a malformed key does, and in     *)
(* what an exception out of set_new_connection meets: delete_object calls  *)
(* it inside a try block of its own, the others outside of any.  A         *)
(* property_read is get_property, or one of the two queries, whose key is  *)
(* never malformed.                                                        *)
(***************************************************************************)
Operations == {"transaction", "object_get", "object_delete", "property_read",
               "property_delete"}
ObjectKeyCalls == {"object_get", "object_delete"}

Calls == [op : Operations, valid_key : BOOLEAN]

Steps == {"idle", "loop", "query", "failed", "check", "want_write",
          "discover", "delete", "connect", "reset", "caught", "returned", "threw"}

Finished == {"returned", "threw"}
Pointers == {"null", "live", "freed"}
Faults   == {"none", "dead_pool", "pool_in_use", "double_delete"}

\* Only "failures > max_failures" is ever asked of the counter, so counting
\* stops one above the limit.
Counted(n) == IF n > MaxFailures THEN n ELSE n + 1

\* "failures.load() > max_failures"
LimitMissed == failures > MaxFailures + 1  \* mutant: one failure too late
LimitExceeded == failures > MaxFailures

\* Poco::RWLock: ScopedReadRWLock and ScopedWriteRWLock.
ReadLockIgnored == TRUE  \* mutant: the query takes no lock
ReadLockFree == writer = NoRequest

WriteLockFreeOfWriters == writer = NoRequest  \* mutant: readers not awaited
WriteLockFree == writer = NoRequest /\ readers = {}

LockSkipped(r) == UNCHANGED writer  \* mutant: set_new_connection locks nothing
LockForWriting(r) == writer' = r

\* The scoped write lock, if r holds it, is released.
LockKept(r) == UNCHANGED writer  \* mutant: the lock is leaked
Unlock(r) == writer' = IF writer = r THEN NoRequest ELSE writer

Goto(r, step) == pc' = [pc EXCEPT ![r] = step]

TypeOK ==
  /\ mongo \in BOOLEAN
  /\ consul \in BOOLEAN
  /\ initialized \in BOOLEAN
  /\ pool \in Pointers
  /\ connected_service \in Pointers
  /\ failures \in 0 .. MaxFailures + 1
  /\ readers \subseteq Requests
  /\ writer \in Requests \union {NoRequest}
  /\ pc \in [Requests -> Steps]
  /\ call \in [Requests -> Calls]
  /\ retries \in [Requests -> 0 .. MaxRetries]
  /\ fault \in Faults
  /\ cut_short \in BOOLEAN
  /\ unasked \in BOOLEAN

-----------------------------------------------------------------------------
\* The constructor: init_with_connection opens the pool when "mongo" is set.
Init ==
  /\ mongo \in Addresses
  /\ consul \in Profiles
  /\ initialized = mongo
  /\ pool = IF mongo THEN "live" ELSE "null"
  /\ connected_service = "null"
  /\ failures = 0
  /\ readers = {}
  /\ writer = NoRequest
  /\ pc = [r \in Requests |-> "idle"]
  /\ call \in [Requests -> Calls]
  /\ retries = [r \in Requests |-> 0]
  /\ fault = "none"
  /\ cut_short = FALSE
  /\ unasked = FALSE

\* A call starts with init(): whoever flips initialized first goes on to
\* find_new_connection, without the lock; everyone else goes straight on.
Begin(r) ==
  /\ pc[r] = "idle"
  /\ initialized' = TRUE
  /\ Goto(r, IF initialized THEN "loop" ELSE "discover")
  /\ UNCHANGED <<mongo, consul, pool, connected_service, failures, readers,
                 writer, call, retries, fault, cut_short, unasked>>

\* get_object, delete_object and get_property parse the key before they take
\* the lock; a malformed one ends the call.  Only the object calls count it.
RejectKey(r) ==
  /\ pc[r] = "loop"
  /\ ~call[r].valid_key
  /\ call[r].op \in ObjectKeyCalls \union {"property_read"}
  /\ IF call[r].op \in ObjectKeyCalls
       THEN failures' = Counted(failures) /\ unasked' = TRUE
       ELSE UNCHANGED <<failures, unasked>>
  /\ Goto(r, "returned")
  /\ UNCHANGED <<initialized, pool, connected_service, readers, writer, call,
                 retries, fault, cut_short>>

\* The read lock is taken and a client acquired from the pool.
StartQuery(r) ==
  /\ pc[r] = "loop"
  /\ call[r].valid_key \/ call[r].op \in {"transaction", "property_delete"}
  /\ ReadLockFree
  /\ readers' = readers \union {r}
  /\ fault' = IF pool = "live" THEN "none" ELSE "dead_pool"
  /\ Goto(r, "query")
  /\ UNCHANGED <<initialized, pool, connected_service, failures, writer, call,
                 retries, cut_short, unasked>>

\* The client goes back to the pool and the scoped lock is released.
LeaveQuery(r) ==
  /\ pc[r] = "query"
  /\ readers' = readers \ {r}
  /\ UNCHANGED <<initialized, pool, connected_service, failures, writer, call,
                 fault, cut_short, unasked>>

\* The loop's end: another attempt, or the call gives up.
OneMoreAttempt(r) ==  \* mutant: one attempt too many
  /\ retries' = [retries EXCEPT ![r] = @ + 1]
  /\ Goto(r, IF retries[r] + 1 <= MaxRetries THEN "loop" ELSE "returned")
TryAgain(r) ==
  /\ retries' = [retries EXCEPT ![r] = @ + 1]
  /\ Goto(r, IF retries[r] + 1 < MaxRetries THEN "loop" ELSE "returned")

\* Mongo answers and the call is done.
QueryAnswered(r) ==
  /\ LeaveQuery(r)
  /\ call[r].valid_key
  /\ Goto(r, "returned")
  /\ UNCHANGED retries

\* Mongo answers that nothing was modified: transaction() and
\* prop_transaction() try again.
NothingModified(r) ==
  /\ LeaveQuery(r)
  /\ call[r].valid_key
  /\ call[r].op = "transaction"
  /\ TryAgain(r)

\* A mongocxx::exception, or a malformed key met while building the filter
\* of a transaction, ends the call.
QueryAbandoned(r) ==
  /\ LeaveQuery(r)
  /\ call[r].valid_key \/ call[r].op = "transaction"
  /\ Goto(r, "returned")
  /\ UNCHANGED retries

\* Any other exception; for delete_property a malformed key is one.
QueryFails(r) ==
  /\ LeaveQuery(r)
  /\ call[r].valid_key \/ call[r].op = "property_delete"
  /\ Goto(r, "failed")
  /\ UNCHANGED retries

-----------------------------------------------------------------------------
\* add_failure(), in the exception handler: the lock is no longer held.
AddFailure(r) ==
  /\ pc[r] = "failed"
  /\ failures' = Counted(failures)
  /\ Goto(r, "check")
  /\ UNCHANGED <<initialized, pool, connected_service, readers, writer, call,
                 retries, fault, cut_short, unasked>>

\* set_new_connection() compares the counter before it takes the write lock.
BelowLimit(r) ==
  /\ pc[r] = "check"
  /\ ~LimitExceeded
  /\ TryAgain(r)
  /\ UNCHANGED <<initialized, pool, connected_service, failures, readers,
                 writer, call, fault, cut_short, unasked>>

AboveLimit(r) ==
  /\ pc[r] = "check"
  /\ LimitExceeded
  /\ Goto(r, "want_write")
  /\ UNCHANGED <<initialized, pool, connected_service, failures, readers,
                 writer, call, retries, fault, cut_short, unasked>>

\* The write lock is taken and the old service deleted; the pointer is not
\* reset.
StartUpdate(r) ==
  /\ pc[r] = "want_write"
  /\ WriteLockFree
  /\ LockForWriting(r)
  /\ connected_service' = IF connected_service = "null" THEN "null" ELSE "freed"
  /\ fault' = IF connected_service = "freed" THEN "double_delete" ELSE "none"
  /\ Goto(r, "discover")
  /\ UNCHANGED <<initialized, pool, failures, readers, call, retries, cut_short, unasked>>

\* An exception leaves find_new_connection: the lock is released on the way, the
\* counter keeps its value.  It leaves the call as well, unless delete_object made
\* it in set_new_connection(), inside its outer try block.
Escape(r) ==
  /\ Unlock(r)
  /\ Goto(r, IF call[r].op = "object_delete" /\ writer = r THEN "caught" ELSE "threw")
  /\ cut_short' = TRUE
  /\ UNCHANGED <<initialized, pool, failures, readers, call, retries, fault, unasked>>

\* find_new_connection, from init() or set_new_connection(): without a Consul
\* it only logs.
DiscoverNothing(r) ==
  /\ pc[r] = "discover"
  /\ ~consul
  /\ Goto(r, IF writer = r THEN "reset" ELSE "loop")
  /\ UNCHANGED <<initialized, pool, connected_service, failures, readers,
                 writer, call, retries, fault, cut_short, unasked>>

Discover(r) ==
  /\ pc[r] = "discover"
  /\ consul
  /\ DiscoveryOutcomes \intersect {"found", "bad_address"} # {}
  /\ connected_service' = "live"
  /\ Goto(r, "delete")
  /\ UNCHANGED <<initialized, pool, failures, readers, writer, call, retries,
                 fault, cut_short, unasked>>

DiscoveryThrows(r) ==
  /\ pc[r] = "discover"
  /\ consul
  /\ "throws" \in DiscoveryOutcomes
  /\ Escape(r)
  /\ UNCHANGED connected_service

\* "if (pool) delete pool": the pointer dangles until it is assigned.
DeletePool(r) ==
  /\ pc[r] = "delete"
  /\ pool' = IF pool = "null" THEN "null" ELSE "freed"
  /\ fault' = CASE pool = "freed" -> "double_delete"
                [] pool = "live" /\ readers # {} -> "pool_in_use"
                [] OTHER -> "none"
  /\ Goto(r, "connect")
  /\ UNCHANGED <<initialized, connected_service, failures, readers, writer,
                 call, retries, cut_short, unasked>>

\* The uri is parsed and the new pool assigned.
Connect(r) ==
  /\ pc[r] = "connect"
  /\ "found" \in DiscoveryOutcomes
  /\ pool' = "live"
  /\ Goto(r, IF writer = r THEN "reset" ELSE "loop")
  /\ UNCHANGED <<initialized, connected_service, failures, readers, writer,
                 call, retries, fault, cut_short, unasked>>

\* The address Consul holds makes the uri throw: the old pool is gone already.
ConnectThrows(r) ==
  /\ pc[r] = "connect"
  /\ "bad_address" \in DiscoveryOutcomes
  /\ Escape(r)
  /\ UNCHANGED connected_service

\* "failures = 0", the write lock is released and the loop goes on.
ResetFailures(r) ==
  /\ pc[r] = "reset"
  /\ failures' = 0
  /\ cut_short' = FALSE
  /\ unasked' = FALSE
  /\ Unlock(r)
  /\ TryAgain(r)
  /\ UNCHANGED <<initialized, pool, connected_service, readers, call, fault>>

\* The catch block of delete_object takes the exception for a malformed key: one
\* failure more, no new attempt, and the call returns.
CountCaught(r) ==
  /\ pc[r] = "caught"
  /\ failures' = Counted(failures)
  /\ unasked' = TRUE
  /\ Goto(r, "returned")
  /\ UNCHANGED <<initialized, pool, connected_service, readers, writer, call,
                 retries, fault, cut_short>>

-----------------------------------------------------------------------------
\* What the thread of r does once its call has begun.
Step(r) ==
  /\ fault = "none"
  /\ UNCHANGED <<mongo, consul>>
  /\ \/ RejectKey(r)
     \/ StartQuery(r)
     \/ QueryAnswered(r)
     \/ NothingModified(r)
     \/ QueryAbandoned(r)
     \/ QueryFails(r)
     \/ AddFailure(r)
     \/ BelowLimit(r)
     \/ AboveLimit(r)
     \/ StartUpdate(r)
     \/ DiscoverNothing(r)
     \/ Discover(r)
     \/ DiscoveryThrows(r)
     \/ DeletePool(r)
     \/ Connect(r)
     \/ ConnectThrows(r)
     \/ ResetFailures(r)
     \/ CountCaught(r)

\* Every call is over, or the behaviour of the process is undefined.
Terminated ==
  /\ fault # "none" \/ \A r \in Requests : pc[r] \in Finished
  /\ UNCHANGED vars

Next ==
  \/ \E r \in Requests : (fault = "none" /\ Begin(r)) \/ Step(r)
  \/ Terminated

\* Threads keep running; nobody promises that a request arrives.
Fairness == \A r \in Requests : WF_vars(Step(r))

Spec == Init /\ [][Next]_vars /\ Fairness

-----------------------------------------------------------------------------
\* "We use a RW lock to let any number of queries execute simultaneously, XOR
\* let a connection get updated": while find_new_connection swaps the pool, no
\* call is inside a query.
QueriesXorUpdate ==
  \A r \in Requests : pc[r] \in {"delete", "connect"} => readers = {}

\* With a configured address this is so, whatever Consul answers.
UpdateExcludesQueries == mongo => QueriesXorUpdate

\* "ensuring that we can safely update the connection on failure": with a
\* configured address no pool is ever deleted under a query; and unless an
\* exception ended the latest update half-way, whether the call threw or
\* delete_object swallowed it, no call acquires a client from a pool that is gone
\* and neither the pool nor the service is deleted twice.
SafeUpdate ==
  mongo => fault # "pool_in_use" /\ (~cut_short => fault = "none")

\* A failure count above the limit is never left behind: some call is on its
\* way through set_new_connection, unless an exception ended the latest update, or
\* the object calls counted a failure without asking for a new connection.
LimitWatched ==
  failures > MaxFailures =>
    \/ cut_short \/ unasked
    \/ \E r \in Requests :
         pc[r] \in {"check", "want_write", "discover", "delete", "connect", "reset"}

\* However a call ends, by returning or by an exception out of
\* find_new_connection, it leaves conn_usage_lock free of itself.
LocksReleased ==
  \A r \in Requests : pc[r] \in Finished => r \notin readers /\ writer # r

\* Only an update under the write lock, by the call that saw the limit
\* exceeded, ever takes the pool away from calls that are past init().
PoolOwnedByWriter ==
  [][pool = "live" /\ pool' # "live" => writer # NoRequest]_vars

\* The retries are bounded and the lock is always released: every database
\* call that was begun ends.
EveryCallReturns ==
  \A r \in Requests :
    (pc[r] # "idle") ~> (pc[r] \in Finished \/ fault # "none")
=============================================================================
