----------------------- MODULE ConnectionManagerProofs -----------------------
(***************************************************************************)
(* What ConnectionManager guarantees for every number of calls and every   *)
(* value of the limits.  RetryInv makes the type invariant inductive,      *)
(* LockInv ties conn_usage_lock to the place of each thread, and SafeInv   *)
(* says what the pool and the service are at each step of an update.       *)
(***************************************************************************)
EXTENDS ConnectionManager, TLAPS

\* A call that is not over has an attempt left.
RetryInv == \A r \in Requests : pc[r] \notin Finished => retries[r] < MaxRetries

UnderWriteLock == {"discover", "delete", "connect", "reset"}

\* The read lock is held exactly inside a query, the write lock only during
\* an update, and never both.
LockInv ==
  /\ \A r \in Requests : r \in readers <=> pc[r] = "query"
  /\ \A r \in Requests : writer = r => pc[r] \in UnderWriteLock
  /\ writer # NoRequest => readers = {}

\* With a configured address every update is made under the write lock.
OwnInv ==
  mongo => /\ initialized
           /\ \A r \in Requests : pc[r] \in UnderWriteLock => writer = r

\* Whatever Consul answers, a service was found before the pool is replaced, and an
\* update that gets to its end leaves a live pool and a service that may be
\* deleted.  Unless an exception ended the latest one, so does every step between.
Whole ==
  /\ fault = "none"
  /\ \A r \in Requests : pc[r] \in {"discover", "delete"} => pool = "live"
  /\ writer = NoRequest => pool = "live" /\ connected_service # "freed"
SafeInv ==
  mongo =>
    /\ fault # "pool_in_use"
    /\ \A r \in Requests : pc[r] \in {"delete", "connect"} => connected_service = "live"
    /\ \A r \in Requests : pc[r] = "reset" => pool = "live" /\ connected_service # "freed"
    /\ ~consul => connected_service = "null" /\ ~cut_short
    /\ ~cut_short => Whole

\* A call on its way through find_new_connection without the write lock is the
\* first one.  Before it is through no other got further than the loop, or else it
\* met a pool that is not there, and nothing but malformed keys was counted.
Unlocked(r) == pc[r] \in {"discover", "delete", "connect"} /\ writer # r
FirstUseInv ==
  /\ ~initialized => failures = 0 /\ writer = NoRequest
                     /\ \A r \in Requests : pc[r] = "idle"
  /\ \A r \in Requests : Unlocked(r) /\ fault = "none" =>
       /\ pool # "live"
       /\ failures > MaxFailures => unasked
       /\ \A s \in Requests \ {r} : pc[s] \in {"idle", "loop", "returned"}
  /\ ~initialized => mongo \/ pool # "live"
  /\ mongo => initialized

\* Every variable keeps its type, and a call that is not over its last attempt.
LEMMA AttemptsAlways == Spec => [](TypeOK /\ RetryInv)
<1> DEFINE Inv == TypeOK /\ RetryInv
<1>1. Init => Inv
  <2>1. Init => cut_short \in BOOLEAN /\ unasked \in BOOLEAN
    BY DEF Init
  <2> QED
    BY <2>1, ConnectionAssumption
    DEF Init, TypeOK, RetryInv, Steps, Finished, Pointers, Faults
<1>2. Inv /\ [Next]_vars => Inv'
  <2> SUFFICES ASSUME Inv, [Next]_vars PROVE Inv'
    OBVIOUS
  <2> USE ConnectionAssumption
      DEF TypeOK, RetryInv, Steps, Finished, Pointers, Faults, Counted, Goto
  <2>1. CASE UNCHANGED vars
    BY <2>1 DEF vars
  <2>2. CASE Terminated
    BY <2>2 DEF Terminated, vars
  <2>3. ASSUME NEW r \in Requests, Begin(r) PROVE Inv'
    BY <2>3 DEF Begin
  <2>4. ASSUME NEW r \in Requests, Step(r) PROVE Inv'
    <3>0. fault = "none" /\ UNCHANGED <<mongo, consul>> BY <2>4 DEF Step
    <3> USE DEF LeaveQuery, TryAgain, Unlock, Escape, LockForWriting,
                WriteLockFree, ReadLockFree, LimitExceeded
    <3>1. CASE RejectKey(r)
      <4>1. unasked' \in BOOLEAN BY <3>1 DEF RejectKey
      <4> QED BY <3>0, <3>1, <4>1 DEF RejectKey
    <3>2. CASE StartQuery(r) BY <3>0, <3>2 DEF StartQuery
    <3>3. CASE QueryAnswered(r) BY <3>0, <3>3 DEF QueryAnswered
    <3>4. CASE NothingModified(r) BY <3>0, <3>4 DEF NothingModified
    <3>5. CASE QueryAbandoned(r) BY <3>0, <3>5 DEF QueryAbandoned
    <3>6. CASE QueryFails(r) BY <3>0, <3>6 DEF QueryFails
    <3>7. CASE AddFailure(r) BY <3>0, <3>7 DEF AddFailure
    <3>8. CASE BelowLimit(r) BY <3>0, <3>8 DEF BelowLimit
    <3>9. CASE AboveLimit(r) BY <3>0, <3>9 DEF AboveLimit
    <3>10. CASE StartUpdate(r) BY <3>0, <3>10 DEF StartUpdate
    <3>11. CASE DiscoverNothing(r) BY <3>0, <3>11 DEF DiscoverNothing
    <3>12. CASE Discover(r) BY <3>0, <3>12 DEF Discover
    <3>13. CASE DiscoveryThrows(r) BY <3>0, <3>13 DEF DiscoveryThrows
    <3>14. CASE DeletePool(r) BY <3>0, <3>14 DEF DeletePool
    <3>15. CASE Connect(r) BY <3>0, <3>15 DEF Connect
    <3>16. CASE ConnectThrows(r) BY <3>0, <3>16 DEF ConnectThrows
    <3>17. CASE ResetFailures(r)
      <4>1. cut_short' \in BOOLEAN /\ unasked' \in BOOLEAN BY <3>17 DEF ResetFailures
      <4> QED BY <3>0, <3>17, <4>1 DEF ResetFailures
    <3>18. CASE CountCaught(r) BY <3>0, <3>18 DEF CountCaught
    <3> QED
      BY <2>4, <3>1, <3>2, <3>3, <3>4, <3>5, <3>6, <3>7, <3>8, <3>9, <3>10,
         <3>11, <3>12, <3>13, <3>14, <3>15, <3>16, <3>17, <3>18 DEF Step
  <2> QED
    BY <2>1, <2>2, <2>3, <2>4 DEF Next
<1> QED
  BY <1>1, <1>2, PTL DEF Spec

\* Type correctness: every variable keeps its type, in particular no call
\* makes more than MaxRetries attempts.
THEOREM TypeCorrect == Spec => []TypeOK
BY AttemptsAlways, PTL

\* The locks are consistent with the threads in every configuration.
LEMMA LocksConsistent == Spec => []LockInv
<1>1. Init => LockInv
  BY ConnectionAssumption DEF Init, LockInv
<1>2. TypeOK /\ LockInv /\ [Next]_vars => LockInv'
  <2> SUFFICES ASSUME TypeOK, LockInv, [Next]_vars PROVE LockInv'
    OBVIOUS
  <2> USE ConnectionAssumption DEF TypeOK, LockInv, UnderWriteLock, Goto
  <2>1. CASE UNCHANGED vars
    BY <2>1 DEF vars
  <2>2. CASE Terminated
    BY <2>2 DEF Terminated, vars
  <2>3. ASSUME NEW r \in Requests, Begin(r) PROVE LockInv'
    BY <2>3 DEF Begin
  <2>4. ASSUME NEW r \in Requests, Step(r) PROVE LockInv'
    <3> USE DEF LeaveQuery, TryAgain, Unlock, Escape, LockForWriting,
                WriteLockFree, ReadLockFree, LimitExceeded
    <3>1. CASE RejectKey(r) BY <3>1 DEF RejectKey
    <3>2. CASE StartQuery(r) BY <3>2 DEF StartQuery
    <3>3. CASE QueryAnswered(r) BY <3>3 DEF QueryAnswered
    <3>4. CASE NothingModified(r) BY <3>4 DEF NothingModified
    <3>5. CASE QueryAbandoned(r) BY <3>5 DEF QueryAbandoned
    <3>6. CASE QueryFails(r) BY <3>6 DEF QueryFails
    <3>7. CASE AddFailure(r) BY <3>7 DEF AddFailure
    <3>8. CASE BelowLimit(r) BY <3>8 DEF BelowLimit
    <3>9. CASE AboveLimit(r) BY <3>9 DEF AboveLimit
    <3>10. CASE StartUpdate(r) BY <3>10 DEF StartUpdate
    <3>11. CASE DiscoverNothing(r) BY <3>11 DEF DiscoverNothing
    <3>12. CASE Discover(r) BY <3>12 DEF Discover
    <3>13. CASE DiscoveryThrows(r) BY <3>13 DEF DiscoveryThrows
    <3>14. CASE DeletePool(r) BY <3>14 DEF DeletePool
    <3>15. CASE Connect(r) BY <3>15 DEF Connect
    <3>16. CASE ConnectThrows(r) BY <3>16 DEF ConnectThrows
    <3>17. CASE ResetFailures(r) BY <3>17 DEF ResetFailures
    <3>18. CASE CountCaught(r) BY <3>18 DEF CountCaught
    <3> QED
      BY <2>4, <3>1, <3>2, <3>3, <3>4, <3>5, <3>6, <3>7, <3>8, <3>9, <3>10,
         <3>11, <3>12, <3>13, <3>14, <3>15, <3>16, <3>17, <3>18 DEF Step
  <2> QED
    BY <2>1, <2>2, <2>3, <2>4 DEF Next
<1> QED
  BY <1>1, <1>2, TypeCorrect, PTL DEF Spec

\* However a call ends it holds neither side of conn_usage_lock, whatever the
\* registry does and whoever connects first.
THEOREM LocksAlwaysReleased == Spec => []LocksReleased
<1>1. LockInv => LocksReleased
  BY DEF LockInv, LocksReleased, UnderWriteLock, Finished
<1> QED
  BY <1>1, LocksConsistent, PTL

\* With a configured address the locks exclude queries from every update, however
\* Consul answers.
LEMMA UpdatesOwned == Spec => []OwnInv
<1>1. Init => OwnInv
  BY ConnectionAssumption DEF Init, OwnInv, UnderWriteLock
<1>2. TypeOK /\ LockInv /\ OwnInv /\ [Next]_vars => OwnInv'
  <2> SUFFICES ASSUME TypeOK, LockInv, OwnInv, [Next]_vars PROVE OwnInv'
    OBVIOUS
  <2> USE ConnectionAssumption DEF TypeOK, LockInv, OwnInv, UnderWriteLock, Goto
  <2>1. CASE UNCHANGED vars
    BY <2>1 DEF vars
  <2>2. CASE Terminated
    BY <2>2 DEF Terminated, vars
  <2>3. ASSUME NEW r \in Requests, Begin(r) PROVE OwnInv'
    BY <2>3 DEF Begin
  <2>4. ASSUME NEW r \in Requests, Step(r) PROVE OwnInv'
    <3>0. fault = "none" /\ UNCHANGED <<mongo, consul>> BY <2>4 DEF Step
    <3> USE DEF LeaveQuery, TryAgain, Unlock, Escape, LockForWriting, WriteLockFree,
                ReadLockFree, LimitExceeded
    <3>1. CASE RejectKey(r) BY <3>0, <3>1 DEF RejectKey
    <3>2. CASE StartQuery(r) BY <3>0, <3>2 DEF StartQuery
    <3>3. CASE QueryAnswered(r) BY <3>0, <3>3 DEF QueryAnswered
    <3>4. CASE NothingModified(r) BY <3>0, <3>4 DEF NothingModified
    <3>5. CASE QueryAbandoned(r) BY <3>0, <3>5 DEF QueryAbandoned
    <3>6. CASE QueryFails(r) BY <3>0, <3>6 DEF QueryFails
    <3>7. CASE AddFailure(r) BY <3>0, <3>7 DEF AddFailure
    <3>8. CASE BelowLimit(r) BY <3>0, <3>8 DEF BelowLimit
    <3>9. CASE AboveLimit(r) BY <3>0, <3>9 DEF AboveLimit
    <3>10. CASE StartUpdate(r) BY <3>0, <3>10 DEF StartUpdate
    <3>11. CASE DiscoverNothing(r) BY <3>0, <3>11 DEF DiscoverNothing
    <3>12. CASE Discover(r) BY <3>0, <3>12 DEF Discover
    <3>13. CASE DiscoveryThrows(r) BY <3>0, <3>13 DEF DiscoveryThrows
    <3>14. CASE DeletePool(r) BY <3>0, <3>14 DEF DeletePool
    <3>15. CASE Connect(r) BY <3>0, <3>15 DEF Connect
    <3>16. CASE ConnectThrows(r) BY <3>0, <3>16 DEF ConnectThrows
    <3>17. CASE ResetFailures(r) BY <3>0, <3>17 DEF ResetFailures
    <3>18. CASE CountCaught(r) BY <3>0, <3>18 DEF CountCaught
    <3> QED
      BY <2>4, <3>1, <3>2, <3>3, <3>4, <3>5, <3>6, <3>7, <3>8, <3>9, <3>10,
         <3>11, <3>12, <3>13, <3>14, <3>15, <3>16, <3>17, <3>18 DEF Step
  <2> QED
    BY <2>1, <2>2, <2>3, <2>4 DEF Next
<1> QED
  BY <1>1, <1>2, TypeCorrect, LocksConsistent, PTL DEF Spec

\* While the connection is replaced no call is inside a query, if an address is
\* configured.
THEOREM QueriesExcluded == Spec => []UpdateExcludesQueries
<1>1. TypeOK /\ LockInv /\ OwnInv => UpdateExcludesQueries
  BY ConnectionAssumption
  DEF TypeOK, LockInv, OwnInv, UpdateExcludesQueries, QueriesXorUpdate, UnderWriteLock
<1> QED
  BY <1>1, TypeCorrect, LocksConsistent, UpdatesOwned, PTL

\* With a configured address no pool is deleted under a query, and unless an
\* exception ended the latest update no call ever meets a missing, deleted or twice
\* deleted pool or service.
THEOREM UpdateIsSafe == Spec => []SafeUpdate
<1>1. Init => SafeInv
  BY ConnectionAssumption DEF Init, SafeInv, Whole
<1>2. TypeOK /\ LockInv /\ OwnInv /\ SafeInv /\ [Next]_vars => SafeInv'
  <2> SUFFICES ASSUME TypeOK, LockInv, OwnInv, SafeInv, [Next]_vars, mongo'
               PROVE  SafeInv'
    BY DEF SafeInv
  <2> USE ConnectionAssumption
      DEF TypeOK, LockInv, OwnInv, SafeInv, Whole, UnderWriteLock, Goto, Pointers
  <2>1. CASE UNCHANGED vars
    BY <2>1 DEF vars
  <2>2. CASE Terminated
    BY <2>2 DEF Terminated, vars
  <2>3. ASSUME NEW r \in Requests, Begin(r) PROVE SafeInv'
    BY <2>3 DEF Begin
  <2>4. ASSUME NEW r \in Requests, Step(r) PROVE SafeInv'
    <3>0. fault = "none" /\ UNCHANGED <<mongo, consul>> BY <2>4 DEF Step
    <3> USE DEF LeaveQuery, TryAgain, Unlock, Escape, LockForWriting, WriteLockFree,
                ReadLockFree, LimitExceeded
    <3>1. CASE RejectKey(r) BY <3>0, <3>1 DEF RejectKey
    <3>2. CASE StartQuery(r) BY <3>0, <3>2 DEF StartQuery
    <3>3. CASE QueryAnswered(r) BY <3>0, <3>3 DEF QueryAnswered
    <3>4. CASE NothingModified(r) BY <3>0, <3>4 DEF NothingModified
    <3>5. CASE QueryAbandoned(r) BY <3>0, <3>5 DEF QueryAbandoned
    <3>6. CASE QueryFails(r) BY <3>0, <3>6 DEF QueryFails
    <3>7. CASE AddFailure(r) BY <3>0, <3>7 DEF AddFailure
    <3>8. CASE BelowLimit(r) BY <3>0, <3>8 DEF BelowLimit
    <3>9. CASE AboveLimit(r) BY <3>0, <3>9 DEF AboveLimit
    <3>10. CASE StartUpdate(r) BY <3>0, <3>10 DEF StartUpdate
    <3>11. CASE DiscoverNothing(r) BY <3>0, <3>11 DEF DiscoverNothing
    <3>12. CASE Discover(r) BY <3>0, <3>12 DEF Discover
    <3>13. CASE DiscoveryThrows(r) BY <3>0, <3>13 DEF DiscoveryThrows
    <3>14. CASE DeletePool(r) BY <3>0, <3>14 DEF DeletePool
    <3>15. CASE Connect(r) BY <3>0, <3>15 DEF Connect
    <3>16. CASE ConnectThrows(r) BY <3>0, <3>16 DEF ConnectThrows
    <3>17. CASE ResetFailures(r) BY <3>0, <3>17 DEF ResetFailures
    <3>18. CASE CountCaught(r) BY <3>0, <3>18 DEF CountCaught
    <3> QED
      BY <2>4, <3>1, <3>2, <3>3, <3>4, <3>5, <3>6, <3>7, <3>8, <3>9, <3>10,
         <3>11, <3>12, <3>13, <3>14, <3>15, <3>16, <3>17, <3>18 DEF Step
  <2> QED
    BY <2>1, <2>2, <2>3, <2>4 DEF Next
<1>3. SafeInv => SafeUpdate
  BY DEF SafeInv, SafeUpdate, Whole
<1> QED
  BY <1>1, <1>2, <1>3, TypeCorrect, LocksConsistent, UpdatesOwned, PTL DEF Spec

\* The call that connects without the write lock is the first, and alone.
LEMMA FirstUse == Spec => []FirstUseInv
<1>1. Init => FirstUseInv
  BY ConnectionAssumption DEF Init, FirstUseInv, Unlocked
<1>2. TypeOK /\ LockInv /\ FirstUseInv /\ [Next]_vars => FirstUseInv'
  <2> SUFFICES ASSUME TypeOK, LockInv, FirstUseInv, [Next]_vars PROVE FirstUseInv'
    OBVIOUS
  <2> USE ConnectionAssumption
      DEF TypeOK, LockInv, FirstUseInv, Unlocked, UnderWriteLock, Goto
  <2>1. CASE UNCHANGED vars
    BY <2>1 DEF vars
  <2>2. CASE Terminated
    BY <2>2 DEF Terminated, vars
  <2>3. ASSUME NEW r \in Requests, Begin(r) PROVE FirstUseInv'
    BY <2>3 DEF Begin
  <2>4. ASSUME NEW r \in Requests, Step(r) PROVE FirstUseInv'
    <3>0. fault = "none" /\ UNCHANGED <<mongo, consul>> BY <2>4 DEF Step
    <3> USE DEF LeaveQuery, TryAgain, Unlock, Escape, LockForWriting, WriteLockFree,
                ReadLockFree, LimitExceeded, Counted, Calls
    <3>1. CASE RejectKey(r) BY <3>0, <3>1 DEF RejectKey
    <3>2. CASE StartQuery(r) BY <3>0, <3>2 DEF StartQuery
    <3>3. CASE QueryAnswered(r) BY <3>0, <3>3 DEF QueryAnswered
    <3>4. CASE NothingModified(r) BY <3>0, <3>4 DEF NothingModified
    <3>5. CASE QueryAbandoned(r) BY <3>0, <3>5 DEF QueryAbandoned
    <3>6. CASE QueryFails(r) BY <3>0, <3>6 DEF QueryFails
    <3>7. CASE AddFailure(r) BY <3>0, <3>7 DEF AddFailure
    <3>8. CASE BelowLimit(r) BY <3>0, <3>8 DEF BelowLimit
    <3>9. CASE AboveLimit(r) BY <3>0, <3>9 DEF AboveLimit
    <3>10. CASE StartUpdate(r) BY <3>0, <3>10 DEF StartUpdate
    <3>11. CASE DiscoverNothing(r) BY <3>0, <3>11 DEF DiscoverNothing
    <3>12. CASE Discover(r) BY <3>0, <3>12 DEF Discover
    <3>13. CASE DiscoveryThrows(r) BY <3>0, <3>13 DEF DiscoveryThrows
    <3>14. CASE DeletePool(r) BY <3>0, <3>14 DEF DeletePool
    <3>15. CASE Connect(r) BY <3>0, <3>15 DEF Connect
    <3>16. CASE ConnectThrows(r) BY <3>0, <3>16 DEF ConnectThrows
    <3>17. CASE ResetFailures(r) BY <3>0, <3>17 DEF ResetFailures
    <3>18. CASE CountCaught(r) BY <3>0, <3>18 DEF CountCaught
    <3> QED
      BY <2>4, <3>1, <3>2, <3>3, <3>4, <3>5, <3>6, <3>7, <3>8, <3>9, <3>10,
         <3>11, <3>12, <3>13, <3>14, <3>15, <3>16, <3>17, <3>18 DEF Step
  <2> QED
    BY <2>1, <2>2, <2>3, <2>4 DEF Next
<1> QED
  BY <1>1, <1>2, TypeCorrect, LocksConsistent, PTL DEF Spec

\* Whoever takes a live pool away holds the write lock, also when there was no
\* address and the first call connects without it.
THEOREM PoolOwned == Spec => PoolOwnedByWriter
<1> DEFINE Owned == pool = "live" /\ pool' # "live" => writer # NoRequest
<1>1. TypeOK /\ FirstUseInv /\ [Next]_vars => [Owned]_vars
  <2> SUFFICES ASSUME TypeOK, FirstUseInv, Next, pool = "live", pool' # "live"
               PROVE  writer # NoRequest
    BY DEF vars
  <2> USE ConnectionAssumption DEF Goto
  <2>1. CASE Terminated
    BY <2>1 DEF Terminated, vars
  <2>2. ASSUME NEW r \in Requests, Begin(r) PROVE FALSE
    BY <2>2 DEF Begin
  <2>3. ASSUME NEW r \in Requests, Step(r) PROVE writer # NoRequest
    <3>1. CASE DeletePool(r)
      <4>1. pc[r] = "delete" /\ fault = "none"
        BY <2>3, <3>1 DEF DeletePool, Step
      <4>2. ~Unlocked(r)
        BY <4>1 DEF FirstUseInv
      <4> QED BY <4>1, <4>2 DEF Unlocked
    <3>2. CASE ~DeletePool(r)
      BY <2>3, <3>2
      DEF Step, RejectKey, StartQuery, QueryAnswered, NothingModified, QueryAbandoned,
          QueryFails, AddFailure, BelowLimit, AboveLimit, StartUpdate,
          DiscoverNothing, Discover, DiscoveryThrows, Connect, ConnectThrows,
          ResetFailures, CountCaught, LeaveQuery, TryAgain, Escape
    <3> QED BY <3>1, <3>2
  <2> QED BY <2>1, <2>2, <2>3 DEF Next
<1>2. [](TypeOK /\ FirstUseInv) /\ [][Next]_vars => [][Owned]_vars
  BY <1>1, PTL
<1> QED
  BY <1>2, TypeCorrect, FirstUse, PTL DEF Spec, PoolOwnedByWriter

\* A failure count above the limit is never left behind, whatever the limits and
\* the number of calls.
THEOREM LimitIsWatched == Spec => []LimitWatched
<1>1. Init => LimitWatched
  BY ConnectionAssumption DEF Init, LimitWatched
<1>2. TypeOK /\ FirstUseInv /\ LimitWatched /\ [Next]_vars => LimitWatched'
  <2> SUFFICES ASSUME TypeOK, FirstUseInv, LimitWatched, [Next]_vars
               PROVE  LimitWatched'
    OBVIOUS
  <2> USE ConnectionAssumption
      DEF TypeOK, LimitWatched, FirstUseInv, Unlocked, Goto
  <2>1. CASE UNCHANGED vars
    BY <2>1 DEF vars
  <2>2. CASE Terminated
    BY <2>2 DEF Terminated, vars
  <2>3. ASSUME NEW r \in Requests, Begin(r) PROVE LimitWatched'
    BY <2>3 DEF Begin
  <2>4. ASSUME NEW r \in Requests, Step(r) PROVE LimitWatched'
    <3>0. fault = "none" /\ UNCHANGED <<mongo, consul>> BY <2>4 DEF Step
    <3> USE DEF LeaveQuery, TryAgain, Unlock, Escape, LockForWriting, WriteLockFree,
                ReadLockFree, LimitExceeded, Counted, Calls
    <3>1. CASE RejectKey(r) BY <3>0, <3>1 DEF RejectKey
    <3>2. CASE StartQuery(r) BY <3>0, <3>2 DEF StartQuery
    <3>3. CASE QueryAnswered(r) BY <3>0, <3>3 DEF QueryAnswered
    <3>4. CASE NothingModified(r) BY <3>0, <3>4 DEF NothingModified
    <3>5. CASE QueryAbandoned(r) BY <3>0, <3>5 DEF QueryAbandoned
    <3>6. CASE QueryFails(r) BY <3>0, <3>6 DEF QueryFails
    <3>7. CASE AddFailure(r) BY <3>0, <3>7 DEF AddFailure
    <3>8. CASE BelowLimit(r) BY <3>0, <3>8 DEF BelowLimit
    <3>9. CASE AboveLimit(r) BY <3>0, <3>9 DEF AboveLimit
    <3>10. CASE StartUpdate(r) BY <3>0, <3>10 DEF StartUpdate
    <3>11. CASE DiscoverNothing(r) BY <3>0, <3>11 DEF DiscoverNothing
    <3>12. CASE Discover(r) BY <3>0, <3>12 DEF Discover
    <3>13. CASE DiscoveryThrows(r) BY <3>0, <3>13 DEF DiscoveryThrows
    <3>14. CASE DeletePool(r) BY <3>0, <3>14 DEF DeletePool
    <3>15. CASE Connect(r) BY <3>0, <3>15 DEF Connect
    <3>16. CASE ConnectThrows(r) BY <3>0, <3>16 DEF ConnectThrows
    <3>17. CASE ResetFailures(r) BY <3>0, <3>17 DEF ResetFailures
    <3>18. CASE CountCaught(r) BY <3>0, <3>18 DEF CountCaught
    <3> QED
      BY <2>4, <3>1, <3>2, <3>3, <3>4, <3>5, <3>6, <3>7, <3>8, <3>9, <3>10,
         <3>11, <3>12, <3>13, <3>14, <3>15, <3>16, <3>17, <3>18 DEF Step
  <2> QED
    BY <2>1, <2>2, <2>3, <2>4 DEF Next
<1> QED
  BY <1>1, <1>2, TypeCorrect, FirstUse, PTL DEF Spec

-----------------------------------------------------------------------------
\* Who waits for conn_usage_lock, and who has it.
Waits(r) ==
  \/ pc[r] = "loop" /\ ~ReadLockFree
  \/ pc[r] = "want_write" /\ ~WriteLockFree
Holds(r) == r \in readers \/ writer = r

\* EveryCallReturns cannot fail for a deadlock on conn_usage_lock: whoever waits for it
\* waits for calls that have it and wait for nothing, so that the lock, which is not
\* recursive, is never asked for by a call that has it already.
HoldersMove ==
  \A r \in Requests : Waits(r) =>
    /\ ~Holds(r)
    /\ \E s \in Requests : Holds(s)
    /\ \A s \in Requests : Holds(s) => ~Waits(s) /\ pc[s] \notin Finished \union {"idle"}

THEOREM NoLockDeadlock == Spec => []HoldersMove
<1>1. TypeOK /\ LockInv => HoldersMove
  <2> SUFFICES ASSUME TypeOK, LockInv, NEW r \in Requests, Waits(r)
               PROVE  /\ ~Holds(r)
                      /\ \E s \in Requests : Holds(s)
                      /\ \A s \in Requests :
                           Holds(s) => ~Waits(s) /\ pc[s] \notin Finished \union {"idle"}
    BY DEF HoldersMove
  <2>1. \A s \in Requests : Holds(s) => pc[s] \in UnderWriteLock \union {"query"}
    BY DEF Holds, LockInv
  <2>2. \E s \in Requests : Holds(s)
    BY DEF Waits, Holds, ReadLockFree, WriteLockFree, TypeOK
  <2> QED
    BY <2>1, <2>2 DEF Waits, UnderWriteLock, Finished
<1> QED
  BY <1>1, TypeCorrect, LocksConsistent, PTL

(***************************************************************************)
(* How many steps a call takes at most: from the loop's head to its end an *)
(* attempt takes nine, and the call that init() sends to find a connection *)
(* four before its first.  Place counts those of one attempt.              *)
(***************************************************************************)
Place(r) ==
  CASE pc[r] = "idle"       -> 13
    [] pc[r] = "loop"       -> 9
    [] pc[r] = "query"      -> 8
    [] pc[r] = "failed"     -> 7
    [] pc[r] = "check"      -> 6
    [] pc[r] = "want_write" -> 5
    [] pc[r] = "discover"   -> IF writer = r THEN 4 ELSE 12
    [] pc[r] = "delete"     -> IF writer = r THEN 3 ELSE 11
    [] pc[r] = "connect"    -> IF writer = r THEN 2 ELSE 10
    [] OTHER                -> 1

StepsLeft(r) ==
  IF pc[r] \in Finished THEN 0 ELSE 9 * (MaxRetries - retries[r] - 1) + Place(r)

\* A step of one call, as far as it moves on in its loop.
Moves(r) ==
  /\ \A s \in Requests \ {r} : /\ pc'[s] = pc[s] /\ retries'[s] = retries[s]
                               /\ (writer' = s) <=> (writer = s)
  /\ pc[r] \notin Finished
  /\ \/ pc'[r] \in Finished
     \/ pc'[r] = "loop" /\ retries'[r] = retries[r] + 1
     \/ retries'[r] = retries[r] /\ Place(r)' < Place(r)

LEMMA StepMoves ==
  ASSUME TypeOK, LockInv, NEW r \in Requests, Begin(r) \/ Step(r)
  PROVE  Moves(r)
<1> USE ConnectionAssumption DEF TypeOK, LockInv, UnderWriteLock, Finished, Goto
<1>1. CASE Begin(r)
  BY <1>1 DEF Begin, Moves, Place
<1>2. CASE RejectKey(r) \/ StartQuery(r) \/ QueryAnswered(r) \/ QueryAbandoned(r)
           \/ QueryFails(r) \/ AddFailure(r) \/ AboveLimit(r) \/ CountCaught(r)
  BY <1>2 DEF RejectKey, StartQuery, QueryAnswered, QueryAbandoned, QueryFails,
              AddFailure, AboveLimit, CountCaught, LeaveQuery, Moves, Place
<1>3. CASE NothingModified(r) \/ BelowLimit(r) \/ ResetFailures(r)
  <2>1. CASE NothingModified(r) \/ BelowLimit(r)
    BY <2>1 DEF NothingModified, LeaveQuery, BelowLimit, TryAgain, Moves
  <2>2. CASE ResetFailures(r)
    BY <2>2 DEF ResetFailures, Unlock, TryAgain, Moves
  <2> QED
    BY <1>3, <2>1, <2>2
<1>4. CASE StartUpdate(r)
  BY <1>4 DEF StartUpdate, WriteLockFree, LockForWriting, Moves, Place
<1>5. CASE DiscoverNothing(r) \/ Discover(r) \/ DeletePool(r) \/ Connect(r)
  BY <1>5 DEF DiscoverNothing, Discover, DeletePool, Connect, Moves, Place
<1>6. CASE DiscoveryThrows(r) \/ ConnectThrows(r)
  <2>1. /\ pc[r] \in {"discover", "connect"} /\ Escape(r)
    BY <1>6 DEF DiscoveryThrows, ConnectThrows
  <2>2. pc'[r] = "threw" \/ (pc'[r] = "caught" /\ writer = r)
    BY <2>1 DEF Escape
  <2>3. pc'[r] = "caught" => Place(r)' < Place(r)
    BY <2>1, <2>2 DEF Place
  <2> QED
    BY <2>1, <2>2, <2>3 DEF Escape, Unlock, Moves
<1> QED
  BY <1>1, <1>2, <1>3, <1>4, <1>5, <1>6 DEF Step

\* What is left of a call that is not over, and where it is in its attempt.
LEMMA LeftOfCall ==
  ASSUME TypeOK, RetryInv, NEW r \in Requests
  PROVE  /\ StepsLeft(r) \in 0 .. 9 * MaxRetries + 4
         /\ Place(r) \in 1 .. 13
         /\ pc[r] \notin Finished =>
              /\ MaxRetries - retries[r] - 1 \in 0 .. MaxRetries - 1
              /\ StepsLeft(r) = 9 * (MaxRetries - retries[r] - 1) + Place(r)
<1>1. MaxRetries \in Nat \ {0} /\ retries[r] \in 0 .. MaxRetries
  BY ConnectionAssumption DEF TypeOK
<1>2. Place(r) \in 1 .. 13
  BY DEF Place
<1>3. CASE pc[r] \in Finished
  BY <1>1, <1>2, <1>3 DEF StepsLeft
<1>4. CASE pc[r] \notin Finished
  <2>1. StepsLeft(r) = 9 * (MaxRetries - retries[r] - 1) + Place(r)
    BY <1>4 DEF StepsLeft
  <2>2. MaxRetries - retries[r] - 1 \in 0 .. MaxRetries - 1
    BY <1>1, <1>4 DEF RetryInv
  <2> QED
    BY <1>1, <1>2, <2>1, <2>2
<1> QED BY <1>3, <1>4

LEMMA MovesLeave ==
  ASSUME TypeOK, RetryInv, TypeOK', RetryInv', NEW r \in Requests, Moves(r)
  PROVE  StepsLeft(r)' < StepsLeft(r)
<1>1. /\ StepsLeft(r) = 9 * (MaxRetries - retries[r] - 1) + Place(r)
      /\ MaxRetries - retries[r] - 1 \in 0 .. MaxRetries - 1
      /\ Place(r) \in 1 .. 13 /\ Place(r)' \in 1 .. 13
      /\ MaxRetries \in Nat /\ retries[r] \in Nat
  BY LeftOfCall, ConnectionAssumption DEF Moves, TypeOK, Place
<1>2. CASE pc'[r] \in Finished
  <2>1. StepsLeft(r)' = 0
    BY <1>2 DEF StepsLeft
  <2> QED
    BY <1>1, <2>1
<1>3. CASE pc'[r] = "loop" /\ retries'[r] = retries[r] + 1
  <2>1. StepsLeft(r)' = 9 * (MaxRetries - (retries[r] + 1) - 1) + 9
    BY <1>3 DEF StepsLeft, Place, Finished
  <2> QED
    BY <1>1, <2>1
<1>4. CASE pc'[r] \notin Finished /\ retries'[r] = retries[r] /\ Place(r)' < Place(r)
  <2>1. StepsLeft(r)' = 9 * (MaxRetries - retries[r] - 1) + Place(r)'
    BY <1>4 DEF StepsLeft
  <2> QED
    BY <1>1, <1>4, <2>1
<1> QED
  BY <1>2, <1>3, <1>4 DEF Moves

(***************************************************************************)
(* Nor can it fail for an endless loop: every step of a call leaves it     *)
(* fewer steps to take, none of another call gives it more, and it has at  *)
(* most 9 * MaxRetries + 4 of them, whatever Mongo and Consul answer.      *)
(***************************************************************************)
StepsLeftBounded == \A r \in Requests : StepsLeft(r) \in 0 .. 9 * MaxRetries + 4

StepsTaken ==
  [][\A r \in Requests :
       /\ StepsLeft(r)' <= StepsLeft(r)
       /\ Begin(r) \/ Step(r) => StepsLeft(r)' < StepsLeft(r)]_vars

THEOREM CallsTakeBoundedSteps == Spec => []StepsLeftBounded /\ StepsTaken
<1>1. TypeOK /\ RetryInv => StepsLeftBounded
  BY LeftOfCall DEF StepsLeftBounded
<1>2. /\ TypeOK /\ RetryInv /\ LockInv /\ StepsLeftBounded
      /\ (TypeOK /\ RetryInv /\ StepsLeftBounded)' /\ [Next]_vars
      => [\A r \in Requests :
            /\ StepsLeft(r)' <= StepsLeft(r)
            /\ Begin(r) \/ Step(r) => StepsLeft(r)' < StepsLeft(r)]_vars
  <2> SUFFICES ASSUME TypeOK, RetryInv, LockInv, StepsLeftBounded,
                      TypeOK', RetryInv', StepsLeftBounded', Next,
                      NEW r \in Requests, ~UNCHANGED vars
               PROVE  /\ StepsLeft(r)' <= StepsLeft(r)
                      /\ Begin(r) \/ Step(r) => StepsLeft(r)' < StepsLeft(r)
    OBVIOUS
  <2>1. PICK q \in Requests : Begin(q) \/ Step(q)
    BY DEF Next, Terminated
  <2>2. Moves(q)
    BY <2>1, StepMoves
  <2>3. Begin(r) \/ Step(r) => StepsLeft(r)' < StepsLeft(r)
    BY StepMoves, MovesLeave
  <2>4. StepsLeft(r) \in Nat /\ StepsLeft(r)' \in Nat
    <3>1. 0 .. 9 * MaxRetries + 4 \subseteq Nat
      BY ConnectionAssumption
    <3> QED
      BY <3>1 DEF StepsLeftBounded
  <2>5. CASE q = r
    BY <2>1, <2>3, <2>4, <2>5
  <2>6. CASE q # r
    <3>1. StepsLeft(r)' = StepsLeft(r)
      BY <2>2, <2>6 DEF Moves, StepsLeft, Place
    <3> QED
      BY <2>3, <2>4, <3>1
  <2> QED
    BY <2>5, <2>6
<1> QED
  BY <1>1, <1>2, AttemptsAlways, LocksConsistent, PTL DEF Spec, StepsTaken
=============================================================================
