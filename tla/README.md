# A TLA+ model of CLyman

CLyman keeps the state of 3D objects and properties for Aesel. Clients change
it over HTTP and over a UDP event stream; CLyman stores every change in Mongo
and publishes it to a downstream service (Crazy Ivan). Paths below are relative
to the repository; line numbers are those of the commit this project was written
against.

## 1. The system

```
 HTTP clients ──> handler_factory ──> request handlers ──┐
                                      │                  ├──> DatabaseManager ──> Mongo
 UDP clients ───> event_stream ──> EventSender x 13 ─────┘        │
                                      │                           └── CoreDatabaseManager
                                      └──> EventStreamPublisher ──> downstream (UDP)   ^
                                               ^                                       │
                                        ClusterManager <── loader thread <──────── Consul
```

One process; every arrow is a call. The threads are: `main`, the HTTP server's
pool, the event stream's receiver, the 13 threads of its pool, and the thread
that refreshes the cluster information. They share the `DatabaseManager`, the
`ClusterManager`, the publisher and two atomic flags.

| Component | Source | State | Operations | What is hard | Correct when |
|---|---|---|---|---|---|
| Mongo connection | `src/db/core_database_manager.*` | pool and service pointers, failure counter, RW lock, `initialized` | `init`, `add_failure`, `set_new_connection`, `find_new_connection` | swapping a pool that any number of threads query; failures half way | queries and updates exclude each other, nothing is used or deleted after it is gone, every call ends |
| Object documents, object lock | `src/db/obj3_database_manager.*` | a Mongo collection; per call a retry counter and a response | create, update, lock, unlock, assets, actions, keyframes, get, query, delete | concurrent calls on one document between retries; lost replies | one lock holder; no effect twice, none lost; no half of a removed thing comes back |
| Property documents | `src/db/property_database_manager.*` | the same for properties | create, update, actions, keyframes, get, query, delete | the same; four forms of a keyframe that must agree | the same; a read returns what one request sent; a query misses nothing |
| Event stream | `src/app/include/event_stream_process.h` | 13 slots, an index, a thread pool, buffers, two flags | receive, start a sender, run, shut down | reuse of slots and memory across threads; shutdown | every event processed once, no memory used after it is freed, the stream ends |
| Event publisher | `src/app/include/event_sender.h` | a key | `publish_event` | none: best effort | - |
| Cluster manager | `src/app/include/cluster_manager.h`, `cluster_loader_process.h` | two vectors of services, which is current, an index | `get_ivan`, `update_cluster_info` | raw pointers handed out and deleted two updates later | a service in use is not deleted; the index is in range |
| Application | `src/app/include/clyman_application.h` | the flags, the parts it builds, the registrations | load, build, register, start, serve, shut down | detached threads; any step may fail | nothing shared is used before it is built or after it is destroyed; the start ends; no registration is left |
| Request handlers | `src/controller/include/*_handler.h` | none of their own | parse, call the database, publish, answer | database and event are two steps, either may fail | the event tells what was stored, the status what happened |
| Router, accounts | `handler_factory.h`, `src/user` | one HMAC engine and one account | route, authenticate | all HTTP threads share the engine without a lock | every documented endpoint has its handler, passwords are judged rightly |
| Data model, JSON | `src/model` | objects, frames, lists | build, convert | ownership of frames; missing members | conversions keep what they should |

## 2. The modules

| Module | Models | Lines to read first |
|---|---|---|
| `ConnectionManager` | the connection and the retry loop around it | `core_database_manager.cpp:20-104`, `obj3_database_manager.cpp:244-260,444-463` |
| `ObjectStore` | the object documents and every call that changes or reads one | `obj3_database_manager.cpp:184-464`, `obj3_database_manager.h:89-227` |
| `ObjectLock` | abstract: what the lock promises (`docs/pages/Object_API.rst:77-104`) | |
| `ObjectQuery` | object queries beside the calls of `ObjectStore` (extends it) | `obj3_database_manager.cpp:146-182,696-738` |
| `PropertyData` | the forms of a property and keyframe, and the conversions between them | `json_factory.cpp:131-503`, `clyman_utils.h:210-247`, `property_database_manager.cpp:20-110,320-425` |
| `PropertyStore` | the property documents and every call on them (extends `PropertyData`) | `property_database_manager.cpp:112-318,427-572` |
| `EventStream` | the receiver, the senders and the end of `main` | `event_stream_process.h:50-280`, `clyman_application.h:480-515` |
| `RequestHandlers` | the handlers of HTTP requests, next to the senders of UDP events | `object_base_handler.h:100-195`, `object_key_handler.h:74-144`, `object_action_delete_handler.h:63-126` |
| `Router` | which handler a request gets, and the documented endpoints | `handler_factory.h` |
| `Application` | the life of the process and who uses which part of it when (extends `Router`) | `clyman_application.h:190-515`, `cluster_manager.h`, `cluster_loader_process.h`, `account_manager.h` |
| `MCConnectionManager`, `MCObjectStore`, `MCObjectQuery`, `MCPropertyStore`, `MCEventStream`, `MCRequestHandlers`, `MCApplication` | instances for TLC | |
| `ConnectionManagerProofs`, `ObjectStoreProofs`, `ObjectEffectsProofs`, `ObjectQueryProofs`, `PropertyStoreProofs`, `EventStreamProofs`, `RequestHandlersProofs`, `ApplicationProofs` | theorems and their proofs (section 4) | |

`PROJECT.json` gives, for each definition, the lines it translates. A definition
marked "mutant" in a module is a plausible bug in the definition that follows it
or its neighbour; it is used in no specification, and every property of a
passing run is violated when one of these takes the place of the real one.

The modules cut the system along its calls. A database call is one step in
`RequestHandlers` and `Application`, a retry loop over atomic commands in `ObjectStore` and
`PropertyStore`, and in `ConnectionManager` an attempt with its locks, its pointer
and its counter. The event stream is a receiver, and whether a sender of its pool is at
work, in `Application`, a step in `RequestHandlers`, and slots and threads in `EventStream`.

### ConnectionManager

A request is one database call on its own thread; `pc` is where it is between
the points at which other threads can be seen to interfere: taking and
releasing `conn_usage_lock`, the atomic counter, and each assignment to a
shared raw pointer. `call[r]` is one of five shapes of retry loop: they
differ in whether "nothing modified" is retried, in what a malformed key
does, and in what an exception out of `set_new_connection` meets, and that matters to
the failure counter: `delete_object` makes that call inside its outer `try`, takes the
exception for a malformed key, counts one failure more and returns (`CountCaught`);
out of the others it is thrown. The step from "query" is Mongo's:
it answers, answers that nothing was modified, throws a `mongocxx::exception`,
or throws something else. Discovery may find an instance, throw (Consul is not
there, or knows no Mongo), or return an address that the uri constructor
rejects, by the constant `DiscoveryOutcomes`. Whether a connection string is
configured (`mongo`) and whether there is a Consul (`consul`) are chosen in the
initial state, from `Addresses` and `Profiles`, and never change.

A pointer is null, live, or freed. `find_new_connection` is three steps, because
the old pool is deleted before the new one is assigned. Undefined behaviour is
recorded in `fault` and nothing happens after it. Two histories say when the code
gives no guarantee: `cut_short`, that an exception ended the latest update, and
`unasked`, that a failure was counted by a call that does not ask for a new connection.

### ObjectStore and ObjectLock

A document keeps one field of each kind that `build_update_doc` treats
differently: the owner (set if not empty, and read by the lock filters), the
transform (always set), the assets (pushed or pulled), and the actions with
their keyframes. `update_one` is one step, since Mongo updates a document
atomically, and it distinguishes what the code does: whether the document was
*modified*, not whether it was matched. Between two attempts of a call
every other call may run.

Three failures are told apart because the code treats them differently
or cannot tell: `refused` (a driver exception before Mongo did anything; the
call ends), `interrupted` (any other exception before; the attempt is repeated)
and `reply_lost` (Mongo executed the command and the driver throws; the call
ends, its effect stays). That the last one is a driver exception, and is not
retried, is what `EffectsOnce` depends on.

`ObjectLock` has a holder per object and an outcome per request. It says which
state of the object a request may be granted or denied in. `ObjectStore` maps
to it by `Holder`, `Wants` and `Outcome`; `ImplementsLock` is the refinement. A
request that has seen the object in the wrong hands once is `contended`, and may be
denied even if a later attempt failed for another reason: the code keeps
the error code of the earlier attempt.

### ObjectQuery

A query is a thread with a cursor beside the calls. `Fetch` takes one document
that matches by now and that this cursor has not returned; the cursor may end
when every document that has matched since it was opened is `seen`, which is
what Mongo promises of a cursor without a snapshot. `due` is the history that
says so: a call that changes a document out of the filter takes it from the
`due` of every open cursor. As in the code, an interrupted attempt is repeated
into the same list while its count of results begins again.

### PropertyData and PropertyStore

`PropertyData` has a keyframe in its forms: the entries of a JSON body, the two
lists of `PropertyFrame` (values, and handles, which grow separately), and the
slots w, x, y and z of a document with their flags. `ParseFrame`, `FrameSlots`,
`UpdateSlots`, `ReadSlots` and `WriteFrame` are the conversions, defects included:
a number without a decimal point is dropped but its handle is not, and the
x coordinate of a right handle is lost. `PropertyStore` is the store and the retry
loops as in `ObjectStore`, with the JSON of a request at one end and the JSON
of a read at the other, so that `ReadsOneRequest` speaks of the whole way.
`RefuseEmptyUpdate` is the update of an action without a description, whose
empty `$set` Mongo refuses. Queries have a cursor as in `ObjectQuery`, here as
one of the kinds of call.

### EventStream

A sender is numbered by its datagram, its `EventSender` by the same number.
`sender[e]` goes built, parse, publish, persist, free, done; `buffer[e]` is held
until `delete[] event`. The receiver deletes the sender left in a slot, builds a
new one, waits for the pool at the last slot, starts a sender and advances. The
model follows the code in starting `evt_senders[sender_index]` *after* the
index was reset. What a datagram holds decides how far its sender gets; publishing may
throw, and then the sender neither persists its event nor frees the buffer. Reading
a flag and acting on it are separate steps.

A port that is no number or cannot be bound takes the receiver to its clean-up at once. The
clean-up deletes every sender, also one that a thread of the pool is in, and clears
`is_sender_running`; nothing is wrong yet, and `main` may return. The set `deleted`
remembers them, and the next step of such a sender (`UseSender`) is the fault.

### RequestHandlers

`work[r]` says what request `r` is: its kind, whether its input can be used, and
the document of each object in its body. The handlers differ in which database
call they make, whether they read, and whether the event comes before the call
(deletion, UDP) or after it. The kinds bring those together, and `code[r]` is
the error code of `response_body`, from which the status follows. A database call
with all its retries is one step, which succeeds, misses, fails with or
without effect, or throws. The handlers of properties take the steps of those
of objects and have no kinds of their own.

The scene of an event, for which a deletion reads the document, is left out;
the read itself is a step, because it may throw. A UDP event is an update of an
object or property; those of actions and keyframes, which may make several
calls, are left out. `applied` and `announced` are histories for the properties.

### Router and Application

`Router` is `createRequestHandler` as the operator `Route`, and beside it the endpoints
that `docs/pages` list. `MCApplication` asks, in an `ASSUME`, whether the two agree for
every request that the code tells apart (`RoutedAsDocumented`), and names where
they do not: queries, and what may follow a lock.

`Application` is `Clyman::main` step by step: the configuration loop, the parts it
builds (`alive`), the first update of the cluster information, the certificate, the
registrations, the two detached threads, the server, and the way back; with every
return and every exception of it. Beside it run the loader, the receiver of the stream,
a sender of its pool (`sending`: at least one is at work), and the HTTP threads,
which authenticate with the shared HMAC engine, route, call the
database and publish. A step that uses a part that is not alive sets `fault`, to the
name of who took it: the receiver is "stream", or "late stream" if its thread began
after `main` had left, a thread of the pool "sender". `main` waits for the receiver's
flag only. `ClusterManager`'s two vectors are `members`. A request gives a name
(the configured one or another) and a password.

## 3. What the runs show

Passing runs:

| Run | Shows | Bounds |
|---|---|---|
| `connection` | with a configured connection string queries and updates exclude each other, no pool is deleted under a query, and, unless an exception ended the latest update, no pointer is misused; with or without one, an exceeded limit has a call about to act on it unless such an exception left it, or a call counted without asking; only the writer touches the pool, the lock is released on every path, and every call ends | 2 calls, 3 attempts, limit 1, with and without an address and a Consul, which does anything; 184 550 states |
| `object_locks` | whatever else happens to the objects, at most one device holds a lock, it was told, and `ObjectStore` implements `ObjectLock` | 3 calls of all kinds but asset changes, 3 devices, 2 attempts, all failures but lost replies; 462 145 states |
| `object_documents` | no effect twice, no acknowledged push lost where nobody removes the asset, no part of a removed action or keyframe comes back, and a query finds every object that was there all the while | 2 calls and 1 query, 3 keys, 1 action, 1 keyframe, 2 attempts, all failures; 1 112 950 states |
| `properties` | what is read is what one request sent, up to the four slots; nothing comes back in part; answers tell what happened; a query misses nothing; every call ends | 2 calls of 16, 2 documents at the start and 2 more keys, 2 attempts, all failures; 172 084 states |
| `stream_rounds` | memory is safe and every event is processed in the first round; in later ones the receiver still deletes only ended senders and a pool of one thread less than slots suffices; `main` leaves no receiver behind that has begun, and of its senders only those that the clean-up has deleted; it does return | 3 slots, 2 threads, 6 datagrams of every kind, shutdown at any time; 203 475 states |
| `handlers` | what is answered with 200 was done for every object of the list, and announced; every request is answered | 2 requests of all 16 kinds, lists of 0 to 2, 2 documents, all failures |
| `application` | until `main` leaves, no part is used that is not built or is destroyed; after a normal end the receiver `main` has seen uses none; a thread that hashes alone admits the right password only, and does not refuse it with the configured name; no registration is left; the start ends | 2 HTTP threads, 1 service, 1 failed configuration endured, nearly everything failing; 1 408 451 states |

The other runs are counterexamples to a sentence of the documentation, of a
comment or of a test; `PROJECT.json` quotes it under "findings":

* `connection_first_use`: the first call connects without the write lock.
* `object_transform_reset`: locking an object, or giving it an asset, resets its transformation.
* `property_handles`: the x coordinate of every right graph handle is lost.
* `stream_reuse`: at every 13th datagram the new sender is not started, and the first one runs again on freed memory.
* `handlers_removal`: the deletion of an action or keyframe is announced only if it failed.

### Other differences between code and documentation

They have no run of their own. Each can be read in the definition named, which
translates the code as it is.

The connection:

* A failed lookup in Consul leaves a pointer to a deleted service behind, which
  the next update deletes again (`StartUpdate`, `DiscoveryThrows`;
  `core_database_manager.cpp:69`), and an address that the uri rejects leaves one to a
  deleted pool (`ConnectThrows`). The header says the connection is updated
  safely (`core_database_manager.h:48`). `connection` includes these
  behaviours, and `SafeUpdate` allows for them until an update goes through.
* `delete_object` even hides such an exception: it catches it as if the key were
  malformed, counts one failure more and returns (`CountCaught`;
  `obj3_database_manager.cpp:777-786`), with the counter above the limit and nobody
  about to act on it.
* The calls that waited for the write lock while the pool was replaced replace it
  again, at a count of zero (`StartUpdate`; `core_database_manager.cpp:65-67` logs
  "Max Mongo Failures reached").
* Failures that are not consecutive add up, since no answer resets the counter
  (`QueryAnswered`); `docs/pages/config.rst:193` says "many consecutive failures".
* A driver exception ends a call without being counted or retried
  (`QueryAbandoned`, `LeaveAfterException`); the comment at
  `obj3_database_manager.cpp:249` promises retries on other instances. A malformed
  key, at a deletion, is counted as a failure of the connection.

Objects:

* An update that names an owner takes the lock from whoever has it (`UpdateDoc`;
  `obj3_database_manager.cpp:203`). `docs/pages/Object_API.rst:100` says that none is
  granted until the owner unlocks; line 84 only warns of updates by others.
* A lost reply leaves an object locked by a device that was told it failed
  (`Executed`).
* An update that leaves a document as it was counts as not found, after 11
  attempts (`UpdateOne`, for properties as well).
* Removing an asset adds it (`IsAppend`; `obj3_database_manager.h:97`), although
  `docs/pages/Object_API.rst:188-193` and the comment at `asset_handler.h:68` say
  that it is removed. `AcknowledgedPushes` says nothing of an asset that a call asks to
  remove.
* An updated keyframe's handles are written where no read looks (`UpdateFrame`).
* The transformation of an object is never read back (`ReadDoc`).

Properties and queries:

* Numbers without a decimal point are dropped (`Doubles`), such as the `"value": 100`
  of `docs/pages/_examples/property/property_frame_create.rst:12`; the values of
  `property_create.rst`, which are objects, are not read, either.
* An update without values or scene clears them (`UpdateDoc`), although
  `property_update.rst` leaves them out.
* The body of a keyframe without a "frame" number is accepted and not read
  (`ParseFrameBody`): the keyframe is emptied. Two keyframes of one number become one
  (`EntriesOf`). A negative number is written as an unsigned one.
* An action's update without a description is an error (`RefuseEmptyUpdate`).
* A query returns one record more than `num_records` (`ProcessedEnough`;
  `property_database_manager.cpp:505`), of which `docs/pages/Property_API.rst:69-70`
  says that only so many are returned, and some records twice if an attempt was
  interrupted. No property speaks of the number. One whose attempts are all
  interrupted is answered with 200 and what it has got so far.
* Queries are documented as GET; the code reads the document of key "query" then,
  and queries with POST, as the examples do (`Query` of `Router`).

Events, handlers, process:

* An event that cannot be built leaks its buffer (`Parse`), and one whose publishing
  throws is not persisted, either (`Publish`); one that cannot be decrypted, like a port
  that cannot be bound, ends the stream (`FailToDecrypt`, `StartStream`).
* At shutdown the receiver deletes senders that are still running (`Cleanup`), and
  clears `is_sender_running` before the threads of its pool are joined
  (`event_stream_process.h:276-279`): `main` returns under them (`ExitMain`,
  `SenderWorks`). Nor does it wait for a stream whose thread has not begun
  (`StreamBegins`). That it waits for one more datagram is documented
  (`docs/pages/quickstart.rst:45-56`).
* A failed read is answered with 404, and a failed query with 200 (`FailureCode`).
* Deleting a keyframe whose index is no number is answered with 200 and deletes
  nothing (`SkipRemoval`). The creation of an object or action, or the deletion
  of an action or keyframe, that misses is answered with 500 (`FailureCode`).
* An event is sent although the database call failed (`Publish`), that of a
  deletion before the call is made, so that a deletion that fails, with an error for an
  answer, is announced all the same (`object_key_handler.h:83`). Asset changes and locks send none. Concurrent
  updates of one object may be stored in one order and announced in the other;
  `docs/pages/arch.rst:38` describes no order.
* With discovery no member of the cluster is ever accepted, because its tags are
  not read (`TagsOf`; `cluster_manager.h:104-116`), so no event is sent. What would become of a pointer that `get_ivan` has handed
  out when a later update deletes the service is never met. `handlers` has a configured
  downstream service.
* The username does not count: `authenticate_user` compares the password alone
  (`HashUpdate`, `Verdict`; `account_manager.h:61-68`), where `docs/pages/config.rst:93-94` and
  `docs/pages/security.rst:12` have a username and a password. `AuthenticationExact` claims
  nothing of a request with another name, but that its password is right.
* Two threads that hash at once can refuse a right password
  (`HashUpdate`, `crowded`; `account_manager.h:39`). What a wrong interleaving inside
  the engine does is not looked at.
* A request that fails authentication gets no handler (`Refuse`), and no status of CLyman's.
* The loader is never stopped, and uses the configuration and the cluster manager
  after `main` has destroyed them; an exception on its thread ends the process
  (`LoaderThrows`). An exception of `listen` leaves the registrations in Consul (`Unwind`).

### Why the bounds are enough

* Calls: a broken lock needs a holder and an intruder, one of whom may
  be retrying, and somebody who unlocks or deletes: three calls. The faults of
  the connection take an updater and a query, or two updaters, and every call can
  be either: two. Half of a removed thing comes back from one removal and one
  update, a missed record from one change under one cursor.
* `MaxRetries` 2 or 3 instead of 11, `MaxFailures` 1 instead of 5: the code only
  compares them with counters. Two attempts are a first and a retry, three let
  one call exceed a limit of one by itself. The failure counter saturates one
  above the limit, since only "greater than the limit" is ever asked.
* `Slots` 3 instead of 13: a first slot, a last one and one between. Six
  datagrams are more than two rounds, as each round after the first uses one
  slot less. `stream_rounds` has the fewest threads that suffice; `stream_reuse` as
  many as slots, like the code.
* The object store starts with one document, which was moved and has an action
  with one keyframe; `k2` and `k3` are OIDs for objects created later. The
  properties' start is two documents with two values and a keyframe of two
  entries, and bodies of none, one, two and five: longer, shorter, equal, and more than
  there are slots. Each
  number names the request and the place it was sent from, so that a mixture
  shows.
* A query asks for one or two records of up to three or four.
* Two requests in `handlers`: what one finds in the store depends on one other.
  Two objects are a first and a last of the list.
* `MaxConfigAttempts` 1 instead of 50. Registration never fails in `application`
  but deregistration does, and passwords are right, wrong or missing.
* Symmetry is used for the calls of `object_locks` and `object_documents` only. Neither
  has a liveness property, and nothing in them tells one request from another;
  `ImplementsLock` is an initial condition and a condition on steps.

### Fairness

Weak fairness of each thread once its call or sender has begun: the operating
system schedules threads, and `Poco::RWLock` and `joinAll` block only while their
condition does not hold. `ObjectStore`, `PropertyStore` and `ObjectQuery` have it for the
steps of a call or query that was begun, `Application` for `main`, the beginning of the
stream and the steps of an HTTP thread. Nothing promises that a request, a datagram or
a termination request arrives, and the specifications do not: `Begin`, `BeginQuery`,
`Arrive`, `Accept`, `Datagram`, `RequestShutdown` and `Terminate` have no fairness, and the
loader, which nothing waits for, has none. `ShutdownCompletes`
therefore starts where the receiver is out of `receive_from`. `EveryCallReturns` allows
for a fault, after which nothing can be said.

Deadlock is checked in every run. `Terminated`, `AllReturned`, `Stopped` and `Gone` are
the states in which the system may rest.

## 4. What is proved

The proofs hold for every number of requests, keys, devices, attempts, slots,
threads and so on that the named assumptions of the modules allow. TLC has
found the inductive invariants to hold on the small instances before.

`ConnectionManagerProofs`:

* `TypeCorrect`: `TypeOK` is inductive with `RetryInv`, which says that a call in
  the loop has attempts left.
* `LocksAlwaysReleased`: `LocksReleased` is not inductive, since it does not say where a
  lock is held. `LockInv` does: a request is a reader exactly while it is in
  its query, a writer only between the write lock and its release, and a writer
  excludes readers.
* `QueriesExcluded`: `OwnInv` adds that with a configured connection string whoever
  is in `find_new_connection` has the write lock.
* `UpdateIsSafe`: `SafeInv` says in which step each pointer is live, unless an exception
  ended the latest update (`cut_short`), whatever caller met it: an update that goes through
  makes both pointers live again. There is no assumption about Consul.
* `LimitIsWatched`: with a count above the limit some call is between its failure and the end
  of the update, but after `cut_short`, or after a failure that was counted `unasked`.
* `PoolOwned`: `FirstUseInv` describes the first call without a
  connection string: as long as it is in `find_new_connection` without a lock, no other
  call has got further than the loop, or else it has met a pool that is not there.
* `NoLockDeadlock`: who waits for `conn_usage_lock` has it not, somebody has it, and
  everyone who has it waits for nothing.
* `CallsTakeBoundedSteps`: a call has at most `9 * MaxRetries + 4` steps. Every step of it
  leaves it fewer to take, and no step of another call gives it more. With
  `NoLockDeadlock` this is the safety half of `EveryCallReturns`; that steps which can be
  taken are taken is the fairness the run assumes.

`ObjectStoreProofs`:

* `TypeCorrect`: `TypeOK` needs that a request which has not returned has
  attempts left (`LoopInv`).
* `StoreImplementsLock`: if no reply is lost and no create or update names an
  owner (`OnlyLocksName`), every step of `ObjectStore` is a step of `ObjectLock`
  or a stutter. The lemmas take the loop's four ends once (success, miss,
  refused, interrupted), then the lock and the unlock; all other updates leave
  the owner alone. Creation also needs that a document present has an OID
  handed out (`KeysInserted`), so that a new object never replaces a held one.
  Both premises are necessary: an update that names an owner moves the lock, and a
  lost reply is an effect that no outcome accounts for.

`ObjectEffectsProofs`:

* `ActionsStayComplete`, `FramesStayReadable`: `WholeInv`, inductive with `TypeOK`: every
  action and keyframe in a document is whole.
* `LockIsExclusive`, `OwnersWereTold`: under `OnlyLocksName` and for finitely many
  requests. `ClaimInv` counts, over the steps of `ObjectLock`, who was granted the
  lock and who gave it back: the holder was granted one lock more than unlocks,
  everyone else as many.
* `PartsAreIndependent`: a stored document that stays is changed only by one running call
  that names it, and only in the parts that kind of call is for. No call writes back
  another part as it has read it. The transform, which locks and asset calls store as
  well, is the exception that the theorem names and `object_transform_reset` shows.
* `PushesAreKept`, `EffectsHappenOnce`: for finitely many requests. `EntryInv` relates the
  entries of an asset to the calls that have ended, `CreationInv` the OIDs handed
  out to the creators that have; a call that has not ended has had no effect.

`ObjectQueryProofs`:

* `HeldObjectsAreListed`: `ListInv`, that all the cursor has returned is in the list,
  and what the cursor of an ended query owed it has returned.
* `QueriesOnlyRead`: `QuerySpec => Spec`, with its fairness. All theorems about
  `ObjectStore` therefore hold beside queries.

`PropertyStoreProofs`:

* `AnswersAreTrue`: `AnswerInv`, that a call still running has changed nothing.
* `QueriesComplete`: `CursorInv`, as `ListInv`; `SeenInv`, that an attempt has seen at most
  one record more than it was asked for; `LoopInv` bounds the attempts.
* `TypeCorrect`, `ReadsAreOneRequest`, `StaysWhole`: `StoreInv` says what each document in
  the store is made from: its values, and each of its keyframes, from a list that a call
  begun so far has sent, written to the slots from the first one on. A call's document
  is therefore followed through every conversion, on the way in and on the way out,
  for lists of any length: the lemmas before it say what `ParseFrame`, `FrameSlots`,
  `UpdateSlots` and `ReadSlots` return. `ReadsOneRequest` compares the four slots
  (`FirstFour`), for a fifth value has none.
* The lemmas on sequences rest on `LeastNatural`: a set of naturals that is not empty has a
  least member. With it `JoinExists` shows that `FlattenSeq` and `SelectSeq` return what they
  should on every sequence, which the library's induction theorems could not do here.
* `PlainKeyframesKept`: what `KeyframesAsPosted` states, and `property_handles` refutes, holds
  of every keyframe for which only plain lists were sent: numbers with a decimal point, at
  most four entries, and no `right_x`. There is no fourth reason for a loss. TLC finds
  a violation when any of the three is dropped.
* `CallsTakeBoundedSteps`: a call has at most `MaxRetries * Cost + 1` steps, where an attempt at
  a query costs `max + 3` and any other one step. It is the safety half of `CallsReturn`,
  and needs the bound that the code's count of results puts on an attempt.

`EventStreamProofs`:

* `TypeCorrect`: with `IndexInv` the index stays in `evt_senders` in every round.
* `OnlyEndedDeleted`, `PoolSuffices` (for `PoolCapacity >= Slots - 1`): `SlotInv` says which
  senders the slots hold, and `BusyInv` that the busy ones are in slots
  passed since the last `joinAll`.
* `MainOutlivesReceiver`: `FlagInv`, what `is_sender_running` means at each step, and
  `DeletedInv`: no slot holds a deleted sender until the clean-up, and then all are
  deleted, the busy ones (`BusyInv`) included. The process may end with those in their
  threads, which the theorem says.
* `FirstRoundIsSafe`: `RoundInv`, the state of each sender and buffer while the index
  has not wrapped.
* `StreamStepsBounded`: the safety half of `EventsProcessed` and `ShutdownCompletes`. In the
  first round a sender is run once, in at most four steps; in later ones it may be run
  again, which is the finding of `stream_reuse`. Once `is_app_running` is cleared every step
  of the receiver lowers `ReceiverLeft`, which is at most four, in any round.

`RequestHandlersProofs`: `TypeCorrect`, `SuccessIsComplete` and `SuccessIsAnnounced`, for
lists of any length. `Complete`: as long as `code[r]` is `NO_ERROR` every object before the
current one is applied, and announced. `RequestsTakeBoundedSteps`: a request for `n`
objects has at most `2 * n + 3` steps, whatever fails, the safety half of
`RequestsAnswered`.

`ApplicationProofs`: `TypeCorrect`, `SafeUse`, `AuthenticationIsExact` and
`RegistrationsEnd`, by `DataInv` (types), `PartsInv` (which parts are alive at each step
of `main`), `ThreadInv` (which threads can exist), `RegistryInv`, and `AuthInv` (a thread that hashes alone finds in the
engine its own password only). `MainTakesBoundedSteps`: main has at most
`2 * MaxConfigAttempts + 19` steps and only goes forward but for the retries of its
configuration, the safety half of `StartupEnds`. `RoutedByDocumentation`: what `MCApplication`
asks of the paths the code tells apart holds of every path, of any length and with
any segments. `PathFits` and `OtherPathFits` say what fits an endpoint, `AskedFor` what is
documented, and each handler is compared with that. Since a CASE
whose conditions overlap has no one value in TLA+, the proof also depends on their being
exclusive, which the code's chain of tests leaves to the reader.

Only model-checked:

* Liveness (`EveryCallReturns`, `CallsReturn`, `EventsProcessed`, `ShutdownCompletes`,
  `RequestsAnswered`, `StartupEnds`): fairness speaks of `ENABLED`, which is out of the
  prover's reach. The theorems on bounded steps prove that none of them can fail for
  endless work; that no thread is stuck is proved for the lock of the connection
  (`NoLockDeadlock`) and otherwise checked by TLC, with deadlock.

## 5. What is not modelled

* Mongo beyond the atomicity of one command and the promise of a cursor,
  mongocxx, AOSSL (with Consul, Vault and the configuration), Poco and UDP: their
  effect on the calls is a choice.
* The JSON and the data model of objects, except that an object is always built
  with an identity matrix and that building may throw. Properties have theirs.
* Object queries for more than one asset: the filter compares whole
  arrays, in their order.
* Writes of several fields of one kind: name, parent, scene, type, subtype and
  asset_sub_id of an object are all updated like the owner, and the strings of a
  property like its scene.
* A lock or unlock with an empty device name. Malformed keys are in
  `ConnectionManager` only.
* What a sender stores and publishes in `EventStream`: these are steps without
  data there. `RequestHandlers` has the data, but not the slots.
* Exceptions out of `publish_event` in the handlers of HTTP requests (those in a sender of
  the event stream are in `EventStream`).
* The interleaving of two threads inside one call of the HMAC engine.
* The build, the packaging and the tests, which have no state of the program.

## 6. Plan

Done: the connection, objects with their lock, queries, properties with their
data, the event stream, the handlers, the router, the life of the process, and
proofs of every safety property that the runs check, with the safety half of every
liveness property. What is left, in this order:

1. `ObjectData`: the JSON of objects as `PropertyData` has that of properties, with
   the array filter of queries, and `ReadsOneRequest` for objects.
2. The UDP events of actions and keyframes in `RequestHandlers`, which make several
   database calls for one event.
3. A history of answers in `ConnectionManager`, for the documentation's consecutive
   failures.
