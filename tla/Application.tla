---------------------------- MODULE Application ----------------------------
(***************************************************************************)
(* The life of the process: Clyman::main with its start, its service and   *)
(* its end (src/src/app/include/clyman_application.h), next to the threads *)
(* it starts: the loader, which refreshes the ClusterManager and the       *)
(* configuration for ever, the event stream, here its receiver and whether *)
(* a thread of its pool is in a sender (module EventStream looks inside),  *)
(* and the threads of the HTTP server, which authenticate a request and    *)
(* route it to its handler.                                                *)
(*                                                                         *)
(* The subject is who uses which part of the program when: parts are built *)
(* one after the other, shared by pointer, and destroyed at the end.       *)
(***************************************************************************)
EXTENDS Router, FiniteSets

CONSTANTS
  Workers,            \* the threads of the HTTP server
  WebRequests,        \* what clients send: [method, path, device, user, password]
  HasAccount,         \* is transaction.security.auth.type "single"?
  HasConsul,          \* is there a Consul to register with?
  Destinations,       \* may the event destination be "fixed", or "discovered"?
  Services,           \* the destinations that Consul may list
  MaxConfigAttempts,  \* how many failures main puts up with (50 in the code)
  Failures            \* what may fail (see below)

Absent == "absent"    \* the password of who gives no credentials

ASSUME ApplicationAssumption ==
  /\ \A q \in WebRequests : /\ q.method \in Methods
                            /\ q.device \in BOOLEAN
                            /\ q.user \in {"configured", "other"}
                            /\ q.password \in {"right", "wrong", Absent}
  /\ HasAccount \in BOOLEAN /\ HasConsul \in BOOLEAN
  /\ Destinations \subseteq {"fixed", "discovered"}
  /\ "discovered" \in Destinations => HasConsul
  /\ MaxConfigAttempts \in Nat
  /\ Failures \subseteq {"configuration", "listing", "certificate",
                         "registration", "deregistration", "listen", "stream"}

VARIABLES
  main,        \* where Clyman::main is
  failed,      \* config_attempts
  destination, \* discover_ivan: is the event destination fixed, or discovered?
  alive,       \* the parts that are built and not yet destroyed
  running,     \* is_app_running
  registered,  \* the services that Consul knows of
  stuck,       \* history: those that Consul refused to forget
  loader,      \* the thread of update_cluster
  stream,      \* the thread of event_stream: the receiver
  sending,     \* is a thread of its pool in a sender?
  current,     \* current_vector
  members,     \* cluster_members1 and cluster_members2
  worker,      \* what each HTTP thread is doing
  engine,      \* what was fed to the HMAC engine of the account manager
  digest,      \* the result it keeps, which digest() returns a reference to
  fault        \* who used a part that was not alive, or "none"; it ends everything

vars == <<main, failed, destination, alive, running, registered, stuck, loader, stream,
          sending, current, members, worker, engine, digest, fault>>

cluster == <<destination, current, members>>

-----------------------------------------------------------------------------
Parts == {"config", "db", "accounts", "publisher", "cluster"}

\* main builds the parts one by one.
BuildSteps == {"db", "accounts", "publisher", "cluster"}
StepAfter(part) ==
  CASE part = "db"        -> "accounts"
    [] part = "accounts"  -> "publisher"
    [] part = "publisher" -> "cluster"
    [] part = "cluster"   -> "update"

\* main has left its own scope, or the process is gone.
Left == {"uninitialize", "unwound", "ended", "aborted"}

\* crowded is history: another thread was hashing at the same time.
Idle == [pc |-> "idle", kind |-> "none", user |-> "other", password |-> Absent,
         crowded |-> FALSE]

\* Which handlers publish an event.
Publishing == {"create", "update", "delete", "action_create", "action_update",
               "frame_create", "frame_update", "action_delete", "frame_delete"}

TypeOK ==
  /\ main \in {"configure", "retry", "update", "certificate", "register", "threads", "listen",
               "serving", "stopping", "deregister", "await"} \union BuildSteps \union Left
  /\ failed \in 0 .. MaxConfigAttempts + 1
  /\ destination \in Destinations
  /\ alive \subseteq Parts
  /\ running \in BOOLEAN
  /\ registered \subseteq {"Clyman", "Clyman_Udp"} /\ stuck \subseteq registered
  /\ loader \in {"none", "updating", "loading"}
  /\ stream \in {"none", "started", "running", "late", "ended"} /\ sending \in BOOLEAN
  /\ current \in {1, 2}
  /\ members \in [{1, 2} -> SUBSET Services]
  /\ \A w \in Workers :
       /\ worker[w].pc \in {"idle", "update", "digest", "reset", "refused", "route",
                            "database", "downstream", "publish"}
       /\ worker[w].user \in {"configured", "other"}
       /\ worker[w].password \in {"right", "wrong", Absent}
  /\ fault \in {"none", "worker", "loader", "stream", "late stream", "sender"}

Up == main \notin {"ended", "aborted"} /\ fault = "none"

Init ==
  /\ main = "configure"
  /\ failed = 0
  /\ destination \in Destinations
  /\ alive = {"config"}
  /\ running = TRUE
  /\ registered = {} /\ stuck = {}
  /\ loader = "none" /\ stream = "none" /\ sending = FALSE
  /\ current = 1
  /\ members = [v \in {1, 2} |-> {}]
  /\ worker = [w \in Workers |-> Idle]
  /\ engine = <<>> /\ digest = <<>>
  /\ fault = "none"

Uses(who, parts) == fault' = IF parts \subseteq alive THEN "none" ELSE who

-----------------------------------------------------------------------------
(***************************************************************************)
(* ClusterManager::update_cluster_info.                                    *)
(***************************************************************************)

\* The tags of a service that the loop compares with the name of the cluster:
\* current_obj_tags is never filled.
TagsOf(service) == {}
Accepted(listed) == {s \in listed : "cluster" \in TagsOf(s)}

\* The vector not in use is emptied and filled, and then put in use.
Other == 3 - current
Refill(listed) ==
  /\ members' = [members EXCEPT ![Other] = Accepted(listed)]
  /\ current' = Other

\* Consul lists services, or something that is JSON but no object.
UpdateInfo ==
  \/ /\ destination = "discovered"
     /\ \E listed \in SUBSET Services : Refill(listed)
     /\ UNCHANGED destination
  \/ UNCHANGED cluster

\* get_ivan: current_return_index stays zero, so it is the first.
Known == IF destination = "fixed" THEN {"fixed"} ELSE members[current]

-----------------------------------------------------------------------------
(***************************************************************************)
(* Clyman::main.                                                           *)
(***************************************************************************)
threads == <<loader, stream, sending, worker, engine, digest, fault>>
MainAt(from) == main = from /\ fault = "none"
Goto(to) == main' = to

\* config_attempts is not looked at again.
LoadConfig ==
  /\ MainAt("configure")
  /\ failed' = 0
  /\ Goto("db")
  /\ UNCHANGED <<alive, running, registered, stuck, cluster, threads>>

Uncounted == UNCHANGED failed  \* mutant: config_attempts is not advanced
CountFailure == failed' = failed + 1
LoadConfigFails ==
  /\ MainAt("configure") /\ "configuration" \in Failures
  /\ CountFailure
  /\ Goto("retry")
  /\ UNCHANGED <<alive, running, registered, stuck, cluster, threads>>

OneMoreTry == failed > MaxConfigAttempts + 1  \* mutant: off by one
TooManyFailures == failed > MaxConfigAttempts

\* After a pause.
TryAgain ==
  /\ MainAt("retry") /\ ~TooManyFailures
  /\ Goto("configure")
  /\ UNCHANGED <<failed, alive, running, registered, stuck, cluster, threads>>

\* A return from main: the configuration and the database manager, which are
\* local to it, are destroyed.
LeaveMain == alive' = alive \ {"config", "db"} /\ Goto("uninitialize")

\* EXIT_NOINPUT.
GiveUp ==
  /\ MainAt("retry") /\ TooManyFailures
  /\ LeaveMain
  /\ UNCHANGED <<failed, running, registered, stuck, cluster, threads>>

Build ==
  /\ main \in BuildSteps /\ fault = "none"
  /\ alive' = alive \union (IF main = "accounts" /\ ~HasAccount THEN {} ELSE {main})
  /\ Goto(StepAfter(main))
  /\ UNCHANGED <<failed, running, registered, stuck, cluster, threads>>

FirstUpdate ==
  /\ MainAt("update")
  /\ UpdateInfo
  /\ Goto("certificate")
  /\ UNCHANGED <<failed, alive, running, registered, stuck, threads>>

\* An exception out of main destroys the same locals; the parts on the heap stay.
Unwind ==
  /\ \/ MainAt("update") /\ "listing" \in Failures /\ destination = "discovered"
     \/ MainAt("listen") /\ "listen" \in Failures
  /\ alive' = alive \ {"config", "db"}
  /\ Goto("unwound")
  /\ UNCHANGED <<failed, running, registered, stuck, cluster, threads>>

\* EXIT_CONFIG without a certificate from Vault, or without ssl.properties.
Certificate ==
  /\ MainAt("certificate")
  /\ \/ Goto("register") /\ UNCHANGED alive
     \/ "certificate" \in Failures /\ LeaveMain
  /\ UNCHANGED <<failed, running, registered, stuck, cluster, threads>>

\* A failed registration is only logged.
Register ==
  /\ MainAt("register")
  /\ IF ~HasConsul THEN UNCHANGED registered
     ELSE \E known \in SUBSET {"Clyman", "Clyman_Udp"} :
            /\ "registration" \in Failures \/ known = {"Clyman", "Clyman_Udp"}
            /\ registered' = known
  /\ Goto("threads")
  /\ UNCHANGED <<failed, alive, running, stuck, cluster, threads>>

StartThreads ==
  /\ MainAt("threads")
  /\ loader' = "updating" /\ stream' = "started"
  /\ Goto("listen")
  /\ UNCHANGED <<failed, alive, running, registered, stuck, sending, cluster, worker,
                 engine, digest, fault>>

Listen ==
  /\ MainAt("listen")
  /\ Goto("serving")
  /\ UNCHANGED <<failed, alive, running, registered, stuck, cluster, threads>>

\* The termination request; srv.stop() lets the requests in progress go on.
Terminate ==
  /\ MainAt("serving")
  /\ Goto("stopping")
  /\ UNCHANGED <<failed, alive, running, registered, stuck, cluster, threads>>

ClearRunning ==
  /\ MainAt("stopping")
  /\ running' = FALSE
  /\ Goto("deregister")
  /\ UNCHANGED <<failed, alive, registered, stuck, cluster, threads>>

\* Both services are deregistered, and the outcome is not looked at.
OnlyHttp == {"Clyman"}  \* mutant: the UDP service is forgotten
Deregistered == {"Clyman", "Clyman_Udp"}
Deregister ==
  /\ MainAt("deregister")
  /\ \E kept \in SUBSET (Deregistered \intersect registered) :
       /\ "deregistration" \in Failures \/ kept = {}
       /\ registered' = (registered \ Deregistered) \union kept
       /\ stuck' = kept
  /\ Goto("await")
  /\ UNCHANGED <<failed, alive, running, cluster, threads>>

\* The loop on is_sender_running, which the receiver sets when it gets to run, and
\* clears when it is through, whatever the threads of its pool are doing.
NotAwaited == TRUE  \* mutant: main does not wait for the stream
StreamIdle == stream # "running"
Return ==
  /\ MainAt("await")
  /\ StreamIdle
  /\ LeaveMain
  /\ UNCHANGED <<failed, running, registered, stuck, cluster, threads>>

Uninitialize ==
  /\ MainAt("uninitialize")
  /\ alive' = {}
  /\ Goto("ended")
  /\ UNCHANGED <<failed, running, registered, stuck, cluster, threads>>

\* Poco catches what main throws; whether it uninitializes then depends on its
\* version.
EndUnwound ==
  /\ MainAt("unwound")
  /\ Goto("ended") \/ Goto("uninitialize")
  /\ UNCHANGED <<failed, alive, running, registered, stuck, cluster, threads>>

MainStep ==
  \/ LoadConfig \/ LoadConfigFails \/ TryAgain \/ GiveUp \/ Build \/ FirstUpdate \/ Unwind
  \/ Certificate \/ Register \/ StartThreads \/ Listen \/ ClearRunning
  \/ Deregister \/ Return \/ Uninitialize \/ EndUnwound

-----------------------------------------------------------------------------
(***************************************************************************)
(* The detached threads.  Neither is stopped, nor is an exception of the   *)
(* loader caught: it ends the process.                                     *)
(***************************************************************************)
mains == <<failed, alive, running, registered, stuck>>

LoaderUpdates ==
  /\ Up /\ loader = "updating"
  /\ Uses("loader", {"cluster", "config"})
  /\ UpdateInfo
  /\ loader' = "loading"
  /\ UNCHANGED <<main, mains, stream, sending, worker, engine, digest>>

\* It sleeps, and begins again.
LoaderReloads ==
  /\ Up /\ loader = "loading"
  /\ Uses("loader", {"config"})
  /\ loader' = "updating"
  /\ UNCHANGED <<main, mains, cluster, stream, sending, worker, engine, digest>>

LoaderThrows ==
  /\ Up
  /\ \/ loader = "updating" /\ "listing" \in Failures /\ destination = "discovered"
     \/ loader = "loading" /\ "configuration" \in Failures
  /\ Goto("aborted")
  /\ UNCHANGED <<mains, cluster, threads>>

StreamBegins ==
  /\ Up /\ stream = "started"
  /\ stream' = IF main \in Left THEN "late" ELSE "running"
  /\ UNCHANGED <<main, mains, cluster, loader, sending, worker, engine, digest, fault>>

\* The receiver reads the configuration, and starts a sender or is one itself.
StreamWorks ==
  /\ Up /\ stream \in {"running", "late"}
  /\ Uses(IF stream = "late" THEN "late stream" ELSE "stream",
          {"config", "db", "publisher", "cluster"})
  /\ sending' \in {sending, TRUE}
  /\ UNCHANGED <<main, mains, cluster, loader, stream, worker, engine, digest>>

\* A datagram that arrives after is_app_running was cleared ends the receiver, and so
\* does one that cannot be decrypted, or a port that cannot be bound.  It clears
\* is_sender_running while its pool may still be at work.
StreamEnds ==
  /\ Up /\ stream \in {"running", "late"}
  /\ ~running \/ "stream" \in Failures
  /\ stream' = "ended"
  /\ UNCHANGED <<main, mains, cluster, loader, sending, worker, engine, digest, fault>>

\* A thread of the pool publishes and persists, whether or not the receiver goes on.
SenderWorks ==
  /\ Up /\ sending
  /\ Uses("sender", {"config", "db", "publisher", "cluster"})
  /\ UNCHANGED <<main, mains, cluster, loader, stream, sending, worker, engine, digest>>

\* The last of them is through.
SendersEnd ==
  /\ Up /\ sending
  /\ sending' = FALSE
  /\ UNCHANGED <<main, mains, cluster, loader, stream, worker, engine, digest, fault>>

-----------------------------------------------------------------------------
(***************************************************************************)
(* The HTTP server: createRequestHandler, and the handler.                 *)
(***************************************************************************)
WorkerAt(w, pc) == Up /\ worker[w].pc = pc
Advance(w, pc) == worker' = [worker EXCEPT ![w].pc = pc]
Hashing == {v \in Workers : worker[v].pc \in {"digest", "reset"}}
others == <<main, mains, cluster, loader, stream, sending>>

\* Without an account manager everyone is admitted, with one nobody who does not
\* name a password.
Accept(w) ==
  /\ WorkerAt(w, "idle") /\ MainAt("serving")
  /\ \E q \in WebRequests :
       worker' = [worker EXCEPT ![w] =
         [Idle EXCEPT !.kind = Route(q), !.user = q.user, !.password = q.password,
            !.pc = IF ~HasAccount THEN "route"
                   ELSE IF q.password = Absent THEN "refused" ELSE "update"]]
  /\ UNCHANGED <<others, engine, digest, fault>>

\* authenticate_user hashes the password with the one HMAC engine that all
\* threads share: it is fed, its digest is taken, which empties it, and read by
\* reference, and it is reset.
HashUpdate(w) ==
  /\ WorkerAt(w, "update")
  /\ engine' = Append(engine, worker[w].password)
  /\ worker' = [v \in Workers |->
       IF v = w
       THEN [worker[w] EXCEPT !.pc = "digest", !.crowded = Hashing # {}]
       ELSE [worker[v] EXCEPT !.crowded = @ \/ v \in Hashing]]
  /\ Uses("worker", {"accounts"})
  /\ UNCHANGED <<others, digest>>

NotEmptied == engine  \* mutant: neither call clears the engine
Emptied == <<>>
HashDigest(w) ==
  /\ WorkerAt(w, "digest")
  /\ Advance(w, "reset")
  /\ digest' = engine
  /\ engine' = Emptied
  /\ Uses("worker", {"accounts"})
  /\ UNCHANGED others

\* final_pw == password, and the user is not looked at.
Verdict(w) ==
  /\ WorkerAt(w, "reset")
  /\ engine' = Emptied
  /\ Advance(w, IF digest = <<"right">> THEN "route" ELSE "refused")
  /\ Uses("worker", {"accounts"})
  /\ UNCHANGED <<others, digest>>

Done(w) == worker' = [worker EXCEPT ![w] = Idle]

\* NULL instead of a handler: Poco answers the client.
Refuse(w) ==
  /\ WorkerAt(w, "refused") \/ (WorkerAt(w, "route") /\ worker[w].kind = "none")
  /\ Done(w)
  /\ UNCHANGED <<others, engine, digest, fault>>

HealthCheck(w) ==
  /\ WorkerAt(w, "route") /\ worker[w].kind = "health"
  /\ Done(w)
  /\ UNCHANGED <<others, engine, digest, fault>>

StartHandler(w) ==
  /\ WorkerAt(w, "route") /\ worker[w].kind \notin {"none", "health"}
  /\ Advance(w, "database")
  /\ UNCHANGED <<others, engine, digest, fault>>

CallDatabase(w) ==
  /\ WorkerAt(w, "database")
  /\ Uses("worker", {"db", "config"})
  /\ IF worker[w].kind \in Publishing THEN Advance(w, "downstream") ELSE Done(w)
  /\ UNCHANGED <<others, engine, digest>>

\* get_ivan: without a destination no event is sent.
GetIvan(w) ==
  /\ WorkerAt(w, "downstream")
  /\ Uses("worker", {"cluster"})
  /\ IF Known = {} THEN Done(w) ELSE Advance(w, "publish")
  /\ UNCHANGED <<others, engine, digest>>

PublishEvent(w) ==
  /\ WorkerAt(w, "publish")
  /\ Uses("worker", {"publisher", "cluster"})
  /\ Done(w)
  /\ UNCHANGED <<others, engine, digest>>

WorkerStep(w) ==
  \/ HashUpdate(w) \/ HashDigest(w) \/ Verdict(w) \/ Refuse(w) \/ HealthCheck(w)
  \/ StartHandler(w) \/ CallDatabase(w) \/ GetIvan(w) \/ PublishEvent(w)

-----------------------------------------------------------------------------
Gone == ~Up /\ UNCHANGED vars

Next ==
  \/ MainStep \/ Terminate
  \/ LoaderUpdates \/ LoaderReloads \/ LoaderThrows
  \/ StreamBegins \/ StreamWorks \/ StreamEnds \/ SenderWorks \/ SendersEnd
  \/ \E w \in Workers : Accept(w) \/ WorkerStep(w)
  \/ Gone

\* The threads run; nobody need send a request, a datagram or a signal.
Spec ==
  /\ Init /\ [][Next]_vars
  /\ WF_vars(MainStep)
  /\ WF_vars(StreamBegins)
  /\ \A w \in Workers : WF_vars(WorkerStep(w))

-----------------------------------------------------------------------------
\* Nobody uses a part of the program that main has not yet built or has already
\* destroyed, until main itself has left.  After a normal end the receiver of the event
\* stream, for whose flag main waits, is safe, too.  Nobody else is: not the senders
\* in the receiver's pool, which are at work when it clears the flag, nor the loader,
\* which nobody stops, nor requests in progress, which srv.stop() does not wait for, nor
\* a stream that only gets to run when main has looked at the flag.
UseSafe ==
  /\ fault # "none" => main \in Left
  /\ ~running => fault # "stream"

\* The threads of the HTTP server share one HMAC engine without a lock.  Whatever they
\* left in it before, a thread that hashes alone admits the right password only, and
\* refuses nobody who gives it with the configured name.  (Nothing is said of another
\* name: authenticate_user ignores it.  Nor of two threads that hash at once.)
Admitted == {w \in Workers :
               worker[w].pc \in {"route", "database", "downstream", "publish"}}
AuthenticationExact ==
  HasAccount =>
    \A w \in Workers : ~worker[w].crowded =>
      /\ worker[w].pc = "refused"
           => ~(worker[w].user = "configured" /\ worker[w].password = "right")
      /\ w \in Admitted => worker[w].password = "right"

\* "Handle graceful shutdown": after a normal end Consul lists neither service
\* of the process, unless it failed to deregister it.
NoRegistrationLeft == main = "ended" /\ ~running => registered \subseteq stuck

\* The start ends: the program serves requests, or it is gone, however often the
\* configuration cannot be loaded.
StartupEnds == <>(main = "serving" \/ main \in Left)
=============================================================================
