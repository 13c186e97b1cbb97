-------------------------- MODULE ApplicationProofs --------------------------
(***************************************************************************)
(* The safety properties of Application, proved for every number of HTTP   *)
(* threads, requests and services, and any set of failures; and the routes *)
(* of Router, for every path.                                              *)
(***************************************************************************)
EXTENDS Application, TLAPS

-----------------------------------------------------------------------------
\* Where main is: before it starts the threads, while it serves, and at its
\* normal end.
Building == {"configure", "retry", "update", "certificate", "register", "threads"}
              \union BuildSteps
Serving  == {"listen", "serving", "stopping"}
Ending   == {"deregister", "await"}

\* What an HTTP thread keeps.
HandlerKinds == {Route(q) : q \in WebRequests} \union {"none"}
WorkerRecord ==
  [pc : {"idle", "update", "digest", "reset", "refused", "route", "database",
         "downstream", "publish"},
   kind : HandlerKinds,
   user : {"configured", "other"},
   password : {"right", "wrong", Absent},
   crowded : BOOLEAN]

\* The HTTP threads are as many as they were, and main has not counted more failures
\* than it puts up with.
DataInv ==
  /\ worker \in [Workers -> WorkerRecord]
  /\ main = "configure" => failed <= MaxConfigAttempts

\* What main has built, step by step, and that it keeps all of it until it leaves.
PartsInv ==
  /\ main \notin Left => "config" \in alive
  /\ main \notin {"configure", "retry", "db"} \union Left => "db" \in alive
  /\ main \notin {"configure", "retry", "db", "accounts"} \union Left
       => (HasAccount => "accounts" \in alive)
  /\ main \notin {"configure", "retry", "db", "accounts", "publisher"} \union Left
       => "publisher" \in alive
  /\ main \notin {"configure", "retry"} \union BuildSteps \union Left
       => "cluster" \in alive

\* No thread runs before its parts are there, and only a receiver that main did not
\* see outlives a normal end.
ThreadInv ==
  /\ main \in Building => /\ loader = "none" /\ stream = "none" /\ ~sending
                          /\ \A w \in Workers : worker[w].pc = "idle"
  /\ \A w \in Workers : worker[w].pc \in {"update", "digest", "reset"} => HasAccount
  /\ ~running => main \in Ending \union Left
  /\ ~running /\ stream = "running" => main \in Ending \union {"aborted"}
  /\ UseSafe

\* The services are registered once, and forgotten once.
RegistryInv ==
  /\ main \in Building \union Serving => stuck = {}
  /\ main = "unwound" => running
  /\ main \in {"await", "uninitialize", "ended"} /\ ~running => registered \subseteq stuck

\* A thread that hashes alone finds the engine empty and leaves it empty.
AuthInv ==
  /\ Hashing = {} => engine = <<>>
  /\ \A w \in Hashing : ~worker[w].crowded =>
       /\ Hashing = {w}
       /\ worker[w].pc = "digest" => engine = <<worker[w].password>>
       /\ worker[w].pc = "reset" => digest = <<worker[w].password>>
  /\ AuthenticationExact

AppInv == TypeOK /\ DataInv /\ PartsInv /\ ThreadInv /\ RegistryInv

-----------------------------------------------------------------------------
\* An update of the cluster information fills the vector that is not in use.
LEMMA UpdateInfoTypes ==
  ASSUME TypeOK, UpdateInfo
  PROVE  /\ destination' = destination
         /\ current' \in {1, 2}
         /\ members' \in [{1, 2} -> SUBSET Services]
<1>1. CASE UNCHANGED cluster
  BY <1>1 DEF cluster, TypeOK
<1>2. ASSUME NEW listed \in SUBSET Services, Refill(listed), UNCHANGED destination
      PROVE  /\ destination' = destination
             /\ current' \in {1, 2}
             /\ members' \in [{1, 2} -> SUBSET Services]
  <2>1. Accepted(listed) \subseteq Services
    BY DEF Accepted
  <2>2. Other \in {1, 2}
    <3>1. current \in {1, 2}
      BY DEF TypeOK
    <3> QED
      BY <3>1 DEF Other
  <2>3. members' = [members EXCEPT ![Other] = Accepted(listed)] /\ current' = Other
    BY <1>2 DEF Refill
  <2> QED
    BY <1>2, <2>1, <2>2, <2>3 DEF TypeOK
<1> QED
  BY <1>1, <1>2 DEF UpdateInfo

-----------------------------------------------------------------------------
\* What Consul knows after the registration.
LEMMA RegisterTypes ==
  ASSUME TypeOK, Register
  PROVE  registered' \subseteq {"Clyman", "Clyman_Udp"}
<1>1. CASE UNCHANGED registered
  BY <1>1 DEF TypeOK
<1>2. CASE \E known \in SUBSET {"Clyman", "Clyman_Udp"} : registered' = known
  BY <1>2
<1> QED
  BY <1>1, <1>2 DEF Register

\* The steps of main.
LEMMA MainKeeps ==
  ASSUME AppInv, MainStep \/ Terminate
  PROVE  AppInv'
<1> USE ApplicationAssumption
    DEF AppInv, TypeOK, DataInv, PartsInv, ThreadInv, RegistryInv, UseSafe,
        Building, BuildSteps, Serving, Ending, Left, Parts, MainAt, Goto, threads
<1>0. CASE FirstUpdate
  <2>1. /\ destination' = destination
        /\ current' \in {1, 2}
        /\ members' \in [{1, 2} -> SUBSET Services]
    BY <1>0, UpdateInfoTypes DEF FirstUpdate
  <2> QED BY <1>0, <2>1 DEF FirstUpdate
<1>1. CASE LoadConfig
  BY <1>1 DEF LoadConfig, cluster
<1>2. CASE LoadConfigFails
  BY <1>2 DEF LoadConfigFails, CountFailure, cluster
<1>3. CASE TryAgain
  BY <1>3 DEF TryAgain, TooManyFailures, cluster
<1>4. CASE GiveUp
  BY <1>4 DEF GiveUp, TooManyFailures, LeaveMain, cluster
<1>5. CASE Build
  BY <1>5 DEF Build, StepAfter, cluster
<1>6. CASE Unwind
  <2>1. TypeOK'
    BY <1>6 DEF Unwind, cluster
  <2>2. DataInv' /\ PartsInv' /\ RegistryInv'
    BY <1>6 DEF Unwind, cluster
  <2>3. ThreadInv'
    BY <1>6 DEF Unwind, cluster
  <2> QED
    BY <2>1, <2>2, <2>3
<1>7. CASE Certificate
  BY <1>7 DEF Certificate, LeaveMain, cluster
<1>8. CASE Register
  <2>1. TypeOK'
    <3>1. stuck = {} /\ stuck' = stuck
      BY <1>8 DEF Register
    <3>2. registered' \subseteq {"Clyman", "Clyman_Udp"}
      BY <1>8, RegisterTypes, Zenon
    <3>3. /\ main' = "threads"
          /\ UNCHANGED <<failed, alive, running, destination, loader, stream, sending,
                        current, members, worker, fault>>
      BY <1>8 DEF Register, cluster
    <3>4. /\ main' \in {"threads"} /\ failed' \in 0 .. MaxConfigAttempts + 1
          /\ destination' \in Destinations /\ alive' \subseteq Parts /\ running' \in BOOLEAN
          /\ stuck' \subseteq registered'
      BY <3>1, <3>3
    <3>5. /\ loader' \in {"none", "updating", "loading"}
          /\ stream' \in {"none", "started", "running", "late", "ended"}
          /\ sending' \in BOOLEAN /\ current' \in {1, 2}
          /\ members' \in [{1, 2} -> SUBSET Services]
          /\ fault' \in {"none", "worker", "loader", "stream", "late stream", "sender"}
      BY <3>3
    <3>6. \A w \in Workers :
            /\ worker'[w].pc \in {"idle", "update", "digest", "reset", "refused", "route",
                                 "database", "downstream", "publish"}
            /\ worker'[w].user \in {"configured", "other"}
            /\ worker'[w].password \in {"right", "wrong", Absent}
      BY <3>3
    <3> QED
      BY <3>2, <3>4, <3>5, <3>6
  <2>2. DataInv' /\ PartsInv' /\ RegistryInv'
    BY <1>8 DEF Register, cluster
  <2>3. ThreadInv'
    BY <1>8 DEF Register, cluster
  <2> QED
    BY <2>1, <2>2, <2>3
<1>9. CASE StartThreads
  <2>1. TypeOK'
    BY <1>9 DEF StartThreads, cluster
  <2>2. DataInv' /\ PartsInv' /\ RegistryInv'
    BY <1>9 DEF StartThreads, cluster
  <2>3. ThreadInv'
    BY <1>9 DEF StartThreads, cluster
  <2> QED
    BY <2>1, <2>2, <2>3
<1>10. CASE Listen
  <2>1. TypeOK'
    BY <1>10 DEF Listen, cluster
  <2>2. DataInv' /\ PartsInv' /\ RegistryInv'
    BY <1>10 DEF Listen, cluster
  <2>3. ThreadInv'
    BY <1>10 DEF Listen, cluster
  <2> QED
    BY <2>1, <2>2, <2>3
<1>11. CASE ClearRunning
  <2>1. TypeOK'
    BY <1>11 DEF ClearRunning, cluster
  <2>2. DataInv' /\ PartsInv' /\ RegistryInv'
    BY <1>11 DEF ClearRunning, cluster
  <2>3. ThreadInv'
    BY <1>11 DEF ClearRunning, cluster
  <2> QED
    BY <2>1, <2>2, <2>3
<1>12. CASE Deregister
  <2>1. TypeOK'
    BY <1>12 DEF Deregister, Deregistered, cluster
  <2>2. DataInv' /\ PartsInv' /\ RegistryInv'
    BY <1>12 DEF Deregister, Deregistered, cluster
  <2>3. ThreadInv'
    BY <1>12 DEF Deregister, Deregistered, cluster
  <2> QED
    BY <2>1, <2>2, <2>3
<1>13. CASE Return
  BY <1>13 DEF Return, StreamIdle, LeaveMain, cluster
<1>14. CASE Uninitialize
  BY <1>14 DEF Uninitialize, cluster
<1>15. CASE EndUnwound
  BY <1>15 DEF EndUnwound, cluster
<1>16. CASE Terminate
  BY <1>16 DEF Terminate, cluster
<1> QED
  BY <1>0, <1>1, <1>2, <1>3, <1>4, <1>5, <1>6, <1>7, <1>8, <1>9, <1>10, <1>11, <1>12, <1>13, <1>14, <1>15, <1>16 DEF MainStep

-----------------------------------------------------------------------------
\* While main serves, everything it has built is there.
LEMMA PartsThere ==
  ASSUME AppInv, main \notin Building \union Left
  PROVE  /\ {"config", "db", "publisher", "cluster"} \subseteq alive
         /\ HasAccount => "accounts" \in alive
BY DEF AppInv, PartsInv, Building, BuildSteps

\* The steps of the loader and of the event stream.
LEMMA LoaderKeeps ==
  ASSUME AppInv, LoaderUpdates \/ LoaderReloads \/ LoaderThrows
  PROVE  AppInv'
<1> USE ApplicationAssumption
    DEF AppInv, TypeOK, DataInv, PartsInv, ThreadInv, RegistryInv, UseSafe,
        Building, BuildSteps, Serving, Ending, Left, Parts, Up, Uses, Goto, mains
<1>1. CASE LoaderUpdates
  <2>1. /\ destination' = destination
        /\ current' \in {1, 2}
        /\ members' \in [{1, 2} -> SUBSET Services]
    BY <1>1, UpdateInfoTypes DEF LoaderUpdates
  <2> QED BY <1>1, <2>1 DEF LoaderUpdates
<1>2. CASE LoaderReloads
  BY <1>2 DEF LoaderReloads, cluster
<1>3. CASE LoaderThrows
  BY <1>3 DEF LoaderThrows, cluster, threads
<1> QED
  BY <1>1, <1>2, <1>3

LEMMA StreamKeeps ==
  ASSUME AppInv,
         StreamBegins \/ StreamWorks \/ StreamEnds \/ SenderWorks \/ SendersEnd
  PROVE  AppInv'
<1> USE ApplicationAssumption
    DEF AppInv, TypeOK, DataInv, PartsInv, ThreadInv, RegistryInv, UseSafe,
        Building, BuildSteps, Serving, Ending, Left, Parts, Up, Uses, Goto, mains
<1>1. CASE StreamBegins
  <2>1. main \in Left => stream' = "late"
    BY <1>1 DEF StreamBegins
  <2>2. main \notin Left => stream' = "running"
    BY <1>1 DEF StreamBegins
  <2>3. /\ UNCHANGED <<main, failed, alive, running, registered, stuck, loader, sending,
                       worker, fault>>
        /\ UNCHANGED <<destination, current, members>>
        /\ stream = "started" /\ fault = "none"
    BY <1>1 DEF StreamBegins, cluster
  <2>4. CASE main \in Left
    BY <2>1, <2>3, <2>4
  <2>5. CASE main \notin Left
    <3>1. TypeOK' /\ DataInv' /\ PartsInv' /\ RegistryInv'
      BY <2>2, <2>3, <2>5
    <3>2. main \notin Building
      BY <2>3
    <3>3. ThreadInv'
      BY <2>2, <2>3, <2>5, <3>2
    <3> QED BY <3>1, <3>3
  <2> QED BY <2>4, <2>5
<1>2. CASE StreamWorks
  <2>1. /\ UNCHANGED <<main, failed, alive, running, registered, stuck, loader, stream, worker>>
        /\ UNCHANGED <<destination, current, members>> /\ sending' \in {sending, TRUE}
        /\ stream \in {"running", "late"} /\ Up
        /\ Uses(IF stream = "late" THEN "late stream" ELSE "stream",
                {"config", "db", "publisher", "cluster"})
    BY <1>2 DEF StreamWorks, cluster
  <2>2. main \notin Building
    BY <2>1
  <2>3. main \notin Left => fault' = "none"
    BY <2>1, <2>2, PartsThere DEF Uses
  <2>4. fault' \in {"none", "stream", "late stream"}
    BY <2>1 DEF Uses
  <2>5. fault' = "stream" => running
    <3>1. fault' = "stream" => stream = "running" /\ main \in Left \ {"aborted"}
      BY <2>1, <2>3, <2>4 DEF Uses
    <3> QED BY <3>1
  <2>6. UseSafe'
    BY <2>1, <2>3, <2>5
  <2>7. TypeOK'
    <3>1. sending' \in BOOLEAN
      BY <2>1
    <3> QED
      BY <2>1, <2>4, <3>1
  <2>8. DataInv' /\ PartsInv' /\ RegistryInv'
    BY <2>1
  <2>9. ThreadInv'
    BY <2>1, <2>2, <2>6
  <2> QED
    BY <2>7, <2>8, <2>9
<1>3. CASE StreamEnds
  BY <1>3 DEF StreamEnds, cluster
<1>4. CASE SenderWorks
  <2>1. /\ UNCHANGED <<main, failed, alive, running, registered, stuck, loader, stream,
                       sending, worker>>
        /\ UNCHANGED <<destination, current, members>>
        /\ sending /\ Up /\ Uses("sender", {"config", "db", "publisher", "cluster"})
    BY <1>4 DEF SenderWorks, cluster
  <2>2. main \notin Building
    BY <2>1
  <2>3. main \notin Left => fault' = "none"
    BY <2>1, <2>2, PartsThere DEF Uses
  <2>4. fault' \in {"none", "sender"}
    BY <2>1 DEF Uses
  <2>5. UseSafe'
    BY <2>1, <2>3, <2>4
  <2>6. TypeOK'
    BY <2>1, <2>4
  <2>7. DataInv' /\ PartsInv' /\ RegistryInv'
    BY <2>1
  <2>8. ThreadInv'
    BY <2>1, <2>2, <2>5
  <2> QED
    BY <2>6, <2>7, <2>8
<1>5. CASE SendersEnd
  <2>1. sending' = FALSE /\ sending' \in BOOLEAN
    BY <1>5 DEF SendersEnd
  <2> QED
    BY <1>5, <2>1 DEF SendersEnd, cluster
<1> QED
  BY <1>1, <1>2, <1>3, <1>4, <1>5

-----------------------------------------------------------------------------
\* What an HTTP thread may do without harm: it moves no other thread, and either uses
\* nothing or, having been started by main, a part of the program.
LEMMA WorkersFrame ==
  ASSUME AppInv, NEW w \in Workers, Up, UNCHANGED others,
         worker' \in [Workers -> WorkerRecord],
         \A v \in Workers : v # w => worker'[v].pc = worker[v].pc,
         worker[w].pc = "idle" => main = "serving",
         worker'[w].pc \in {"update", "digest", "reset"} => HasAccount,
         \/ UNCHANGED fault
         \/ /\ worker[w].pc # "idle"
            /\ \/ Uses("worker", {"config", "db"}) \/ Uses("worker", {"db", "config"})
               \/ Uses("worker", {"cluster"}) \/ Uses("worker", {"publisher", "cluster"})
               \/ HasAccount /\ Uses("worker", {"accounts"})
  PROVE  AppInv'
<1>1. /\ UNCHANGED <<main, failed, alive, running, registered, stuck, loader, stream, sending>>
      /\ UNCHANGED <<destination, current, members>>
      /\ fault = "none"
  BY DEF others, mains, cluster, Up
<1>2. main \notin Building
  <2>1. CASE worker[w].pc = "idle"
    BY <2>1 DEF Building, BuildSteps
  <2>2. CASE worker[w].pc # "idle"
    BY <2>2 DEF AppInv, ThreadInv
  <2> QED BY <2>1, <2>2
<1>3. fault' \in {"none", "worker"} /\ (fault' # "none" => main \in Left)
  <2>1. CASE main \in Left
    BY <1>1, <2>1 DEF Uses
  <2>2. CASE main \notin Left
    BY <1>1, <1>2, <2>2, PartsThere DEF Uses
  <2> QED BY <2>1, <2>2
<1>4. TypeOK'
  <2>1. \A v \in Workers :
          /\ worker'[v].pc \in {"idle", "update", "digest", "reset", "refused", "route",
                               "database", "downstream", "publish"}
          /\ worker'[v].user \in {"configured", "other"}
          /\ worker'[v].password \in {"right", "wrong", Absent}
    BY DEF WorkerRecord
  <2>3. fault' \in {"none", "worker", "loader", "stream", "late stream", "sender"}
    BY <1>3
  <2>4. /\ loader' \in {"none", "updating", "loading"}
        /\ stream' \in {"none", "started", "running", "late", "ended"}
        /\ sending' \in BOOLEAN
    BY <1>1 DEF AppInv, TypeOK
  <2>5. current' \in {1, 2} /\ members' \in [{1, 2} -> SUBSET Services]
    BY <1>1 DEF AppInv, TypeOK
  <2> QED
    BY <1>1, <2>1, <2>3, <2>4, <2>5 DEF AppInv, TypeOK
<1>5. DataInv'
  BY <1>1 DEF AppInv, DataInv
<1>6. PartsInv'
  BY <1>1 DEF AppInv, PartsInv
<1>7. ThreadInv'
  <2>1. UseSafe'
    BY <1>1, <1>3 DEF UseSafe
  <2> QED
    BY <1>1, <1>2, <2>1 DEF AppInv, ThreadInv
<1>8. RegistryInv'
  BY <1>1 DEF AppInv, RegistryInv
<1> QED
  BY <1>4, <1>5, <1>6, <1>7, <1>8 DEF AppInv

\* The same of a thread that changes its own record only.
LEMMA WorkerFrame ==
  ASSUME AppInv, NEW w \in Workers, Up, UNCHANGED others,
         NEW rec \in WorkerRecord, worker' = [worker EXCEPT ![w] = rec],
         worker[w].pc = "idle" => main = "serving",
         rec.pc \in {"update", "digest", "reset"} => HasAccount,
         \/ UNCHANGED fault
         \/ /\ worker[w].pc # "idle"
            /\ \/ Uses("worker", {"config", "db"}) \/ Uses("worker", {"db", "config"})
               \/ Uses("worker", {"cluster"}) \/ Uses("worker", {"publisher", "cluster"})
               \/ HasAccount /\ Uses("worker", {"accounts"})
  PROVE  AppInv'
<1>1. worker \in [Workers -> WorkerRecord] /\ worker' \in [Workers -> WorkerRecord]
  BY DEF AppInv, DataInv
<1>2. \A v \in Workers : worker'[v] = IF v = w THEN rec ELSE worker[v]
  BY <1>1
<1> QED
  BY <1>1, <1>2, WorkersFrame

\* The steps of an HTTP thread.
LEMMA WorkerKeeps ==
  ASSUME AppInv, NEW w \in Workers, Accept(w) \/ WorkerStep(w)
  PROVE  AppInv'
<1> DEFINE old == worker[w]
<1>w. /\ worker \in [Workers -> WorkerRecord] /\ old \in WorkerRecord
      /\ \A v \in Workers : worker[v] \in WorkerRecord
      /\ old.pc \in {"update", "digest", "reset"} => HasAccount
  BY DEF AppInv, DataInv, ThreadInv
<1>u. Up
  BY DEF Accept, WorkerStep, HashUpdate, HashDigest, Verdict, Refuse, HealthCheck,
         StartHandler, CallDatabase, GetIvan, PublishEvent, WorkerAt
<1>i. Idle \in WorkerRecord /\ Idle.pc = "idle"
  BY DEF Idle, WorkerRecord, HandlerKinds
<1>a. ASSUME NEW pc \in {"digest", "reset", "refused", "route", "database", "downstream",
                         "publish"}
      PROVE  [old EXCEPT !.pc = pc] \in WorkerRecord /\ [old EXCEPT !.pc = pc].pc = pc
  BY <1>w DEF WorkerRecord
<1>0. CASE Accept(w)
  <2>1. PICK q \in WebRequests :
          worker' = [worker EXCEPT ![w] =
            [Idle EXCEPT !.kind = Route(q), !.user = q.user, !.password = q.password,
               !.pc = IF ~HasAccount THEN "route"
                      ELSE IF q.password = Absent THEN "refused" ELSE "update"]]
    BY <1>0 DEF Accept
  <2> DEFINE rec == [Idle EXCEPT !.kind = Route(q), !.user = q.user, !.password = q.password,
               !.pc = IF ~HasAccount THEN "route"
                      ELSE IF q.password = Absent THEN "refused" ELSE "update"]
  <2>2. /\ Route(q) \in HandlerKinds
        /\ q.user \in {"configured", "other"}
        /\ q.password \in {"right", "wrong", Absent}
    BY ApplicationAssumption DEF HandlerKinds
  <2>3. rec \in WorkerRecord /\ (rec.pc \in {"update", "digest", "reset"} => HasAccount)
    BY <2>2 DEF Idle, WorkerRecord
  <2>4. UNCHANGED others /\ UNCHANGED fault /\ main = "serving"
    BY <1>0 DEF Accept, MainAt
  <2> QED
    BY <1>u, <2>1, <2>3, <2>4, WorkerFrame
<1>1. CASE HashUpdate(w)
  <2>1. worker' = [v \in Workers |->
          IF v = w
          THEN [worker[w] EXCEPT !.pc = "digest", !.crowded = Hashing # {}]
          ELSE [worker[v] EXCEPT !.crowded = @ \/ v \in Hashing]]
    BY <1>1 DEF HashUpdate
  <2>2. [worker[w] EXCEPT !.pc = "digest", !.crowded = Hashing # {}] \in WorkerRecord
    BY <1>w DEF WorkerRecord
  <2>3. ASSUME NEW v \in Workers
        PROVE  /\ [worker[v] EXCEPT !.crowded = @ \/ v \in Hashing] \in WorkerRecord
               /\ [worker[v] EXCEPT !.crowded = @ \/ v \in Hashing].pc = worker[v].pc
    <3>1. worker[v] \in WorkerRecord
      BY <1>w
    <3> DEFINE busy == worker[v].crowded \/ v \in Hashing
    <3>2. busy \in BOOLEAN
      OBVIOUS
    <3>3. [worker[v] EXCEPT !.crowded = @ \/ v \in Hashing] = [worker[v] EXCEPT !.crowded = busy]
      OBVIOUS
    <3> HIDE DEF busy
    <3> QED
      BY <3>1, <3>2, <3>3 DEF WorkerRecord
  <2>4. worker' \in [Workers -> WorkerRecord]
    BY <2>1, <2>2, <2>3
  <2>5. \A v \in Workers : v # w => worker'[v].pc = worker[v].pc
    BY <2>1, <2>3
  <2>6. HasAccount /\ old.pc = "update" /\ UNCHANGED others /\ Uses("worker", {"accounts"})
    BY <1>1, <1>w DEF HashUpdate, WorkerAt
  <2> QED
    BY <1>u, <2>4, <2>5, <2>6, WorkersFrame
<1>2. CASE HashDigest(w)
  BY <1>2, <1>w, <1>u, <1>a, WorkerFrame DEF HashDigest, WorkerAt, Advance
<1>3. CASE Verdict(w)
  <2>1. PICK pc \in {"route", "refused"} : worker' = [worker EXCEPT ![w].pc = pc]
    BY <1>3 DEF Verdict, Advance
  <2>2. worker' = [worker EXCEPT ![w] = [old EXCEPT !.pc = pc]]
    BY <2>1
  <2> QED
    BY <1>3, <1>w, <1>u, <1>a, <2>2, WorkerFrame DEF Verdict, WorkerAt
<1>4. CASE Refuse(w) \/ HealthCheck(w)
  BY <1>4, <1>u, <1>i, WorkerFrame DEF Refuse, HealthCheck, WorkerAt, Done
<1>6. CASE StartHandler(w)
  BY <1>6, <1>u, <1>a, WorkerFrame DEF StartHandler, WorkerAt, Advance
<1>7. CASE CallDatabase(w)
  <2>1. CASE old.kind \in Publishing
    BY <1>7, <1>u, <1>a, <2>1, WorkerFrame DEF CallDatabase, WorkerAt, Advance
  <2>2. CASE old.kind \notin Publishing
    BY <1>7, <1>u, <1>i, <2>2, WorkerFrame DEF CallDatabase, WorkerAt, Done
  <2> QED BY <2>1, <2>2
<1>8. CASE GetIvan(w)
  <2>1. CASE Known = {}
    BY <1>8, <1>u, <1>i, <2>1, WorkerFrame DEF GetIvan, WorkerAt, Done
  <2>2. CASE Known # {}
    BY <1>8, <1>u, <1>a, <2>2, WorkerFrame DEF GetIvan, WorkerAt, Advance
  <2> QED BY <2>1, <2>2
<1>9. CASE PublishEvent(w)
  BY <1>9, <1>u, <1>i, WorkerFrame DEF PublishEvent, WorkerAt, Done
<1> QED
  BY <1>0, <1>1, <1>2, <1>3, <1>4, <1>6, <1>7, <1>8, <1>9 DEF WorkerStep

-----------------------------------------------------------------------------
(***************************************************************************)
(* The HMAC engine.                                                        *)
(***************************************************************************)

\* What AuthenticationExact says of one thread.
Judged(rec) ==
  HasAccount /\ ~rec.crowded =>
    /\ rec.pc = "refused" => ~(rec.user = "configured" /\ rec.password = "right")
    /\ rec.pc \in {"route", "database", "downstream", "publish"} => rec.password = "right"

LEMMA JudgedAll == AuthenticationExact <=> \A w \in Workers : Judged(worker[w])
BY DEF AuthenticationExact, Admitted, Judged

\* A step of a thread that is not hashing and does not begin to leaves the engine as it is.
LEMMA QuietKeeps ==
  ASSUME AppInv, AuthInv, NEW w \in Workers, UNCHANGED <<engine, digest>>,
         w \notin Hashing,
         NEW rec \in WorkerRecord, worker' = [worker EXCEPT ![w] = rec],
         rec.pc \notin {"digest", "reset"}, Judged(rec)
  PROVE  AuthInv'
<1>1. \A v \in Workers : worker'[v] = IF v = w THEN rec ELSE worker[v]
  BY DEF AppInv, DataInv
<1>2. Hashing' = Hashing
  BY <1>1 DEF Hashing
<1>3. Judged(worker[w])' /\ \A v \in Workers : Judged(worker'[v])
  BY <1>1, JudgedAll DEF AuthInv, Judged
<1>4. AuthenticationExact'
  BY <1>3 DEF AuthenticationExact, Admitted, Judged
<1>5. \A v \in Hashing : worker'[v] = worker[v]
  BY <1>1 DEF Hashing
<1> QED
  BY <1>2, <1>4, <1>5 DEF AuthInv

\* The first to hash finds the engine empty, and each who comes later marks all as crowded.
LEMMA UpdateKeeps ==
  ASSUME AppInv, AuthInv, NEW w \in Workers, HashUpdate(w)
  PROVE  AuthInv'
<1>1. /\ worker[w].pc = "update" /\ digest' = digest
      /\ engine' = Append(engine, worker[w].password)
      /\ worker' = [v \in Workers |->
           IF v = w
           THEN [worker[w] EXCEPT !.pc = "digest", !.crowded = Hashing # {}]
           ELSE [worker[v] EXCEPT !.crowded = @ \/ v \in Hashing]]
  BY DEF HashUpdate, WorkerAt
<1>2. \A v \in Workers : worker[v] \in WorkerRecord
  BY DEF AppInv, DataInv
<1>3. /\ worker'[w].pc = "digest" /\ worker'[w].crowded = (Hashing # {})
      /\ worker'[w].password = worker[w].password
  BY <1>1, <1>2 DEF WorkerRecord
<1>4. ASSUME NEW v \in Workers, v # w
      PROVE  /\ worker'[v].pc = worker[v].pc
             /\ worker'[v].user = worker[v].user /\ worker'[v].password = worker[v].password
             /\ worker'[v].crowded = (worker[v].crowded \/ v \in Hashing)
  <2>1. worker[v] \in WorkerRecord
    BY <1>2
  <2>2. worker'[v] = [worker[v] EXCEPT !.crowded = worker[v].crowded \/ v \in Hashing]
    BY <1>1, <1>4, Zenon
  <2> QED
    BY <2>1, <2>2 DEF WorkerRecord
<1>5. w \notin Hashing /\ Hashing' = Hashing \union {w}
  BY <1>1, <1>3, <1>4 DEF Hashing
<1>6. \A v \in Hashing : worker'[v].crowded
  BY <1>4, <1>5 DEF Hashing
<1>7. Hashing = {} => engine' = <<worker[w].password>>
  BY <1>1 DEF AuthInv
<1>8. \A v \in Hashing' : ~worker'[v].crowded =>
        /\ Hashing' = {v}
        /\ worker'[v].pc = "digest" => engine' = <<worker'[v].password>>
        /\ worker'[v].pc = "reset" => digest' = <<worker'[v].password>>
  BY <1>3, <1>5, <1>6, <1>7
<1>9. AuthenticationExact'
  <2>1. ASSUME NEW v \in Workers PROVE Judged(worker'[v])
    <3>1. CASE v = w
      BY <1>3, <3>1 DEF Judged
    <3>2. CASE v # w
      BY <1>4, <3>2, JudgedAll DEF AuthInv, Judged
    <3> QED BY <3>1, <3>2
  <2> QED BY <2>1 DEF AuthenticationExact, Admitted, Judged
<1> QED
  BY <1>5, <1>8, <1>9 DEF AuthInv

\* The digest is that of what was fed.
LEMMA DigestKeeps ==
  ASSUME AppInv, AuthInv, NEW w \in Workers, HashDigest(w)
  PROVE  AuthInv'
<1>1. /\ worker[w].pc = "digest" /\ digest' = engine /\ engine' = <<>>
      /\ worker' = [worker EXCEPT ![w].pc = "reset"]
  BY DEF HashDigest, WorkerAt, Advance, Emptied
<1>2. worker \in [Workers -> WorkerRecord] /\ worker[w] \in WorkerRecord
  BY DEF AppInv, DataInv
<1>3. /\ worker'[w].pc = "reset" /\ worker'[w].crowded = worker[w].crowded
      /\ worker'[w].password = worker[w].password
      /\ \A v \in Workers : v # w => worker'[v] = worker[v]
  BY <1>1, <1>2 DEF WorkerRecord
<1>4. w \in Hashing /\ Hashing' = Hashing
  BY <1>1, <1>3 DEF Hashing
<1>5. AuthenticationExact'
  BY <1>3 DEF AuthInv, AuthenticationExact, Admitted
<1> QED
  BY <1>1, <1>3, <1>4, <1>5 DEF AuthInv, Hashing

\* The verdict is about the password that was fed, if nobody else hashed.
LEMMA VerdictKeeps ==
  ASSUME AppInv, AuthInv, NEW w \in Workers, Verdict(w)
  PROVE  AuthInv'
<1> DEFINE pc == IF digest = <<"right">> THEN "route" ELSE "refused"
<1>1. /\ worker[w].pc = "reset" /\ digest' = digest /\ engine' = <<>>
      /\ worker' = [worker EXCEPT ![w].pc = pc]
  BY DEF Verdict, WorkerAt, Advance, Emptied
<1>2. worker \in [Workers -> WorkerRecord] /\ worker[w] \in WorkerRecord
  BY DEF AppInv, DataInv
<1>3. /\ worker'[w].pc = pc /\ worker'[w].crowded = worker[w].crowded
      /\ worker'[w].password = worker[w].password
      /\ \A v \in Workers : v # w => worker'[v] = worker[v]
  BY <1>1, <1>2 DEF WorkerRecord
<1>4. w \in Hashing /\ Hashing' = Hashing \ {w}
  BY <1>1, <1>3 DEF Hashing
<1>5. ~worker[w].crowded => digest = <<worker[w].password>>
  BY <1>1, <1>4 DEF AuthInv
<1>6. Judged(worker'[w])
  <2>1. digest = <<worker[w].password>> => (digest = <<"right">> <=> worker[w].password = "right")
    OBVIOUS
  <2> QED BY <1>3, <1>5, <2>1 DEF Judged
<1>7. AuthenticationExact'
  BY <1>3, <1>6 DEF AuthInv, AuthenticationExact, Admitted, Judged
<1>8. \A v \in Hashing' : worker[v].crowded
  BY <1>4 DEF AuthInv
<1> QED
  BY <1>1, <1>3, <1>4, <1>7, <1>8 DEF AuthInv, Hashing

LEMMA AuthKeeps ==
  ASSUME AppInv, AuthInv, NEW w \in Workers, Accept(w) \/ WorkerStep(w)
  PROVE  AuthInv'
<1> DEFINE old == worker[w]
<1>w. old \in WorkerRecord /\ Judged(old)
  BY JudgedAll DEF AppInv, DataInv, AuthInv
<1>i. Idle \in WorkerRecord /\ Idle.pc = "idle" /\ Judged(Idle)
  BY DEF Idle, WorkerRecord, HandlerKinds, Judged
<1>0. CASE Accept(w)
  <2>1. PICK q \in WebRequests :
          worker' = [worker EXCEPT ![w] =
            [Idle EXCEPT !.kind = Route(q), !.user = q.user, !.password = q.password,
               !.pc = IF ~HasAccount THEN "route"
                      ELSE IF q.password = Absent THEN "refused" ELSE "update"]]
    BY <1>0 DEF Accept
  <2> DEFINE rec == [Idle EXCEPT !.kind = Route(q), !.user = q.user, !.password = q.password,
               !.pc = IF ~HasAccount THEN "route"
                      ELSE IF q.password = Absent THEN "refused" ELSE "update"]
  <2>2. /\ Route(q) \in HandlerKinds
        /\ q.user \in {"configured", "other"}
        /\ q.password \in {"right", "wrong", Absent}
    BY ApplicationAssumption DEF HandlerKinds
  <2>3. rec \in WorkerRecord /\ rec.pc \in {"route", "refused", "update"}
    BY <2>2 DEF Idle, WorkerRecord
  <2>4. Judged(rec)
    BY <2>2 DEF Judged, Idle, Absent
  <2>5. UNCHANGED <<engine, digest>> /\ w \notin Hashing
    BY <1>0 DEF Accept, WorkerAt, Hashing
  <2> QED
    BY <2>1, <2>3, <2>4, <2>5, QuietKeeps
<1>1. CASE HashUpdate(w)
  BY <1>1, UpdateKeeps
<1>2. CASE HashDigest(w)
  BY <1>2, DigestKeeps
<1>3. CASE Verdict(w)
  BY <1>3, VerdictKeeps
<1>4. CASE \/ Refuse(w) \/ HealthCheck(w) \/ StartHandler(w) \/ CallDatabase(w) \/ GetIvan(w)
           \/ PublishEvent(w)
  <2>1. UNCHANGED <<engine, digest>> /\ w \notin Hashing
    BY <1>4 DEF Refuse, HealthCheck, StartHandler, CallDatabase, GetIvan, PublishEvent,
                WorkerAt, Hashing
  <2>2. CASE Done(w)
    BY <1>i, <2>1, <2>2, QuietKeeps DEF Done
  <2>3. ASSUME NEW pc \in {"database", "downstream", "publish"}, Advance(w, pc),
               old.pc \in {"route", "database", "downstream"}
        PROVE  AuthInv'
    <3> DEFINE rec == [old EXCEPT !.pc = pc]
    <3>1. rec \in WorkerRecord /\ rec.pc \notin {"digest", "reset"} /\ Judged(rec)
      BY <1>w, <2>3 DEF WorkerRecord, Judged
    <3> QED BY <2>1, <2>3, <3>1, QuietKeeps DEF Advance
  <2> QED
    BY <1>4, <2>2, <2>3
       DEF Refuse, HealthCheck, StartHandler, CallDatabase, GetIvan, PublishEvent, WorkerAt
<1> QED
  BY <1>0, <1>1, <1>2, <1>3, <1>4 DEF WorkerStep

-----------------------------------------------------------------------------
LEMMA Begins == Init => AppInv /\ AuthInv
<1> SUFFICES ASSUME Init PROVE AppInv /\ AuthInv
  OBVIOUS
<1>1. worker = [w \in Workers |-> Idle] /\ Idle \in WorkerRecord /\ Idle.pc = "idle"
  BY DEF Init, Idle, WorkerRecord, HandlerKinds
<1>2. TypeOK
  <2>1. \A w \in Workers :
          /\ worker[w].pc = "idle" /\ worker[w].user = "other" /\ worker[w].password = Absent
    BY <1>1 DEF Idle
  <2>2. failed \in 0 .. MaxConfigAttempts + 1
    BY ApplicationAssumption DEF Init
  <2>3. members \in [{1, 2} -> SUBSET Services]
    BY DEF Init
  <2> QED
    BY <2>1, <2>2, <2>3 DEF Init, TypeOK, Parts
<1>3. DataInv /\ RegistryInv
  BY ApplicationAssumption, <1>1 DEF Init, DataInv, RegistryInv
<1>4. PartsInv
  BY DEF Init, PartsInv, Left
<1>5. ThreadInv
  BY <1>1 DEF Init, ThreadInv, UseSafe
<1>6. AuthInv
  BY <1>1 DEF Init, AuthInv, AuthenticationExact, Admitted, Hashing
<1> QED
  BY <1>2, <1>3, <1>4, <1>5, <1>6 DEF AppInv

LEMMA Continues == AppInv /\ AuthInv /\ [Next]_vars => AppInv' /\ AuthInv'
<1> SUFFICES ASSUME AppInv, AuthInv, [Next]_vars PROVE AppInv' /\ AuthInv'
  OBVIOUS
<1>1. CASE MainStep \/ Terminate
  <2>1. UNCHANGED <<worker, engine, digest>>
    BY <1>1 DEF MainStep, Terminate, LoadConfig, LoadConfigFails, TryAgain, GiveUp, Build,
         FirstUpdate, Unwind, Certificate, Register, StartThreads, Listen, ClearRunning,
         Deregister, Return, Uninitialize, EndUnwound, threads
  <2> QED
    BY <1>1, <2>1, MainKeeps DEF AuthInv, Hashing, AuthenticationExact, Admitted
<1>2. CASE LoaderUpdates \/ LoaderReloads \/ LoaderThrows
  <2>1. UNCHANGED <<worker, engine, digest>>
    BY <1>2 DEF LoaderUpdates, LoaderReloads, LoaderThrows, threads
  <2> QED
    BY <1>2, <2>1, LoaderKeeps DEF AuthInv, Hashing, AuthenticationExact, Admitted
<1>3. CASE StreamBegins \/ StreamWorks \/ StreamEnds \/ SenderWorks \/ SendersEnd
  <2>1. UNCHANGED <<worker, engine, digest>>
    BY <1>3 DEF StreamBegins, StreamWorks, StreamEnds, SenderWorks, SendersEnd
  <2> QED
    BY <1>3, <2>1, StreamKeeps DEF AuthInv, Hashing, AuthenticationExact, Admitted
<1>4. CASE \E w \in Workers : Accept(w) \/ WorkerStep(w)
  BY <1>4, WorkerKeeps, AuthKeeps
<1>5. CASE UNCHANGED vars
  <2>1. TypeOK'
    <3>1. TypeOK /\ UNCHANGED <<main, failed, destination, alive, running, registered, stuck>>
      BY <1>5 DEF vars, AppInv
    <3>2. UNCHANGED <<loader, stream, sending, current, members, worker, fault>>
      BY <1>5 DEF vars
    <3>3. \A w \in Workers :
            /\ worker'[w].pc \in {"idle", "update", "digest", "reset", "refused", "route",
                                  "database", "downstream", "publish"}
            /\ worker'[w].user \in {"configured", "other"}
            /\ worker'[w].password \in {"right", "wrong", Absent}
      BY <3>1, <3>2, Zenon DEF TypeOK
    <3>4. /\ loader' \in {"none", "updating", "loading"}
          /\ stream' \in {"none", "started", "running", "late", "ended"}
          /\ sending' \in BOOLEAN
          /\ fault' \in {"none", "worker", "loader", "stream", "late stream", "sender"}
      BY <3>1, <3>2 DEF TypeOK
    <3>5. current' \in {1, 2} /\ members' \in [{1, 2} -> SUBSET Services]
      BY <3>1, <3>2 DEF TypeOK
    <3> QED
      BY <3>1, <3>3, <3>4, <3>5 DEF TypeOK
  <2>2. DataInv' /\ PartsInv' /\ RegistryInv'
    BY <1>5 DEF vars, AppInv, DataInv, PartsInv, RegistryInv
  <2>3. ThreadInv'
    BY <1>5 DEF vars, AppInv, ThreadInv, UseSafe
  <2>4. AuthInv'
    BY <1>5 DEF vars, AuthInv, Hashing, AuthenticationExact, Admitted
  <2> QED
    BY <2>1, <2>2, <2>3, <2>4 DEF AppInv
<1> QED
  BY <1>1, <1>2, <1>3, <1>4, <1>5 DEF Next, Gone

LEMMA AlwaysInv == Spec => [](AppInv /\ AuthInv)
<1>1. Init => AppInv /\ AuthInv
  BY Begins
<1>2. (AppInv /\ AuthInv) /\ [Next]_vars => (AppInv /\ AuthInv)'
  BY Continues
<1> QED
  BY <1>1, <1>2, PTL DEF Spec

-----------------------------------------------------------------------------
\* Every variable keeps its type, whatever fails: the start counts its failures up to
\* the limit of config_attempts and never past it.
THEOREM TypeCorrect == Spec => []TypeOK
<1>1. AppInv => TypeOK
  BY DEF AppInv
<1> QED
  BY <1>1, AlwaysInv, PTL

\* Parts are built before, and destroyed after, every use that main answers for: no
\* thread uses a missing one before main has left, and after a normal end the receiver
\* of the event stream does not, either, since main waits for its flag.  The senders of
\* its pool may.
THEOREM SafeUse == Spec => []UseSafe
<1>1. AppInv => UseSafe
  BY DEF AppInv, ThreadInv
<1> QED
  BY <1>1, AlwaysInv, PTL

\* For any number of HTTP threads, and whatever earlier ones left in the HMAC engine,
\* authenticate_user admits the right password only, and refuses nobody who gives it
\* with the configured name, unless another thread hashes at the same time.
THEOREM AuthenticationIsExact == Spec => []AuthenticationExact
<1>1. AuthInv => AuthenticationExact
  BY DEF AuthInv
<1> QED
  BY <1>1, AlwaysInv, PTL

\* A normal end leaves no registration in Consul but one that could not be removed.
THEOREM RegistrationsEnd == Spec => []NoRegistrationLeft
<1>1. AppInv => NoRegistrationLeft
  BY DEF AppInv, RegistryInv, NoRegistrationLeft
<1> QED
  BY <1>1, AlwaysInv, PTL

-----------------------------------------------------------------------------
\* How many steps main has left at most: two for each failure to load the
\* configuration that it puts up with, and one for each of its stages.
StageLeft ==
  CASE main = "db"           -> 15
    [] main = "accounts"     -> 14
    [] main = "publisher"    -> 13
    [] main = "cluster"      -> 12
    [] main = "update"       -> 11
    [] main = "certificate"  -> 10
    [] main = "register"     -> 9
    [] main = "threads"      -> 8
    [] main = "listen"       -> 7
    [] main = "serving"      -> 6
    [] main = "stopping"     -> 5
    [] main = "deregister"   -> 4
    [] main = "await"        -> 3
    [] main = "unwound"      -> 2
    [] main = "uninitialize" -> 1
    [] OTHER                 -> 0

MainLeft ==
  CASE main = "configure" -> 2 * (MaxConfigAttempts + 1 - failed) + 16
    [] main = "retry"     -> 2 * (MaxConfigAttempts + 1 - failed) + 17
    [] OTHER              -> StageLeft

LEMMA MainMoves ==
  ASSUME AppInv, MainStep \/ Terminate
  PROVE  MainLeft' < MainLeft
<1>1. /\ MaxConfigAttempts \in Nat /\ failed \in 0 .. MaxConfigAttempts + 1
      /\ main = "configure" => failed <= MaxConfigAttempts
  BY ApplicationAssumption DEF AppInv, TypeOK, DataInv
<1>2. CASE LoadConfig
  <2>1. main = "configure" /\ main' = "db" /\ failed <= MaxConfigAttempts
    BY <1>1, <1>2 DEF LoadConfig, MainAt, Goto
  <2>2. MainLeft' = 15 /\ MainLeft = 2 * (MaxConfigAttempts + 1 - failed) + 16
    BY <2>1 DEF MainLeft, StageLeft
  <2> QED
    BY <1>1, <2>1, <2>2
<1>3. CASE LoadConfigFails
  <2>1. /\ main = "configure" /\ main' = "retry" /\ failed' = failed + 1
    BY <1>3 DEF LoadConfigFails, MainAt, CountFailure, Goto
  <2>2. /\ MainLeft' = 2 * (MaxConfigAttempts + 1 - (failed + 1)) + 17
        /\ MainLeft = 2 * (MaxConfigAttempts + 1 - failed) + 16
    BY <2>1 DEF MainLeft
  <2> QED
    BY <1>1, <2>2
<1>4. CASE TryAgain
  <2>1. /\ main = "retry" /\ main' = "configure" /\ failed' = failed
    BY <1>4 DEF TryAgain, MainAt, Goto
  <2>2. /\ MainLeft' = 2 * (MaxConfigAttempts + 1 - failed) + 16
        /\ MainLeft = 2 * (MaxConfigAttempts + 1 - failed) + 17
    BY <2>1 DEF MainLeft
  <2> QED
    BY <1>1, <2>2
<1>5. CASE GiveUp
  <2>1. main = "retry" /\ main' = "uninitialize"
    BY <1>5 DEF GiveUp, MainAt, LeaveMain, Goto
  <2>2. MainLeft' = 1 /\ MainLeft = 2 * (MaxConfigAttempts + 1 - failed) + 17
    BY <2>1 DEF MainLeft, StageLeft
  <2> QED
    BY <1>1, <2>2
<1>6. CASE \/ Build \/ FirstUpdate \/ Unwind \/ Certificate \/ Register \/ StartThreads
           \/ Listen \/ Terminate \/ ClearRunning \/ Deregister \/ Return \/ Uninitialize
           \/ EndUnwound
  <2>1. \/ main \in BuildSteps /\ main' = StepAfter(main)
        \/ main = "update" /\ main' \in {"certificate", "unwound"}
        \/ main = "listen" /\ main' \in {"serving", "unwound"}
        \/ main = "certificate" /\ main' \in {"register", "uninitialize"}
        \/ main = "register" /\ main' = "threads"
        \/ main = "threads" /\ main' = "listen"
        \/ main = "serving" /\ main' = "stopping"
        \/ main = "stopping" /\ main' = "deregister"
        \/ main = "deregister" /\ main' = "await"
        \/ main = "await" /\ main' = "uninitialize"
        \/ main = "uninitialize" /\ main' = "ended"
        \/ main = "unwound" /\ main' \in {"ended", "uninitialize"}
    BY <1>6 DEF Build, FirstUpdate, Unwind, Certificate, Register, StartThreads, Listen,
                Terminate, ClearRunning, Deregister, Return, Uninitialize, EndUnwound,
                MainAt, LeaveMain, Goto
  <2> QED
    BY <2>1 DEF BuildSteps, StepAfter, MainLeft, StageLeft
<1> QED
  BY <1>2, <1>3, <1>4, <1>5, <1>6 DEF MainStep

(***************************************************************************)
(* StartupEnds cannot hang on endless attempts to load the configuration,  *)
(* nor the end of main on one of its stages: but for the retries of the    *)
(* configuration main never comes back to a stage it has left, every step  *)
(* of it leaves it fewer to take, and it has at most                       *)
(* 2 * MaxConfigAttempts + 19 of them in its whole life.                   *)
(***************************************************************************)
MainLeftBounded == MainLeft \in 0 .. 2 * MaxConfigAttempts + 19

MainForward == [][/\ MainLeft' <= MainLeft
                  /\ MainStep \/ Terminate => MainLeft' < MainLeft]_vars

THEOREM MainTakesBoundedSteps == Spec => []MainLeftBounded /\ MainForward
<1>1. AppInv => MainLeftBounded
  <2> SUFFICES ASSUME AppInv PROVE MainLeftBounded
    OBVIOUS
  <2>1. MaxConfigAttempts \in Nat /\ failed \in 0 .. MaxConfigAttempts + 1
    BY ApplicationAssumption DEF AppInv, TypeOK
  <2>2. StageLeft \in 0 .. 15
    BY DEF StageLeft
  <2> QED
    BY <2>1, <2>2 DEF MainLeftBounded, MainLeft
<1>2. AppInv /\ MainLeftBounded /\ MainLeftBounded' /\ [Next]_vars =>
        [/\ MainLeft' <= MainLeft
         /\ MainStep \/ Terminate => MainLeft' < MainLeft]_vars
  <2> SUFFICES ASSUME AppInv, MainLeftBounded, MainLeftBounded', Next
               PROVE  /\ MainLeft' <= MainLeft
                      /\ MainStep \/ Terminate => MainLeft' < MainLeft
    OBVIOUS
  <2>0. MainLeft \in Nat /\ MainLeft' \in Nat
    BY ApplicationAssumption DEF MainLeftBounded
  <2>1. CASE MainStep \/ Terminate
    <3>1. MainLeft' < MainLeft
      BY <2>1, MainMoves
    <3> QED
      BY <2>0, <3>1
  <2>2. CASE ~(MainStep \/ Terminate)
    <3>1. (main' = main /\ failed' = failed) \/ main' = "aborted"
      <4>1. CASE LoaderUpdates \/ LoaderReloads \/ LoaderThrows \/ StreamBegins \/ StreamWorks
                 \/ StreamEnds \/ SenderWorks \/ SendersEnd \/ Gone
        BY <4>1 DEF LoaderUpdates, LoaderReloads, LoaderThrows, StreamBegins, StreamWorks,
                    StreamEnds, SenderWorks, SendersEnd, Gone, Goto, mains, vars
      <4>2. ASSUME NEW w \in Workers, Accept(w) \/ WorkerStep(w)
            PROVE  main' = main /\ failed' = failed
        BY <4>2 DEF Accept, WorkerStep, HashUpdate, HashDigest, Verdict, Refuse, HealthCheck,
                    StartHandler, CallDatabase, GetIvan, PublishEvent, others, mains
      <4> QED
        BY <2>2, <4>1, <4>2 DEF Next
    <3>2. MainLeft' = MainLeft \/ MainLeft' = 0
      BY <3>1 DEF MainLeft, StageLeft
    <3> QED
      BY <2>0, <2>2, <3>2
  <2> QED
    BY <2>1, <2>2
<1> QED
  BY <1>1, <1>2, AlwaysInv, PTL DEF Spec, MainForward

-----------------------------------------------------------------------------
(***************************************************************************)
(* Routing, for paths of any length: a documented path has the segments    *)
(* that its endpoint spells out, and any others in the free places.        *)
(***************************************************************************)
\* What an endpoint has at a place, or at all of its own, meets what is given there.
Meets(segment, given) == segment \in {Free, given}
Covers(path, pattern) == \A i \in 1 .. Len(pattern) : Meets(pattern[i], path[i])

LEMMA FitsWhole ==
  ASSUME NEW S, NEW path \in Seq(S), NEW pattern \in Seq(S)
  PROVE  Fits(path, pattern) <=> Len(path) = Len(pattern) /\ Covers(path, pattern)
BY DEF Fits, Covers, Meets

LEMMA CoversTwo ==
  ASSUME NEW S, NEW a \in S, NEW b \in S, NEW path \in Seq(S)
  PROVE  /\ <<a, b>> \in Seq(S) /\ Len(<<a, b>>) = 2
         /\ Covers(path, <<a, b>>) <=> Meets(a, path[1]) /\ Meets(b, path[2])
<1>1. <<a, b>> \in Seq(S) /\ Len(<<a, b>>) = 2
  OBVIOUS
<1>2. Covers(path, <<a, b>>) <=> Meets(a, path[1]) /\ Meets(b, path[2])
  BY <1>1 DEF Covers, Meets
<1> QED
  BY <1>1, <1>2

LEMMA CoversThree ==
  ASSUME NEW S, NEW a \in S, NEW b \in S, NEW c \in S, NEW path \in Seq(S)
  PROVE  /\ <<a, b, c>> \in Seq(S) /\ Len(<<a, b, c>>) = 3
         /\ Covers(path, <<a, b, c>>)
              <=> Meets(a, path[1]) /\ Meets(b, path[2]) /\ Meets(c, path[3])
<1>1. <<a, b, c>> \in Seq(S) /\ Len(<<a, b, c>>) = 3
  OBVIOUS
<1>2. Covers(path, <<a, b, c>>)
        <=> Meets(a, path[1]) /\ Meets(b, path[2]) /\ Meets(c, path[3])
  BY <1>1 DEF Covers, Meets
<1> QED
  BY <1>1, <1>2

LEMMA CoversOneMore ==
  ASSUME NEW S, NEW path \in Seq(S), NEW pattern \in Seq(S), NEW a \in S
  PROVE  /\ pattern \o <<a>> \in Seq(S) /\ Len(pattern \o <<a>>) = Len(pattern) + 1
         /\ Covers(path, pattern \o <<a>>)
              <=> Covers(path, pattern) /\ Meets(a, path[Len(pattern) + 1])
<1>1. /\ pattern \o <<a>> \in Seq(S) /\ Len(pattern \o <<a>>) = Len(pattern) + 1
      /\ \A i \in 1 .. Len(pattern) : (pattern \o <<a>>)[i] = pattern[i]
      /\ (pattern \o <<a>>)[Len(pattern) + 1] = a
  OBVIOUS
<1> QED
  BY <1>1 DEF Covers

LEMMA CoversTwoMore ==
  ASSUME NEW S, NEW path \in Seq(S), NEW pattern \in Seq(S), NEW a \in S, NEW b \in S
  PROVE  /\ pattern \o <<a, b>> \in Seq(S) /\ Len(pattern \o <<a, b>>) = Len(pattern) + 2
         /\ Covers(path, pattern \o <<a, b>>)
              <=> /\ Covers(path, pattern) /\ Meets(a, path[Len(pattern) + 1])
                  /\ Meets(b, path[Len(pattern) + 2])
<1>1. /\ pattern \o <<a, b>> \in Seq(S) /\ Len(pattern \o <<a, b>>) = Len(pattern) + 2
      /\ \A i \in 1 .. Len(pattern) : (pattern \o <<a, b>>)[i] = pattern[i]
      /\ (pattern \o <<a, b>>)[Len(pattern) + 1] = a
      /\ (pattern \o <<a, b>>)[Len(pattern) + 2] = b
  OBVIOUS
<1> QED
  BY <1>1 DEF Covers

\* The words of the documented paths.
Words == Resources \union {"v1", "query", "action", "keyframe", "lock", "asset", "health", Free}

\* A path of n segments for a resource.
For(path, r, n) == Len(path) = n /\ path[1] = "v1" /\ path[2] = r

LEMMA PathFits ==
  ASSUME NEW S, Words \subseteq S, NEW path \in Seq(S), NEW r \in Resources
  PROVE  LET one    == <<"v1", r, Free>>
             action == one \o <<"action">>
             frame  == action \o <<Free, "keyframe">>
         IN /\ Fits(path, <<"v1", r>>) <=> For(path, r, 2)
            /\ Fits(path, one) <=> For(path, r, 3)
            /\ Fits(path, <<"v1", r, "query">>) <=> For(path, r, 3) /\ path[3] = "query"
            /\ Fits(path, action) <=> For(path, r, 4) /\ path[4] = "action"
            /\ Fits(path, action \o <<Free>>) <=> For(path, r, 5) /\ path[4] = "action"
            /\ Fits(path, frame)
                 <=> For(path, r, 6) /\ path[4] = "action" /\ path[6] = "keyframe"
            /\ Fits(path, frame \o <<Free>>)
                 <=> For(path, r, 7) /\ path[4] = "action" /\ path[6] = "keyframe"
<1> DEFINE one    == <<"v1", r, Free>>
           action == one \o <<"action">>
           frame  == action \o <<Free, "keyframe">>
           Root   == path[1] = "v1" /\ path[2] = r
<1>0. /\ \A x : Meets(Free, x)
      /\ \A x : Meets(r, x) <=> x = r
      /\ \A x : Meets("v1", x) <=> x = "v1"
      /\ \A x : Meets("query", x) <=> x = "query"
      /\ \A x : Meets("action", x) <=> x = "action"
      /\ \A x : Meets("keyframe", x) <=> x = "keyframe"
  BY DEF Resources, Free, Meets
<1>1. /\ r \in S /\ Free \in S /\ "v1" \in S
      /\ "query" \in S /\ "action" \in S /\ "keyframe" \in S
  BY DEF Words
<1>2. /\ <<"v1", r>> \in Seq(S) /\ Len(<<"v1", r>>) = 2
      /\ Covers(path, <<"v1", r>>) <=> Root
  BY <1>0, <1>1, CoversTwo
<1>3. /\ <<"v1", r, "query">> \in Seq(S) /\ Len(<<"v1", r, "query">>) = 3
      /\ Covers(path, <<"v1", r, "query">>) <=> Root /\ path[3] = "query"
  BY <1>0, <1>1, CoversThree
<1>4. one \in Seq(S) /\ Len(one) = 3 /\ (Covers(path, one) <=> Root)
  BY <1>0, <1>1, CoversThree
<1> HIDE DEF one
<1>5. /\ action \in Seq(S) /\ Len(action) = 4
      /\ Covers(path, action) <=> Root /\ path[4] = "action"
  <2>1. /\ one \o <<"action">> \in Seq(S) /\ Len(one \o <<"action">>) = Len(one) + 1
        /\ Covers(path, one \o <<"action">>)
             <=> Covers(path, one) /\ Meets("action", path[Len(one) + 1])
    BY <1>1, <1>4, CoversOneMore, Zenon
  <2> QED
    BY <1>0, <1>4, <2>1
<1> HIDE DEF action
<1>6. /\ action \o <<Free>> \in Seq(S) /\ Len(action \o <<Free>>) = 5
      /\ Covers(path, action \o <<Free>>) <=> Root /\ path[4] = "action"
  <2>1. /\ action \o <<Free>> \in Seq(S) /\ Len(action \o <<Free>>) = Len(action) + 1
        /\ Covers(path, action \o <<Free>>)
             <=> Covers(path, action) /\ Meets(Free, path[Len(action) + 1])
    BY <1>1, <1>5, CoversOneMore, Zenon
  <2> QED
    BY <1>0, <1>5, <2>1
<1>7. /\ frame \in Seq(S) /\ Len(frame) = 6
      /\ Covers(path, frame) <=> Root /\ path[4] = "action" /\ path[6] = "keyframe"
  <2>1. /\ frame \in Seq(S) /\ Len(frame) = Len(action) + 2
        /\ Covers(path, frame) <=> /\ Covers(path, action) /\ Meets(Free, path[Len(action) + 1])
                                  /\ Meets("keyframe", path[Len(action) + 2])
    BY <1>1, <1>5, CoversTwoMore, Zenon
  <2> QED
    BY <1>0, <1>5, <2>1
<1> HIDE DEF frame
<1>8. /\ frame \o <<Free>> \in Seq(S) /\ Len(frame \o <<Free>>) = 7
      /\ Covers(path, frame \o <<Free>>) <=> Root /\ path[4] = "action" /\ path[6] = "keyframe"
  <2>1. /\ frame \o <<Free>> \in Seq(S) /\ Len(frame \o <<Free>>) = Len(frame) + 1
        /\ Covers(path, frame \o <<Free>>)
             <=> Covers(path, frame) /\ Meets(Free, path[Len(frame) + 1])
    BY <1>1, <1>7, CoversOneMore, Zenon
  <2> QED
    BY <1>0, <1>7, <2>1
<1>9. Fits(path, <<"v1", r>>) <=> For(path, r, 2)
  BY <1>2, FitsWhole DEF For
<1>10. Fits(path, one) <=> For(path, r, 3)
  BY <1>4, FitsWhole DEF For
<1>11. Fits(path, <<"v1", r, "query">>) <=> For(path, r, 3) /\ path[3] = "query"
  BY <1>3, FitsWhole DEF For
<1>12. Fits(path, action) <=> For(path, r, 4) /\ path[4] = "action"
  BY <1>5, FitsWhole DEF For
<1>13. Fits(path, action \o <<Free>>) <=> For(path, r, 5) /\ path[4] = "action"
  BY <1>6, FitsWhole DEF For
<1>14. Fits(path, frame) <=> For(path, r, 6) /\ path[4] = "action" /\ path[6] = "keyframe"
  BY <1>7, FitsWhole DEF For
<1>15. Fits(path, frame \o <<Free>>)
         <=> For(path, r, 7) /\ path[4] = "action" /\ path[6] = "keyframe"
  BY <1>8, FitsWhole DEF For
<1> QED
  BY <1>9, <1>10, <1>11, <1>12, <1>13, <1>14, <1>15, Zenon DEF one, action, frame

LEMMA OtherPathFits ==
  ASSUME NEW S, Words \subseteq S, NEW path \in Seq(S)
  PROVE  /\ Fits(path, <<"v1", "object", Free, "lock">>)
              <=> For(path, "object", 4) /\ path[4] = "lock"
         /\ Fits(path, <<"v1", "object", Free, "asset", Free>>)
              <=> For(path, "object", 5) /\ path[4] = "asset"
         /\ Fits(path, <<"health">>) <=> path = <<"health">>
<1>0. /\ \A x : Meets(Free, x)
      /\ \A x : Meets("v1", x) <=> x = "v1"
      /\ \A x : Meets("object", x) <=> x = "object"
      /\ \A x : Meets("lock", x) <=> x = "lock"
      /\ \A x : Meets("asset", x) <=> x = "asset"
      /\ \A x : Meets("health", x) <=> x = "health"
  BY DEF Resources, Free, Meets
<1>1. ASSUME NEW a \in S, NEW b \in S, NEW c \in S, NEW d \in S, NEW e \in S
      PROVE  /\ Covers(path, <<a, b, c, d>>)
                  <=> /\ Meets(a, path[1]) /\ Meets(b, path[2]) /\ Meets(c, path[3])
                      /\ Meets(d, path[4])
             /\ Covers(path, <<a, b, c, d, e>>)
                  <=> /\ Meets(a, path[1]) /\ Meets(b, path[2]) /\ Meets(c, path[3])
                      /\ Meets(d, path[4]) /\ Meets(e, path[5])
             /\ <<a, b, c, d>> \in Seq(S) /\ Len(<<a, b, c, d>>) = 4
             /\ <<a, b, c, d, e>> \in Seq(S) /\ Len(<<a, b, c, d, e>>) = 5
  <2>1. <<a, b, c, d>> \in Seq(S) /\ Len(<<a, b, c, d>>) = 4
    OBVIOUS
  <2>2. <<a, b, c, d, e>> \in Seq(S) /\ Len(<<a, b, c, d, e>>) = 5
    OBVIOUS
  <2>3. Covers(path, <<a, b, c, d>>)
          <=> /\ Meets(a, path[1]) /\ Meets(b, path[2]) /\ Meets(c, path[3])
              /\ Meets(d, path[4])
    BY <2>1 DEF Covers, Meets
  <2>4. Covers(path, <<a, b, c, d, e>>)
          <=> /\ Meets(a, path[1]) /\ Meets(b, path[2]) /\ Meets(c, path[3])
              /\ Meets(d, path[4]) /\ Meets(e, path[5])
    BY <2>2 DEF Covers, Meets
  <2> QED
    BY <2>1, <2>2, <2>3, <2>4
<1>2. /\ "v1" \in S /\ "object" \in S /\ Free \in S /\ "lock" \in S /\ "asset" \in S
      /\ "health" \in S
  BY DEF Words, Resources
<1>3. Fits(path, <<"v1", "object", Free, "lock">>)
        <=> For(path, "object", 4) /\ path[4] = "lock"
  <2> DEFINE pattern == <<"v1", "object", Free, "lock">>
  <2>1. /\ pattern \in Seq(S) /\ Len(pattern) = 4
        /\ Covers(path, pattern) <=> /\ Meets("v1", path[1]) /\ Meets("object", path[2])
                                    /\ Meets(Free, path[3]) /\ Meets("lock", path[4])
    BY <1>1, <1>2, Zenon
  <2> HIDE DEF pattern
  <2>2. Fits(path, pattern) <=> For(path, "object", 4) /\ path[4] = "lock"
    BY <1>0, <2>1, FitsWhole DEF For
  <2> QED
    BY <2>2 DEF pattern
<1>4. Fits(path, <<"v1", "object", Free, "asset", Free>>)
        <=> For(path, "object", 5) /\ path[4] = "asset"
  <2> DEFINE pattern == <<"v1", "object", Free, "asset", Free>>
  <2>1. /\ pattern \in Seq(S) /\ Len(pattern) = 5
        /\ Covers(path, pattern) <=> /\ Meets("v1", path[1]) /\ Meets("object", path[2])
                                    /\ Meets(Free, path[3]) /\ Meets("asset", path[4])
                                    /\ Meets(Free, path[5])
    BY <1>1, <1>2, Zenon
  <2> HIDE DEF pattern
  <2>2. Fits(path, pattern) <=> For(path, "object", 5) /\ path[4] = "asset"
    BY <1>0, <2>1, FitsWhole DEF For
  <2> QED
    BY <2>2 DEF pattern
<1>5. Fits(path, <<"health">>) <=> path = <<"health">>
  <2>1. ASSUME NEW word \in S PROVE <<word>> \in Seq(S) /\ Len(<<word>>) = 1 /\ <<word>>[1] = word
    OBVIOUS
  <2>2. <<"health">> \in Seq(S) /\ Len(<<"health">>) = 1 /\ <<"health">>[1] = "health"
    BY <1>2, <2>1, Zenon
  <2>3. Len(path) = 1 /\ path[1] = "health" => path = <<"health">>
    BY <2>2
  <2>4. Fits(path, <<"health">>) <=> Len(path) = 1 /\ Covers(path, <<"health">>)
    BY <2>2, FitsWhole
  <2>5. Covers(path, <<"health">>) <=> path[1] = "health"
    BY <1>0, <2>2 DEF Covers
  <2> QED
    BY <2>2, <2>3, <2>4, <2>5
<1> QED
  BY <1>3, <1>4, <1>5

\* What the documentation asks for, one kind of handler after the other.
Asks(method, path, r, kind) ==
  \/ kind = "create" /\ method = "POST" /\ For(path, r, 2)
  \/ kind = "update" /\ method = "POST" /\ For(path, r, 3)
  \/ kind = "get" /\ method = "GET" /\ For(path, r, 3)
  \/ kind = "delete" /\ method = "DELETE" /\ For(path, r, 3)
  \/ kind = "query" /\ method = "GET" /\ For(path, r, 3) /\ path[3] = "query"
  \/ kind = "action_create" /\ method = "POST" /\ For(path, r, 4) /\ path[4] = "action"
  \/ kind = "action_update" /\ method = "POST" /\ For(path, r, 5) /\ path[4] = "action"
  \/ kind = "action_delete" /\ method = "DELETE" /\ For(path, r, 5) /\ path[4] = "action"
  \/ /\ kind = "frame_create" /\ method = "POST" /\ For(path, r, 6)
     /\ path[4] = "action" /\ path[6] = "keyframe"
  \/ /\ kind = "frame_update" /\ method = "POST" /\ For(path, r, 7)
     /\ path[4] = "action" /\ path[6] = "keyframe"
  \/ /\ kind = "frame_delete" /\ method = "DELETE" /\ For(path, r, 7)
     /\ path[4] = "action" /\ path[6] = "keyframe"

LEMMA AskedOfResource ==
  ASSUME NEW S, Words \subseteq S, NEW path \in Seq(S), NEW r \in Resources,
         NEW method, NEW kind
  PROVE  (\E d \in EndpointsOf(r) : d.method = method /\ Fits(path, d.path) /\ d.kind = kind)
           <=> Asks(method, path, r, kind)
<1> DEFINE one    == <<"v1", r, Free>>
           action == one \o <<"action">>
           frame  == action \o <<Free, "keyframe">>
<1>1. /\ Fits(path, <<"v1", r>>) <=> For(path, r, 2)
      /\ Fits(path, one) <=> For(path, r, 3)
      /\ Fits(path, <<"v1", r, "query">>) <=> For(path, r, 3) /\ path[3] = "query"
      /\ Fits(path, action) <=> For(path, r, 4) /\ path[4] = "action"
      /\ Fits(path, action \o <<Free>>) <=> For(path, r, 5) /\ path[4] = "action"
      /\ Fits(path, frame)
           <=> For(path, r, 6) /\ path[4] = "action" /\ path[6] = "keyframe"
      /\ Fits(path, frame \o <<Free>>)
           <=> For(path, r, 7) /\ path[4] = "action" /\ path[6] = "keyframe"
  BY PathFits, Zenon
<1> DEFINE two == <<"v1", r>>
           asked == <<"v1", r, "query">>
           deed == action \o <<Free>>
           still == frame \o <<Free>>
<1>2. EndpointsOf(r) =
        {Endpoint("POST", two, "create"),
         Endpoint("POST", one, "update"),
         Endpoint("GET", one, "get"),
         Endpoint("DELETE", one, "delete"),
         Endpoint("GET", asked, "query"),
         Endpoint("POST", action, "action_create"),
         Endpoint("POST", deed, "action_update"),
         Endpoint("DELETE", deed, "action_delete"),
         Endpoint("POST", frame, "frame_create"),
         Endpoint("POST", still, "frame_update"),
         Endpoint("DELETE", still, "frame_delete")}
  BY Zenon DEF EndpointsOf
<1> HIDE DEF one, action, frame, two, asked, deed, still
<1>3. \A m, p, k : LET d == Endpoint(m, p, k) IN d.method = m /\ d.path = p /\ d.kind = k
  BY DEF Endpoint
<1>4. (\E d \in EndpointsOf(r) : d.method = method /\ Fits(path, d.path) /\ d.kind = kind)
        <=> \/ kind = "create" /\ method = "POST" /\ Fits(path, two)
            \/ kind = "update" /\ method = "POST" /\ Fits(path, one)
            \/ kind = "get" /\ method = "GET" /\ Fits(path, one)
            \/ kind = "delete" /\ method = "DELETE" /\ Fits(path, one)
            \/ kind = "query" /\ method = "GET" /\ Fits(path, asked)
            \/ kind = "action_create" /\ method = "POST" /\ Fits(path, action)
            \/ kind = "action_update" /\ method = "POST" /\ Fits(path, deed)
            \/ kind = "action_delete" /\ method = "DELETE" /\ Fits(path, deed)
            \/ kind = "frame_create" /\ method = "POST" /\ Fits(path, frame)
            \/ kind = "frame_update" /\ method = "POST" /\ Fits(path, still)
            \/ kind = "frame_delete" /\ method = "DELETE" /\ Fits(path, still)
  BY <1>2, <1>3
<1> QED
  BY <1>1, <1>4 DEF Asks, two, asked, deed, still

\* All that the documentation asks for.
AsksFor(request, kind) ==
  LET method == request.method
      path   == request.path
  IN \/ \E r \in Resources : Asks(method, path, r, kind)
     \/ /\ kind = "lock" /\ method = "GET" /\ request.device
        /\ For(path, "object", 4) /\ path[4] = "lock"
     \/ /\ kind = "unlock" /\ method = "DELETE" /\ request.device
        /\ For(path, "object", 4) /\ path[4] = "lock"
     \/ kind = "asset_add" /\ method = "PUT" /\ For(path, "object", 5) /\ path[4] = "asset"
     \/ /\ kind = "asset_remove" /\ method = "DELETE"
        /\ For(path, "object", 5) /\ path[4] = "asset"
     \/ kind = "health" /\ method = "GET" /\ path = <<"health">>

LEMMA AskedFor ==
  ASSUME NEW S, Words \subseteq S, NEW request, request.path \in Seq(S), NEW kind
  PROVE  kind \in Documented(request) <=> AsksFor(request, kind)
<1> DEFINE method == request.method
           path   == request.path
           lock   == <<"v1", "object", Free, "lock">>
           asset  == <<"v1", "object", Free, "asset", Free>>
           health == <<"health">>
           rest == {Endpoint("GET", lock, "lock"), Endpoint("DELETE", lock, "unlock"),
                      Endpoint("PUT", asset, "asset_add"),
                      Endpoint("DELETE", asset, "asset_remove"),
                      Endpoint("GET", health, "health")}
           Chosen(d) == d.method = method /\ Fits(path, d.path) /\ d.kind = kind
<1>1. /\ Fits(path, lock) <=> For(path, "object", 4) /\ path[4] = "lock"
      /\ Fits(path, asset) <=> For(path, "object", 5) /\ path[4] = "asset"
      /\ Fits(path, health) <=> path = health
  BY OtherPathFits, Zenon
<1>2. \A r \in Resources :
        (\E d \in EndpointsOf(r) : Chosen(d)) <=> Asks(method, path, r, kind)
  BY AskedOfResource, Zenon
<1>3. Endpoints = EndpointsOf("object") \union EndpointsOf("property") \union rest
  BY Zenon DEF Endpoints
<1>4. kind \in Documented(request)
        <=> \E d \in Endpoints : Chosen(d) /\ (kind \in {"lock", "unlock"} => request.device)
  BY Zenon DEF Documented
<1> HIDE DEF lock, asset, health
<1>5. \A m, p, k : LET d == Endpoint(m, p, k) IN d.method = m /\ d.path = p /\ d.kind = k
  BY DEF Endpoint
<1>6. (\E d \in rest : Chosen(d))
        <=> \/ kind = "lock" /\ method = "GET" /\ Fits(path, lock)
            \/ kind = "unlock" /\ method = "DELETE" /\ Fits(path, lock)
            \/ kind = "asset_add" /\ method = "PUT" /\ Fits(path, asset)
            \/ kind = "asset_remove" /\ method = "DELETE" /\ Fits(path, asset)
            \/ kind = "health" /\ method = "GET" /\ Fits(path, health)
  BY <1>5
<1> HIDE DEF rest, Chosen
<1>7. kind \in Documented(request)
        <=> /\ \/ \E r \in Resources : Asks(method, path, r, kind)
               \/ \E d \in rest : Chosen(d)
            /\ kind \in {"lock", "unlock"} => request.device
  <2>1. Resources = {"object", "property"}
    BY DEF Resources
  <2> QED
    BY <1>2, <1>3, <1>4, <2>1
<1>8. kind \in {"lock", "unlock"} => ~\E r \in Resources : Asks(method, path, r, kind)
  BY DEF Asks
<1> QED
  BY <1>1, <1>6, <1>7, <1>8 DEF AsksFor, health

LEMMA Posted ==
  ASSUME NEW path
  PROVE  /\ Len(path) = 2 => PostRoute(path) = "create"
         /\ Len(path) = 3 /\ path[3] # "query" => PostRoute(path) = "update"
         /\ Len(path) = 3 /\ path[3] = "query" => PostRoute(path) = "query"
         /\ OnAction(path, 4) => PostRoute(path) = "action_create"
         /\ OnAction(path, 5) => PostRoute(path) = "action_update"
         /\ OnFrame(path, 6) => PostRoute(path) = "frame_create"
         /\ OnFrame(path, 7) => PostRoute(path) = "frame_update"
         /\ \/ Len(path) \in {2, 3} \/ OnAction(path, 4) \/ OnAction(path, 5)
            \/ OnFrame(path, 6) \/ OnFrame(path, 7)
            \/ PostRoute(path) = "none"
<1>1. Len(path) = 2 => PostRoute(path) = "create"
  BY DEF PostRoute, OnAction, OnFrame
<1>2. Len(path) = 3 /\ path[3] # "query" => PostRoute(path) = "update"
  BY DEF PostRoute, OnAction, OnFrame
<1>3. Len(path) = 3 /\ path[3] = "query" => PostRoute(path) = "query"
  BY DEF PostRoute, OnAction, OnFrame
<1>4. OnAction(path, 4) => PostRoute(path) = "action_create"
  BY DEF PostRoute, OnAction, OnFrame
<1>5. OnAction(path, 5) => PostRoute(path) = "action_update"
  BY DEF PostRoute, OnAction, OnFrame
<1>6. OnFrame(path, 6) => PostRoute(path) = "frame_create"
  BY DEF PostRoute, OnAction, OnFrame
<1>7. OnFrame(path, 7) => PostRoute(path) = "frame_update"
  BY DEF PostRoute, OnAction, OnFrame
<1>8. \/ Len(path) \in {2, 3} \/ OnAction(path, 4) \/ OnAction(path, 5)
      \/ OnFrame(path, 6) \/ OnFrame(path, 7)
      \/ PostRoute(path) = "none"
  BY DEF PostRoute
<1> QED
  BY <1>1, <1>2, <1>3, <1>4, <1>5, <1>6, <1>7, <1>8

(***************************************************************************)
(* Routing.  Every request but a query, and but those that have more       *)
(* segments behind a lock, gets the handler that the documentation names,  *)
(* or none if it names none, however long its path is and whatever stands  *)
(* in it.                                                                  *)
(***************************************************************************)
THEOREM RoutedByDocumentation ==
  ASSUME NEW Segments, NEW request, request.path \in Seq(Segments),
         request.device \in BOOLEAN
  PROVE  RoutedAsDocumented(request)
<1> DEFINE S == Segments \union Words
<1>0. PICK path : path = request.path
  OBVIOUS
<1>1. path \in Seq(S) /\ Words \subseteq S
  BY <1>0
<1> HIDE DEF S
<1> SUFFICES ASSUME ~Query(request), ~LongLock(request)
             PROVE  IF Documented(request) = {} THEN Route(request) = "none"
                    ELSE Documented(request) = {Route(request)}
  BY DEF RoutedAsDocumented
<1>2. \A kind : kind \in Documented(request) <=> AsksFor(request, kind)
  BY <1>0, <1>1, AskedFor, Zenon
<1>3. /\ Len(path) \in Nat /\ (path = <<"health">> => Len(path) = 1)
      /\ ~(Len(path) = 3 /\ path[3] = "query" /\ request.method \in {"GET", "POST"})
      /\ ~(Len(path) > 4 /\ path[4] = "lock")
  <2>1. Len(<<"health">>) = 1
    OBVIOUS
  <2>2. Len(path) \in Nat
    BY <1>1
  <2>3. ~(Len(path) = 3 /\ path[3] = "query" /\ request.method \in {"GET", "POST"})
    BY <1>0 DEF Query
  <2>4. ~(Len(path) > 4 /\ path[4] = "lock")
    BY <1>0 DEF LongLock
  <2> QED
    BY <2>1, <2>2, <2>3, <2>4
<1>4. Resources = {"object", "property"}
  BY DEF Resources
<1>5. ASSUME NEW r \in Resources, NEW kind, Asks(request.method, path, r, kind)
      PROVE  kind = Route(request)
  <2>1. Len(path) > 1 /\ path[1] = "v1" /\ path[2] = r /\ path # <<"health">>
    BY <1>3, <1>5 DEF Asks, For
  <2>2. CASE request.method = "POST"
    <3>1. Route(request) = PostRoute(path)
      BY <1>0, <1>3, <2>1, <2>2 DEF Route
    <3>2. kind = PostRoute(path)
      <4>1. \/ kind = "create" /\ Len(path) = 2
            \/ kind = "update" /\ Len(path) = 3 /\ path[3] # "query"
            \/ kind = "action_create" /\ OnAction(path, 4)
            \/ kind = "action_update" /\ OnAction(path, 5)
            \/ kind = "frame_create" /\ OnFrame(path, 6)
            \/ kind = "frame_update" /\ OnFrame(path, 7)
        BY <1>3, <1>5, <2>2 DEF Asks, For, OnAction, OnFrame
      <4> QED
        BY <4>1, Posted
    <3> QED
      BY <3>1, <3>2
  <2>3. CASE request.method = "GET"
    <3>1. Route(request) = GetRoute(path, request.device)
      BY <1>0, <1>3, <2>1, <2>3 DEF Route
    <3>2. kind = GetRoute(path, request.device)
      BY <1>3, <1>5, <2>3 DEF Asks, For, GetRoute, OnLock
    <3> QED
      BY <3>1, <3>2
  <2>4. CASE request.method = "DELETE"
    <3>1. Route(request) = DeleteRoute(path, request.device)
      BY <1>0, <1>3, <2>1, <2>4 DEF Route
    <3>2. kind = DeleteRoute(path, request.device)
      BY <1>3, <1>5, <2>4 DEF Asks, For, DeleteRoute, OnLock, OnAsset, OnAction, OnFrame
    <3> QED
      BY <3>1, <3>2
  <2> QED
    BY <1>5, <2>2, <2>3, <2>4 DEF Asks
<1>6. ASSUME NEW kind, AsksFor(request, kind)
      PROVE  kind = Route(request)
  <2>1. CASE \E r \in Resources : Asks(request.method, path, r, kind)
    BY <1>5, <2>1
  <2>2. CASE ~\E r \in Resources : Asks(request.method, path, r, kind)
    <3>1. \/ kind = "health" /\ request.method = "GET" /\ path = <<"health">>
          \/ /\ Len(path) = 4 /\ path[1] = "v1" /\ path[2] = "object" /\ path[4] = "lock"
             /\ request.device
             /\ \/ kind = "lock" /\ request.method = "GET"
                \/ kind = "unlock" /\ request.method = "DELETE"
          \/ /\ Len(path) = 5 /\ path[1] = "v1" /\ path[2] = "object" /\ path[4] = "asset"
             /\ \/ kind = "asset_add" /\ request.method = "PUT"
                \/ kind = "asset_remove" /\ request.method = "DELETE"
      BY <1>0, <1>6, <2>2, Zenon DEF AsksFor, For
    <3>2. CASE kind = "health"
      BY <1>0, <3>1, <3>2 DEF Route
    <3>3. CASE kind # "health"
      <4>1. /\ path # <<"health">> /\ Len(path) > 1 /\ path[1] = "v1" /\ path[2] \in Resources
        BY <1>3, <1>4, <3>1, <3>3
      <4> QED
        <5>1. CASE request.method = "GET"
          BY <1>0, <3>1, <3>3, <4>1, <5>1 DEF Route, GetRoute, OnLock
        <5>2. CASE request.method = "DELETE"
          <6>1. Route(request) = DeleteRoute(path, request.device)
            BY <1>0, <4>1, <5>2 DEF Route
          <6> QED
            BY <3>1, <3>3, <5>2, <6>1 DEF DeleteRoute, OnLock, OnAsset, OnAction, OnFrame
        <5>3. CASE request.method = "PUT"
          BY <1>0, <3>1, <3>3, <4>1, <5>3 DEF Route, PutRoute, OnAsset
        <5> QED
          BY <3>1, <3>3, <5>1, <5>2, <5>3
    <3> QED
      BY <3>2, <3>3
  <2> QED
    BY <2>1, <2>2
<1>7. Route(request) # "none" => AsksFor(request, Route(request))
  <2> SUFFICES ASSUME Route(request) # "none" PROVE AsksFor(request, Route(request))
    OBVIOUS
  <2>1. CASE path = <<"health">>
    BY <1>0, <1>3, <2>1 DEF Route, AsksFor
  <2>2. CASE path # <<"health">>
    <3>1. Len(path) > 1 /\ path[1] = "v1" /\ path[2] \in Resources
      BY <1>0, <2>2 DEF Route
    <3>2. CASE request.method = "POST"
      <4>1. Route(request) = PostRoute(path)
        BY <1>0, <1>3, <2>2, <3>1, <3>2 DEF Route
      <4>2. Asks(request.method, path, path[2], PostRoute(path))
        <5>0. ~(Len(path) = 3 /\ path[3] = "query")
          BY <1>3, <3>2
        <5>1. \/ Len(path) = 2
              \/ Len(path) = 3 /\ path[3] # "query"
              \/ OnAction(path, 4) \/ OnAction(path, 5) \/ OnFrame(path, 6) \/ OnFrame(path, 7)
          <6>1. PostRoute(path) # "none"
            BY <4>1
          <6>2. \/ Len(path) \in {2, 3} \/ OnAction(path, 4) \/ OnAction(path, 5)
                \/ OnFrame(path, 6) \/ OnFrame(path, 7)
            BY <6>1, Posted, Zenon
          <6> QED
            BY <5>0, <6>2
        <5> QED
          BY <3>1, <3>2, <5>1, Posted DEF OnAction, OnFrame, Asks, For
      <4> QED
        BY <1>0, <3>1, <4>1, <4>2 DEF AsksFor
    <3>3. CASE request.method = "GET"
      <4>1. Route(request) = GetRoute(path, request.device)
        BY <1>0, <1>3, <2>2, <3>1, <3>3 DEF Route
      <4> QED
        <5>1. CASE OnLock(path)
          <6>1. Len(path) = 4
            <7>1. PICK n \in Nat : n = Len(path) /\ ~(n > 4 /\ path[4] = "lock")
              BY <1>3
            <7>2. n = 4
              BY <5>1, <7>1 DEF OnLock
            <7> QED
              BY <7>1, <7>2
          <6> QED
            BY <1>0, <3>1, <3>3, <4>1, <5>1, <6>1 DEF GetRoute, OnLock, AsksFor, For
        <5>2. CASE ~OnLock(path)
          <6>1. Len(path) = 3 /\ Route(request) = "get"
            BY <4>1, <5>2 DEF GetRoute
          <6>2. Asks(request.method, path, path[2], "get")
            BY <3>1, <3>3, <6>1 DEF Asks, For
          <6> QED
            BY <1>0, <3>1, <6>1, <6>2 DEF AsksFor
        <5> QED
          BY <5>1, <5>2
    <3>4. CASE request.method = "DELETE"
      <4>1. Route(request) = DeleteRoute(path, request.device)
        BY <1>0, <1>3, <2>2, <3>1, <3>4 DEF Route
      <4> QED
        <5>1. CASE OnLock(path)
          <6>1. Len(path) = 4
            <7>1. PICK n \in Nat : n = Len(path) /\ ~(n > 4 /\ path[4] = "lock")
              BY <1>3
            <7>2. n = 4
              BY <5>1, <7>1 DEF OnLock
            <7> QED
              BY <7>1, <7>2
          <6> QED
            BY <1>0, <3>1, <3>4, <4>1, <5>1, <6>1 
            DEF DeleteRoute, OnLock, OnAsset, OnAction, OnFrame, AsksFor, For
        <5>2. CASE ~OnLock(path) /\ OnAsset(path)
          BY <1>0, <3>1, <3>4, <4>1, <5>2
          DEF DeleteRoute, OnLock, OnAsset, OnAction, OnFrame, AsksFor, For
        <5>3. CASE ~OnLock(path) /\ ~OnAsset(path)
          <6>1. Asks(request.method, path, path[2], Route(request))
            BY <3>1, <3>4, <4>1, <5>3 DEF DeleteRoute, OnAction, OnFrame, Asks, For
          <6> QED
            BY <1>0, <3>1, <6>1 DEF AsksFor
        <5> QED
          BY <5>1, <5>2, <5>3
    <3>5. CASE request.method = "PUT"
      BY <1>0, <1>3, <2>2, <3>1, <3>5 DEF Route, PutRoute, OnAsset, AsksFor, For
    <3> QED
      BY <1>0, <2>2, <3>2, <3>3, <3>4, <3>5 DEF Route
  <2> QED
    BY <2>1, <2>2
<1>8. ~AsksFor(request, "none")
  BY DEF AsksFor, Asks
<1> QED
  BY <1>2, <1>6, <1>7, <1>8
=============================================================================
