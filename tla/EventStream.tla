----------------------------- MODULE EventStream -----------------------------
(***************************************************************************)
(* The UDP event stream of CLyman (src/src/app/include/                    *)
(* event_stream_process.h) and the end of Clyman::main that shuts it down  *)
(* (clyman_application.h).                                                 *)
(*                                                                         *)
(* One thread, the receiver, reads a datagram at a time, copies it into a  *)
(* buffer, builds an EventSender in the next of Slots slots and hands it   *)
(* to a thread pool.  The sender parses, publishes and persists the event  *)
(* and frees its buffer.  Before the last slot is used the receiver waits  *)
(* for the pool.  The senders are numbered by the event they are built     *)
(* for.                                                                    *)
(*                                                                         *)
(* Undefined behaviour (a freed buffer, or a deleted sender, used) is      *)
(* recorded in fault when it happens and ends the behaviour.               *)
(***************************************************************************)
EXTENDS Naturals, FiniteSets

CONSTANTS
  Slots,         \* the length of evt_senders (13 in the code)
  PoolCapacity,  \* the threads of the pool (13 in the code)
  MaxEvents,     \* bound: the datagrams that arrive
  Kinds,         \* what a datagram may hold
  MayShutDown    \* may a termination request arrive?

ASSUME StreamAssumption ==
  /\ Slots \in Nat \ {0, 1}
  /\ PoolCapacity \in Nat \ {0}
  /\ MaxEvents \in Nat
  /\ Kinds \subseteq {"update", "malformed", "unbuildable", "undecryptable"}
  /\ MayShutDown \in BOOLEAN

VARIABLES
  main,            \* where Clyman::main is
  is_app_running,
  is_sender_running,
  receiver,        \* where event_stream is
  sender_index,
  evt_senders,     \* the sender each slot points to, or NULL
  received,        \* the datagrams received so far
  kind,            \* what each of them holds
  sender,          \* the state of each EventSender
  deleted,         \* the senders that the receiver has deleted
  buffer,          \* the state of each event buffer
  fault            \* the first undefined behaviour met, or "none"

vars == <<main, is_app_running, is_sender_running, receiver, sender_index,
          evt_senders, received, kind, sender, deleted, buffer, fault>>

streamVars == <<receiver, sender_index, evt_senders, received, kind, deleted>>
flagVars   == <<main, is_app_running, is_sender_running>>

Events == 1 .. MaxEvents
NULL == 0
SlotIndexes == 0 .. Slots - 1

LastSlotEarly == Slots - 2  \* mutant: one slot too few
LastSlot == Slots - 1

\* The senders whose run() a thread of the pool is in, deleted or not.
Busy == {"parse", "publish", "persist", "free"}
BusySenders == {e \in Events : sender[e] \in Busy}

TypeOK ==
  /\ main \in {"serving", "waiting", "exited"}
  /\ is_app_running \in BOOLEAN
  /\ is_sender_running \in BOOLEAN
  /\ receiver \in {"starting", "loop", "receive", "join", "start", "cleanup",
                   "ended"}
  /\ sender_index \in SlotIndexes
  /\ evt_senders \in [SlotIndexes -> Events \union {NULL}]
  /\ received \in 0 .. MaxEvents
  /\ kind \in [Events -> Kinds \union {"none"}]
  /\ sender \in [Events -> Busy \union {"none", "built", "done"}]
  /\ deleted \subseteq Events
  /\ buffer \in [Events -> {"none", "held", "freed"}]
  /\ fault \in {"none", "use_after_free", "deleted_in_use"}

\* main has set is_app_running and started the detached thread.
Init ==
  /\ main = "serving"
  /\ is_app_running = TRUE
  /\ is_sender_running = FALSE
  /\ receiver = "starting"
  /\ sender_index = 0
  /\ evt_senders = [i \in SlotIndexes |-> NULL]
  /\ received = 0
  /\ kind = [e \in Events |-> "none"]
  /\ sender = [e \in Events |-> "none"]
  /\ deleted = {}
  /\ buffer = [e \in Events |-> "none"]
  /\ fault = "none"

-----------------------------------------------------------------------------
(***************************************************************************)
(* The receiver.                                                           *)
(***************************************************************************)
KeepRunning == UNCHANGED is_sender_running  \* mutant: the flag is not set
SetRunning == is_sender_running' = TRUE

\* The flag is set, the port read and the socket opened; a port that is not a
\* number or not free throws, and the loop is never entered.
StartStream ==
  /\ receiver = "starting"
  /\ SetRunning
  /\ receiver' \in {"loop", "cleanup"}
  /\ UNCHANGED <<main, is_app_running, sender_index, evt_senders, received,
                 kind, sender, deleted, buffer, fault>>

\* "while (is_app_running.load())", and the blocking receive_from.
LoopTest ==
  /\ receiver = "loop"
  /\ receiver' = IF is_app_running THEN "receive" ELSE "cleanup"
  /\ UNCHANGED <<flagVars, sender_index, evt_senders, received, kind, sender,
                 deleted, buffer, fault>>

\* A datagram ends the wait when the application is about to stop.
DropDatagram ==
  /\ receiver = "receive"
  /\ received < MaxEvents
  /\ ~is_app_running
  /\ received' = received + 1
  /\ receiver' = "loop"
  /\ UNCHANGED <<flagVars, sender_index, evt_senders, kind, sender, deleted,
                 buffer, fault>>

\* The datagram is copied; when it cannot be decrypted the exception ends the
\* loop.
FailToDecrypt ==
  /\ receiver = "receive"
  /\ received < MaxEvents
  /\ is_app_running
  /\ "undecryptable" \in Kinds
  /\ received' = received + 1
  /\ kind' = [kind EXCEPT ![received'] = "undecryptable"]
  /\ buffer' = [buffer EXCEPT ![received'] = "held"]
  /\ receiver' = "cleanup"
  /\ UNCHANGED <<flagVars, sender_index, evt_senders, sender, deleted, fault>>

\* Otherwise the sender left in the slot, if any, is deleted and a new one
\* built there.
Receive ==
  LET old == evt_senders[sender_index]
      e == received + 1
  IN
  /\ receiver = "receive"
  /\ received < MaxEvents
  /\ is_app_running
  /\ received' = e
  /\ \E k \in Kinds \ {"undecryptable"} : kind' = [kind EXCEPT ![e] = k]
  /\ buffer' = [buffer EXCEPT ![e] = "held"]
  /\ deleted' = deleted \union ({old} \ {NULL})
  /\ sender' = [sender EXCEPT ![e] = "built"]
  /\ evt_senders' = [evt_senders EXCEPT ![sender_index] = e]
  /\ receiver' = IF sender_index = LastSlot THEN "join" ELSE "start"
  /\ UNCHANGED <<flagVars, sender_index, fault>>

\* The last slot: wait for the pool and begin again at the first.
NoWait == TRUE  \* mutant: tpool.joinAll() is not called
PoolIdle == BusySenders = {}

KeepIndex == UNCHANGED sender_index  \* mutant: the index is not reset
FirstSlot == sender_index' = 0

JoinAll ==
  /\ receiver = "join"
  /\ PoolIdle
  /\ FirstSlot
  /\ receiver' = "start"
  /\ UNCHANGED <<flagVars, evt_senders, received, kind, sender, deleted, buffer, fault>>

\* tpool.start(*(evt_senders[sender_index])).  It would throw if all threads
\* were busy; that they never are is PoolHasThread.
SameIndex == UNCHANGED sender_index  \* mutant: the index is not advanced
NextIndex == sender_index' = sender_index + 1

StartSender ==
  /\ receiver = "start"
  /\ Cardinality(BusySenders) < PoolCapacity
  /\ sender' = [sender EXCEPT ![evt_senders[sender_index]] = "parse"]
  /\ NextIndex
  /\ receiver' = "loop"
  /\ UNCHANGED <<flagVars, evt_senders, received, kind, deleted, buffer, fault>>

ClearRunning == is_sender_running' = FALSE

\* After the loop every sender is deleted, also one that a thread of the pool is
\* in, and is_sender_running cleared.  Only then, as event_stream returns, does the
\* pool's destructor wait for its threads.
Cleanup ==
  /\ receiver = "cleanup"
  /\ deleted' = deleted \union ({evt_senders[i] : i \in SlotIndexes} \ {NULL})
  /\ ClearRunning
  /\ receiver' = "ended"
  /\ UNCHANGED <<main, is_app_running, sender_index, evt_senders, received,
                 kind, sender, buffer, fault>>

-----------------------------------------------------------------------------
(***************************************************************************)
(* EventSender::run on a thread of the pool.                               *)
(***************************************************************************)
Goto(e, step) == sender' = [sender EXCEPT ![e] = step]

\* Every step of run() uses members of the sender.
UseSender(e) == fault' = IF e \in deleted THEN "deleted_in_use" ELSE "none"

\* The text is parsed.  Without a message type there is nothing to do; an
\* exception out of build_object or build_property leaves run(), which the
\* pool catches.
Parse(e) ==
  /\ sender[e] = "parse"
  /\ IF buffer[e] = "held" THEN UseSender(e) ELSE fault' = "use_after_free"
  /\ Goto(e, CASE kind[e] = "update"      -> "publish"
               [] kind[e] = "malformed"   -> "free"
               [] kind[e] = "unbuildable" -> "done")
  /\ UNCHANGED <<flagVars, streamVars, buffer>>

\* The event goes downstream, if there is a service.  An exception out of
\* publish_event, or of the port's number, leaves run() as well: the event is
\* neither persisted nor freed.
Publish(e) ==
  /\ sender[e] = "publish"
  /\ UseSender(e)
  /\ \E to \in {"persist", "done"} : Goto(e, to)
  /\ UNCHANGED <<flagVars, streamVars, buffer>>

\* Whether the database takes the update or throws is only logged.
Persist(e) ==
  /\ sender[e] = "persist"
  /\ UseSender(e)
  /\ Goto(e, "free")
  /\ UNCHANGED <<flagVars, streamVars, buffer>>

\* "delete[] event".
FreeBuffer(e) ==
  /\ sender[e] = "free"
  /\ UseSender(e)
  /\ buffer' = [buffer EXCEPT ![e] = "freed"]
  /\ Goto(e, "done")
  /\ UNCHANGED <<flagVars, streamVars>>

-----------------------------------------------------------------------------
(***************************************************************************)
(* Clyman::main.                                                           *)
(***************************************************************************)
RequestShutdown ==
  /\ MayShutDown
  /\ main = "serving"
  /\ is_app_running' = FALSE
  /\ main' = "waiting"
  /\ UNCHANGED <<is_sender_running, streamVars, sender, buffer, fault>>

\* "while(is_sender_running.load())": then main returns, and its database
\* manager and configuration are gone.
ExitMain ==
  /\ main = "waiting"
  /\ ~is_sender_running
  /\ main' = "exited"
  /\ UNCHANGED <<is_app_running, is_sender_running, streamVars, sender, buffer,
                 fault>>

-----------------------------------------------------------------------------
Running == fault = "none" /\ main # "exited"

ReceiverStep ==
  /\ Running
  /\ StartStream \/ LoopTest \/ JoinAll \/ StartSender \/ Cleanup

Datagram == Running /\ (DropDatagram \/ FailToDecrypt \/ Receive)

SenderStep(e) ==
  /\ Running
  /\ Parse(e) \/ Publish(e) \/ Persist(e) \/ FreeBuffer(e)

MainStep == Running /\ ExitMain

\* The process is over, its behaviour undefined, or no datagram will come.
Stopped ==
  /\ \/ ~Running
     \/ received = MaxEvents
     \/ receiver = "ended"
  /\ UNCHANGED vars

Next ==
  \/ ReceiverStep
  \/ Datagram
  \/ \E e \in Events : SenderStep(e)
  \/ Running /\ RequestShutdown
  \/ MainStep
  \/ Stopped

\* Threads are scheduled; neither a datagram nor a termination request need
\* ever come.
Fairness ==
  /\ WF_vars(ReceiverStep)
  /\ WF_vars(MainStep)
  /\ \A e \in Events : WF_vars(SenderStep(e))

Spec == Init /\ [][Next]_vars /\ Fairness

-----------------------------------------------------------------------------
\* The sender frees the event's memory, and the receiver the sender: neither
\* is used, or freed, after that.
MemorySafe == fault = "none"

\* As long as no slot is used twice that is so: until the application shuts down,
\* whatever the datagrams hold, nothing is used or freed after its end while fewer
\* events came in than there are slots.
FirstRoundSafe ==
  received < Slots /\ receiver \notin {"cleanup", "ended"} => fault = "none"

\* In the loop the receiver deletes only senders that have ended: joinAll is
\* called often enough.
DeletesEndedSenders ==
  [][\A e \in BusySenders : e \in deleted' \ deleted => receiver = "cleanup"]_vars

\* The branch for Poco::NoThreadAvailableException is never taken: there is a
\* thread for every sender that is started.
PoolHasThread ==
  receiver = "start" => Cardinality(BusySenders) < PoolCapacity

\* An event of the first round is processed to the end, unless the application or
\* the stream ends before.
EventsProcessed ==
  \A e \in {d \in Events : d < Slots} :
    (sender[e] = "built") ~> \/ sender[e] = "done" \/ main = "exited"
                             \/ fault # "none" \/ receiver \in {"cleanup", "ended"}

\* "while(is_sender_running.load())": main does not leave the receiver behind, nor a
\* sender that is still whole, unless the receiver's thread had not got to run yet.
\* The senders it does leave in the pool's threads are those that the clean-up
\* deleted under them: the flag tells of the receiver, not of the pool.
ExitsAfterReceiver ==
  main = "exited" /\ receiver # "starting" => receiver = "ended" /\ BusySenders \subseteq deleted

\* "Handle graceful shutdown of background threads": main returns once the
\* receiver is out of receive_from, for which, as quickstart.rst says, "at least
\* one udp message must be received afterwards".
ShutdownCompletes ==
  (main = "waiting" /\ receiver # "receive")
    ~> (main = "exited" \/ fault # "none")
=============================================================================
