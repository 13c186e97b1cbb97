-------------------------- MODULE EventStreamProofs --------------------------
(***************************************************************************)
(* The safety properties of EventStream, proved for every number of slots, *)
(* threads and datagrams.                                                  *)
(***************************************************************************)
EXTENDS EventStream, FiniteSetTheorems, TLAPS

\* What a datagram that has a sender may hold.
Readable == {"update", "malformed", "unbuildable"}

\* The slots before the next one are in use; the last one is only waited for.
IndexInv ==
  /\ \A i \in SlotIndexes : i < sender_index => evt_senders[i] # NULL
  /\ receiver \in {"join", "start"} => evt_senders[sender_index] # NULL
  /\ receiver = "join" => sender_index = Slots - 1
  /\ receiver = "start" => sender_index < Slots - 1

\* No two slots hold the same sender, and each is that of a datagram that could
\* be decrypted.
SlotInv ==
  /\ \A i \in SlotIndexes : evt_senders[i] # NULL =>
       evt_senders[i] <= received /\ kind[evt_senders[i]] \in Readable
  /\ \A i, j \in SlotIndexes :
       evt_senders[i] # NULL /\ evt_senders[i] = evt_senders[j] => i = j

\* The senders that threads of the pool are in were started since the receiver
\* has last waited for the pool: from slots before the next one.
BusyInv ==
  \A e \in BusySenders : \E i \in SlotIndexes : i < sender_index /\ evt_senders[i] = e

\* Until the clean-up no slot holds a deleted sender, after it none holds another.
DeletedInv ==
  /\ \A e \in deleted : e <= received
  /\ receiver # "ended" => \A i \in SlotIndexes : evt_senders[i] \notin deleted
  /\ receiver = "ended" =>
       \A i \in SlotIndexes : evt_senders[i] # NULL => evt_senders[i] \in deleted

\* The flag that main waits for.
FlagInv ==
  /\ ~is_sender_running => receiver \in {"starting", "ended"}
  /\ main = "exited" => receiver \in {"starting", "ended"}

\* Before there were as many datagrams as slots, none was used twice.
RoundInv ==
  /\ fault = "deleted_in_use" => receiver = "ended"
  /\ receiver = "join" => received >= Slots
  /\ received < Slots =>
       /\ fault # "use_after_free"
       /\ receiver # "start" => sender_index <= received
       /\ receiver = "start" => /\ sender_index < received
                                /\ sender[evt_senders[sender_index]] = "built"
       /\ \A e \in Events : sender[e] \in Busy \union {"built"} => buffer[e] = "held"

Inv == TypeOK /\ IndexInv /\ SlotInv /\ BusyInv /\ DeletedInv /\ FlagInv /\ RoundInv

-----------------------------------------------------------------------------
LEMMA SlotFacts ==
  ASSUME TypeOK
  PROVE  /\ Slots \in Nat /\ Slots >= 2 /\ MaxEvents \in Nat
         /\ sender_index \in Nat /\ sender_index <= Slots - 1
         /\ received \in Nat /\ received <= MaxEvents
         /\ 0 \notin Events
         /\ 0 \in SlotIndexes /\ sender_index \in SlotIndexes
BY StreamAssumption DEF TypeOK, SlotIndexes, Events

\* The busy senders are no more than the slots before the next.
LEMMA BusyCount ==
  ASSUME TypeOK, BusyInv
  PROVE  Cardinality(BusySenders) <= sender_index
<1> DEFINE before == 0 .. sender_index - 1
           slot == [e \in BusySenders |->
                      CHOOSE i \in SlotIndexes : i < sender_index /\ evt_senders[i] = e]
<1>1. ASSUME NEW e \in BusySenders
      PROVE  slot[e] \in before /\ evt_senders[slot[e]] = e
  <2>1. slot[e] \in SlotIndexes /\ slot[e] < sender_index /\ evt_senders[slot[e]] = e
    BY DEF BusyInv
  <2> HIDE DEF slot
  <2> QED
    BY <2>1, SlotFacts DEF SlotIndexes
<1>2. slot \in [BusySenders -> before]
  BY <1>1
<1>3. slot \in Injection(BusySenders, before)
  BY <1>1, <1>2 DEF Injection, IsInjective
<1>4. IsFiniteSet(before) /\ Cardinality(before) = sender_index
  <2>1. 0 \in Int /\ sender_index - 1 \in Int
    BY SlotFacts
  <2>2. /\ IsFiniteSet(before)
        /\ Cardinality(before) = IF 0 > sender_index - 1 THEN 0 ELSE sender_index - 1 - 0 + 1
    BY <2>1, FS_Interval, Zenon
  <2> HIDE DEF before
  <2> QED
    BY <2>2, SlotFacts
<1> HIDE DEF slot, before
<1> QED
  BY <1>3, <1>4, FS_Injection

-----------------------------------------------------------------------------
(***************************************************************************)
(* The steps of the receiver.                                              *)
(***************************************************************************)
LEMMA LightStepsKeep ==
  ASSUME Inv, Running,
         StartStream \/ LoopTest \/ DropDatagram \/ JoinAll \/ RequestShutdown \/ ExitMain
  PROVE  Inv'
<1>0. /\ TypeOK /\ IndexInv /\ SlotInv /\ BusyInv /\ DeletedInv /\ FlagInv /\ RoundInv
      /\ fault = "none" /\ main # "exited"
  BY DEF Inv, Running
<1>1. UNCHANGED <<evt_senders, kind, sender, deleted, buffer, fault>> /\ BusySenders' = BusySenders
  BY DEF StartStream, LoopTest, DropDatagram, JoinAll, RequestShutdown, ExitMain,
         streamVars, flagVars, BusySenders
<1> USE <1>0, <1>1, SlotFacts
<1>2. CASE StartStream
  <2> USE <1>2 DEF StartStream, SetRunning
  <2>1. TypeOK'
    BY DEF TypeOK
  <2>2. IndexInv' /\ SlotInv' /\ BusyInv' /\ DeletedInv' /\ FlagInv'
    BY DEF IndexInv, SlotInv, BusyInv, DeletedInv, FlagInv
  <2>3. RoundInv'
    BY DEF RoundInv
  <2> QED BY <2>1, <2>2, <2>3 DEF Inv
<1>3. CASE LoopTest
  <2> USE <1>3 DEF LoopTest, flagVars
  <2>0. receiver = "loop" /\ receiver' \in {"receive", "cleanup"}
    OBVIOUS
  <2>1. TypeOK'
    BY <2>0 DEF TypeOK
  <2>2. IndexInv' /\ SlotInv' /\ BusyInv' /\ DeletedInv' /\ FlagInv'
    BY <2>0 DEF IndexInv, SlotInv, BusyInv, DeletedInv, FlagInv
  <2>3. RoundInv'
    BY <2>0 DEF RoundInv
  <2> QED BY <2>1, <2>2, <2>3 DEF Inv
<1>4. CASE DropDatagram
  <2> USE <1>4 DEF DropDatagram, flagVars
  <2>1. TypeOK'
    BY DEF TypeOK
  <2>2. IndexInv' /\ BusyInv' /\ FlagInv'
    BY DEF IndexInv, BusyInv, FlagInv
  <2>3. SlotInv'
    <3>1. \A i \in SlotIndexes : evt_senders[i] \in Nat
      BY DEF TypeOK, NULL, Events
    <3>2. received' = received + 1
      OBVIOUS
    <3> QED
      BY <3>1, <3>2 DEF SlotInv
  <2>5. DeletedInv'
    <3>1. \A e \in deleted : e \in Nat /\ e <= received + 1
      BY DEF TypeOK, DeletedInv, Events
    <3> QED
      BY <3>1 DEF DeletedInv
  <2>4. RoundInv'
    BY DEF RoundInv
  <2> QED BY <2>1, <2>2, <2>3, <2>4, <2>5 DEF Inv
<1>5. CASE JoinAll
  <2> USE <1>5 DEF JoinAll, flagVars, FirstSlot, PoolIdle
  <2>1. TypeOK'
    BY DEF TypeOK
  <2>2. IndexInv'
    <3>1. \A i \in SlotIndexes : ~(i < 0)
      BY DEF SlotIndexes
    <3>2. evt_senders[0] # NULL
      BY DEF IndexInv
    <3> QED
      BY <3>1, <3>2 DEF IndexInv
  <2>3. SlotInv' /\ BusyInv' /\ DeletedInv' /\ FlagInv'
    BY DEF SlotInv, BusyInv, DeletedInv, FlagInv
  <2>4. RoundInv'
    BY DEF RoundInv
  <2> QED BY <2>1, <2>2, <2>3, <2>4 DEF Inv
<1>6. CASE RequestShutdown
  <2> USE <1>6 DEF RequestShutdown, streamVars
  <2>1. TypeOK'
    BY DEF TypeOK
  <2>2. IndexInv' /\ SlotInv' /\ BusyInv' /\ DeletedInv' /\ FlagInv' /\ RoundInv'
    BY DEF IndexInv, SlotInv, BusyInv, DeletedInv, FlagInv, RoundInv
  <2> QED BY <2>1, <2>2 DEF Inv
<1>7. CASE ExitMain
  <2> USE <1>7 DEF ExitMain, streamVars
  <2>1. TypeOK'
    BY DEF TypeOK
  <2>2. IndexInv' /\ SlotInv' /\ BusyInv' /\ DeletedInv' /\ FlagInv' /\ RoundInv'
    BY DEF IndexInv, SlotInv, BusyInv, DeletedInv, FlagInv, RoundInv
  <2> QED BY <2>1, <2>2 DEF Inv
<1> QED
  BY <1>2, <1>3, <1>4, <1>5, <1>6, <1>7

LEMMA FailToDecryptKeeps ==
  ASSUME Inv, Running, FailToDecrypt
  PROVE  Inv'
<1>0. /\ TypeOK /\ IndexInv /\ SlotInv /\ BusyInv /\ DeletedInv /\ FlagInv /\ RoundInv /\ fault = "none"
  BY DEF Inv, Running
<1>1. /\ receiver = "receive" /\ receiver' = "cleanup" /\ received' = received + 1
      /\ received + 1 \in Events /\ "undecryptable" \in Kinds
      /\ kind' = [kind EXCEPT ![received + 1] = "undecryptable"]
      /\ buffer' = [buffer EXCEPT ![received + 1] = "held"]
      /\ UNCHANGED <<main, is_app_running, is_sender_running, sender_index, evt_senders,
                     sender, deleted, fault>>
  BY <1>0, SlotFacts DEF FailToDecrypt, flagVars, Events
<1>2. BusySenders' = BusySenders
  BY <1>1 DEF BusySenders
<1>3. TypeOK'
  BY <1>0, <1>1, SlotFacts DEF TypeOK, Events
<1>4. IndexInv' /\ BusyInv' /\ FlagInv'
  BY <1>0, <1>1, <1>2 DEF IndexInv, BusyInv, FlagInv
<1>5. SlotInv'
  <2>1. \A i \in SlotIndexes : evt_senders[i] # NULL =>
          evt_senders[i] \in Events /\ evt_senders[i] # received + 1 /\ evt_senders[i] <= received + 1
    BY <1>0, SlotFacts DEF SlotInv, TypeOK, NULL, Events
  <2>2. \A e \in Events : e # received + 1 => kind'[e] = kind[e]
    BY <1>0, <1>1 DEF TypeOK
  <2> QED
    BY <1>0, <1>1, <2>1, <2>2 DEF SlotInv
<1>6. RoundInv'
  <2>1. \A e \in Events : buffer[e] = "held" => buffer'[e] = "held"
    BY <1>0, <1>1 DEF TypeOK
  <2> QED
    BY <1>0, <1>1, <2>1, SlotFacts DEF RoundInv
<1>7. DeletedInv'
  <2>1. \A e \in deleted : e \in Nat /\ e <= received + 1
    BY <1>0, SlotFacts DEF TypeOK, DeletedInv, Events
  <2> QED
    BY <1>0, <1>1, <2>1 DEF DeletedInv
<1> QED
  BY <1>3, <1>4, <1>5, <1>6, <1>7 DEF Inv

\* The sender left in the slot was started before the receiver last waited.
LEMMA OldSenderEnded ==
  ASSUME Inv
  PROVE  evt_senders[sender_index] \notin BusySenders
<1>1. SUFFICES ASSUME evt_senders[sender_index] \in BusySenders PROVE FALSE
  OBVIOUS
<1>2. PICK i \in SlotIndexes : i < sender_index /\ evt_senders[i] = evt_senders[sender_index]
  BY <1>1 DEF Inv, BusyInv
<1>3. evt_senders[sender_index] # NULL
  BY <1>1, SlotFacts DEF Inv, BusySenders, NULL
<1>4. i = sender_index
  BY <1>2, <1>3, SlotFacts DEF Inv, SlotInv
<1> QED
  BY <1>2, <1>4, SlotFacts DEF Inv

LEMMA ReceiveKeeps ==
  ASSUME Inv, Running, Receive
  PROVE  Inv'
<1> DEFINE e == received + 1
           old == evt_senders[sender_index]
<1>0. /\ TypeOK /\ IndexInv /\ SlotInv /\ BusyInv /\ DeletedInv /\ FlagInv /\ RoundInv /\ fault = "none"
  BY DEF Inv, Running
<1>1. /\ receiver = "receive" /\ received' = e /\ e \in Events
      /\ \E k \in Kinds \ {"undecryptable"} : kind' = [kind EXCEPT ![e] = k]
      /\ buffer' = [buffer EXCEPT ![e] = "held"]
      /\ sender' = [sender EXCEPT ![e] = "built"]
      /\ deleted' = deleted \union ({old} \ {NULL})
      /\ evt_senders' = [evt_senders EXCEPT ![sender_index] = e]
      /\ receiver' = IF sender_index = Slots - 1 THEN "join" ELSE "start"
      /\ UNCHANGED <<main, is_app_running, is_sender_running, sender_index>>
  <2>1. e \in Events
    BY SlotFacts, <1>0 DEF Receive, Events
  <2> QED
    BY <2>1 DEF Receive, flagVars, LastSlot
<1>2. fault' = "none"
  BY <1>0 DEF Receive
<1>3. PICK k \in Kinds \ {"undecryptable"} : kind' = [kind EXCEPT ![e] = k]
  BY <1>1
<1>4. k \in Readable
  BY StreamAssumption DEF Readable
<1>5. /\ evt_senders \in [SlotIndexes -> Events \union {NULL}] /\ e # NULL
      /\ \A i \in SlotIndexes : evt_senders'[i] = IF i = sender_index THEN e ELSE evt_senders[i]
      /\ \A i \in SlotIndexes : evt_senders[i] # NULL =>
           evt_senders[i] \in Events /\ evt_senders[i] # e
  BY <1>0, <1>1, SlotFacts DEF TypeOK, SlotInv, NULL, Events
<1>6. /\ \A d \in Events : kind'[d] = IF d = e THEN k ELSE kind[d]
      /\ \A d \in Events : buffer'[d] = IF d = e THEN "held" ELSE buffer[d]
      /\ \A d \in Events : sender'[d] = IF d = e THEN "built" ELSE sender[d]
  BY <1>0, <1>1, <1>3 DEF TypeOK
<1> HIDE DEF e, old
<1>7. TypeOK'
  <2>1. kind' \in [Events -> Kinds \union {"none"}] /\ received' \in 0 .. MaxEvents
    BY <1>0, <1>1, <1>3, SlotFacts DEF TypeOK, Events
  <2>2. /\ buffer' \in [Events -> {"none", "held", "freed"}]
        /\ evt_senders' \in [SlotIndexes -> Events \union {NULL}]
    BY <1>0, <1>1 DEF TypeOK
  <2>4. deleted' \subseteq Events
    BY <1>0, <1>1, SlotFacts DEF TypeOK, old
  <2>3. sender' \in [Events -> Busy \union {"none", "built", "done"}]
    BY <1>0, <1>1 DEF TypeOK
  <2> QED
    BY <1>0, <1>1, <1>2, <2>1, <2>2, <2>3, <2>4 DEF TypeOK
<1>8. IndexInv'
  BY <1>0, <1>1, <1>5, SlotFacts DEF IndexInv
<1>9. SlotInv'
  <2>1. \A i \in SlotIndexes : evt_senders'[i] # NULL =>
          evt_senders'[i] <= received' /\ kind'[evt_senders'[i]] \in Readable
    <3>1. ASSUME NEW i \in SlotIndexes, evt_senders'[i] # NULL
          PROVE  evt_senders'[i] <= received' /\ kind'[evt_senders'[i]] \in Readable
      <4>1. CASE i = sender_index
        BY <1>1, <1>4, <1>5, <1>6, <4>1, SlotFacts, <1>0 DEF e
      <4>2. CASE i # sender_index
        BY <1>0, <1>1, <1>5, <1>6, <3>1, <4>2, SlotFacts DEF e, SlotInv, Events
      <4> QED BY <4>1, <4>2
    <3> QED BY <3>1
  <2>2. \A i, j \in SlotIndexes :
          evt_senders'[i] # NULL /\ evt_senders'[i] = evt_senders'[j] => i = j
    BY <1>0, <1>5 DEF SlotInv
  <2> QED BY <2>1, <2>2 DEF SlotInv
<1>10. BusySenders' \subseteq BusySenders
  BY <1>6 DEF BusySenders, Busy
<1>11. BusyInv'
  <2>1. ASSUME NEW d \in BusySenders'
        PROVE  \E i \in SlotIndexes : i < sender_index' /\ evt_senders'[i] = d
    <3>1. PICK i \in SlotIndexes : i < sender_index /\ evt_senders[i] = d
      BY <1>0, <1>10, <2>1 DEF BusyInv
    <3>2. evt_senders'[i] = d
      BY <1>0, <1>5, <3>1, SlotFacts
    <3> QED BY <1>1, <3>1, <3>2
  <2> QED BY <1>1, <2>1 DEF BusyInv
<1>12. FlagInv'
  BY <1>0, <1>1 DEF FlagInv
<1>13. RoundInv'
  <2>1. sender_index = Slots - 1 => received' >= Slots
    BY <1>0, <1>1, SlotFacts DEF RoundInv, e
  <2>2. ASSUME NEW d \in Events, received' < Slots, sender'[d] \in Busy \union {"built"}
        PROVE  buffer'[d] = "held"
    <3>1. CASE d = e
      BY <1>6, <3>1
    <3>2. CASE d # e
      BY <1>0, <1>1, <1>6, <2>2, <3>2, SlotFacts DEF RoundInv, Busy, e
    <3> QED BY <3>1, <3>2
  <2>3. received' < Slots => sender_index < received'
    BY <1>0, <1>1, SlotFacts DEF RoundInv, e
  <2>4. sender'[evt_senders'[sender_index]] = "built"
    BY <1>0, <1>1, <1>5, <1>6, SlotFacts
  <2>5. sender_index' = sender_index /\ receiver' \in {"join", "start"}
    BY <1>1
  <2>6. receiver' = "join" => received' >= Slots
    BY <1>1, <2>1
  <2>7. received' < Slots /\ receiver' = "start" =>
          sender_index' < received' /\ sender'[evt_senders'[sender_index']] = "built"
    BY <2>3, <2>4, <2>5
  <2>8. received' < Slots =>
          \A d \in Events : sender'[d] \in Busy \union {"built"} => buffer'[d] = "held"
    BY <2>2
  <2>9. received' < Slots => ~(received' >= Slots)
    BY <1>0, <1>1, SlotFacts DEF e
  <2> QED
    BY <1>2, <2>5, <2>6, <2>7, <2>8, <2>9 DEF RoundInv
<1>14. DeletedInv'
  <2>1. \A d \in deleted' : d <= received'
    <3>1. \A d \in deleted : d \in Nat /\ d <= received + 1
      BY <1>0, SlotFacts DEF TypeOK, DeletedInv, Events
    <3>2. old # NULL => old \in Nat /\ old <= received + 1
      BY <1>0, <1>5, SlotFacts DEF SlotInv, Events, old
    <3> QED
      BY <1>1, <3>1, <3>2 DEF e
  <2>2. e \notin deleted'
    BY <1>0, <1>1, <1>5, SlotFacts DEF DeletedInv, TypeOK, e, old
  <2>3. \A i \in SlotIndexes : i # sender_index => evt_senders[i] \notin deleted'
    <3>1. SUFFICES ASSUME NEW i \in SlotIndexes, i # sender_index, evt_senders[i] \in deleted'
                   PROVE  FALSE
      OBVIOUS
    <3>2. evt_senders[i] = old /\ old # NULL
      BY <1>0, <1>1, <3>1 DEF DeletedInv
    <3> QED
      BY <1>0, <3>1, <3>2, SlotFacts DEF SlotInv, old
  <2> QED
    BY <1>1, <1>5, <2>1, <2>2, <2>3 DEF DeletedInv
<1> QED
  BY <1>7, <1>8, <1>9, <1>11, <1>12, <1>13, <1>14 DEF Inv

LEMMA StartSenderKeeps ==
  ASSUME Inv, Running, StartSender
  PROVE  Inv'
<1> DEFINE e == evt_senders[sender_index]
<1>0. /\ TypeOK /\ IndexInv /\ SlotInv /\ BusyInv /\ DeletedInv /\ FlagInv /\ RoundInv /\ fault = "none"
  BY DEF Inv, Running
<1>1. /\ receiver = "start" /\ receiver' = "loop" /\ sender_index' = sender_index + 1
      /\ sender' = [sender EXCEPT ![e] = "parse"]
      /\ UNCHANGED <<main, is_app_running, is_sender_running, evt_senders, received, kind,
                     deleted, buffer, fault>>
  BY DEF StartSender, NextIndex, flagVars
<1>2. e \in Events /\ sender_index < Slots - 1
  BY <1>0, <1>1, SlotFacts DEF TypeOK, IndexInv, NULL
<1>3. \A d \in Events : sender'[d] = IF d = e THEN "parse" ELSE sender[d]
  BY <1>0, <1>1 DEF TypeOK
<1>4. BusySenders' = BusySenders \union {e}
  BY <1>2, <1>3 DEF BusySenders, Busy
<1>5. TypeOK'
  <2>1. sender_index' \in SlotIndexes
    BY <1>0, <1>1, <1>2, SlotFacts DEF SlotIndexes
  <2>2. sender' \in [Events -> Busy \union {"none", "built", "done"}]
    BY <1>0, <1>1 DEF TypeOK, Busy
  <2> QED
    BY <1>0, <1>1, <2>1, <2>2 DEF TypeOK
<1>6. IndexInv'
  <2>1. \A i \in SlotIndexes : i < sender_index + 1 => i < sender_index \/ i = sender_index
    BY <1>0, SlotFacts DEF SlotIndexes
  <2> QED
    BY <1>0, <1>1, <2>1 DEF IndexInv
<1>7. SlotInv' /\ DeletedInv' /\ FlagInv'
  BY <1>0, <1>1 DEF SlotInv, DeletedInv, FlagInv
<1>8. BusyInv'
  <2>1. ASSUME NEW d \in BusySenders'
        PROVE  \E i \in SlotIndexes : i < sender_index' /\ evt_senders'[i] = d
    <3>1. CASE d = e
      BY <1>0, <1>1, <3>1, SlotFacts
    <3>2. CASE d # e
      <4>1. PICK i \in SlotIndexes : i < sender_index /\ evt_senders[i] = d
        BY <1>0, <1>4, <3>2 DEF BusyInv
      <4> QED BY <1>0, <1>1, <4>1, SlotFacts DEF SlotIndexes
    <3> QED BY <3>1, <3>2
  <2> QED BY <1>1, <2>1 DEF BusyInv
<1>9. RoundInv'
  <2>1. ASSUME NEW d \in Events, received < Slots, sender'[d] \in Busy \union {"built"}
        PROVE  buffer[d] = "held"
    BY <1>0, <1>1, <1>2, <1>3, <2>1 DEF RoundInv
  <2> QED
    BY <1>0, <1>1, <2>1, SlotFacts DEF RoundInv
<1> QED
  BY <1>5, <1>6, <1>7, <1>8, <1>9 DEF Inv

LEMMA CleanupKeeps ==
  ASSUME Inv, Running, Cleanup
  PROVE  Inv'
<1> DEFINE left == {evt_senders[i] : i \in SlotIndexes} \ {NULL}
<1>0. /\ TypeOK /\ IndexInv /\ SlotInv /\ BusyInv /\ DeletedInv /\ FlagInv /\ RoundInv
  BY DEF Inv
<1>1. /\ receiver = "cleanup" /\ receiver' = "ended" /\ is_sender_running' = FALSE
      /\ deleted' = deleted \union left
      /\ UNCHANGED <<main, is_app_running, sender_index, evt_senders, received, kind, sender,
                     buffer, fault>>
  BY DEF Cleanup, ClearRunning
<1>2. BusySenders' = BusySenders
  BY <1>1 DEF BusySenders
<1>3. left \subseteq Events /\ \A e \in left : e <= received
  BY <1>0 DEF TypeOK, SlotInv
<1>4. \A i \in SlotIndexes : evt_senders[i] # NULL => evt_senders[i] \in left
  OBVIOUS
<1> HIDE DEF left
<1>5. TypeOK'
  <2>1. deleted' \subseteq Events
    BY <1>0, <1>1, <1>3 DEF TypeOK
  <2> QED
    BY <1>0, <1>1, <2>1 DEF TypeOK
<1>6. IndexInv' /\ SlotInv' /\ BusyInv' /\ FlagInv'
  BY <1>0, <1>1, <1>2 DEF IndexInv, SlotInv, BusyInv, FlagInv
<1>7. DeletedInv'
  BY <1>0, <1>1, <1>3, <1>4 DEF DeletedInv
<1>8. RoundInv'
  BY <1>0, <1>1 DEF RoundInv
<1> QED
  BY <1>5, <1>6, <1>7, <1>8 DEF Inv

-----------------------------------------------------------------------------
(***************************************************************************)
(* The steps of a sender.                                                  *)
(***************************************************************************)
LEMMA SenderKeeps ==
  ASSUME Inv, Running, NEW e \in Events,
         Parse(e) \/ Publish(e) \/ Persist(e) \/ FreeBuffer(e)
  PROVE  Inv'
<1>0. /\ TypeOK /\ IndexInv /\ SlotInv /\ BusyInv /\ DeletedInv /\ FlagInv /\ RoundInv /\ fault = "none"
  BY DEF Inv, Running
<1>1. /\ e \in BusySenders
      /\ UNCHANGED <<main, is_app_running, is_sender_running, receiver, sender_index,
                     evt_senders, received, kind, deleted>>
  BY DEF Parse, Publish, Persist, FreeBuffer, flagVars, streamVars, BusySenders, Busy
<1>2. kind[e] \in Readable
  BY <1>0, <1>1, SlotFacts DEF BusyInv, SlotInv, NULL
<1>3. PICK to \in Busy \union {"done"} :
        /\ sender' = [sender EXCEPT ![e] = to]
        /\ to \in Busy => buffer' = buffer
        /\ buffer' = buffer \/ buffer' = [buffer EXCEPT ![e] = "freed"]
  <2>1. CASE Parse(e)
    <3>1. CASE kind[e] = "update"
      BY <2>1, <3>1 DEF Parse, Goto, Busy
    <3>2. CASE kind[e] = "malformed"
      BY <2>1, <3>2 DEF Parse, Goto, Busy
    <3>3. CASE kind[e] = "unbuildable"
      BY <2>1, <3>3 DEF Parse, Goto, Busy
    <3> QED BY <1>2, <3>1, <3>2, <3>3 DEF Readable
  <2>2. CASE Publish(e) \/ Persist(e)
    BY <2>2 DEF Publish, Persist, Goto, Busy
  <2>3. CASE FreeBuffer(e)
    BY <2>3 DEF FreeBuffer, Goto, Busy
  <2> QED BY <2>1, <2>2, <2>3
<1>4. /\ fault' \in {"none", "use_after_free", "deleted_in_use"}
      /\ fault' = "use_after_free" => buffer[e] # "held"
      /\ fault' = "deleted_in_use" => receiver = "ended"
  <2>1. e \in deleted => receiver = "ended"
    BY <1>0, <1>1 DEF BusyInv, DeletedInv
  <2> QED
    BY <1>0, <2>1 DEF Parse, Publish, Persist, FreeBuffer, UseSender
<1>5. /\ \A d \in Events : sender'[d] = IF d = e THEN to ELSE sender[d]
      /\ \A d \in Events : d # e => buffer'[d] = buffer[d]
  BY <1>0, <1>3 DEF TypeOK
<1>6. BusySenders' \subseteq BusySenders
  BY <1>1, <1>5 DEF BusySenders
<1>7. TypeOK'
  <2>1. sender' \in [Events -> Busy \union {"none", "built", "done"}]
    BY <1>0, <1>3 DEF TypeOK
  <2>2. buffer' \in [Events -> {"none", "held", "freed"}]
    BY <1>0, <1>3 DEF TypeOK
  <2> QED
    BY <1>0, <1>1, <1>4, <2>1, <2>2 DEF TypeOK
<1>8. IndexInv' /\ SlotInv' /\ DeletedInv' /\ FlagInv'
  BY <1>0, <1>1 DEF IndexInv, SlotInv, DeletedInv, FlagInv
<1>9. BusyInv'
  BY <1>0, <1>1, <1>6 DEF BusyInv
<1>10. RoundInv'
  <2>1. received < Slots => buffer[e] = "held"
    BY <1>0, <1>1 DEF RoundInv, BusySenders
  <2>2. ASSUME received < Slots, NEW d \in Events, sender'[d] \in Busy \union {"built"}
        PROVE  buffer'[d] = "held"
    BY <1>0, <1>3, <1>5, <2>1, <2>2 DEF RoundInv
  <2>3. receiver = "start" /\ received < Slots => evt_senders[sender_index] # e
    BY <1>0, <1>1 DEF RoundInv, BusySenders, Busy
  <2>4. receiver = "start" => evt_senders[sender_index] \in Events
    BY <1>0, SlotFacts DEF IndexInv, TypeOK
  <2> QED
    BY <1>0, <1>1, <1>4, <1>5, <2>1, <2>2, <2>3, <2>4 DEF RoundInv
<1> QED
  BY <1>7, <1>8, <1>9, <1>10 DEF Inv

-----------------------------------------------------------------------------
LEMMA InvAlways == Spec => []Inv
<1>1. Init => Inv
  <2> SUFFICES ASSUME Init PROVE Inv
    OBVIOUS
  <2>1. TypeOK
    <3>1. 0 \in SlotIndexes /\ 0 \in 0 .. MaxEvents
      BY StreamAssumption DEF SlotIndexes
    <3> QED
      BY <3>1 DEF Init, TypeOK
  <2>2. BusySenders = {}
    BY DEF Init, BusySenders, Busy
  <2>3. IndexInv /\ SlotInv /\ BusyInv /\ DeletedInv /\ FlagInv
    BY <2>1, <2>2, SlotFacts
    DEF Init, IndexInv, SlotInv, BusyInv, DeletedInv, FlagInv, SlotIndexes
  <2>4. RoundInv
    BY <2>2 DEF Init, RoundInv, Busy
  <2> QED BY <2>1, <2>3, <2>4 DEF Inv
<1>2. Inv /\ [Next]_vars => Inv'
  <2> SUFFICES ASSUME Inv, [Next]_vars PROVE Inv'
    OBVIOUS
  <2>1. CASE UNCHANGED vars
    <3>1. BusySenders' = BusySenders
      BY <2>1 DEF vars, BusySenders
    <3>2. TypeOK'
      BY <2>1 DEF vars, Inv, TypeOK
    <3>3. IndexInv' /\ SlotInv' /\ BusyInv' /\ DeletedInv' /\ FlagInv' /\ RoundInv'
      BY <2>1, <3>1 DEF vars, Inv, IndexInv, SlotInv, BusyInv, DeletedInv, FlagInv, RoundInv
    <3> QED BY <3>2, <3>3 DEF Inv
  <2>2. CASE ReceiverStep
    BY <2>2, LightStepsKeep, StartSenderKeeps, CleanupKeeps DEF ReceiverStep
  <2>3. CASE Datagram
    BY <2>3, LightStepsKeep, FailToDecryptKeeps, ReceiveKeeps DEF Datagram
  <2>4. CASE \E e \in Events : SenderStep(e)
    BY <2>4, SenderKeeps DEF SenderStep
  <2>5. CASE (Running /\ RequestShutdown) \/ MainStep
    BY <2>5, LightStepsKeep DEF MainStep
  <2> QED
    BY <2>1, <2>2, <2>3, <2>4, <2>5 DEF Next, Stopped
<1> QED
  BY <1>1, <1>2, PTL DEF Spec

-----------------------------------------------------------------------------
\* Every variable keeps its type; the index stays within evt_senders in every round.
THEOREM TypeCorrect == Spec => []TypeOK
<1>1. Inv => TypeOK
  BY DEF Inv
<1> QED
  BY <1>1, InvAlways, PTL

\* While fewer datagrams came than there are slots nothing is used or freed after its
\* end, whatever they hold.
THEOREM FirstRoundIsSafe == Spec => []FirstRoundSafe
<1>1. Inv => FirstRoundSafe
  BY DEF Inv, TypeOK, RoundInv, FirstRoundSafe
<1> QED
  BY <1>1, InvAlways, PTL

\* A pool of one thread less than slots never runs out of threads.
THEOREM PoolSuffices ==
  ASSUME PoolCapacity >= Slots - 1
  PROVE  Spec => []PoolHasThread
<1>1. Inv => PoolHasThread
  <2> SUFFICES ASSUME Inv, receiver = "start"
               PROVE  Cardinality(BusySenders) < PoolCapacity
    BY DEF PoolHasThread
  <2>1. Cardinality(BusySenders) <= sender_index /\ sender_index < Slots - 1
    BY BusyCount DEF Inv, IndexInv
  <2>2. Cardinality(BusySenders) \in Nat
    <3>1. IsFiniteSet(Events)
      BY StreamAssumption, FS_Interval DEF Events
    <3>2. BusySenders \subseteq Events
      BY DEF BusySenders
    <3> QED
      BY <3>1, <3>2, FS_Subset, FS_CardinalityType
  <2> QED
    BY <2>1, <2>2, SlotFacts, StreamAssumption DEF Inv
<1> QED
  BY <1>1, InvAlways, PTL

\* main leaves no receiver that has begun behind, and no sender in the pool but those
\* that the clean-up deleted under their threads.
THEOREM MainOutlivesReceiver == Spec => []ExitsAfterReceiver
<1>1. Inv => ExitsAfterReceiver
  <2> SUFFICES ASSUME Inv, main = "exited", receiver # "starting"
               PROVE  receiver = "ended" /\ BusySenders \subseteq deleted
    BY DEF ExitsAfterReceiver
  <2>1. receiver = "ended"
    BY DEF Inv, FlagInv
  <2>2. \A e \in BusySenders : \E i \in SlotIndexes : evt_senders[i] = e /\ e # NULL
    BY SlotFacts DEF Inv, BusyInv, BusySenders, NULL
  <2> QED
    BY <2>1, <2>2 DEF Inv, DeletedInv
<1> QED
  BY <1>1, InvAlways, PTL

\* In the loop the receiver deletes only senders that have ended.
THEOREM OnlyEndedDeleted == Spec => DeletesEndedSenders
<1> DEFINE Ended == \A e \in BusySenders : e \in deleted' \ deleted => receiver = "cleanup"
<1>1. Inv /\ [Next]_vars => [Ended]_vars
  <2> SUFFICES ASSUME Inv, Next, NEW e \in BusySenders, e \in deleted' \ deleted
               PROVE  receiver = "cleanup"
    BY DEF vars
  <2>1. CASE ReceiverStep
    BY <2>1 DEF ReceiverStep, StartStream, LoopTest, JoinAll, StartSender, Cleanup
  <2>2. CASE Datagram
    BY <2>2, OldSenderEnded DEF Datagram, DropDatagram, FailToDecrypt, Receive
  <2>3. CASE \E d \in Events : SenderStep(d)
    BY <2>3 DEF SenderStep, Parse, Publish, Persist, FreeBuffer, streamVars
  <2>4. CASE (Running /\ RequestShutdown) \/ MainStep \/ Stopped
    BY <2>4 DEF RequestShutdown, MainStep, ExitMain, Stopped, vars, streamVars
  <2> QED
    BY <2>1, <2>2, <2>3, <2>4 DEF Next
<1>2. [](Inv) /\ [][Next]_vars => [][Ended]_vars
  BY <1>1, PTL
<1> QED
  BY <1>2, InvAlways, PTL DEF Spec, DeletesEndedSenders

-----------------------------------------------------------------------------
(***************************************************************************)
(* What an event and the receiver have left to do.                         *)
(***************************************************************************)
StepsLeft(e) ==
  CASE sender[e] = "none"    -> 6
    [] sender[e] = "built"   -> 5
    [] sender[e] = "parse"   -> 4
    [] sender[e] = "publish" -> 3
    [] sender[e] = "persist" -> 2
    [] sender[e] = "free"    -> 1
    [] OTHER                 -> 0

ReceiverLeft ==
  CASE receiver = "join"                           -> 4
    [] receiver \in {"starting", "start", "receive"} -> 3
    [] receiver = "loop"                           -> 2
    [] receiver = "cleanup"                        -> 1
    [] OTHER                                       -> 0

\* A datagram that has not come has no sender.
FreshInv == \A e \in Events : e > received => sender[e] = "none"

\* What a step of the first round does to the senders.  After joinAll the receiver
\* starts the sender of the first slot again, whatever this has done before.
SendersAdvance ==
  received < Slots =>
    \A e \in Events :
      \/ sender'[e] = sender[e]
      \/ sender[e] = "none" /\ sender'[e] = "built"
      \/ sender[e] = "built" /\ sender'[e] = "parse"
      \/ sender[e] = "parse" /\ sender'[e] \in {"publish", "free", "done"}
      \/ sender[e] = "publish" /\ sender'[e] \in {"persist", "done"}
      \/ sender[e] = "persist" /\ sender'[e] = "free"
      \/ sender[e] = "free" /\ sender'[e] = "done"

\* A sender's own step does not leave its state.
LEMMA SenderMoves ==
  ASSUME Inv, NEW e \in Events, Parse(e) \/ Publish(e) \/ Persist(e) \/ FreeBuffer(e)
  PROVE  /\ UNCHANGED <<receiver, sender_index, evt_senders, received, is_app_running>>
         /\ \A s \in Events : s # e => sender'[s] = sender[s]
         /\ \/ sender[e] = "parse" /\ sender'[e] \in {"publish", "free", "done"}
            \/ sender[e] = "publish" /\ sender'[e] \in {"persist", "done"}
            \/ sender[e] = "persist" /\ sender'[e] = "free"
            \/ sender[e] = "free" /\ sender'[e] = "done"
<1>0. sender \in [Events -> Busy \union {"none", "built", "done"}]
  BY DEF Inv, TypeOK
<1>1. CASE Parse(e)
  <2>1. kind[e] \in Readable
    <3>1. e \in BusySenders
      BY <1>1 DEF Parse, BusySenders, Busy
    <3> QED
      BY <3>1, SlotFacts DEF Inv, BusyInv, SlotInv, NULL
  <2> DEFINE to == CASE kind[e] = "update"      -> "publish"
                     [] kind[e] = "malformed"   -> "free"
                     [] kind[e] = "unbuildable" -> "done"
  <2>2. to \in {"publish", "free", "done"}
    BY <2>1 DEF Readable
  <2>3. /\ sender[e] = "parse" /\ sender' = [sender EXCEPT ![e] = to]
        /\ UNCHANGED <<receiver, sender_index, evt_senders, received, is_app_running>>
    BY <1>1 DEF Parse, Goto, flagVars, streamVars
  <2> HIDE DEF to
  <2> QED
    BY <1>0, <2>2, <2>3
<1>2. CASE Publish(e) \/ Persist(e) \/ FreeBuffer(e)
  BY <1>0, <1>2 DEF Publish, Persist, FreeBuffer, Goto, flagVars, streamVars
<1> QED
  BY <1>1, <1>2

LEMMA ReceiverMoves ==
  ASSUME Inv, FreshInv, ReceiverStep \/ Datagram
  PROVE  /\ FreshInv' /\ SendersAdvance /\ UNCHANGED is_app_running
         /\ ~is_app_running => ReceiverLeft' < ReceiverLeft
<1>0. /\ TypeOK /\ fault = "none"
      /\ sender \in [Events -> Busy \union {"none", "built", "done"}]
      /\ Events \subseteq Nat /\ received \in Nat
  BY SlotFacts DEF Inv, TypeOK, ReceiverStep, Datagram, Running, Events
<1>1. CASE StartStream \/ LoopTest \/ DropDatagram \/ FailToDecrypt
  <2>1. /\ sender' = sender /\ evt_senders' = evt_senders /\ sender_index' = sender_index
        /\ is_app_running' = is_app_running
        /\ received' = received \/ received' = received + 1
        /\ ~is_app_running => ReceiverLeft' < ReceiverLeft
    BY <1>1 DEF StartStream, LoopTest, DropDatagram, FailToDecrypt, flagVars, ReceiverLeft
  <2> QED
    BY <1>0, <2>1 DEF FreshInv, SendersAdvance
<1>2. CASE Receive
  <2> DEFINE old == evt_senders[sender_index]
  <2>1. /\ received' = received + 1 /\ received + 1 \in Events /\ is_app_running
        /\ is_app_running' = is_app_running /\ sender_index' = sender_index
        /\ sender' = [sender EXCEPT ![received + 1] = "built"]
        /\ evt_senders' = [evt_senders EXCEPT ![sender_index] = received + 1]
    BY <1>0, <1>2, SlotFacts DEF Receive, Events, flagVars
  <2>2. sender[received + 1] = "none" /\ evt_senders'[sender_index] = received + 1
    BY <1>0, <2>1, SlotFacts DEF FreshInv, TypeOK
  <2>3. old = NULL \/ old <= received
    BY SlotFacts DEF Inv, SlotInv
  <2>4. \A e \in Events : e > received + 1 => sender'[e] = "none"
    BY <1>0, <2>1, <2>3, SlotFacts DEF FreshInv, NULL
  <2>5. SendersAdvance
    BY <2>1, <2>2 DEF SendersAdvance
  <2> QED
    BY <2>1, <2>2, <2>4, <2>5 DEF FreshInv
<1>3. CASE JoinAll
  <2>1. /\ receiver = "join" /\ sender_index' = 0 /\ receiver' = "start"
        /\ UNCHANGED <<evt_senders, received, sender, is_app_running>>
    BY <1>3 DEF JoinAll, FirstSlot, flagVars
  <2> QED
    BY <1>0, <2>1 DEF FreshInv, SendersAdvance, ReceiverLeft
<1>4. CASE StartSender
  <2> DEFINE e == evt_senders[sender_index]
  <2>1. /\ receiver = "start" /\ receiver' = "loop"
        /\ sender' = [sender EXCEPT ![e] = "parse"]
        /\ UNCHANGED <<evt_senders, received, is_app_running>>
    BY <1>4 DEF StartSender, flagVars
  <2>2. /\ \A s \in Events : s > received => s # e
        /\ received < Slots => sender[e] = "built"
    <3>1. e # NULL /\ e \in Events
      BY <2>1, SlotFacts DEF Inv, TypeOK, IndexInv
    <3>2. e <= received
      BY <3>1, SlotFacts DEF Inv, SlotInv
    <3>3. received < Slots => sender[e] = "built"
      BY <2>1 DEF Inv, RoundInv
    <3> HIDE DEF e
    <3> QED
      BY <1>0, <3>1, <3>2, <3>3
  <2> QED
    BY <1>0, <2>1, <2>2 DEF FreshInv, SendersAdvance, ReceiverLeft
<1>5. CASE Cleanup
  <2>1. /\ receiver = "cleanup" /\ receiver' = "ended"
        /\ UNCHANGED <<evt_senders, received, sender, is_app_running>>
    BY <1>5 DEF Cleanup
  <2> QED
    BY <1>0, <2>1 DEF FreshInv, SendersAdvance, ReceiverLeft
<1> QED
  BY <1>1, <1>2, <1>3, <1>4, <1>5 DEF ReceiverStep, Datagram

LEMMA NextAdvances ==
  ASSUME Inv, FreshInv, [Next]_vars
  PROVE  FreshInv' /\ SendersAdvance
<1>1. CASE ReceiverStep \/ Datagram
  BY <1>1, ReceiverMoves
<1>2. ASSUME NEW e \in Events, SenderStep(e) PROVE FreshInv' /\ SendersAdvance
  <2>1. /\ UNCHANGED <<receiver, sender_index, evt_senders, received>> /\ fault = "none"
        /\ \A s \in Events : s # e => sender'[s] = sender[s]
        /\ sender[e] \in Busy
        /\ \/ sender[e] = "parse" /\ sender'[e] \in {"publish", "free", "done"}
           \/ sender[e] = "publish" /\ sender'[e] \in {"persist", "done"}
           \/ sender[e] = "persist" /\ sender'[e] = "free"
           \/ sender[e] = "free" /\ sender'[e] = "done"
    BY <1>2, SenderMoves DEF SenderStep, Running, Busy
  <2>2. sender[e] # "none" /\ sender[e] # "built"
    BY <2>1
  <2>3. receiver \in {"join", "start"} => evt_senders[sender_index] \in Events
    BY SlotFacts DEF Inv, TypeOK, IndexInv
  <2> QED
    BY <2>1, <2>2, <2>3 DEF FreshInv, SendersAdvance
<1>3. CASE (Running /\ RequestShutdown) \/ MainStep \/ Stopped \/ UNCHANGED vars
  BY <1>3 DEF RequestShutdown, MainStep, ExitMain, Stopped, vars, streamVars, FreshInv,
              SendersAdvance
<1> QED
  BY <1>1, <1>2, <1>3 DEF Next

LEMMA FreshAlways == Spec => []FreshInv
<1>1. Init => FreshInv
  BY DEF Init, FreshInv
<1>2. Inv /\ FreshInv /\ [Next]_vars => FreshInv'
  BY NextAdvances
<1> QED
  BY <1>1, <1>2, InvAlways, PTL DEF Spec

(***************************************************************************)
(* EventsProcessed and ShutdownCompletes cannot hang on endless work: in   *)
(* the first round a sender is run once, in at most four steps; and once   *)
(* the application is to stop every step of the receiver, of which there   *)
(* are at most four, brings it nearer to its end, in any round.            *)
(***************************************************************************)
StepsTaken ==
  [][/\ \A e \in Events : /\ received < Slots => StepsLeft(e)' <= StepsLeft(e)
                          /\ SenderStep(e) => StepsLeft(e)' < StepsLeft(e)
     /\ ~is_app_running => /\ ReceiverLeft' <= ReceiverLeft
                           /\ ReceiverStep \/ Datagram => ReceiverLeft' < ReceiverLeft]_vars

THEOREM StreamStepsBounded == Spec => StepsTaken
<1>1. Inv /\ FreshInv /\ [Next]_vars =>
        [/\ \A e \in Events : /\ received < Slots => StepsLeft(e)' <= StepsLeft(e)
                              /\ SenderStep(e) => StepsLeft(e)' < StepsLeft(e)
         /\ ~is_app_running =>
              /\ ReceiverLeft' <= ReceiverLeft
              /\ ReceiverStep \/ Datagram => ReceiverLeft' < ReceiverLeft]_vars
  <2> SUFFICES ASSUME Inv, FreshInv, Next
               PROVE  /\ \A e \in Events : /\ received < Slots => StepsLeft(e)' <= StepsLeft(e)
                                           /\ SenderStep(e) => StepsLeft(e)' < StepsLeft(e)
                      /\ ~is_app_running =>
                           /\ ReceiverLeft' <= ReceiverLeft
                           /\ ReceiverStep \/ Datagram => ReceiverLeft' < ReceiverLeft
    OBVIOUS
  <2>1. ASSUME NEW e \in Events, received < Slots PROVE StepsLeft(e)' <= StepsLeft(e)
    <3>1. SendersAdvance
      BY NextAdvances
    <3>2. /\ sender'[e] = sender[e] => StepsLeft(e)' = StepsLeft(e)
          /\ StepsLeft(e) \in 0 .. 6 /\ StepsLeft(e)' \in 0 .. 6
      BY DEF StepsLeft
    <3> QED
      BY <2>1, <3>1, <3>2 DEF SendersAdvance, StepsLeft
  <2>2. ASSUME NEW e \in Events, SenderStep(e) PROVE StepsLeft(e)' < StepsLeft(e)
    BY <2>2, SenderMoves DEF SenderStep, StepsLeft
  <2>3. ASSUME ReceiverStep \/ Datagram, ~is_app_running PROVE ReceiverLeft' < ReceiverLeft
    BY <2>3, ReceiverMoves
  <2>4. ReceiverLeft \in 0 .. 4 /\ ReceiverLeft' \in 0 .. 4
    BY DEF ReceiverLeft
  <2>5. CASE ReceiverStep \/ Datagram
    BY <2>1, <2>2, <2>3, <2>4, <2>5
  <2>6. CASE ~(ReceiverStep \/ Datagram)
    <3>1. receiver' = receiver
      <4>1. ASSUME NEW e \in Events, SenderStep(e) PROVE receiver' = receiver
        BY <4>1, SenderMoves DEF SenderStep
      <4>2. CASE RequestShutdown \/ MainStep \/ Stopped
        BY <4>2 DEF RequestShutdown, MainStep, ExitMain, Stopped, vars, streamVars
      <4> QED
        BY <2>6, <4>1, <4>2 DEF Next
    <3>2. ReceiverLeft' = ReceiverLeft
      BY <3>1 DEF ReceiverLeft
    <3> QED
      BY <2>1, <2>2, <2>4, <2>6, <3>2
  <2> QED
    BY <2>5, <2>6
<1> QED
  BY <1>1, InvAlways, FreshAlways, PTL DEF Spec, StepsTaken
=============================================================================
