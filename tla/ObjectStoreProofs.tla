-------------------------- MODULE ObjectStoreProofs --------------------------
(***************************************************************************)
(* What ObjectStore guarantees for every number of calls, documents and    *)
(* attempts: type correctness, and that the documents implement the lock   *)
(* of ObjectLock.                                                          *)
(***************************************************************************)
EXTENDS ObjectStore, TLAPS

\* A call that goes on has an attempt left and no success; one that has not
\* begun has no response.
LoopInv ==
  \A r \in Requests :
    /\ pc[r] # "returned" => attempts[r] < MaxRetries /\ ~response[r].success
    /\ pc[r] = "idle" => response[r] = NoResponse

Inv == TypeOK /\ LoopInv

-----------------------------------------------------------------------------
\* What a call of each kind has for arguments.
LEMMA CallTypes ==
  ASSUME NEW c \in Calls
  PROVE  /\ c.op # "create" => c.key \in Keys
         /\ c.op = "create" => c.obj \in Payloads
         /\ c.op \in ObjectOps => c.obj \in Payloads
         /\ c.op \in LockOps => /\ c.obj \in Payloads
                                /\ c.obj.owner \in Devices
         /\ c.op \in ActionOps \union FrameOps =>
              c.action \in ActionNames /\ c.value \in Values
         /\ c.op \in FrameOps => c.frame \in FrameIds
<1>1. c \in WellFormedCalls
  BY CallAssumption
<1> QED
  BY <1>1, StoreAssumption
  DEF WellFormedCalls, Payloads, LockOps, ObjectOps, KeyOps, ActionOps, FrameOps

\* The update document of an object leaves a document.
LEMMA UpdateDocType ==
  ASSUME NEW doc \in Document, NEW obj \in Payloads, NEW append \in BOOLEAN
  PROVE  UpdateDoc(doc, obj, append) \in Document
<1> DEFINE owner == IF obj.owner = NoDevice THEN doc.owner ELSE obj.owner
           assets == [a \in Assets |->
                        IF a \notin obj.assets THEN doc.assets[a]
                        ELSE IF append THEN doc.assets[a] + 1 ELSE 0]
<1>1. owner \in Devices \union {NoDevice}
  BY DEF Document, Payloads
<1>2. obj.transform \in Transforms
  BY DEF Payloads
<1>3. assets \in [Assets -> Nat]
  <2>1. doc.assets \in [Assets -> Nat]
    BY DEF Document
  <2> QED
    BY <2>1
<1>4. UpdateDoc(doc, obj, append) =
        [doc EXCEPT !.owner = owner, !.transform = obj.transform, !.assets = assets]
  BY DEF UpdateDoc
<1> HIDE DEF owner, assets
<1> QED
  BY <1>1, <1>2, <1>3, <1>4 DEF Document

LEMMA CreateDocType ==
  ASSUME NEW obj \in Payloads
  PROVE  CreateDoc(obj) \in Document
BY DEF CreateDoc, Document, Payloads, NoActions

\* So does the update of an action or a keyframe, on a path that exists or not.
LEMMA SetActionType ==
  ASSUME NEW doc \in Document, NEW name \in ActionNames,
         NEW action \in Action \union {Absent}
  PROVE  SetAction(doc, name, action) \in Document
BY DEF SetAction, Document

LEMMA ActionAtType ==
  ASSUME NEW doc \in Document, NEW name \in ActionNames
  PROVE  ActionAt(doc, name) \in Action
BY DEF ActionAt, Document, Action, NoFrames, Field

LEMMA FrameAtType ==
  ASSUME NEW action \in Action, NEW frame \in FrameIds
  PROVE  FrameAt(action, frame) \in Frame
BY DEF FrameAt, Action, Frame, Field

LEMMA SetFrameType ==
  ASSUME NEW doc \in Document, NEW name \in ActionNames,
         NEW frame \in FrameIds, NEW value \in Frame \union {Absent}
  PROVE  SetFrame(doc, name, frame, value) \in Document
<1> DEFINE old == ActionAt(doc, name)
<1>1. old \in Action
  BY ActionAtType
<1>2. [old EXCEPT !.frames[frame] = value] \in Action
  BY <1>1 DEF Action
<1> QED
  BY <1>2, SetActionType DEF SetFrame

LEMMA ReadDocType ==
  ASSUME NEW doc \in Document
  PROVE  ReadDoc(doc) \in Document
<1>1. ASSUME NEW a \in ActionNames, doc.actions[a] # Absent
      PROVE  ReadAction(doc.actions[a]) \in Action
  <2>1. doc.actions[a] \in Action
    BY <1>1 DEF Document
  <2> QED
    BY <2>1 DEF ReadAction, ReadFrame, Action, Frame, Field
<1> DEFINE actions ==
      [a \in ActionNames |-> IF doc.actions[a] = Absent THEN Absent
                             ELSE ReadAction(doc.actions[a])]
<1>2. actions \in [ActionNames -> Action \union {Absent}]
  BY <1>1
<1>3. ReadDoc(doc) = [doc EXCEPT !.transform = Identity, !.actions = actions]
  BY Zenon DEF ReadDoc
<1> HIDE DEF actions
<1> QED
  BY <1>2, <1>3, StoreAssumption DEF Document

-----------------------------------------------------------------------------
\* The two ways an update_one ends.
Modifies(r, doc) ==
  /\ store[call[r].key] # Absent
  /\ store' = [store EXCEPT ![call[r].key] = doc]
  /\ Executed(r)
  /\ UNCHANGED <<inserted, call>>

Misses(r) ==
  /\ NotFound(r)
  /\ Retry(r)
  /\ UNCHANGED <<store, inserted, call>>

\* Every update but the removal of an object is one that leaves a document in
\* the place of a document, or changes no document.
LEMMA UpdatesModifyOrMiss ==
  ASSUME TypeOK, NEW r \in Requests,
         \/ UpdateObject(r) \/ LockObject(r) \/ UnlockObject(r)
         \/ CreateAction(r) \/ UpdateAction(r) \/ RemoveAction(r)
         \/ CreateFrame(r) \/ UpdateFrame(r) \/ RemoveFrame(r)
  PROVE  /\ pc[r] = "running"
         /\ call[r].key \in Keys
         /\ (\E doc \in Document : Modifies(r, doc)) \/ Misses(r)
<1> DEFINE old == store[call[r].key]
<1>1. call[r] \in Calls
  BY DEF TypeOK
<1>2. call[r].op # "create" /\ pc[r] = "running"
  BY DEF UpdateObject, LockObject, UnlockObject, CreateAction, UpdateAction,
         RemoveAction, CreateFrame, UpdateFrame, RemoveFrame, Attempts,
         ObjectOps
<1>3. call[r].key \in Keys
  BY <1>1, <1>2, CallTypes
<1>4. old # Absent => old \in Document
  BY <1>3 DEF TypeOK
<1>5. CASE UpdateObject(r)
  <2>1. call[r].obj \in Payloads
    BY <1>1, <1>5, CallTypes DEF UpdateObject, Attempts
  <2>2. old # Absent => UpdateDoc(old, call[r].obj, IsAppend(call[r])) \in Document
    BY <2>1, <1>4, UpdateDocType DEF IsAppend
  <2> QED
    BY <2>2, <1>2, <1>3, <1>5 DEF UpdateObject, UpdateOne, Modifies, Misses
<1>6. CASE LockObject(r)
  <2>1. call[r].obj \in Payloads
    BY <1>1, <1>6, CallTypes DEF LockObject, Attempts, LockOps
  <2>2. old # Absent => UpdateDoc(old, call[r].obj, TRUE) \in Document
    BY <2>1, <1>4, UpdateDocType
  <2> QED
    BY <2>2, <1>2, <1>3, <1>6 DEF LockObject, UpdateOne, Modifies, Misses
<1>7. CASE UnlockObject(r)
  <2>1. old # Absent => [old EXCEPT !.owner = NoDevice] \in Document
    BY <1>4 DEF Document
  <2> QED
    BY <2>1, <1>2, <1>3, <1>7 DEF UnlockObject, UpdateOne, Modifies, Misses
<1>8. CASE CreateAction(r)
  <2> DEFINE new == [description |-> call[r].value, frames |-> NoFrames]
  <2>1. call[r].action \in ActionNames /\ call[r].value \in Values
    BY <1>1, <1>8, CallTypes DEF CreateAction, Attempts, ActionOps
  <2>2. new \in Action
    BY <2>1 DEF Action, NoFrames, Field
  <2>3. old # Absent => SetAction(old, call[r].action, new) \in Document
    BY <2>1, <2>2, <1>4, SetActionType
  <2> QED
    BY <2>3, <1>2, <1>3, <1>8 DEF CreateAction, UpdateOne, Modifies, Misses
<1>9. CASE UpdateAction(r)
  <2> DEFINE new == [ActionAt(old, call[r].action) EXCEPT !.description = call[r].value]
  <2>1. call[r].action \in ActionNames /\ call[r].value \in Values
    BY <1>1, <1>9, CallTypes DEF UpdateAction, Attempts, ActionOps
  <2>2. old # Absent => ActionAt(old, call[r].action) \in Action
    BY <2>1, <1>4, ActionAtType
  <2>3. old # Absent => new \in Action
    BY <2>1, <2>2 DEF Action, Field
  <2>4. old # Absent => SetAction(old, call[r].action, new) \in Document
    BY <2>1, <2>3, <1>4, SetActionType
  <2> QED
    BY <2>4, <1>2, <1>3, <1>9 DEF UpdateAction, UpdateOne, Modifies, Misses
<1>10. CASE RemoveAction(r)
  <2>1. call[r].action \in ActionNames
    BY <1>1, <1>10, CallTypes DEF RemoveAction, Attempts, ActionOps
  <2>2. old # Absent => SetAction(old, call[r].action, Absent) \in Document
    BY <2>1, <1>4, SetActionType
  <2> QED
    BY <2>2, <1>2, <1>3, <1>10 DEF RemoveAction, UpdateOne, Modifies, Misses
<1>11. CASE CreateFrame(r)
  <2>1. /\ call[r].action \in ActionNames
        /\ call[r].frame \in FrameIds
        /\ NewFrame(call[r].value) \in Frame
    BY <1>1, <1>11, CallTypes DEF CreateFrame, Attempts, FrameOps, NewFrame, Frame, Field
  <2>2. old # Absent =>
          SetFrame(old, call[r].action, call[r].frame, NewFrame(call[r].value)) \in Document
    BY <2>1, <1>4, SetFrameType
  <2> QED
    BY <2>2, <1>2, <1>3, <1>11 DEF CreateFrame, UpdateOne, Modifies, Misses
<1>12. CASE UpdateFrame(r)
  <2> DEFINE was == FrameAt(ActionAt(old, call[r].action), call[r].frame)
             new == [was EXCEPT !.body = call[r].value, !.stray = call[r].value]
  <2>1. /\ call[r].action \in ActionNames
        /\ call[r].frame \in FrameIds
        /\ call[r].value \in Values
    BY <1>1, <1>12, CallTypes DEF UpdateFrame, Attempts, FrameOps
  <2>2. old # Absent => was \in Frame
    BY <2>1, <1>4, ActionAtType, FrameAtType
  <2>3. old # Absent => new \in Frame
    BY <2>1, <2>2 DEF Frame, Field
  <2>4. old # Absent => SetFrame(old, call[r].action, call[r].frame, new) \in Document
    BY <2>1, <2>3, <1>4, SetFrameType
  <2> QED
    BY <2>4, <1>2, <1>3, <1>12 DEF UpdateFrame, UpdateOne, Modifies, Misses
<1>13. CASE RemoveFrame(r)
  <2>1. call[r].action \in ActionNames /\ call[r].frame \in FrameIds
    BY <1>1, <1>13, CallTypes DEF RemoveFrame, Attempts, FrameOps
  <2>2. old # Absent => SetFrame(old, call[r].action, call[r].frame, Absent) \in Document
    BY <2>1, <1>4, SetFrameType
  <2> QED
    BY <2>2, <1>2, <1>3, <1>13 DEF RemoveFrame, UpdateOne, Modifies, Misses
<1> QED
  BY <1>5, <1>6, <1>7, <1>8, <1>9, <1>10, <1>11, <1>12, <1>13

-----------------------------------------------------------------------------
LEMMA InvInitially == Init => Inv
BY StoreAssumption, CallAssumption
DEF Init, Inv, TypeOK, LoopInv, NoResponse

\* The local state of the loops and the responses keep their part of the
\* invariant, however an attempt ends.
Responses == [success : BOOLEAN, code : {"NO_ERROR", "NOT_FOUND"},
              found : Document \union {Absent}]

LocalInv ==
  /\ call \in [Requests -> Calls]
  /\ pc \in [Requests -> {"idle", "running", "returned"}]
  /\ attempts \in [Requests -> 0 .. MaxRetries]
  /\ response \in [Requests -> Responses]
  /\ LoopInv

StoreInv ==
  /\ store \in [Keys -> Document \union {Absent}]
  /\ inserted \subseteq Keys

LEMMA InvParts == Inv <=> StoreInv /\ LocalInv
BY DEF Inv, TypeOK, StoreInv, LocalInv, Responses

LEMMA InvPartsNext == Inv' <=> StoreInv' /\ LocalInv'
BY DEF Inv, TypeOK, StoreInv, LocalInv, Responses

LEMMA LoopKeepsInv ==
  ASSUME LocalInv, NEW r \in Requests, pc[r] = "running", UNCHANGED call,
         \/ Executed(r)
         \/ (NotFound(r) \/ UNCHANGED response) /\ (Retry(r) \/ Leave(r))
  PROVE  LocalInv'
<1>1. response[r] \in Responses
  BY DEF LocalInv
<1>2. \/ response' = response
      \/ response' = [response EXCEPT ![r] = [@ EXCEPT !.success = TRUE]]
      \/ response' = [response EXCEPT ![r] = [@ EXCEPT !.code = "NOT_FOUND"]]
  BY DEF Executed, Succeed, NotFound
<1>3. /\ [response[r] EXCEPT !.success = TRUE] \in Responses
      /\ [response[r] EXCEPT !.code = "NOT_FOUND"] \in Responses
      /\ [response[r] EXCEPT !.code = "NOT_FOUND"].success = response[r].success
  BY <1>1 DEF Responses
<1>4. /\ response' \in [Requests -> Responses]
      /\ \A s \in Requests : s # r => response'[s] = response[s]
      /\ response'[r].success # response[r].success => Succeed(r)
  BY <1>2, <1>3 DEF LocalInv, Executed, NotFound
<1>5. Leave(r) \/ Retry(r)
  BY DEF Executed, Succeed, LeaveAfterException
<1>6. /\ pc' \in [Requests -> {"idle", "running", "returned"}]
      /\ attempts' \in [Requests -> 0 .. MaxRetries]
      /\ pc'[r] # "idle"
      /\ pc'[r] # "returned" => attempts'[r] < MaxRetries
      /\ \A s \in Requests : s # r => pc'[s] = pc[s] /\ attempts'[s] = attempts[s]
  BY <1>5, StoreAssumption DEF LocalInv, LoopInv, Leave, Retry
<1>7. Succeed(r) => pc'[r] = "returned"
  BY DEF Succeed, Leave, LocalInv
<1>8. ~response[r].success
  BY DEF LocalInv, LoopInv
<1>9. \A s \in Requests :
        /\ pc'[s] # "returned" => attempts'[s] < MaxRetries /\ ~response'[s].success
        /\ pc'[s] = "idle" => response'[s] = NoResponse
  <2> TAKE s \in Requests
  <2>1. CASE s = r
    BY <2>1, <1>4, <1>6, <1>7, <1>8
  <2>2. CASE s # r
    BY <2>2, <1>4, <1>6 DEF LocalInv, LoopInv
  <2> QED
    BY <2>1, <2>2
<1> QED
  BY <1>4, <1>6, <1>9 DEF LocalInv, LoopInv

\* A step of a call keeps the invariant.
LEMMA StepKeepsInv ==
  ASSUME Inv, NEW r \in Requests, Step(r)
  PROVE  Inv'
<1>1. StoreInv /\ LocalInv
  BY InvParts
<1>2. CASE \/ UpdateObject(r) \/ LockObject(r) \/ UnlockObject(r)
           \/ CreateAction(r) \/ UpdateAction(r) \/ RemoveAction(r)
           \/ CreateFrame(r) \/ UpdateFrame(r) \/ RemoveFrame(r)
  <2>1. /\ pc[r] = "running"
        /\ call[r].key \in Keys
        /\ (\E doc \in Document : Modifies(r, doc)) \/ Misses(r)
    BY <1>2, UpdatesModifyOrMiss DEF Inv
  <2>2. StoreInv'
    BY <1>1, <2>1 DEF StoreInv, Modifies, Misses
  <2>3. LocalInv'
    BY <1>1, <2>1, LoopKeepsInv DEF Modifies, Misses
  <2> QED
    BY <2>2, <2>3, InvPartsNext
<1>3. CASE CreateObject(r)
  <2>1. CreateDoc(call[r].obj) \in Document
    BY <1>1, <1>3, CallTypes, CreateDocType DEF CreateObject, Attempts, LocalInv
  <2>2. StoreInv'
    BY <1>1, <1>3, <2>1 DEF CreateObject, StoreInv
  <2>3. LocalInv'
    BY <1>1, <1>3, LoopKeepsInv DEF CreateObject, Attempts
  <2> QED
    BY <2>2, <2>3, InvPartsNext
<1>4. CASE DeleteObject(r)
  <2>1. StoreInv'
    BY <1>1, <1>4 DEF DeleteObject, StoreInv
  <2>2. LocalInv'
    BY <1>1, <1>4, LoopKeepsInv DEF DeleteObject, Attempts
  <2> QED
    BY <2>1, <2>2, InvPartsNext
<1>5. CASE GetObject(r)
  <2>1. call[r].key \in Keys
    BY <1>1, <1>5, CallTypes DEF GetObject, Attempts, LocalInv
  <2>2. StoreInv'
    BY <1>1, <1>5 DEF GetObject, StoreInv
  <2>3. CASE store[call[r].key] = Absent
    BY <1>1, <1>5, <2>2, <2>3, LoopKeepsInv, InvPartsNext DEF GetObject, Attempts
  <2>4. CASE store[call[r].key] # Absent
    <3> DEFINE answer == [response[r] EXCEPT !.success = TRUE,
                                             !.found = ReadDoc(store[call[r].key])]
    <3>1. ReadDoc(store[call[r].key]) \in Document
      BY <1>1, <2>1, <2>4, ReadDocType DEF StoreInv
    <3>2. response[r] \in Responses
      BY <1>1 DEF LocalInv
    <3>3. answer \in Responses
      BY <3>1, <3>2 DEF Responses
    <3>4. response' = [response EXCEPT ![r] = answer]
      BY <1>5, <2>4 DEF GetObject
    <3> HIDE DEF answer
    <3>5. LocalInv'
      BY <1>1, <1>5, <3>3, <3>4 DEF GetObject, Leave, LocalInv, LoopInv
    <3> QED
      BY <2>2, <3>5, InvPartsNext
  <2> QED
    BY <2>3, <2>4
<1>6. CASE Refused(r) \/ Interrupted(r)
  <2>1. StoreInv'
    BY <1>1, <1>6 DEF Refused, Interrupted, StoreInv
  <2>2. LocalInv'
    BY <1>1, <1>6, LoopKeepsInv DEF Refused, Interrupted, LeaveAfterException
  <2> QED
    BY <2>1, <2>2, InvPartsNext
<1> QED
  BY <1>2, <1>3, <1>4, <1>5, <1>6 DEF Step

LEMMA InvAlways == Spec => []Inv
<1>1. Inv /\ [Next]_vars => Inv'
  <2> SUFFICES ASSUME Inv, [Next]_vars PROVE Inv'
    OBVIOUS
  <2>1. CASE UNCHANGED vars
    BY <2>1 DEF vars, Inv, TypeOK, LoopInv
  <2>2. CASE Terminated
    BY <2>2 DEF Terminated, vars, Inv, TypeOK, LoopInv
  <2>3. ASSUME NEW r \in Requests, Begin(r) PROVE Inv'
    BY <2>3 DEF Begin, Inv, TypeOK, LoopInv
  <2>4. ASSUME NEW r \in Requests, Step(r) PROVE Inv'
    BY <2>4, StepKeepsInv
  <2> QED
    BY <2>1, <2>2, <2>3, <2>4 DEF Next
<1> QED
  BY <1>1, InvInitially, PTL DEF Spec

\* Type correctness: whatever the calls, every stored document keeps its shape,
\* and no call makes more than MaxRetries attempts.
THEOREM TypeCorrect == Spec => []TypeOK
<1>1. Inv => TypeOK
  BY DEF Inv
<1> QED
  BY <1>1, InvAlways, PTL

-----------------------------------------------------------------------------
(***************************************************************************)
(* The refinement.  The map sends a step of a lock or an unlock to Grant,  *)
(* Contend or GiveUp, the creation and removal of a document to Create and *)
(* Delete, and every other step to a stutter.                              *)
(***************************************************************************)
\* Only a lock names an owner, the document at the start has none, and the
\* reply to an executed command arrives.
OnlyLocksName ==
  /\ \A c \in Calls : c.op \in ObjectOps \union {"create"} => c.obj.owner = NoDevice
  /\ InitialDoc.owner = NoDevice
  /\ "reply_lost" \notin Failures

LEMMA InitialLock ==
  ASSUME OnlyLocksName, Init
  PROVE  TheLock!Init
<1>1. Holder \in [Keys -> {NoDevice, Absent}]
  BY CallAssumption DEF Init, OnlyLocksName, Holder
<1>2. Wants \in [Requests -> TheLock!Wishes]
  <2>1. ASSUME NEW r \in Requests, call[r].op \in LockOps
        PROVE  /\ call[r].op \in {"lock", "unlock"}
               /\ call[r].key \in Keys
               /\ call[r].obj.owner \in Devices
    <3>1. call[r] \in Calls
      BY DEF Init
    <3> QED
      BY <2>1, <3>1, CallTypes DEF LockOps
  <2> QED
    BY <2>1 DEF Wants, TheLock!Wishes
<1>3. Outcome = [r \in Requests |-> "open"]
  BY DEF Init, Outcome, NoResponse
<1> QED
  BY <1>1, <1>2, <1>3 DEF TheLock!Init

\* No call becomes another one: what the requests want never changes.
LEMMA WantsConstant ==
  ASSUME UNCHANGED call
  PROVE  Wants' = Wants
BY DEF Wants

\* An update that leaves the owner alone is not seen by the lock.
LEMMA HolderAfter ==
  ASSUME Inv, NEW k \in Keys, NEW doc \in Document,
         store' = [store EXCEPT ![k] = doc]
  PROVE  Holder' = [Holder EXCEPT ![k] = doc.owner]
BY CallAssumption DEF Holder, Inv, TypeOK

LEMMA HolderSame ==
  ASSUME UNCHANGED store
  PROVE  Holder' = Holder
BY DEF Holder

\* A step of a request that is neither a lock nor an unlock is not seen in its
\* outcome, a step of another request is in no other's.
LEMMA OutcomeOfOthers ==
  ASSUME NEW r \in Requests, UNCHANGED call, call[r].op \notin LockOps,
         \A s \in Requests : s # r => pc'[s] = pc[s] /\ response'[s] = response[s]
  PROVE  Outcome' = Outcome
BY DEF Outcome

LEMMA OutcomeAfter ==
  ASSUME NEW r \in Requests, UNCHANGED call, NEW result,
         \A s \in Requests : s # r => pc'[s] = pc[s] /\ response'[s] = response[s],
         Outcome'[r] = result
  PROVE  Outcome' = [Outcome EXCEPT ![r] = result]
<1>1. DOMAIN Outcome = Requests /\ DOMAIN Outcome' = Requests
  BY DEF Outcome
<1>2. \A s \in Requests : s # r => Outcome'[s] = Outcome[s]
  BY DEF Outcome
<1>3. Outcome = [s \in Requests |-> Outcome[s]] /\ Outcome' = [s \in Requests |-> Outcome'[s]]
  BY Zenon DEF Outcome
<1> QED
  BY <1>1, <1>2, <1>3, Zenon

\* The loop touches the state of its own request only.
LEMMA LoopIsLocal ==
  ASSUME Inv, NEW r \in Requests,
         \/ Executed(r)
         \/ (NotFound(r) \/ UNCHANGED response) /\ (Retry(r) \/ Leave(r))
  PROVE  \A s \in Requests : s # r => pc'[s] = pc[s] /\ response'[s] = response[s]
BY DEF Inv, TypeOK, Executed, Succeed, LeaveAfterException, Leave, NotFound, Retry

\* A request in its loop is undecided.
LEMMA RunningIsUndecided ==
  ASSUME Inv, NEW r \in Requests, pc[r] = "running", call[r].op \in LockOps
  PROVE  /\ Outcome[r] = IF response[r].code = "NOT_FOUND" THEN "contended" ELSE "open"
         /\ TheLock!Undecided(r)
BY DEF Inv, LoopInv, Outcome, TheLock!Undecided

\* The attempt of a lock or an unlock that modifies the document is a Grant.
LEMMA SuccessGrants ==
  ASSUME Inv, OnlyLocksName, NEW r \in Requests, pc[r] = "running",
         call[r].op \in LockOps, UNCHANGED call, Executed(r),
         TheLock!Grantable(r),
         Holder' = [Holder EXCEPT ![call[r].key] =
                      IF call[r].op = "lock" THEN call[r].obj.owner ELSE NoDevice]
  PROVE  TheLock!Grant(r)
<1>1. Succeed(r)
  BY DEF Executed, OnlyLocksName
<1>2. response'[r].success
  BY <1>1 DEF Succeed, Inv, TypeOK
<1>3. Outcome'[r] = "granted"
  BY <1>2 DEF Outcome
<1>4. Outcome' = [Outcome EXCEPT ![r] = "granted"]
  BY <1>3, LoopIsLocal, OutcomeAfter
<1>5. Wants[r] = [kind |-> call[r].op, key |-> call[r].key, device |-> call[r].obj.owner]
  BY DEF Wants
<1> QED
  BY <1>4, <1>5, RunningIsUndecided, WantsConstant DEF TheLock!Grant, TheLock!Settle

\* The attempt that finds nothing to modify is a Contend.
LEMMA MissContends ==
  ASSUME Inv, NEW r \in Requests, pc[r] = "running", call[r].op \in LockOps,
         Misses(r), ~TheLock!Grantable(r)
  PROVE  TheLock!Contend(r)
<1>1. response'[r].code = "NOT_FOUND" /\ ~response'[r].success
  <2>1. response[r] \in [success : BOOLEAN, code : {"NO_ERROR", "NOT_FOUND"},
                         found : Document \union {Absent}]
    BY DEF Inv, TypeOK
  <2>2. response' = [response EXCEPT ![r] = [@ EXCEPT !.code = "NOT_FOUND"]]
    BY DEF Misses, NotFound
  <2>3. ~response[r].success
    BY DEF Inv, LoopInv
  <2> QED
    BY <2>1, <2>2, <2>3 DEF Inv, TypeOK
<1>2. Outcome'[r] \in {"contended", "denied"}
  BY <1>1 DEF Outcome, Misses
<1>3. Outcome' = [Outcome EXCEPT ![r] = Outcome'[r]]
  BY LoopIsLocal, OutcomeAfter DEF Misses
<1>4. Wants[r].kind # "other"
  BY DEF Wants, LockOps
<1> QED
  BY <1>2, <1>3, <1>4, RunningIsUndecided, WantsConstant, HolderSame
  DEF TheLock!Contend, TheLock!Settle, Misses

\* A failed attempt is a GiveUp when it is the last, and a stutter otherwise.
LEMMA FailureGivesUp ==
  ASSUME Inv, NEW r \in Requests, pc[r] = "running", call[r].op \in LockOps,
         UNCHANGED <<store, call, response>>, Retry(r) \/ Leave(r)
  PROVE  TheLock!GiveUp(r) \/ UNCHANGED TheLock!vars
<1>1. pc'[r] \in {"running", "returned"} /\ response'[r] = response[r]
  BY DEF Retry, Leave, Inv, TypeOK
<1>2. ~response[r].success
  BY DEF Inv, LoopInv
<1>3. Outcome' = [Outcome EXCEPT ![r] = Outcome'[r]]
  BY LoopIsLocal, OutcomeAfter
<1>4. CASE pc'[r] = "running"
  <2>1. Outcome'[r] = Outcome[r]
    BY <1>1, <1>4 DEF Outcome
  <2>2. Outcome' = Outcome
    BY <1>3, <2>1 DEF Outcome
  <2> QED
    BY <2>2, WantsConstant, HolderSame DEF TheLock!vars
<1>5. CASE pc'[r] = "returned"
  <2>1. Outcome'[r] = IF Outcome[r] = "contended" THEN "denied" ELSE "failed"
    BY <1>1, <1>2, <1>5, RunningIsUndecided DEF Outcome
  <2>2. Wants[r].kind # "other"
    BY DEF Wants, LockOps
  <2> QED
    BY <1>3, <2>1, <2>2, RunningIsUndecided, WantsConstant, HolderSame
    DEF TheLock!GiveUp, TheLock!Settle
<1> QED
  BY <1>1, <1>4, <1>5

-----------------------------------------------------------------------------
\* The lock and unlock attempts: whichever way the update ends, it is a step of
\* the abstract lock.
LEMMA LockObjectRefines ==
  ASSUME Inv, OnlyLocksName, NEW r \in Requests, LockObject(r)
  PROVE  TheLock!Grant(r) \/ TheLock!Contend(r)
<1> DEFINE k == call[r].key
           new == UpdateDoc(store[k], call[r].obj, TRUE)
<1>1. /\ pc[r] = "running" /\ call[r].op = "lock" /\ UNCHANGED call
      /\ call[r] \in Calls
  BY DEF LockObject, Attempts, UpdateOne, Inv, TypeOK
<1>2. k \in Keys /\ call[r].obj \in Payloads /\ call[r].obj.owner \in Devices
  BY <1>1, CallTypes DEF LockOps
<1>3. /\ Wants[r].kind = "lock"
      /\ Wants[r].key = k
      /\ Wants[r].device = call[r].obj.owner
  BY <1>1 DEF Wants, LockOps
<1>4. Holder[k] = IF store[k] = Absent THEN Absent ELSE store[k].owner
  BY <1>2 DEF Holder
<1>5. TheLock!Grantable(r) <=> store[k] # Absent /\ LockFilter(store[k])
  BY <1>3, <1>4, StoreAssumption DEF TheLock!Grantable, LockFilter
<1>6. CASE store[k] # Absent /\ LockFilter(store[k])
  <2>1. store[k] \in Document
    BY <1>2, <1>6 DEF Inv, TypeOK
  <2>2. new \in Document
    BY <1>2, <2>1, UpdateDocType
  <2>3. new.owner = call[r].obj.owner
    BY <1>2, <2>1, StoreAssumption DEF UpdateDoc, Document
  <2>4. new # store[k]
    BY <1>2, <1>6, <2>3, StoreAssumption DEF LockFilter
  <2>5. store' = [store EXCEPT ![k] = new] /\ Executed(r)
    BY <1>6, <2>4 DEF LockObject, UpdateOne
  <2> HIDE DEF new
  <2>6. Holder' = [Holder EXCEPT ![k] = call[r].obj.owner]
    BY <1>2, <2>2, <2>3, <2>5, HolderAfter
  <2> QED
    BY <1>1, <1>5, <1>6, <2>5, <2>6, SuccessGrants DEF LockOps
<1>7. CASE ~(store[k] # Absent /\ LockFilter(store[k]))
  <2>1. Misses(r)
    BY <1>7 DEF LockObject, UpdateOne, Misses
  <2> QED
    BY <1>1, <1>5, <1>7, <2>1, MissContends DEF LockOps
<1> QED
  BY <1>6, <1>7

LEMMA UnlockObjectRefines ==
  ASSUME Inv, OnlyLocksName, NEW r \in Requests, UnlockObject(r)
  PROVE  TheLock!Grant(r) \/ TheLock!Contend(r)
<1> DEFINE k == call[r].key
           d == call[r].obj.owner
           new == [store[k] EXCEPT !.owner = NoDevice]
<1>1. /\ pc[r] = "running" /\ call[r].op = "unlock" /\ UNCHANGED call
      /\ call[r] \in Calls
  BY DEF UnlockObject, Attempts, UpdateOne, Inv, TypeOK
<1>2. k \in Keys /\ d \in Devices
  BY <1>1, CallTypes DEF LockOps
<1>3. Wants[r].kind = "unlock" /\ Wants[r].key = k /\ Wants[r].device = d
  BY <1>1 DEF Wants, LockOps
<1>4. Holder[k] = IF store[k] = Absent THEN Absent ELSE store[k].owner
  BY <1>2 DEF Holder
<1>5. TheLock!Grantable(r) <=> store[k] # Absent /\ UnlockFilter(store[k], d)
  BY <1>2, <1>3, <1>4, StoreAssumption DEF TheLock!Grantable, UnlockFilter
<1>6. CASE store[k] # Absent /\ UnlockFilter(store[k], d)
  <2>1. store[k] \in Document
    BY <1>2, <1>6 DEF Inv, TypeOK
  <2>2. new \in Document /\ new.owner = NoDevice
    BY <2>1 DEF Document
  <2>3. new # store[k]
    BY <1>2, <1>6, <2>2, StoreAssumption DEF UnlockFilter
  <2>4. store' = [store EXCEPT ![k] = new] /\ Executed(r)
    BY <1>6, <2>3 DEF UnlockObject, UpdateOne
  <2> HIDE DEF new
  <2>5. Holder' = [Holder EXCEPT ![k] = NoDevice]
    BY <1>2, <2>2, <2>4, HolderAfter
  <2> QED
    BY <1>1, <1>5, <1>6, <2>4, <2>5, SuccessGrants DEF LockOps
<1>7. CASE ~(store[k] # Absent /\ UnlockFilter(store[k], d))
  <2>1. Misses(r)
    BY <1>7 DEF UnlockObject, UpdateOne, Misses
  <2> QED
    BY <1>1, <1>5, <1>7, <2>1, MissContends DEF LockOps
<1> QED
  BY <1>6, <1>7

\* No other update touches the owner.
LEMMA OtherUpdatesStutter ==
  ASSUME Inv, OnlyLocksName, NEW r \in Requests,
         \/ UpdateObject(r) \/ CreateAction(r) \/ UpdateAction(r)
         \/ RemoveAction(r) \/ CreateFrame(r) \/ UpdateFrame(r)
         \/ RemoveFrame(r)
  PROVE  UNCHANGED TheLock!vars
<1> DEFINE k == call[r].key
<1>1. call[r].op \notin LockOps /\ UNCHANGED call /\ call[r] \in Calls
  BY DEF UpdateObject, CreateAction, UpdateAction, RemoveAction, CreateFrame,
         UpdateFrame, RemoveFrame, Attempts, UpdateOne, LockOps, ObjectOps,
         Inv, TypeOK
<1>2. /\ k \in Keys
      /\ (\E doc \in Document : Modifies(r, doc)) \/ Misses(r)
  BY UpdatesModifyOrMiss DEF Inv
<1>3. Outcome' = Outcome
  BY <1>1, <1>2, LoopIsLocal, OutcomeOfOthers DEF Modifies, Misses
<1>4. ASSUME store' # store
      PROVE  /\ store[k] # Absent
             /\ \E doc \in Document : /\ store' = [store EXCEPT ![k] = doc]
                                      /\ doc.owner = store[k].owner
  <2>1. store[k] # Absent /\ store[k] \in Document
    BY <1>2, <1>4 DEF Modifies, Misses, Inv, TypeOK
  <2>2. PICK doc \in Document : Modifies(r, doc)
    BY <1>2, <1>4 DEF Misses
  <2>3. store' = [store EXCEPT ![k] = doc]
    BY <2>2 DEF Modifies
  <2>4. store'[k] = doc
    BY <1>2, <2>3 DEF Inv, TypeOK
  <2>5. doc.owner = store[k].owner
    <3>1. CASE UpdateObject(r)
      <4>1. call[r].obj.owner = NoDevice
        BY <1>1, <3>1 DEF OnlyLocksName, UpdateObject, Attempts
      <4>2. store' = [store EXCEPT ![k] = UpdateDoc(store[k], call[r].obj, TRUE)]
        BY <1>4, <3>1 DEF UpdateObject, UpdateOne, IsAppend
      <4>3. doc = UpdateDoc(store[k], call[r].obj, TRUE)
        BY <1>2, <2>4, <4>2 DEF Inv, TypeOK
      <4>4. UpdateDoc(store[k], call[r].obj, TRUE).owner = store[k].owner
        BY <2>1, <4>1 DEF UpdateDoc, Document
      <4> QED
        BY <4>3, <4>4
    <3>2. CASE \/ CreateAction(r) \/ UpdateAction(r) \/ RemoveAction(r)
               \/ CreateFrame(r) \/ UpdateFrame(r) \/ RemoveFrame(r)
      <4>1. \E name, action : store' = [store EXCEPT ![k] = SetAction(store[k], name, action)]
        BY <1>4, <3>2
        DEF CreateAction, UpdateAction, RemoveAction, CreateFrame, UpdateFrame,
            RemoveFrame, UpdateOne, SetFrame
      <4>2. PICK name, action : doc = SetAction(store[k], name, action)
        BY <1>2, <2>4, <4>1 DEF Inv, TypeOK
      <4> QED
        BY <2>1, <4>2 DEF SetAction, Document
    <3> QED
      BY <3>1, <3>2
  <2> QED
    BY <2>1, <2>3, <2>5
<1>5. Holder' = Holder
  <2>1. CASE store' = store
    BY <2>1, HolderSame
  <2>2. CASE store' # store
    <3>1. PICK doc \in Document : /\ store' = [store EXCEPT ![k] = doc]
                                  /\ doc.owner = store[k].owner
      BY <1>4, <2>2
    <3>2. Holder' = [Holder EXCEPT ![k] = doc.owner]
      BY <1>2, <3>1, HolderAfter
    <3> QED
      BY <1>2, <1>4, <2>2, <3>1, <3>2 DEF Holder
  <2> QED
    BY <2>1, <2>2
<1> QED
  BY <1>1, <1>3, <1>5, WantsConstant DEF TheLock!vars

\* Every document has a key that was handed out.
KeysInserted == \A k \in Keys : store[k] # Absent => k \in inserted

LEMMA KeysInsertedAlways == Spec => []KeysInserted
<1>1. Init => KeysInserted
  BY DEF Init, KeysInserted
<1>2. Inv /\ KeysInserted /\ [Next]_vars => KeysInserted'
  <2> SUFFICES ASSUME Inv, KeysInserted, [Next]_vars PROVE KeysInserted'
    OBVIOUS
  <2>1. CASE UNCHANGED <<store, inserted>>
    BY <2>1 DEF KeysInserted
  <2>2. ASSUME NEW r \in Requests, Step(r) PROVE KeysInserted'
    <3>1. CASE \/ UpdateObject(r) \/ LockObject(r) \/ UnlockObject(r)
               \/ CreateAction(r) \/ UpdateAction(r) \/ RemoveAction(r)
               \/ CreateFrame(r) \/ UpdateFrame(r) \/ RemoveFrame(r)
      BY <3>1, UpdatesModifyOrMiss DEF Modifies, Misses, Inv, TypeOK, KeysInserted
    <3>2. CASE CreateObject(r)
      BY <3>2 DEF CreateObject, Inv, TypeOK, KeysInserted
    <3>3. CASE DeleteObject(r)
      BY <3>3 DEF DeleteObject, Inv, TypeOK, KeysInserted
    <3>4. CASE GetObject(r) \/ Refused(r) \/ Interrupted(r)
      BY <3>4 DEF GetObject, Refused, Interrupted, KeysInserted
    <3> QED
      BY <2>2, <3>1, <3>2, <3>3, <3>4 DEF Step
  <2> QED
    BY <2>1, <2>2 DEF Next, Begin, Terminated, vars
<1> QED
  BY <1>1, <1>2, InvAlways, PTL DEF Spec

\* A document comes without an owner, and goes with or without one.
LEMMA CreateObjectRefines ==
  ASSUME Inv, KeysInserted, OnlyLocksName, NEW r \in Requests, CreateObject(r)
  PROVE  \E k \in Keys : TheLock!Create(k)
<1>1. /\ call[r].op = "create" /\ call[r] \in Calls /\ UNCHANGED call
      /\ Executed(r)
  BY DEF CreateObject, Attempts, Inv, TypeOK
<1>2. CreateDoc(call[r].obj) \in Document
  BY <1>1, CallTypes, CreateDocType
<1>3. CreateDoc(call[r].obj).owner = NoDevice
  BY <1>1 DEF OnlyLocksName, CreateDoc
<1>4. PICK k \in Keys \ inserted :
        store' = [store EXCEPT ![k] = CreateDoc(call[r].obj)]
  BY DEF CreateObject
<1>5. Holder[k] = Absent
  BY <1>4 DEF KeysInserted, Holder
<1>6. Holder' = [Holder EXCEPT ![k] = NoDevice]
  BY <1>2, <1>3, <1>4, HolderAfter
<1>7. Outcome' = Outcome
  BY <1>1, LoopIsLocal, OutcomeOfOthers DEF LockOps
<1> QED
  BY <1>1, <1>4, <1>5, <1>6, <1>7, WantsConstant DEF TheLock!Create

LEMMA DeleteObjectRefines ==
  ASSUME Inv, NEW r \in Requests, DeleteObject(r)
  PROVE  (\E k \in Keys : TheLock!Delete(k)) \/ UNCHANGED TheLock!vars
<1> DEFINE k == call[r].key
<1>1. /\ call[r].op = "delete" /\ call[r] \in Calls /\ UNCHANGED call
      /\ Executed(r) \/ (NotFound(r) /\ Leave(r))
  BY DEF DeleteObject, Attempts, Inv, TypeOK
<1>2. k \in Keys
  BY <1>1, CallTypes
<1>3. Outcome' = Outcome
  BY <1>1, LoopIsLocal, OutcomeOfOthers DEF LockOps
<1>4. CASE store[k] # Absent
  <2>1. store[k] \in Document /\ store' = [store EXCEPT ![k] = Absent]
    BY <1>2, <1>4 DEF DeleteObject, Inv, TypeOK
  <2>2. Holder[k] # Absent
    BY <1>2, <1>4, <2>1, StoreAssumption DEF Holder, Document
  <2>3. Holder' = [Holder EXCEPT ![k] = Absent]
    BY <1>2, <2>1 DEF Holder, Inv, TypeOK
  <2> QED
    BY <1>1, <1>2, <1>3, <2>2, <2>3, WantsConstant DEF TheLock!Delete
<1>5. CASE store[k] = Absent
  BY <1>1, <1>3, <1>5, HolderSame, WantsConstant DEF DeleteObject, TheLock!vars
<1> QED
  BY <1>4, <1>5

\* A read is not seen, and a failure only by the request that meets it.
LEMMA GetObjectRefines ==
  ASSUME Inv, NEW r \in Requests, GetObject(r)
  PROVE  UNCHANGED TheLock!vars
<1>1. call[r].op \notin LockOps
  BY DEF GetObject, Attempts, LockOps
<1>2. \A s \in Requests : s # r => pc'[s] = pc[s] /\ response'[s] = response[s]
  BY DEF GetObject, NotFound, Leave, Inv, TypeOK
<1> QED
  BY <1>1, <1>2, OutcomeOfOthers, HolderSame, WantsConstant
  DEF GetObject, TheLock!vars

LEMMA FailureRefines ==
  ASSUME Inv, NEW r \in Requests, Refused(r) \/ Interrupted(r)
  PROVE  TheLock!GiveUp(r) \/ UNCHANGED TheLock!vars
<1>1. /\ pc[r] = "running" /\ UNCHANGED <<store, call, response>>
      /\ Retry(r) \/ Leave(r)
  BY DEF Refused, Interrupted, LeaveAfterException
<1>2. CASE call[r].op \in LockOps
  BY <1>1, <1>2, FailureGivesUp
<1>3. CASE call[r].op \notin LockOps
  BY <1>1, <1>3, LoopIsLocal, OutcomeOfOthers, HolderSame, WantsConstant
  DEF TheLock!vars
<1> QED
  BY <1>2, <1>3

LEMMA BeginRefines ==
  ASSUME Inv, NEW r \in Requests, Begin(r)
  PROVE  UNCHANGED TheLock!vars
<1>1. Outcome' = Outcome
  BY DEF Begin, Outcome, Inv, TypeOK, LoopInv, NoResponse
<1> QED
  BY <1>1, HolderSame, WantsConstant DEF Begin, TheLock!vars

-----------------------------------------------------------------------------
\* Every step of the documents is one of the lock, or is not seen by it.
LEMMA StepImplementsLock ==
  ASSUME OnlyLocksName, Inv, KeysInserted, [Next]_vars
  PROVE  TheLock!Next \/ UNCHANGED TheLock!vars
<1>1. CASE UNCHANGED vars
  <2>1. UNCHANGED <<store, call, pc, response>>
    BY <1>1 DEF vars
  <2>2. Outcome' = Outcome
    BY <2>1 DEF Outcome
  <2> QED
    BY <2>1, <2>2, HolderSame, WantsConstant DEF TheLock!vars
<1>2. ASSUME NEW r \in Requests, Begin(r)
      PROVE  TheLock!Next \/ UNCHANGED TheLock!vars
  BY <1>2, BeginRefines
<1>3. ASSUME NEW r \in Requests, Step(r)
      PROVE  TheLock!Next \/ UNCHANGED TheLock!vars
  <2>1. CASE LockObject(r)
    BY <2>1, LockObjectRefines DEF TheLock!Next
  <2>2. CASE UnlockObject(r)
    BY <2>2, UnlockObjectRefines DEF TheLock!Next
  <2>3. CASE \/ UpdateObject(r) \/ CreateAction(r) \/ UpdateAction(r)
             \/ RemoveAction(r) \/ CreateFrame(r) \/ UpdateFrame(r)
             \/ RemoveFrame(r)
    BY <2>3, OtherUpdatesStutter
  <2>4. CASE CreateObject(r)
    BY <2>4, CreateObjectRefines DEF TheLock!Next
  <2>5. CASE DeleteObject(r)
    BY <2>5, DeleteObjectRefines DEF TheLock!Next
  <2>6. CASE GetObject(r)
    BY <2>6, GetObjectRefines
  <2>7. CASE Refused(r) \/ Interrupted(r)
    BY <2>7, FailureRefines DEF TheLock!Next
  <2> QED
    BY <1>3, <2>1, <2>2, <2>3, <2>4, <2>5, <2>6, <2>7 DEF Step
<1> QED
  BY <1>1, <1>2, <1>3 DEF Next, Terminated

\* "This is an atomic operation, and is guaranteed to return a lock to one and
\* only one client": as long as only locks name owners and no reply is lost,
\* the retried updates of transaction() implement the lock of ObjectLock.
THEOREM StoreImplementsLock ==
  ASSUME OnlyLocksName
  PROVE  Spec => ImplementsLock
<1>1. Init => TheLock!Init
  BY InitialLock
<1>2. Inv /\ KeysInserted /\ [Next]_vars => [TheLock!Next]_(TheLock!vars)
  BY StepImplementsLock
<1> QED
  BY <1>1, <1>2, InvAlways, KeysInsertedAlways, PTL
  DEF Spec, ImplementsLock, TheLock!Spec
=============================================================================
