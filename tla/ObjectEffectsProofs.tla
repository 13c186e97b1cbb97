------------------------- MODULE ObjectEffectsProofs -------------------------
(***************************************************************************)
(* What the clients of ObjectStore can rely on, for every number of calls, *)
(* documents, attempts and failures: nothing that was removed comes back   *)
(* in part, calls take effect once, and a lock has one owner.              *)
(***************************************************************************)
EXTENDS ObjectStoreProofs, FiniteSetTheorems

-----------------------------------------------------------------------------
(***************************************************************************)
(* Contents: every update that could create half of an action or keyframe  *)
(* asks first whether it is there.                                         *)
(***************************************************************************)
WholeFrame(frame) == frame.body # Absent /\ frame.handles # Absent

WholeAction(action) ==
  /\ action.description # Absent
  /\ \A f \in FrameIds : action.frames[f] # Absent => WholeFrame(action.frames[f])

Whole(doc) ==
  \A a \in ActionNames : doc.actions[a] # Absent => WholeAction(doc.actions[a])

WholeInv == \A k \in Keys : store[k] # Absent => Whole(store[k])

LEMMA SetActionWhole ==
  ASSUME NEW doc \in Document, Whole(doc), NEW name \in ActionNames, NEW action,
         action # Absent => WholeAction(action)
  PROVE  Whole(SetAction(doc, name, action))
<1>1. \A a \in ActionNames :
        SetAction(doc, name, action).actions[a] = IF a = name THEN action ELSE doc.actions[a]
  BY DEF SetAction, Document
<1> QED
  BY <1>1 DEF Whole

LEMMA SetFrameWhole ==
  ASSUME NEW doc \in Document, Whole(doc), NEW name \in ActionNames,
         ActionExists(doc, name), NEW frame \in FrameIds, NEW value,
         value # Absent => WholeFrame(value)
  PROVE  Whole(SetFrame(doc, name, frame, value))
<1> DEFINE old == doc.actions[name]
           new == [old EXCEPT !.frames[frame] = value]
<1>1. old \in Action /\ WholeAction(old) /\ ActionAt(doc, name) = old
  BY DEF Document, ActionExists, Whole, ActionAt
<1>2. /\ new.description = old.description
      /\ \A f \in FrameIds : new.frames[f] = IF f = frame THEN value ELSE old.frames[f]
  BY <1>1 DEF Action
<1> HIDE DEF old, new
<1>3. WholeAction(new)
  BY <1>1, <1>2 DEF WholeAction
<1>4. SetFrame(doc, name, frame, value) = SetAction(doc, name, new)
  BY <1>1 DEF SetFrame, new
<1> QED
  BY <1>3, <1>4, SetActionWhole

\* The document an update leaves is whole if the one it finds is.
LEMMA UpdatesKeepWhole ==
  ASSUME TypeOK, WholeInv, NEW r \in Requests,
         \/ UpdateObject(r) \/ LockObject(r) \/ UnlockObject(r)
         \/ CreateAction(r) \/ UpdateAction(r) \/ RemoveAction(r)
         \/ CreateFrame(r) \/ UpdateFrame(r) \/ RemoveFrame(r)
  PROVE  WholeInv'
<1> DEFINE k == call[r].key
           a == call[r].action
           f == call[r].frame
           v == call[r].value
           old == store[k]
<1>1. call[r] \in Calls
  BY DEF TypeOK
<1>2. k \in Keys
  BY UpdatesModifyOrMiss
<1>3. SUFFICES ASSUME old # Absent, store' # store
               PROVE  \E new : Whole(new) /\ store' = [store EXCEPT ![k] = new]
  <2>1. store' # store => old # Absent
    BY UpdatesModifyOrMiss DEF Modifies, Misses
  <2> QED
    BY <1>2, <2>1 DEF TypeOK, WholeInv
<1>4. old \in Document /\ Whole(old)
  BY <1>2, <1>3 DEF TypeOK, WholeInv
<1>5. CASE UpdateObject(r) \/ LockObject(r)
  <2>1. UpdateDoc(old, call[r].obj, TRUE).actions = old.actions
    BY <1>4 DEF UpdateDoc, Document
  <2>2. store' = [store EXCEPT ![k] = UpdateDoc(old, call[r].obj, TRUE)]
    BY <1>3, <1>5 DEF UpdateObject, LockObject, UpdateOne, IsAppend
  <2> QED
    BY <1>4, <2>1, <2>2 DEF Whole
<1>6. CASE UnlockObject(r)
  <2>1. [old EXCEPT !.owner = NoDevice].actions = old.actions
    BY <1>4 DEF Document
  <2>2. store' = [store EXCEPT ![k] = [old EXCEPT !.owner = NoDevice]]
    BY <1>3, <1>6 DEF UnlockObject, UpdateOne
  <2> QED
    BY <1>4, <2>1, <2>2 DEF Whole
<1>7. CASE CreateAction(r)
  <2> DEFINE new == [description |-> v, frames |-> NoFrames]
  <2>1. a \in ActionNames /\ v \in Values
    BY <1>1, <1>7, CallTypes DEF CreateAction, Attempts, ActionOps
  <2>2. WholeAction(new)
    BY <2>1, ContentAssumption DEF WholeAction, NoFrames
  <2>3. store' = [store EXCEPT ![k] = SetAction(old, a, new)]
    BY <1>3, <1>7 DEF CreateAction, UpdateOne
  <2> HIDE DEF new
  <2> QED
    BY <1>4, <2>1, <2>2, <2>3, SetActionWhole
<1>8. CASE UpdateAction(r)
  <2> DEFINE new == [ActionAt(old, a) EXCEPT !.description = v]
  <2>1. a \in ActionNames /\ v \in Values
    BY <1>1, <1>8, CallTypes DEF UpdateAction, Attempts, ActionOps
  <2>2. store' = [store EXCEPT ![k] = SetAction(old, a, new)] /\ ActionExists(old, a)
    <3>1. UpdateOne(r, ActionExists(old, a), SetAction(old, a, new))
      BY <1>8, Zenon DEF UpdateAction
    <3> HIDE DEF new
    <3> QED
      BY <1>3, <3>1 DEF UpdateOne
  <2>3. ActionAt(old, a) = old.actions[a] /\ WholeAction(old.actions[a])
        /\ old.actions[a] \in Action
    <3>1. old.actions[a] # Absent
      BY <2>2, Zenon DEF ActionExists
    <3>2. WholeAction(old.actions[a])
      BY <1>4, <2>1, <3>1, Zenon DEF Whole
    <3>3. old.actions \in [ActionNames -> Action \union {Absent}]
      BY <1>4 DEF Document
    <3> QED
      BY <2>1, <3>1, <3>2, <3>3 DEF ActionAt
  <2>4. new.description = v /\ new.frames = old.actions[a].frames
    BY <2>3 DEF Action
  <2>5. WholeAction(new)
    BY <2>1, <2>3, <2>4, ContentAssumption DEF WholeAction
  <2> HIDE DEF new
  <2> QED
    BY <1>4, <2>1, <2>2, <2>5, SetActionWhole
<1>9. CASE RemoveAction(r)
  <2>1. a \in ActionNames
    BY <1>1, <1>9, CallTypes DEF RemoveAction, Attempts, ActionOps
  <2>2. store' = [store EXCEPT ![k] = SetAction(old, a, Absent)]
    BY <1>3, <1>9 DEF RemoveAction, UpdateOne
  <2> QED
    BY <1>4, <2>1, <2>2, SetActionWhole
<1>10. CASE CreateFrame(r)
  <2>1. a \in ActionNames /\ f \in FrameIds /\ v \in Values
    BY <1>1, <1>10, CallTypes DEF CreateFrame, Attempts, FrameOps
  <2>2. /\ store' = [store EXCEPT ![k] = SetFrame(old, a, f, NewFrame(v))]
        /\ ActionExists(old, a)
    BY <1>3, <1>10 DEF CreateFrame, UpdateOne
  <2>3. WholeFrame(NewFrame(v))
    BY <2>1, ContentAssumption DEF WholeFrame, NewFrame
  <2> QED
    BY <1>4, <2>1, <2>2, <2>3, SetFrameWhole
<1>11. CASE UpdateFrame(r)
  <2> DEFINE was == FrameAt(ActionAt(old, a), f)
             new == [was EXCEPT !.body = v, !.stray = v]
  <2>1. a \in ActionNames /\ f \in FrameIds /\ v \in Values
    BY <1>1, <1>11, CallTypes DEF UpdateFrame, Attempts, FrameOps
  <2>2. /\ store' = [store EXCEPT ![k] = SetFrame(old, a, f, new)]
        /\ ActionExists(old, a) /\ FrameExists(old, a, f)
    BY <1>3, <1>11 DEF UpdateFrame, UpdateOne
  <2>3. was \in Frame /\ WholeFrame(was)
    BY <1>4, <2>1, <2>2
    DEF ActionAt, FrameAt, ActionExists, FrameExists, Whole, WholeAction, Document, Action
  <2>4. new.body = v /\ new.handles = was.handles
    BY <2>3 DEF Frame
  <2>5. WholeFrame(new)
    BY <2>1, <2>3, <2>4, ContentAssumption DEF WholeFrame
  <2> HIDE DEF new, was
  <2> QED
    BY <1>4, <2>1, <2>2, <2>5, SetFrameWhole
<1>12. CASE RemoveFrame(r)
  <2>1. a \in ActionNames /\ f \in FrameIds
    BY <1>1, <1>12, CallTypes DEF RemoveFrame, Attempts, FrameOps
  <2>2. store' = [store EXCEPT ![k] = SetFrame(old, a, f, Absent)] /\ ActionExists(old, a)
    BY <1>3, <1>12 DEF RemoveFrame, UpdateOne
  <2> QED
    BY <1>4, <2>1, <2>2, SetFrameWhole
<1> QED
  BY <1>5, <1>6, <1>7, <1>8, <1>9, <1>10, <1>11, <1>12

LEMMA WholeAlways == Spec => []WholeInv
<1>1. Init => WholeInv
  BY ContentAssumption DEF Init, WholeInv, Whole, WholeAction, WholeFrame
<1>2. Inv /\ WholeInv /\ [Next]_vars => WholeInv'
  <2> SUFFICES ASSUME Inv, WholeInv, [Next]_vars PROVE WholeInv'
    OBVIOUS
  <2>1. CASE UNCHANGED store
    BY <2>1 DEF WholeInv
  <2>2. ASSUME NEW r \in Requests, Step(r) PROVE WholeInv'
    <3>1. CASE \/ UpdateObject(r) \/ LockObject(r) \/ UnlockObject(r)
               \/ CreateAction(r) \/ UpdateAction(r) \/ RemoveAction(r)
               \/ CreateFrame(r) \/ UpdateFrame(r) \/ RemoveFrame(r)
      BY <3>1, UpdatesKeepWhole DEF Inv
    <3>2. CASE CreateObject(r)
      <4>1. Whole(CreateDoc(call[r].obj))
        BY DEF Whole, CreateDoc, NoActions
      <4> QED
        BY <3>2, <4>1 DEF CreateObject, Inv, TypeOK, WholeInv
    <3>3. CASE DeleteObject(r)
      BY <3>3 DEF DeleteObject, Inv, TypeOK, WholeInv
    <3>4. CASE GetObject(r) \/ Refused(r) \/ Interrupted(r)
      BY <2>1, <3>4 DEF GetObject, Refused, Interrupted
    <3> QED
      BY <2>2, <3>1, <3>2, <3>3, <3>4 DEF Step
  <2> QED
    BY <2>1, <2>2 DEF Next, Begin, Terminated, vars
<1> QED
  BY <1>1, <1>2, InvAlways, PTL DEF Spec

\* No update brings back part of an action that another call removed, however the
\* two and any others interleave.
THEOREM ActionsStayComplete == Spec => []ActionsComplete
<1>1. WholeInv => ActionsComplete
  BY DEF WholeInv, Whole, WholeAction, ActionsComplete
<1> QED
  BY <1>1, WholeAlways, PTL

\* No update brings back part of a keyframe, nor leaves out what a read takes for
\* granted.
THEOREM FramesStayReadable == Spec => []FramesReadable
<1>1. WholeInv => FramesReadable
  BY DEF WholeInv, Whole, WholeAction, WholeFrame, FramesReadable
<1> QED
  BY <1>1, WholeAlways, PTL
-----------------------------------------------------------------------------
(***************************************************************************)
(* Locks: the steps of ObjectLock keep count of who was told to have the   *)
(* lock.                                                                   *)
(***************************************************************************)
Grants(op, k, d) == Cardinality(Granted(op, k, d))

\* As long as an object is there, its holder was granted one lock more than
\* unlocks, and everyone else as many.  A key that was never handed out was never
\* locked, and of a deleted object at most one device still claims the lock.
ClaimInv ==
  \A k \in Keys :
    /\ Holder[k] # Absent =>
         \A d \in Devices :
           Grants("lock", k, d) = Grants("unlock", k, d) + (IF Holder[k] = d THEN 1 ELSE 0)
    /\ k \notin inserted =>
         \A op \in LockOps, d \in Devices : Granted(op, k, d) = {}
    /\ \A d, e \in Devices : Claims(k, d) /\ Claims(k, e) => d = e

LEMMA GrantsFinite ==
  ASSUME IsFiniteSet(Requests), NEW op, NEW k, NEW d
  PROVE  IsFiniteSet(Granted(op, k, d)) /\ Grants(op, k, d) \in Nat
<1>1. Granted(op, k, d) \subseteq Requests
  BY DEF Granted
<1> QED
  BY <1>1, FS_Subset, FS_CardinalityType DEF Grants

\* A request of a lock or an unlock was granted if its outcome says so.
LEMMA GrantedOutcome ==
  ASSUME NEW op \in LockOps, NEW k, NEW d, NEW r
  PROVE  /\ r \in Granted(op, k, d) <=>
              /\ r \in Requests /\ Outcome[r] = "granted" /\ call[r].op = op
              /\ call[r].key = k /\ call[r].obj.owner = d
         /\ r \in Granted(op, k, d)' <=>
              /\ r \in Requests /\ Outcome'[r] = "granted" /\ call'[r].op = op
              /\ call'[r].key = k /\ call'[r].obj.owner = d
BY DEF Granted, Outcome

\* A Grant adds the request to those granted of its kind, key and device.
LEMMA GrantCounts ==
  ASSUME IsFiniteSet(Requests), NEW r \in Requests, TheLock!Grant(r), UNCHANGED call,
         NEW op \in LockOps, NEW k, NEW d
  PROVE  /\ call[r].op \in LockOps
         /\ Granted(op, k, d)' =
              IF op = call[r].op /\ k = call[r].key /\ d = call[r].obj.owner
              THEN Granted(op, k, d) \union {r} ELSE Granted(op, k, d)
         /\ Grants(op, k, d)' =
              IF op = call[r].op /\ k = call[r].key /\ d = call[r].obj.owner
              THEN Grants(op, k, d) + 1 ELSE Grants(op, k, d)
<1>1. /\ Outcome' = [Outcome EXCEPT ![r] = "granted"]
      /\ Outcome[r] # "granted"
  BY DEF TheLock!Grant, TheLock!Settle, TheLock!Undecided
<1>2. call[r].op \in LockOps
  BY DEF TheLock!Grant, TheLock!Grantable, Wants, LockOps
<1>3. \A s \in Requests : Outcome'[s] = IF s = r THEN "granted" ELSE Outcome[s]
  BY <1>1 DEF Outcome
<1>4. Granted(op, k, d)' =
        IF op = call[r].op /\ k = call[r].key /\ d = call[r].obj.owner
        THEN Granted(op, k, d) \union {r} ELSE Granted(op, k, d)
  <2>1. \A s : s \in Granted(op, k, d)' <=>
                 \/ s \in Granted(op, k, d)
                 \/ s = r /\ op = call[r].op /\ k = call[r].key /\ d = call[r].obj.owner
    BY <1>1, <1>3, GrantedOutcome
  <2> QED
    BY <2>1
<1>5. r \notin Granted(op, k, d)
  BY <1>1, GrantedOutcome
<1> QED
  BY <1>2, <1>4, <1>5, GrantsFinite, FS_AddElement DEF Grants

LEMMA GrantKeepsClaims ==
  ASSUME Inv, KeysInserted, ClaimInv, IsFiniteSet(Requests), NEW r \in Requests,
         TheLock!Grant(r), UNCHANGED call, inserted \subseteq inserted'
  PROVE  ClaimInv'
<1> DEFINE key == call[r].key
           dev == call[r].obj.owner
<1>1. call[r].op \in LockOps /\ call[r] \in Calls
  BY GrantCounts DEF LockOps, Inv, TypeOK
<1>2. key \in Keys /\ dev \in Devices
  BY <1>1, CallTypes DEF LockOps
<1>3. /\ Wants[r].kind = call[r].op /\ Wants[r].key = key /\ Wants[r].device = dev
  BY <1>1 DEF Wants
<1>4. /\ call[r].op = "lock" => Holder[key] = NoDevice
      /\ call[r].op = "unlock" => Holder[key] = dev
      /\ Holder' = [Holder EXCEPT ![key] = IF call[r].op = "lock" THEN dev ELSE NoDevice]
  BY <1>3 DEF TheLock!Grant, TheLock!Grantable
<1>5. \A k \in Keys :
        Holder'[k] = IF k # key THEN Holder[k]
                     ELSE IF call[r].op = "lock" THEN dev ELSE NoDevice
  BY <1>4 DEF Holder
<1>6. Holder[key] # Absent /\ key \in inserted
  BY <1>1, <1>2, <1>4, StoreAssumption DEF LockOps, KeysInserted, Holder
<1>7. \A op \in LockOps, k \in Keys, d \in Devices :
        /\ Grants(op, k, d) \in Nat
        /\ Granted(op, k, d)' =
             IF op = call[r].op /\ k = key /\ d = dev
             THEN Granted(op, k, d) \union {r} ELSE Granted(op, k, d)
        /\ Grants(op, k, d)' =
             IF op = call[r].op /\ k = key /\ d = dev
             THEN Grants(op, k, d) + 1 ELSE Grants(op, k, d)
  BY GrantCounts, GrantsFinite
<1> HIDE DEF key, dev
<1>8. ASSUME NEW k \in Keys
      PROVE  /\ Holder'[k] # Absent =>
                  \A d \in Devices :
                    Grants("lock", k, d)' =
                      Grants("unlock", k, d)' + (IF Holder'[k] = d THEN 1 ELSE 0)
             /\ k \notin inserted' =>
                  \A op \in LockOps, d \in Devices : Granted(op, k, d)' = {}
             /\ \A d, e \in Devices : Claims(k, d)' /\ Claims(k, e)' => d = e
  <2>1. CASE k # key
    <3>1. \A d \in Devices : Claims(k, d)' <=> Claims(k, d)
      BY <1>7, <2>1 DEF Claims, Grants, LockOps
    <3>2. \A op \in LockOps, d \in Devices :
            Grants(op, k, d)' = Grants(op, k, d) /\ Granted(op, k, d)' = Granted(op, k, d)
      BY <1>7, <2>1
    <3> QED
      BY <1>5, <2>1, <3>1, <3>2 DEF ClaimInv, LockOps
  <2>2. CASE k = key
    <3>1. \A d \in Devices :
            Grants("lock", k, d) = Grants("unlock", k, d) + (IF Holder[k] = d THEN 1 ELSE 0)
      BY <1>6, <2>2 DEF ClaimInv
    <3>2. \A d \in Devices :
            Grants("lock", k, d)' = Grants("unlock", k, d)' + (IF Holder'[k] = d THEN 1 ELSE 0)
      <4> TAKE d \in Devices
      <4>1. d # NoDevice /\ dev # NoDevice
        BY <1>2, StoreAssumption
      <4>2. CASE call[r].op = "lock"
        BY <1>4, <1>5, <1>7, <2>2, <3>1, <4>1, <4>2 DEF LockOps
      <4>3. CASE call[r].op = "unlock"
        BY <1>4, <1>5, <1>7, <2>2, <3>1, <4>1, <4>3 DEF LockOps
      <4> QED
        BY <1>1, <4>2, <4>3 DEF LockOps
    <3>3. \A d \in Devices : Claims(k, d)' => Holder'[k] = d
      <4>1. \A d \in Devices : Grants("unlock", k, d)' \in Nat
        BY <1>7 DEF LockOps
      <4> QED
        BY <3>2, <4>1 DEF Claims, Grants
    <3>4. k \in inserted'
      BY <1>6, <2>2
    <3> QED
      BY <3>2, <3>3, <3>4
  <2> QED
    BY <2>1, <2>2
<1> QED
  BY <1>8 DEF ClaimInv

\* Any other step: objects come under new keys and go, and no one is granted
\* anything.
LEMMA OthersKeepClaims ==
  ASSUME ClaimInv, IsFiniteSet(Requests), inserted \subseteq inserted',
         \A op \in LockOps, k \in Keys, d \in Devices :
           Granted(op, k, d)' = Granted(op, k, d),
         \A k \in Keys : \/ Holder'[k] \in {Holder[k], Absent}
                         \/ k \notin inserted /\ Holder'[k] = NoDevice
  PROVE  ClaimInv'
<1>1. \A op \in LockOps, k \in Keys, d \in Devices :
        Grants(op, k, d)' = Grants(op, k, d) /\ Grants(op, k, d) \in Nat
  BY GrantsFinite DEF Grants
<1>2. \A k \in Keys, d \in Devices : Claims(k, d)' <=> Claims(k, d)
  BY <1>1 DEF Claims, Grants, LockOps
<1>3. ASSUME NEW k \in Keys, NEW d \in Devices, Holder'[k] # Absent
      PROVE  Grants("lock", k, d)' =
               Grants("unlock", k, d)' + (IF Holder'[k] = d THEN 1 ELSE 0)
  <2>1. CASE Holder'[k] = Holder[k]
    BY <1>1, <1>3, <2>1 DEF ClaimInv, LockOps
  <2>2. CASE k \notin inserted /\ Holder'[k] = NoDevice
    <3>1. Grants("lock", k, d) = 0 /\ Grants("unlock", k, d) = 0
      BY <2>2, FS_EmptySet DEF ClaimInv, LockOps, Grants
    <3>2. d # NoDevice
      BY StoreAssumption
    <3> QED
      BY <1>1, <2>2, <3>1, <3>2 DEF LockOps
  <2> QED
    BY <1>3, <2>1, <2>2
<1> QED
  BY <1>2, <1>3 DEF ClaimInv

\* Keys are not handed out twice.
LEMMA KeysNotReused ==
  ASSUME Inv, KeysInserted, [Next]_vars
  PROVE  /\ inserted \subseteq inserted'
         /\ UNCHANGED call
         /\ \A k \in inserted : store[k] = Absent => store'[k] = Absent
<1>1. CASE UNCHANGED <<store, inserted, call>>
  BY <1>1
<1>2. ASSUME NEW r \in Requests, Step(r)
      PROVE  /\ inserted \subseteq inserted'
             /\ UNCHANGED call
             /\ \A k \in inserted : store[k] = Absent => store'[k] = Absent
  <2>1. CASE \/ UpdateObject(r) \/ LockObject(r) \/ UnlockObject(r)
             \/ CreateAction(r) \/ UpdateAction(r) \/ RemoveAction(r)
             \/ CreateFrame(r) \/ UpdateFrame(r) \/ RemoveFrame(r)
    BY <2>1, UpdatesModifyOrMiss DEF Modifies, Misses, Inv, TypeOK
  <2>2. CASE CreateObject(r)
    BY <2>2 DEF CreateObject, Inv, TypeOK
  <2>3. CASE DeleteObject(r)
    BY <2>3 DEF DeleteObject, Inv, TypeOK
  <2>4. CASE GetObject(r) \/ Refused(r) \/ Interrupted(r)
    BY <2>4 DEF GetObject, Refused, Interrupted
  <2> QED
    BY <1>2, <2>1, <2>2, <2>3, <2>4 DEF Step
<1> QED
  BY <1>1, <1>2 DEF Next, Begin, Terminated, vars

LEMMA ClaimsAlways ==
  ASSUME OnlyLocksName, IsFiniteSet(Requests)
  PROVE  Spec => []ClaimInv
<1>1. Init => ClaimInv
  <2> SUFFICES ASSUME Init PROVE ClaimInv
    OBVIOUS
  <2>1. \A op \in LockOps, k \in Keys, d \in Devices : Granted(op, k, d) = {}
    BY DEF Init, Granted, NoResponse
  <2>2. \A k \in Keys, d \in Devices :
          Grants("lock", k, d) = 0 /\ Grants("unlock", k, d) = 0
    BY <2>1, FS_EmptySet DEF Grants, LockOps
  <2>3. \A k \in Keys : Holder[k] \in {NoDevice, Absent}
    BY InitialLock DEF TheLock!Init
  <2>4. \A k \in Keys, d \in Devices : ~Claims(k, d)
    BY <2>2 DEF Claims, Grants
  <2> QED
    BY <2>1, <2>2, <2>3, <2>4, StoreAssumption DEF ClaimInv
<1>2. Inv /\ KeysInserted /\ ClaimInv /\ [Next]_vars => ClaimInv'
  <2> SUFFICES ASSUME Inv, KeysInserted, ClaimInv, [Next]_vars PROVE ClaimInv'
    OBVIOUS
  <2>1. /\ inserted \subseteq inserted' /\ UNCHANGED call
        /\ \A k \in inserted : store[k] = Absent => store'[k] = Absent
    BY KeysNotReused
  <2>2. TheLock!Next \/ UNCHANGED TheLock!vars
    BY StepImplementsLock
  <2>3. CASE \E r \in Requests : TheLock!Grant(r)
    BY <2>1, <2>3, GrantKeepsClaims
  <2>4. CASE \E r \in Requests : TheLock!Contend(r) \/ TheLock!GiveUp(r)
    <3>1. PICK r \in Requests : TheLock!Contend(r) \/ TheLock!GiveUp(r)
      BY <2>4
    <3>2. /\ Outcome[r] # "granted" /\ Holder' = Holder
          /\ \E result \in {"contended", "denied", "failed"} :
               Outcome' = [Outcome EXCEPT ![r] = result]
      BY <3>1 DEF TheLock!Contend, TheLock!GiveUp, TheLock!Settle, TheLock!Undecided
    <3>3. \A s \in Requests : Outcome'[s] = "granted" <=> Outcome[s] = "granted"
      BY <3>2 DEF Outcome
    <3>4. \A op \in LockOps, k \in Keys, d \in Devices : Granted(op, k, d)' = Granted(op, k, d)
      <4> TAKE op \in LockOps, k \in Keys, d \in Devices
      <4>1. \A s : s \in Granted(op, k, d)' <=> s \in Granted(op, k, d)
        BY <2>1, <3>3, GrantedOutcome
      <4> QED
        BY <4>1
    <3> QED
      BY <2>1, <3>2, <3>4, OthersKeepClaims
  <2>5. CASE (\E k \in Keys : TheLock!Create(k) \/ TheLock!Delete(k)) \/ UNCHANGED TheLock!vars
    <3>1. /\ Outcome' = Outcome
          /\ \A k \in Keys : \/ Holder'[k] \in {Holder[k], Absent}
                             \/ Holder[k] = Absent /\ Holder'[k] = NoDevice
      BY <2>5 DEF TheLock!Create, TheLock!Delete, TheLock!vars, Holder
    <3>2. \A op \in LockOps, k \in Keys, d \in Devices : Granted(op, k, d)' = Granted(op, k, d)
      <4> TAKE op \in LockOps, k \in Keys, d \in Devices
      <4>1. \A s : s \in Granted(op, k, d)' <=> s \in Granted(op, k, d)
        BY <2>1, <3>1, GrantedOutcome
      <4> QED
        BY <4>1
    <3>3. ASSUME NEW k \in Keys, k \in inserted, Holder[k] = Absent
          PROVE  Holder'[k] = Absent
      <4>1. store[k] = Absent
        BY <3>3, StoreAssumption DEF Holder, Inv, TypeOK, Document
      <4> QED
        BY <2>1, <3>3, <4>1 DEF Holder
    <3> QED
      BY <2>1, <3>1, <3>2, <3>3, OthersKeepClaims
  <2> QED
    BY <2>2, <2>3, <2>4, <2>5 DEF TheLock!Next
<1> QED
  BY <1>1, <1>2, InvAlways, KeysInsertedAlways, PTL DEF Spec

\* "No additional locks will be granted on a locked object until this method is
\* called by the owner": at most one device has the lock of an object, as long as
\* only locks name owners and no reply is lost.
THEOREM LockIsExclusive ==
  ASSUME OnlyLocksName, IsFiniteSet(Requests)
  PROVE  Spec => []LockExclusion
<1>1. ClaimInv => LockExclusion
  BY DEF ClaimInv, LockExclusion
<1> QED
  BY <1>1, ClaimsAlways, PTL

\* Under the same conditions the owner in the document is a device that was told it
\* has the lock: no denied or failed request leaves an object locked.
THEOREM OwnersWereTold ==
  ASSUME OnlyLocksName, IsFiniteSet(Requests)
  PROVE  Spec => []OwnerWasTold
<1>1. ClaimInv => OwnerWasTold
  <2> SUFFICES ASSUME ClaimInv, NEW k \in Keys, NEW d \in Devices,
                      store[k] # Absent, store[k].owner = d
               PROVE  Claims(k, d)
    BY DEF OwnerWasTold
  <2>1. Holder[k] = d /\ d # Absent
    BY StoreAssumption DEF Holder
  <2>2. Grants("lock", k, d) = Grants("unlock", k, d) + 1
    BY <2>1 DEF ClaimInv
  <2>3. Grants("unlock", k, d) \in Nat
    BY GrantsFinite
  <2> QED
    BY <2>2, <2>3 DEF Claims, Grants
<1> QED
  BY <1>1, ClaimsAlways, PTL
-----------------------------------------------------------------------------
(***************************************************************************)
(* Effects: a call that has changed a document has returned.               *)
(***************************************************************************)
Pushes(r, k, a) ==
  call[r].op \in ObjectOps /\ call[r].key = k /\ a \in call[r].obj.assets

\* The pushes that have returned, and those that were acknowledged.
Ended(k, a) == {r \in Requests : pc[r] = "returned" /\ Pushes(r, k, a)}
Acked(k, a) == {r \in Requests : response[r].success /\ Pushes(r, k, a)}
EndedCreators == {r \in Requests : pc[r] = "returned" /\ call[r].op = "create"}

\* Of an object that was there from the start every entry of an asset was pushed by
\* a call that has returned, and every acknowledged push left one.
EntryInv ==
  \A k \in Stored, a \in Assets :
    store[k] # Absent =>
      /\ InitialDoc.assets[a] + Cardinality(Acked(k, a)) <= store[k].assets[a]
      /\ store[k].assets[a] <= InitialDoc.assets[a] + Cardinality(Ended(k, a))

\* Every new object was created by a call that has returned.
CreationInv ==
  /\ Stored \subseteq inserted
  /\ IsFiniteSet(inserted \ Stored)
  /\ Cardinality(inserted \ Stored) <= Cardinality(EndedCreators)

LEMMA SubsetSize ==
  ASSUME NEW S, IsFiniteSet(S), NEW T \in SUBSET S
  PROVE  /\ IsFiniteSet(T) /\ Cardinality(T) \in Nat
         /\ Cardinality(T) <= Cardinality(S)
BY FS_Subset, FS_CardinalityType

\* A step of request r adds at most r to any of these sets.
LEMMA EffectsAreLocal ==
  ASSUME Inv, IsFiniteSet(Requests), NEW r \in Requests, pc[r] \in {"idle", "running"},
         UNCHANGED call,
         \A s \in Requests : s # r => pc'[s] = pc[s] /\ response'[s] = response[s],
         NEW k, NEW a
  PROVE  /\ Cardinality(Ended(k, a)) \in Nat /\ Cardinality(Acked(k, a)) \in Nat
         /\ Cardinality(EndedCreators) \in Nat
         /\ Cardinality(Ended(k, a))' =
              Cardinality(Ended(k, a))
                + (IF pc'[r] = "returned" /\ Pushes(r, k, a) THEN 1 ELSE 0)
         /\ Cardinality(Acked(k, a))' =
              Cardinality(Acked(k, a))
                + (IF response'[r].success /\ Pushes(r, k, a) THEN 1 ELSE 0)
         /\ Cardinality(EndedCreators)' =
              Cardinality(EndedCreators)
                + (IF pc'[r] = "returned" /\ call[r].op = "create" THEN 1 ELSE 0)
<1>1. ~response[r].success /\ pc[r] # "returned"
  BY DEF Inv, LoopInv
<1>2. \A s : Pushes(s, k, a)' <=> Pushes(s, k, a)
  BY DEF Pushes
<1>3. /\ IsFiniteSet(Ended(k, a)) /\ IsFiniteSet(Acked(k, a)) /\ IsFiniteSet(EndedCreators)
      /\ Cardinality(Ended(k, a)) \in Nat /\ Cardinality(Acked(k, a)) \in Nat
      /\ Cardinality(EndedCreators) \in Nat
  <2>1. /\ Ended(k, a) \in SUBSET Requests /\ Acked(k, a) \in SUBSET Requests
        /\ EndedCreators \in SUBSET Requests
    BY DEF Ended, Acked, EndedCreators
  <2> QED
    BY <2>1, SubsetSize
<1>4. /\ r \notin Ended(k, a) /\ r \notin Acked(k, a) /\ r \notin EndedCreators
  BY <1>1 DEF Ended, Acked, EndedCreators
<1>5. Ended(k, a)' = IF pc'[r] = "returned" /\ Pushes(r, k, a)
                     THEN Ended(k, a) \union {r} ELSE Ended(k, a)
  BY <1>1, <1>2 DEF Ended
<1>6. Acked(k, a)' = IF response'[r].success /\ Pushes(r, k, a)
                     THEN Acked(k, a) \union {r} ELSE Acked(k, a)
  BY <1>1, <1>2 DEF Acked
<1>7. EndedCreators' = IF pc'[r] = "returned" /\ call[r].op = "create"
                       THEN EndedCreators \union {r} ELSE EndedCreators
  BY <1>1 DEF EndedCreators
<1>8. /\ Cardinality(Ended(k, a) \union {r}) = Cardinality(Ended(k, a)) + 1
      /\ Cardinality(Acked(k, a) \union {r}) = Cardinality(Acked(k, a)) + 1
      /\ Cardinality(EndedCreators \union {r}) = Cardinality(EndedCreators) + 1
  BY <1>3, <1>4, FS_AddElement
<1>9. Cardinality(Ended(k, a))' =
        Cardinality(Ended(k, a)) + (IF pc'[r] = "returned" /\ Pushes(r, k, a) THEN 1 ELSE 0)
  BY <1>3, <1>5, <1>8
<1>10. Cardinality(Acked(k, a))' =
        Cardinality(Acked(k, a)) + (IF response'[r].success /\ Pushes(r, k, a) THEN 1 ELSE 0)
  BY <1>3, <1>6, <1>8
<1>11. Cardinality(EndedCreators)' =
         Cardinality(EndedCreators)
           + (IF pc'[r] = "returned" /\ call[r].op = "create" THEN 1 ELSE 0)
  BY <1>3, <1>7, <1>8
<1> QED
  BY <1>3, <1>9, <1>10, <1>11

\* A step that leaves the objects as they are, or removes one, and acknowledges no
\* push.
LEMMA NoPushKeepsEntries ==
  ASSUME Inv, EntryInv, IsFiniteSet(Requests), NEW r \in Requests,
         pc[r] \in {"idle", "running"}, UNCHANGED call,
         \A s \in Requests : s # r => pc'[s] = pc[s] /\ response'[s] = response[s],
         response'[r].success => call[r].op \notin ObjectOps,
         \A k \in Stored : store'[k] # Absent =>
           store[k] # Absent /\ store'[k].assets = store[k].assets
  PROVE  EntryInv'
<1> SUFFICES ASSUME NEW k \in Stored, NEW a \in Assets, store'[k] # Absent
             PROVE  /\ InitialDoc.assets[a] + Cardinality(Acked(k, a))' <= store'[k].assets[a]
                    /\ store'[k].assets[a] <= InitialDoc.assets[a] + Cardinality(Ended(k, a))'
  BY DEF EntryInv
<1>1. k \in Keys /\ store[k] \in Document /\ store'[k].assets = store[k].assets
  BY StoreAssumption DEF Inv, TypeOK
<1>2. store[k].assets[a] \in Nat /\ InitialDoc.assets[a] \in Nat
  BY <1>1, CallAssumption DEF Document
<1>3. /\ InitialDoc.assets[a] + Cardinality(Acked(k, a)) <= store[k].assets[a]
      /\ store[k].assets[a] <= InitialDoc.assets[a] + Cardinality(Ended(k, a))
  BY <1>1 DEF EntryInv
<1>4. /\ Cardinality(Ended(k, a)) \in Nat /\ Cardinality(Acked(k, a)) \in Nat
      /\ Cardinality(Acked(k, a))' = Cardinality(Acked(k, a))
      /\ Cardinality(Ended(k, a))' \in {Cardinality(Ended(k, a)), Cardinality(Ended(k, a)) + 1}
  BY EffectsAreLocal DEF Pushes
<1> QED
  BY <1>1, <1>2, <1>3, <1>4

\* An update pushes the assets it names onto its object and is over.
LEMMA UpdateKeepsEntries ==
  ASSUME Inv, EntryInv, IsFiniteSet(Requests), NEW r \in Requests, UpdateObject(r)
  PROVE  EntryInv'
<1> DEFINE key == call[r].key
           obj == call[r].obj
<1>1. /\ pc[r] = "running" /\ call[r].op \in ObjectOps /\ UNCHANGED call
      /\ key \in Keys /\ obj \in Payloads
  BY CallTypes DEF UpdateObject, Attempts, UpdateOne, ObjectOps, Inv, TypeOK
<1>2. CASE Misses(r)
  <2>1. \A s \in Requests : s # r => pc'[s] = pc[s] /\ response'[s] = response[s]
    BY <1>1, <1>2, LoopIsLocal DEF Misses
  <2>2. response'[r].success = response[r].success /\ ~response[r].success
    BY <1>1, <1>2 DEF Misses, NotFound, Inv, TypeOK, LoopInv
  <2> QED
    BY <1>1, <1>2, <2>1, <2>2, NoPushKeepsEntries DEF Misses
<1>3. CASE ~Misses(r)
  <2>1. /\ store[key] # Absent /\ Executed(r)
        /\ store' = [store EXCEPT ![key] = UpdateDoc(store[key], obj, TRUE)]
    BY <1>3 DEF UpdateObject, UpdateOne, Misses, IsAppend
  <2>2. \A s \in Requests : s # r => pc'[s] = pc[s] /\ response'[s] = response[s]
    BY <1>1, <2>1, LoopIsLocal
  <2>3. pc'[r] = "returned"
    BY <2>1 DEF Executed, Succeed, LeaveAfterException, Leave, Inv, TypeOK
  <2>4. store[key] \in Document
    BY <1>1, <2>1 DEF Inv, TypeOK
  <2>5. ASSUME NEW a \in Assets
        PROVE  UpdateDoc(store[key], obj, TRUE).assets[a] =
                 store[key].assets[a] + (IF a \in obj.assets THEN 1 ELSE 0)
    BY <2>4 DEF UpdateDoc, Document
  <2>6. SUFFICES ASSUME NEW k \in Stored, NEW a \in Assets, store'[k] # Absent
                 PROVE  /\ InitialDoc.assets[a] + Cardinality(Acked(k, a))'
                             <= store'[k].assets[a]
                        /\ store'[k].assets[a]
                             <= InitialDoc.assets[a] + Cardinality(Ended(k, a))'
    BY DEF EntryInv
  <2>7. k \in Keys /\ store[k] # Absent /\ store[k] \in Document
    BY <1>1, <2>1, <2>6, StoreAssumption DEF Inv, TypeOK
  <2>8. store[k].assets[a] \in Nat /\ InitialDoc.assets[a] \in Nat
    BY <2>7, CallAssumption DEF Document
  <2>9. /\ InitialDoc.assets[a] + Cardinality(Acked(k, a)) <= store[k].assets[a]
        /\ store[k].assets[a] <= InitialDoc.assets[a] + Cardinality(Ended(k, a))
    BY <2>7 DEF EntryInv
  <2>10. store'[k].assets[a] = store[k].assets[a] + (IF Pushes(r, k, a) THEN 1 ELSE 0)
    <3>1. CASE k = key
      BY <1>1, <2>1, <2>5, <2>7, <3>1 DEF Pushes, Inv, TypeOK
    <3>2. CASE k # key
      BY <1>1, <2>1, <2>7, <2>8, <3>2 DEF Pushes, Inv, TypeOK
    <3> QED BY <3>1, <3>2
  <2>11. /\ Cardinality(Ended(k, a)) \in Nat /\ Cardinality(Acked(k, a)) \in Nat
         /\ Cardinality(Ended(k, a))' =
              Cardinality(Ended(k, a)) + (IF Pushes(r, k, a) THEN 1 ELSE 0)
         /\ Cardinality(Acked(k, a))' \in
              {Cardinality(Acked(k, a)),
               Cardinality(Acked(k, a)) + (IF Pushes(r, k, a) THEN 1 ELSE 0)}
    BY <1>1, <2>2, <2>3, EffectsAreLocal
  <2> QED
    BY <2>8, <2>9, <2>10, <2>11
<1> QED
  BY <1>2, <1>3

\* No other update touches the assets.
LEMMA OtherUpdatesKeepAssets ==
  ASSUME Inv, NEW r \in Requests,
         \/ LockObject(r) \/ UnlockObject(r)
         \/ CreateAction(r) \/ UpdateAction(r) \/ RemoveAction(r)
         \/ CreateFrame(r) \/ UpdateFrame(r) \/ RemoveFrame(r)
  PROVE  \A k \in Keys : store'[k] # Absent =>
           store[k] # Absent /\ store'[k].assets = store[k].assets
<1> DEFINE key == call[r].key
<1>1. key \in Keys /\ (Misses(r) \/ \E doc \in Document : Modifies(r, doc))
  BY UpdatesModifyOrMiss DEF Inv
<1>2. SUFFICES ASSUME store' # store
               PROVE  \E doc : /\ store' = [store EXCEPT ![key] = doc]
                               /\ store[key] # Absent /\ doc.assets = store[key].assets
  BY <1>1 DEF Inv, TypeOK
<1>3. store[key] # Absent /\ store[key] \in Document
  BY <1>1, <1>2 DEF Misses, Modifies, Inv, TypeOK
<1>4. CASE LockObject(r)
  <2>1. call[r].obj.assets = {}
    <3>1. call[r] \in WellFormedCalls /\ call[r].op = "lock"
      BY <1>4, CallAssumption DEF LockObject, Attempts, Inv, TypeOK
    <3> QED
      BY <3>1 DEF WellFormedCalls, LockOps, ObjectOps, KeyOps, ActionOps, FrameOps
  <2>2. store' = [store EXCEPT ![key] = UpdateDoc(store[key], call[r].obj, TRUE)]
    BY <1>2, <1>4 DEF LockObject, UpdateOne
  <2>3. UpdateDoc(store[key], call[r].obj, TRUE).assets = store[key].assets
    <3>1. UpdateDoc(store[key], call[r].obj, TRUE).assets = [a \in Assets |-> store[key].assets[a]]
      BY <1>3, <2>1 DEF UpdateDoc, Document
    <3> QED
      BY <1>3, <3>1 DEF Document
  <2> QED
    BY <1>3, <2>2, <2>3
<1>5. CASE UnlockObject(r)
  <2>1. store' = [store EXCEPT ![key] = [store[key] EXCEPT !.owner = NoDevice]]
    BY <1>2, <1>5 DEF UnlockObject, UpdateOne
  <2>2. [store[key] EXCEPT !.owner = NoDevice].assets = store[key].assets
    BY <1>3 DEF Document
  <2> QED
    BY <1>3, <2>1, <2>2
<1>6. CASE \/ CreateAction(r) \/ UpdateAction(r) \/ RemoveAction(r)
           \/ CreateFrame(r) \/ UpdateFrame(r) \/ RemoveFrame(r)
  <2>1. \E name, action : store' = [store EXCEPT ![key] = SetAction(store[key], name, action)]
    BY <1>2, <1>6
    DEF CreateAction, UpdateAction, RemoveAction, CreateFrame, UpdateFrame, RemoveFrame,
        UpdateOne, SetFrame
  <2> QED
    BY <1>3, <2>1 DEF SetAction, Document
<1> QED
  BY <1>4, <1>5, <1>6

LEMMA CreationsAlways ==
  ASSUME IsFiniteSet(Requests)
  PROVE  Spec => []CreationInv
<1>1. Init => CreationInv
  <2> SUFFICES ASSUME Init PROVE CreationInv
    OBVIOUS
  <2>1. inserted \ Stored = {} /\ EndedCreators = {}
    BY DEF Init, EndedCreators
  <2> QED
    BY <2>1, FS_EmptySet DEF Init, CreationInv
<1>2. Inv /\ CreationInv /\ [Next]_vars => CreationInv'
  <2> SUFFICES ASSUME Inv, CreationInv, [Next]_vars PROVE CreationInv'
    OBVIOUS
  <2>1. ASSUME NEW r \in Requests, pc[r] \in {"idle", "running"}, UNCHANGED <<inserted, call>>,
               \A s \in Requests : s # r => pc'[s] = pc[s] /\ response'[s] = response[s]
        PROVE  CreationInv'
    <3>1. /\ Cardinality(EndedCreators) \in Nat
          /\ Cardinality(EndedCreators)' \in
               {Cardinality(EndedCreators), Cardinality(EndedCreators) + 1}
      BY <2>1, EffectsAreLocal
    <3>2. Cardinality(inserted \ Stored) \in Nat
      BY FS_CardinalityType DEF CreationInv
    <3> QED
      BY <2>1, <3>1, <3>2 DEF CreationInv
  <2>2. CASE UNCHANGED vars
    BY <2>2 DEF vars, CreationInv, EndedCreators
  <2>3. ASSUME NEW r \in Requests, Begin(r) PROVE CreationInv'
    BY <2>1, <2>3 DEF Begin, Inv, TypeOK
  <2>4. ASSUME NEW r \in Requests, Step(r) PROVE CreationInv'
    <3>1. CASE CreateObject(r)
      <4>1. /\ pc[r] = "running" /\ call[r].op = "create" /\ UNCHANGED call
            /\ Executed(r)
        BY <3>1 DEF CreateObject, Attempts
      <4>2. PICK k \in Keys \ inserted : inserted' = inserted \union {k}
        BY <3>1 DEF CreateObject
      <4>3. pc'[r] = "returned"
        BY <4>1 DEF Executed, Succeed, LeaveAfterException, Leave, Inv, TypeOK
      <4>4. /\ Cardinality(EndedCreators) \in Nat
            /\ Cardinality(EndedCreators)' = Cardinality(EndedCreators) + 1
        BY <4>1, <4>3, LoopIsLocal, EffectsAreLocal
      <4>5. inserted' \ Stored = (inserted \ Stored) \union {k} /\ k \notin inserted \ Stored
        BY <4>2 DEF CreationInv
      <4>6. /\ IsFiniteSet(inserted' \ Stored)
            /\ Cardinality(inserted' \ Stored) = Cardinality(inserted \ Stored) + 1
        BY <4>5, FS_AddElement DEF CreationInv
      <4>7. Cardinality(inserted \ Stored) \in Nat
        BY FS_CardinalityType DEF CreationInv
      <4> QED
        BY <4>2, <4>4, <4>6, <4>7 DEF CreationInv
    <3>2. CASE \/ UpdateObject(r) \/ LockObject(r) \/ UnlockObject(r)
               \/ CreateAction(r) \/ UpdateAction(r) \/ RemoveAction(r)
               \/ CreateFrame(r) \/ UpdateFrame(r) \/ RemoveFrame(r)
      BY <2>1, <3>2, UpdatesModifyOrMiss, LoopIsLocal DEF Modifies, Misses, Inv
    <3>3. CASE DeleteObject(r)
      BY <2>1, <3>3, LoopIsLocal DEF DeleteObject, Attempts
    <3>4. CASE GetObject(r)
      BY <2>1, <3>4 DEF GetObject, Attempts, NotFound, Leave, Inv, TypeOK
    <3>5. CASE Refused(r) \/ Interrupted(r)
      BY <2>1, <3>5, LoopIsLocal DEF Refused, Interrupted, LeaveAfterException
    <3> QED
      BY <2>4, <3>1, <3>2, <3>3, <3>4, <3>5 DEF Step
  <2> QED
    BY <2>2, <2>3, <2>4 DEF Next, Terminated
<1> QED
  BY <1>1, <1>2, InvAlways, PTL DEF Spec

LEMMA EntriesAlways ==
  ASSUME IsFiniteSet(Requests)
  PROVE  Spec => []EntryInv
<1>1. Init => EntryInv
  <2> SUFFICES ASSUME Init, NEW k \in Stored, NEW a \in Assets
               PROVE  /\ InitialDoc.assets[a] + Cardinality(Acked(k, a)) <= store[k].assets[a]
                      /\ store[k].assets[a] <= InitialDoc.assets[a] + Cardinality(Ended(k, a))
    BY DEF EntryInv
  <2>1. store[k] = InitialDoc /\ InitialDoc.assets[a] \in Nat
    BY StoreAssumption, CallAssumption DEF Init, Document
  <2>2. Acked(k, a) = {} /\ Ended(k, a) = {}
    BY DEF Init, Acked, Ended, NoResponse
  <2> QED
    BY <2>1, <2>2, FS_EmptySet
<1>2. Inv /\ KeysInserted /\ CreationInv /\ EntryInv /\ [Next]_vars => EntryInv'
  <2> SUFFICES ASSUME Inv, KeysInserted, CreationInv, EntryInv, [Next]_vars PROVE EntryInv'
    OBVIOUS
  <2>1. CASE UNCHANGED vars
    BY <2>1, SMTT(20) DEF vars, EntryInv, Acked, Ended, Pushes
  <2>2. ASSUME NEW r \in Requests, Begin(r) PROVE EntryInv'
    <3>1. /\ pc[r] = "idle" /\ UNCHANGED <<store, call, response>>
          /\ \A s \in Requests : s # r => pc'[s] = pc[s]
          /\ ~response[r].success
      BY <2>2 DEF Begin, Inv, TypeOK, LoopInv
    <3> QED
      BY <3>1, NoPushKeepsEntries
  <2>3. ASSUME NEW r \in Requests, Step(r) PROVE EntryInv'
    <3>0. \A k \in Stored : k \in Keys
      BY StoreAssumption
    <3>1. CASE UpdateObject(r)
      BY <3>1, UpdateKeepsEntries
    <3>2. CASE \/ LockObject(r) \/ UnlockObject(r)
               \/ CreateAction(r) \/ UpdateAction(r) \/ RemoveAction(r)
               \/ CreateFrame(r) \/ UpdateFrame(r) \/ RemoveFrame(r)
      <4>1. pc[r] = "running" /\ UNCHANGED call /\ call[r].op \notin ObjectOps
        BY <3>2 DEF LockObject, UnlockObject, CreateAction, UpdateAction, RemoveAction,
                    CreateFrame, UpdateFrame, RemoveFrame, Attempts, UpdateOne, ObjectOps
      <4>2. \A s \in Requests : s # r => pc'[s] = pc[s] /\ response'[s] = response[s]
        BY <3>2, <4>1, UpdatesModifyOrMiss, LoopIsLocal DEF Modifies, Misses, Inv
      <4> QED
        BY <3>0, <3>2, <4>1, <4>2, OtherUpdatesKeepAssets, NoPushKeepsEntries
    <3>3. CASE CreateObject(r)
      <4>1. pc[r] = "running" /\ UNCHANGED call /\ call[r].op \notin ObjectOps /\ Executed(r)
        BY <3>3 DEF CreateObject, Attempts, ObjectOps
      <4>2. \A k \in Stored : store'[k] = store[k]
        BY <3>0, <3>3 DEF CreateObject, CreationInv, Inv, TypeOK
      <4>3. \A s \in Requests : s # r => pc'[s] = pc[s] /\ response'[s] = response[s]
        BY <4>1, LoopIsLocal
      <4> QED
        BY <4>1, <4>2, <4>3, NoPushKeepsEntries
    <3>4. CASE DeleteObject(r)
      <4>1. /\ pc[r] = "running" /\ UNCHANGED call /\ call[r].op \notin ObjectOps
            /\ Executed(r) \/ (NotFound(r) /\ Leave(r))
        BY <3>4 DEF DeleteObject, Attempts, ObjectOps
      <4>2. \A k \in Stored : store'[k] # Absent => store'[k] = store[k]
        BY <3>0, <3>4 DEF DeleteObject, Inv, TypeOK
      <4>3. \A s \in Requests : s # r => pc'[s] = pc[s] /\ response'[s] = response[s]
        BY <4>1, LoopIsLocal
      <4> QED
        BY <4>1, <4>2, <4>3, NoPushKeepsEntries
    <3>5. CASE GetObject(r)
      <4>1. /\ pc[r] = "running" /\ UNCHANGED <<store, call>> /\ call[r].op \notin ObjectOps
            /\ \A s \in Requests : s # r => pc'[s] = pc[s] /\ response'[s] = response[s]
        BY <3>5 DEF GetObject, Attempts, ObjectOps, NotFound, Leave, Inv, TypeOK
      <4> QED
        BY <4>1, NoPushKeepsEntries
    <3>6. CASE Refused(r) \/ Interrupted(r)
      <4>1. /\ pc[r] = "running" /\ UNCHANGED <<store, call, response>>
            /\ Retry(r) \/ Leave(r)
        BY <3>6 DEF Refused, Interrupted, LeaveAfterException
      <4>2. \A s \in Requests : s # r => pc'[s] = pc[s] /\ response'[s] = response[s]
        BY <4>1, LoopIsLocal
      <4>3. ~response'[r].success
        BY <4>1 DEF Inv, LoopInv
      <4> QED
        BY <4>1, <4>2, <4>3, NoPushKeepsEntries
    <3> QED
      BY <2>3, <3>1, <3>2, <3>3, <3>4, <3>5, <3>6 DEF Step
  <2> QED
    BY <2>1, <2>2, <2>3 DEF Next, Terminated
<1>3. Spec => []CreationInv
  BY CreationsAlways
<1> QED
  BY <1>1, <1>2, <1>3, InvAlways, KeysInsertedAlways, PTL DEF Spec

\* No push of an asset is lost to a call that runs at the same time: where nobody asks
\* to remove the asset, every push that was acknowledged has its entry in the object.
THEOREM PushesAreKept ==
  ASSUME IsFiniteSet(Requests)
  PROVE  Spec => []AcknowledgedPushes
<1>1. Inv /\ EntryInv => AcknowledgedPushes
  <2> SUFFICES ASSUME Inv, EntryInv, NEW k \in Stored, NEW a \in Assets, store[k] # Absent
               PROVE  store[k].assets[a] >= InitialDoc.assets[a]
                        + Cardinality({r \in Pushers(k, a) : response[r].success})
    BY DEF AcknowledgedPushes
  <2>1. {r \in Pushers(k, a) : response[r].success} = Acked(k, a)
    BY DEF Inv, LoopInv, NoResponse, Pushers, Acked, Pushes
  <2>2. Cardinality(Acked(k, a)) \in Nat
    BY SubsetSize DEF Acked
  <2>3. store[k].assets[a] \in Nat /\ InitialDoc.assets[a] \in Nat
    BY StoreAssumption, CallAssumption DEF Inv, TypeOK, Document
  <2> QED
    BY <2>1, <2>2, <2>3 DEF EntryInv
<1> QED
  BY <1>1, InvAlways, EntriesAlways, PTL

\* A call takes effect at most once, whatever it is told and however often it tries.
THEOREM EffectsHappenOnce ==
  ASSUME IsFiniteSet(Requests)
  PROVE  Spec => []EffectsOnce
<1>1. Inv /\ EntryInv /\ CreationInv => EffectsOnce
  <2> SUFFICES ASSUME Inv, EntryInv, CreationInv PROVE EffectsOnce
    OBVIOUS
  <2>1. Cardinality(inserted \ Stored) <= Cardinality(Creators)
    <3>1. EndedCreators \in SUBSET Creators /\ Creators \in SUBSET Requests
      BY DEF EndedCreators, Creators
    <3>2. /\ Cardinality(EndedCreators) <= Cardinality(Creators)
          /\ Cardinality(EndedCreators) \in Nat /\ Cardinality(Creators) \in Nat
      BY <3>1, SubsetSize
    <3>3. Cardinality(inserted \ Stored) \in Nat
      BY FS_CardinalityType DEF CreationInv
    <3> QED
      BY <3>2, <3>3 DEF CreationInv
  <2>2. ASSUME NEW k \in Stored, NEW a \in Assets, store[k] # Absent
        PROVE  store[k].assets[a] <= InitialDoc.assets[a] + Cardinality(Pushers(k, a))
    <3>1. Ended(k, a) \in SUBSET Pushers(k, a) /\ Pushers(k, a) \in SUBSET Requests
      BY DEF Ended, Pushers, Pushes
    <3>2. /\ Cardinality(Ended(k, a)) <= Cardinality(Pushers(k, a))
          /\ Cardinality(Ended(k, a)) \in Nat /\ Cardinality(Pushers(k, a)) \in Nat
      BY <3>1, SubsetSize
    <3>3. store[k].assets[a] \in Nat /\ InitialDoc.assets[a] \in Nat
      BY <2>2, StoreAssumption, CallAssumption DEF Inv, TypeOK, Document
    <3> QED
      BY <2>2, <3>2, <3>3 DEF EntryInv
  <2> QED
    BY <2>1, <2>2 DEF EffectsOnce
<1> QED
  BY <1>1, InvAlways, EntriesAlways, CreationsAlways, PTL

-----------------------------------------------------------------------------
(***************************************************************************)
(* Parts: an update of a document writes the parts it was called for, and  *)
(* leaves the others as a call that ran beside it has written them.        *)
(***************************************************************************)
\* An update of the object, or a lock: what the call holds is stored, and the actions
\* are left alone; the transform is always part of it.
UpdatesObject(r, old, new) ==
  /\ call[r].op \in ObjectOps \union {"lock"}
  /\ new.transform = call[r].obj.transform
  /\ new.owner = IF call[r].obj.owner = NoDevice THEN old.owner ELSE call[r].obj.owner
  /\ new.actions = old.actions

\* An unlock: by the device that is the owner, who is taken out.
UnlocksObject(r, old, new) ==
  /\ call[r].op = "unlock"
  /\ call[r].obj.owner = old.owner
  /\ new = [old EXCEPT !.owner = NoDevice]

\* A call for an action or one of its keyframes: no other action is touched.
ChangesAction(r, old, new) ==
  /\ call[r].op \in ActionOps \union FrameOps
  /\ new = [old EXCEPT !.actions[call[r].action] = new.actions[call[r].action]]

LEMMA UpdateChangesItsPart ==
  ASSUME Inv, NEW r \in Requests, NEW k \in Keys, store'[k] # store[k],
         \/ UpdateObject(r) \/ LockObject(r) \/ UnlockObject(r)
         \/ CreateAction(r) \/ UpdateAction(r) \/ RemoveAction(r)
         \/ CreateFrame(r) \/ UpdateFrame(r) \/ RemoveFrame(r)
  PROVE  /\ call[r].key = k
         /\ \/ UpdatesObject(r, store[k], store'[k])
            \/ UnlocksObject(r, store[k], store'[k])
            \/ ChangesAction(r, store[k], store'[k])
<1>1. call[r].key \in Keys /\ (Misses(r) \/ \E doc \in Document : Modifies(r, doc))
  BY UpdatesModifyOrMiss DEF Inv
<1>2. /\ store[k] # Absent /\ store[k] \in Document /\ call[r].key = k
  BY <1>1 DEF Misses, Modifies, Inv, TypeOK
<1>3. \A doc : store' = [store EXCEPT ![k] = doc] => store'[k] = doc
  BY DEF Inv, TypeOK
<1>4. CASE UpdateObject(r) \/ LockObject(r)
  <2>1. /\ call[r].op \in ObjectOps \union {"lock"}
        /\ store'[k] = UpdateDoc(store[k], call[r].obj, TRUE)
    BY <1>2, <1>3, <1>4 DEF UpdateObject, LockObject, UpdateOne, Attempts, IsAppend
  <2>2. UpdatesObject(r, store[k], store'[k])
    BY <1>2, <2>1 DEF UpdatesObject, UpdateDoc, Document
  <2> QED
    BY <1>2, <2>2
<1>5. CASE UnlockObject(r)
  <2>1. /\ call[r].op = "unlock" /\ store[k].owner = call[r].obj.owner
        /\ store'[k] = [store[k] EXCEPT !.owner = NoDevice]
    BY <1>2, <1>3, <1>5 DEF UnlockObject, UpdateOne, UnlockFilter, Attempts
  <2> QED
    BY <1>2, <2>1 DEF UnlocksObject
<1>6. CASE \/ CreateAction(r) \/ UpdateAction(r) \/ RemoveAction(r)
           \/ CreateFrame(r) \/ UpdateFrame(r) \/ RemoveFrame(r)
  <2>1. /\ call[r].op \in ActionOps \union FrameOps
        /\ \E action : store'[k] = SetAction(store[k], call[r].action, action)
    BY <1>2, <1>3, <1>6
    DEF CreateAction, UpdateAction, RemoveAction, CreateFrame, UpdateFrame, RemoveFrame,
        UpdateOne, SetFrame, Attempts, ActionOps, FrameOps
  <2>2. PICK action : store'[k] = SetAction(store[k], call[r].action, action)
    BY <2>1
  <2>3. call[r].action \in ActionNames
    BY <2>1, CallTypes DEF Inv, TypeOK
  <2>4. store'[k].actions[call[r].action] = action
    BY <1>2, <2>2, <2>3 DEF SetAction, Document
  <2>5. store'[k] = [store[k] EXCEPT !.actions[call[r].action] = action]
    BY <2>2, Zenon DEF SetAction
  <2>6. ChangesAction(r, store[k], store'[k])
    BY <2>1, <2>4, <2>5, Zenon DEF ChangesAction
  <2> QED
    BY <1>2, <2>6
<1> QED
  BY <1>4, <1>5, <1>6

(***************************************************************************)
(* Calls of one document do not undo each other: a stored document that    *)
(* changes and stays is changed by one call that names it, and only in the *)
(* parts this was called for.  An object is moved by updates, locks and    *)
(* asset calls alone, each of which stores its own transform (for the      *)
(* latter two the identity, so that TransformMaintained fails).            *)
(***************************************************************************)
ChangesBelongToCalls ==
  [][\A k \in Keys :
       store[k] # Absent /\ store'[k] # Absent /\ store'[k] # store[k] =>
         \E r \in Requests :
           /\ pc[r] = "running" /\ call[r].key = k
           /\ \/ UpdatesObject(r, store[k], store'[k])
              \/ UnlocksObject(r, store[k], store'[k])
              \/ ChangesAction(r, store[k], store'[k])]_vars

THEOREM PartsAreIndependent == Spec => ChangesBelongToCalls
<1>1. Inv /\ KeysInserted /\ [Next]_vars =>
        [\A k \in Keys :
           store[k] # Absent /\ store'[k] # Absent /\ store'[k] # store[k] =>
             \E r \in Requests :
               /\ pc[r] = "running" /\ call[r].key = k
               /\ \/ UpdatesObject(r, store[k], store'[k])
                  \/ UnlocksObject(r, store[k], store'[k])
                  \/ ChangesAction(r, store[k], store'[k])]_vars
  <2> SUFFICES ASSUME Inv, KeysInserted, Next, NEW k \in Keys,
                      store[k] # Absent, store'[k] # Absent, store'[k] # store[k]
               PROVE  \E r \in Requests :
                        /\ pc[r] = "running" /\ call[r].key = k
                        /\ \/ UpdatesObject(r, store[k], store'[k])
                           \/ UnlocksObject(r, store[k], store'[k])
                           \/ ChangesAction(r, store[k], store'[k])
    OBVIOUS
  <2>1. PICK r \in Requests : Step(r)
    BY DEF Next, Begin, Terminated, vars
  <2>2. CASE \/ UpdateObject(r) \/ LockObject(r) \/ UnlockObject(r)
             \/ CreateAction(r) \/ UpdateAction(r) \/ RemoveAction(r)
             \/ CreateFrame(r) \/ UpdateFrame(r) \/ RemoveFrame(r)
    BY <2>2, UpdateChangesItsPart, UpdatesModifyOrMiss DEF Inv
  <2>3. CASE CreateObject(r)
    BY <2>3 DEF CreateObject, KeysInserted, Inv, TypeOK
  <2>4. CASE DeleteObject(r)
    BY <2>4 DEF DeleteObject, Inv, TypeOK
  <2>5. CASE GetObject(r) \/ Refused(r) \/ Interrupted(r)
    BY <2>5 DEF GetObject, Refused, Interrupted
  <2> QED
    BY <2>1, <2>2, <2>3, <2>4, <2>5 DEF Step
<1> QED
  BY <1>1, InvAlways, KeysInsertedAlways, PTL DEF Spec, ChangesBelongToCalls
=============================================================================
