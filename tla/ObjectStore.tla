----------------------------- MODULE ObjectStore -----------------------------
(***************************************************************************)
(* The object documents CLyman keeps in Mongo and the calls of class       *)
(* ObjectDatabaseManager that change them (src/src/db/                     *)
(* obj3_database_manager.cpp and its header), as the handlers make them.   *)
(*                                                                         *)
(* Each request is one call on a thread of its own.  A call makes up to    *)
(* MaxRetries attempts; an attempt is one update_one, insert_one,          *)
(* delete_one or find_one, which Mongo executes atomically on a document,  *)
(* and other calls run between two attempts.                               *)
(*                                                                         *)
(* A document keeps the fields whose updates differ: the owner stands for  *)
(* every string that an update sets only when it is not empty.             *)
(***************************************************************************)
EXTENDS Naturals, FiniteSets

CONSTANTS
  Requests,      \* the database calls in flight
  Calls,         \* what the calls may be (see the constructors below)
  Keys,          \* the OIDs of the collection
  Stored,        \* the keys of the documents present at the start
  InitialDoc,    \* what these hold
  Devices,       \* the owners a client can name
  NoDevice,      \* the empty owner string
  Transforms,    \* transformation matrices
  Identity,      \* the matrix of a newly built Object3d
  Assets,        \* asset ids
  ActionNames,   \* names of animation actions
  FrameIds,      \* keyframe numbers
  Values,        \* contents of descriptions and keyframes
  Absent,        \* a field or document that is not there
  MaxRetries,    \* max_retries (11 in the code)
  Failures       \* the failures an attempt may meet

ASSUME StoreAssumption ==
  /\ Stored \subseteq Keys
  /\ NoDevice \notin Devices
  /\ Absent \notin Devices \union {NoDevice}
  /\ Identity \in Transforms
  /\ MaxRetries \in Nat \ {0}
  /\ Failures \subseteq {"refused", "interrupted", "reply_lost"}

VARIABLES
  store,     \* the collection: a document or Absent for every key
  inserted,  \* the OIDs handed out so far
  call,      \* the call of each request
  pc,        \* idle, running or returned
  attempts,  \* the local counter retries
  response   \* the DatabaseResponse, with what a read found

vars == <<store, inserted, call, pc, attempts, response>>

-----------------------------------------------------------------------------
Field == Values \union {Absent}

\* A keyframe: its transform and owner, the handles at animation_frame, and
\* what update_keyframe writes below a second "frames" (see UpdateFrame).
Frame == [body : Field, handles : Field, stray : Field]

Action == [description : Field,
           frames : [FrameIds -> Frame \union {Absent}]]

Document == [owner : Devices \union {NoDevice},
             transform : Transforms,
             assets : [Assets -> Nat],
             actions : [ActionNames -> Action \union {Absent}]]

NoFrames  == [f \in FrameIds |-> Absent]
NoActions == [a \in ActionNames |-> Absent]

\* A keyframe as add_obj_frame_to_doc writes it.
NewFrame(value) == [body |-> value, handles |-> value, stray |-> Absent]

\* The object of a request.  DataFactory builds every Object3d with the
\* identity matrix, and has_transform holds ever after.
Payload(owner, transform, assets) ==
  [owner |-> owner, transform |-> transform, assets |-> assets]

\* The calls.  lock_object and unlock_object build an object that holds only
\* the device, AssetRequestHandler one that holds only the asset.
CreateCall(obj)   == [op |-> "create", obj |-> obj]
UpdateCall(k, obj) == [op |-> "update", key |-> k, obj |-> obj]
LockCall(k, d) ==
  [op |-> "lock", key |-> k, obj |-> Payload(d, Identity, {})]
UnlockCall(k, d) ==
  [op |-> "unlock", key |-> k, obj |-> Payload(d, Identity, {})]
AddAssetCall(k, a) ==
  [op |-> "asset_add", key |-> k, obj |-> Payload(NoDevice, Identity, {a})]
RemoveAssetCall(k, a) ==
  [op |-> "asset_remove", key |-> k, obj |-> Payload(NoDevice, Identity, {a})]
DeleteCall(k) == [op |-> "delete", key |-> k]
GetCall(k)    == [op |-> "get", key |-> k]
ActionCall(op, k, a, v) == [op |-> op, key |-> k, action |-> a, value |-> v]
FrameCall(op, k, a, f, v) ==
  [op |-> op, key |-> k, action |-> a, frame |-> f, value |-> v]

\* What a call may be: only lock and unlock need a device.
Payloads == [owner : Devices \union {NoDevice}, transform : Transforms,
             assets : SUBSET Assets]

LockOps   == {"lock", "unlock"}
ObjectOps == {"update", "asset_add", "asset_remove"}
KeyOps    == {"delete", "get"}
ActionOps == {"action_create", "action_update", "action_remove"}
FrameOps  == {"frame_create", "frame_update", "frame_remove"}

WellFormedCalls ==
  [op : {"create"}, obj : Payloads]
    \union [op : LockOps, key : Keys,
            obj : [owner : Devices, transform : {Identity}, assets : {{}}]]
    \union [op : ObjectOps, key : Keys, obj : Payloads]
    \union [op : KeyOps, key : Keys]
    \union [op : ActionOps, key : Keys, action : ActionNames, value : Values]
    \union [op : FrameOps, key : Keys, action : ActionNames,
            frame : FrameIds, value : Values]

ASSUME CallAssumption ==
  /\ Calls \subseteq WellFormedCalls
  /\ InitialDoc \in Document
  /\ Absent \notin Document

\* What is stored is stored with its fields: in the document at the start, and in
\* the values of the calls.
ASSUME ContentAssumption ==
  /\ Absent \notin Values
  /\ \A a \in ActionNames :
       LET action == InitialDoc.actions[a] IN
       action # Absent =>
         /\ action.description # Absent
         /\ \A f \in FrameIds :
              action.frames[f] # Absent =>
                /\ action.frames[f].body # Absent
                /\ action.frames[f].handles # Absent

NoResponse == [success |-> FALSE, code |-> "NO_ERROR", found |-> Absent]

TypeOK ==
  /\ store \in [Keys -> Document \union {Absent}]
  /\ inserted \subseteq Keys
  /\ call \in [Requests -> Calls]
  /\ pc \in [Requests -> {"idle", "running", "returned"}]
  /\ attempts \in [Requests -> 0 .. MaxRetries]
  /\ response \in [Requests -> [success : BOOLEAN,
                                code : {"NO_ERROR", "NOT_FOUND"},
                                found : Document \union {Absent}]]

-----------------------------------------------------------------------------
(***************************************************************************)
(* The update documents and filters, by type of transaction.               *)
(***************************************************************************)

\* The overload of transaction() that update_object calls ignores its own
\* is_append_operation and passes true.
IsAppend(c) == TRUE

\* build_update_doc: $set of the owner when it is not empty and of the
\* transform, always; $push or $pull of the assets.
UpdateSetsAssets(doc, obj, append) ==  \* mutant: $set of the assets, no $push
  [doc EXCEPT
     !.owner = IF obj.owner = NoDevice THEN @ ELSE obj.owner,
     !.transform = obj.transform,
     !.assets = [a \in Assets |-> IF a \in obj.assets THEN 1 ELSE 0]]
UpdateDoc(doc, obj, append) ==
  [doc EXCEPT
     !.owner = IF obj.owner = NoDevice THEN @ ELSE obj.owner,
     !.transform = obj.transform,
     !.assets = [a \in Assets |->
                   IF a \notin obj.assets THEN doc.assets[a]
                   ELSE IF append THEN doc.assets[a] + 1 ELSE 0]]

\* build_create_doc, for an object without actions.
CreateDoc(obj) ==
  [owner |-> obj.owner, transform |-> obj.transform,
   assets |-> [a \in Assets |-> IF a \in obj.assets THEN 1 ELSE 0],
   actions |-> NoActions]

\* The filter of a lock asks for the empty owner, that of an unlock for the
\* device that unlocks.
AnyOwner(doc) == TRUE  \* mutant: the lock filters on the key alone
LockFilter(doc) == doc.owner = NoDevice

UnlockAny(doc, device) == doc.owner # NoDevice  \* mutant: unlock whoever owns
UnlockFilter(doc, device) == doc.owner = device

\* Every action and keyframe update but the creation of an action requires
\* that the action exists.
ActionAssumed(doc, name) == TRUE  \* mutant: no $exists in the filter
ActionExists(doc, name) == doc.actions[name] # Absent

\* Only the update of a keyframe requires the keyframe, too.
FrameAssumed(doc, name, frame) == TRUE  \* mutant: no $exists on the frame
FrameExists(doc, name, frame) ==
  doc.actions[name] # Absent /\ doc.actions[name].frames[frame] # Absent

\* What $set of a dotted path leaves of an action or frame that is missing:
\* Mongo creates the path.
ActionAt(doc, name) ==
  IF doc.actions[name] = Absent
  THEN [description |-> Absent, frames |-> NoFrames]
  ELSE doc.actions[name]
FrameAt(action, frame) ==
  IF action.frames[frame] = Absent
  THEN [body |-> Absent, handles |-> Absent, stray |-> Absent]
  ELSE action.frames[frame]

SetAction(doc, name, action) == [doc EXCEPT !.actions[name] = action]
SetFrame(doc, name, frame, value) ==
  SetAction(doc, name,
            [ActionAt(doc, name) EXCEPT !.frames[frame] = value])

\* Of a keyframe only the fields at their places are read; of an object the
\* transform only if it is an array, and it is stored as a document.
ReadFrame(frame) == [frame EXCEPT !.stray = Absent]

ReadAction(action) ==
  [action EXCEPT
     !.frames = [f \in FrameIds |-> IF action.frames[f] = Absent THEN Absent
                                    ELSE ReadFrame(action.frames[f])]]

ReadDoc(doc) ==
  [doc EXCEPT
     !.transform = Identity,
     !.actions = [a \in ActionNames |-> IF doc.actions[a] = Absent THEN Absent
                                        ELSE ReadAction(doc.actions[a])]]

-----------------------------------------------------------------------------
(***************************************************************************)
(* The retry loop of transaction(), get_object and delete_object.          *)
(***************************************************************************)
Init ==
  /\ store = [k \in Keys |-> IF k \in Stored THEN InitialDoc ELSE Absent]
  /\ inserted = Stored
  /\ call \in [Requests -> Calls]
  /\ pc = [r \in Requests |-> "idle"]
  /\ attempts = [r \in Requests |-> 0]
  /\ response = [r \in Requests |-> NoResponse]

Begin(r) ==
  /\ pc[r] = "idle"
  /\ pc' = [pc EXCEPT ![r] = "running"]
  /\ UNCHANGED <<store, inserted, call, attempts, response>>

\* The loop's end when the attempt was no success.
RetryForever(r) ==  \* mutant: the loop has no bound
  /\ attempts' = [attempts EXCEPT ![r] = @ + 1]
  /\ UNCHANGED pc
Retry(r) ==
  /\ attempts' = [attempts EXCEPT ![r] = @ + 1]
  /\ pc' = [pc EXCEPT ![r] = IF attempts[r] + 1 < MaxRetries
                             THEN "running" ELSE "returned"]

\* The call leaves the loop.
Leave(r) ==
  /\ pc' = [pc EXCEPT ![r] = "returned"]
  /\ UNCHANGED attempts

Succeed(r) ==
  /\ response' = [response EXCEPT ![r].success = TRUE]
  /\ Leave(r)

NotFound(r) == response' = [response EXCEPT ![r].code = "NOT_FOUND"]

\* A mongocxx::exception breaks out of the loop.
RetryAfterException(r) == Retry(r)  \* mutant: it is retried like any other
LeaveAfterException(r) == Leave(r)

\* Mongo has executed the command; the reply arrives, or the connection fails
\* before it and the driver throws.
Executed(r) ==
  \/ Succeed(r)
  \/ /\ "reply_lost" \in Failures
     /\ LeaveAfterException(r)
     /\ UNCHANGED response

\* One update_one.  modified_count is zero when no document matches, and when
\* the document that does has nothing to change.
UpdateOne(r, matches, updated) ==
  LET k == call[r].key IN
  /\ IF store[k] # Absent /\ matches /\ updated # store[k]
       THEN /\ store' = [store EXCEPT ![k] = updated]
            /\ Executed(r)
       ELSE /\ NotFound(r)
            /\ Retry(r)
            /\ UNCHANGED store
  /\ UNCHANGED <<inserted, call>>

\* An attempt of request r, whose call is one of ops.
Attempts(r, ops) == pc[r] = "running" /\ call[r].op \in ops

-----------------------------------------------------------------------------
(***************************************************************************)
(* The operations of ObjectDatabaseManager.                                *)
(***************************************************************************)
CreateObject(r) ==
  /\ Attempts(r, {"create"})
  /\ \E k \in Keys \ inserted :
       /\ store' = [store EXCEPT ![k] = CreateDoc(call[r].obj)]
       /\ inserted' = inserted \union {k}
  /\ Executed(r)
  /\ UNCHANGED call

\* update_object, and the two calls of it in AssetRequestHandler.
UpdateObject(r) ==
  /\ Attempts(r, ObjectOps)
  /\ UpdateOne(r, TRUE,
       UpdateDoc(store[call[r].key], call[r].obj, IsAppend(call[r])))

LockObject(r) ==
  /\ Attempts(r, {"lock"})
  /\ UpdateOne(r, LockFilter(store[call[r].key]),
       UpdateDoc(store[call[r].key], call[r].obj, TRUE))

UnlockObject(r) ==
  /\ Attempts(r, {"unlock"})
  /\ UpdateOne(r, UnlockFilter(store[call[r].key], call[r].obj.owner),
       [store[call[r].key] EXCEPT !.owner = NoDevice])

\* create_action replaces an action of that name, if there is one.
CreateAction(r) ==
  /\ Attempts(r, {"action_create"})
  /\ UpdateOne(r, TRUE,
       SetAction(store[call[r].key], call[r].action,
                 [description |-> call[r].value, frames |-> NoFrames]))

UpdateAction(r) ==
  /\ Attempts(r, {"action_update"})
  /\ UpdateOne(r, ActionExists(store[call[r].key], call[r].action),
       SetAction(store[call[r].key], call[r].action,
                 [ActionAt(store[call[r].key], call[r].action)
                    EXCEPT !.description = call[r].value]))

RemoveAction(r) ==
  /\ Attempts(r, {"action_remove"})
  /\ UpdateOne(r, ActionExists(store[call[r].key], call[r].action),
       SetAction(store[call[r].key], call[r].action, Absent))

CreateFrame(r) ==
  /\ Attempts(r, {"frame_create"})
  /\ UpdateOne(r, ActionExists(store[call[r].key], call[r].action),
       SetFrame(store[call[r].key], call[r].action, call[r].frame,
                NewFrame(call[r].value)))

\* The handles go to frames.<n>.frames.<n>.animation_frame.
UpdateFrame(r) ==
  LET doc == store[call[r].key]
      old == FrameAt(ActionAt(doc, call[r].action), call[r].frame)
  IN
  /\ Attempts(r, {"frame_update"})
  /\ UpdateOne(r,
       /\ ActionExists(doc, call[r].action)
       /\ FrameExists(doc, call[r].action, call[r].frame),
       SetFrame(doc, call[r].action, call[r].frame,
                [old EXCEPT !.body = call[r].value, !.stray = call[r].value]))

\* $unset of a keyframe that is not there changes nothing.
RemoveFrame(r) ==
  /\ Attempts(r, {"frame_remove"})
  /\ UpdateOne(r, ActionExists(store[call[r].key], call[r].action),
       SetFrame(store[call[r].key], call[r].action, call[r].frame, Absent))

\* delete_object does not retry when there is nothing to delete.
DeleteObject(r) ==
  /\ Attempts(r, {"delete"})
  /\ IF store[call[r].key] # Absent
       THEN /\ store' = [store EXCEPT ![call[r].key] = Absent]
            /\ Executed(r)
       ELSE /\ NotFound(r)
            /\ Leave(r)
            /\ UNCHANGED store
  /\ UNCHANGED <<inserted, call>>

GetObject(r) ==
  /\ Attempts(r, {"get"})
  /\ IF store[call[r].key] # Absent
       THEN response' = [response EXCEPT ![r] =
              [@ EXCEPT !.success = TRUE, !.found = ReadDoc(store[call[r].key])]]
       ELSE NotFound(r)
  /\ Leave(r)
  /\ UNCHANGED <<store, inserted, call>>

\* An exception before Mongo has done anything: one of mongocxx ends the call,
\* any other is retried.
Refused(r) ==
  /\ "refused" \in Failures
  /\ pc[r] = "running"
  /\ LeaveAfterException(r)
  /\ UNCHANGED <<store, inserted, call, response>>

Interrupted(r) ==
  /\ "interrupted" \in Failures
  /\ pc[r] = "running"
  /\ Retry(r)
  /\ UNCHANGED <<store, inserted, call, response>>

-----------------------------------------------------------------------------
Step(r) ==
  \/ CreateObject(r)
  \/ UpdateObject(r)
  \/ LockObject(r)
  \/ UnlockObject(r)
  \/ CreateAction(r)
  \/ UpdateAction(r)
  \/ RemoveAction(r)
  \/ CreateFrame(r)
  \/ UpdateFrame(r)
  \/ RemoveFrame(r)
  \/ DeleteObject(r)
  \/ GetObject(r)
  \/ Refused(r)
  \/ Interrupted(r)

Terminated ==
  /\ \A r \in Requests : pc[r] = "returned"
  /\ UNCHANGED vars

Next == (\E r \in Requests : Begin(r) \/ Step(r)) \/ Terminated

\* A thread that has begun a call goes on with it.
Fairness == \A r \in Requests : WF_vars(Step(r))

Spec == Init /\ [][Next]_vars /\ Fairness

-----------------------------------------------------------------------------
(***************************************************************************)
(* The lock as ObjectLock describes it: the owner of a document is the     *)
(* holder, and a request is contended once an attempt has found nothing to *)
(* modify.                                                                 *)
(***************************************************************************)
Holder == [k \in Keys |-> IF store[k] = Absent THEN Absent ELSE store[k].owner]

Wants ==
  [r \in Requests |->
     IF call[r].op \in LockOps
     THEN [kind |-> call[r].op, key |-> call[r].key, device |-> call[r].obj.owner]
     ELSE [kind |-> "other"]]

Outcome ==
  [r \in Requests |->
     IF call[r].op \notin LockOps THEN "open"
     ELSE IF response[r].success THEN "granted"
     ELSE IF response[r].code = "NOT_FOUND"
          THEN IF pc[r] = "returned" THEN "denied" ELSE "contended"
          ELSE IF pc[r] = "returned" THEN "failed" ELSE "open"]

TheLock == INSTANCE ObjectLock
             WITH holder <- Holder, wants <- Wants, outcome <- Outcome

\* With no reply lost, and no create or update that names an owner, the
\* documents implement the lock.
ImplementsLock == TheLock!Spec

-----------------------------------------------------------------------------
Granted(op, k, d) ==
  {r \in Requests : /\ call[r].op = op
                    /\ response[r].success
                    /\ call[r].key = k
                    /\ call[r].obj.owner = d}

\* Device d was told that it has the lock of k, and not that it gave it back.
Claims(k, d) ==
  Cardinality(Granted("lock", k, d)) > Cardinality(Granted("unlock", k, d))

\* "no additional locks will be granted on a locked object until this method
\* is called by the owner": of the devices that locked an object and did not
\* unlock it there is at most one.
LockExclusion ==
  \A k \in Keys, d, e \in Devices : Claims(k, d) /\ Claims(k, e) => d = e

\* A lock request "is guaranteed to return a lock to one and only one client":
\* the owner of an object is a device that was told so.
OwnerWasTold ==
  \A k \in Keys, d \in Devices :
    store[k] # Absent /\ store[k].owner = d => Claims(k, d)

\* A call takes effect at most once, whatever it is told and however often it
\* tries: no asset is pushed and no object inserted twice by a call.  Every
\* update pushes, the one meant to remove an asset, too (see IsAppend).
Pushers(k, a) ==
  {r \in Requests : /\ pc[r] # "idle"
                    /\ call[r].op \in ObjectOps
                    /\ call[r].key = k
                    /\ a \in call[r].obj.assets}
Creators == {r \in Requests : pc[r] # "idle" /\ call[r].op = "create"}

EffectsOnce ==
  /\ Cardinality(inserted \ Stored) <= Cardinality(Creators)
  /\ \A k \in Stored, a \in Assets :
       store[k] # Absent =>
         store[k].assets[a] <= InitialDoc.assets[a] + Cardinality(Pushers(k, a))

\* No push is lost to another that runs at the same time: an asset that nobody asked
\* to remove has an entry for every call that was told that it added it.  (Of removals
\* nothing is said: the code adds an entry for one, too, where the documentation takes
\* it away.)
Removers(k, a) == {r \in Pushers(k, a) : call[r].op = "asset_remove"}
AcknowledgedPushes ==
  \A k \in Stored, a \in Assets :
    store[k] # Absent /\ Removers(k, a) = {} =>
      store[k].assets[a] >= InitialDoc.assets[a]
        + Cardinality({r \in Pushers(k, a) : response[r].success})

\* No update brings back part of an action that another call removed.
ActionsComplete ==
  \A k \in Keys, a \in ActionNames :
    store[k] # Absent /\ store[k].actions[a] # Absent
      => store[k].actions[a].description # Absent

\* Every stored keyframe has the fields that get_frame_from_doc reads without
\* asking whether they are there.
FramesReadable ==
  \A k \in Keys, a \in ActionNames, f \in FrameIds :
    /\ store[k] # Absent
    /\ store[k].actions[a] # Absent
    /\ store[k].actions[a].frames[f] # Absent
    => /\ store[k].actions[a].frames[f].body # Absent
       /\ store[k].actions[a].frames[f].handles # Absent

\* CLyman "maintains the current state of all objects ... throughout all
\* changes": only an update, which carries a transformation, changes that of
\* an object; locking it or giving it an asset does not move it.
TransformMaintained ==
  [][\A k \in Keys :
       store[k] # Absent /\ store'[k] # Absent /\ store'[k].transform # store[k].transform
         => \E r \in Requests : UpdateObject(r) /\ call[r].op = "update"]_vars
=============================================================================
