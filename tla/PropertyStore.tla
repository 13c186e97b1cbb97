---------------------------- MODULE PropertyStore ----------------------------
(***************************************************************************)
(* The property documents CLyman keeps in Mongo and the calls of class     *)
(* PropertyDatabaseManager (src/src/db/property_database_manager.cpp and   *)
(* its header), from the JSON of a request to the JSON of an answer.       *)
(*                                                                         *)
(* Each request is one call on a thread of its own, which makes up to      *)
(* MaxRetries attempts.  Mongo executes one command on one document        *)
(* atomically; a query is a cursor, which other calls overtake.            *)
(***************************************************************************)
EXTENDS PropertyData

CONSTANTS
  Requests,     \* the database calls in flight
  Calls,        \* what the calls may be (see WellFormedCall)
  Keys,         \* the OIDs of the collection
  Stored,       \* the keys of the documents present at the start
  InitialBody,  \* the JSON that these were created from
  Scenes,       \* scenes, which stand for every string of a property
  NoScene,      \* the empty string
  ActionNames,  \* names of animation actions
  FrameIds,     \* keyframe numbers
  Texts,        \* descriptions of actions
  NoText,       \* the empty description
  Absent,       \* a field or document that is not there
  MaxRetries,   \* max_retries (11 in the code)
  Failures      \* the failures an attempt may meet

VARIABLES
  store,     \* the collection: a document or Absent for every key
  inserted,  \* the OIDs handed out so far
  call,      \* the call of each request
  pc,        \* idle, running, fetching or returned
  attempts,  \* the local counter retries
  response,  \* the DatabaseResponse or PropertyList
  seen,      \* the documents that the cursor of a query has returned
  due,       \* history: those that have matched since it was opened
  applied    \* history: how often a call has changed a document

vars == <<store, inserted, call, pc, attempts, response, seen, due, applied>>

-----------------------------------------------------------------------------
(***************************************************************************)
(* Documents, and what a request may carry.                                *)
(***************************************************************************)

\* A keyframe is numbered unless Mongo has made it up for a dotted path.
FrameDoc  == [numbered : BOOLEAN, slots : Slots]
ActionDoc == [description : Texts \union {NoText, Absent},
              frames : [FrameIds -> FrameDoc \union {Absent}]]
PropDoc   == [scene : Scenes \union {NoScene}, slots : Slots,
              actions : [ActionNames -> ActionDoc \union {Absent}]]

\* The body of an action lists keyframes; that of a property has numbers for
\* values and an action, or Absent, under every name.
KeyframeBodies == [frame : FrameIds, entries : Seq(Entry)]
ActionBodies   == [description : Texts \union {NoText}, keyframes : Seq(KeyframeBodies)]
PropBodies     == [scene : Scenes \union {NoScene},
                   values : Seq([value : Numbers, double : BOOLEAN]),
                   actions : [ActionNames -> ActionBodies \union {Absent}]]

KeyOps    == {"get", "delete"}
ActionOps == {"action_create", "action_update", "action_remove"}
FrameOps  == {"frame_create", "frame_update", "frame_remove"}

\* The deletions of an action or keyframe have no body.
WellFormedCall(c) ==
  \/ c.op = "create" /\ c.body \in PropBodies
  \/ c.op = "query"  /\ c.scene \in Scenes \union {NoScene} /\ c.max \in Nat
  \/ /\ c.key \in Keys
     /\ \/ c.op \in KeyOps
        \/ c.op = "update" /\ c.body \in PropBodies
        \/ /\ c.action \in ActionNames
           /\ \/ c.op \in {"action_create", "action_update"} /\ c.body \in ActionBodies
              \/ c.op = "action_remove"
              \/ /\ c.frame \in FrameIds
                 /\ \/ /\ c.op \in {"frame_create", "frame_update"}
                       /\ c.body.numbered \in BOOLEAN
                       /\ c.body.entries \in Seq(Entry)
                       /\ c.op = "frame_create" => c.body.numbered
                    \/ c.op = "frame_remove"

ASSUME PropertyAssumption ==
  /\ Stored \subseteq Keys
  /\ \A c \in Calls : WellFormedCall(c)
  /\ InitialBody \in PropBodies
  /\ NoText \notin Texts /\ NoScene \notin Scenes
  /\ Absent \notin Texts \union {NoText}
  /\ MaxRetries \in Nat \ {0}
  /\ Failures \subseteq {"refused", "interrupted", "reply_lost"}

-----------------------------------------------------------------------------
(***************************************************************************)
(* From JSON to documents.                                                 *)
(***************************************************************************)
NewFrame(frame) == [numbered |-> TRUE, slots |-> FrameSlots(frame)]

\* property_action_from_iterator: a second keyframe of the same number goes
\* into the first one.
OfFrame(keyframe, f) == IF keyframe.frame = f THEN keyframe.entries ELSE <<>>
EntriesOf(keyframes, f) ==
  LET entries[n \in 0 .. Len(keyframes)] ==
        IF n = 0 THEN <<>> ELSE entries[n - 1] \o OfFrame(keyframes[n], f)
  IN  entries[Len(keyframes)]
Numbered(keyframes) == {keyframes[i].frame : i \in DOMAIN keyframes}

\* add_prop_action_to_doc.
CreateAction(body) ==
  [description |-> body.description,
   frames |-> [f \in FrameIds |->
                 IF f \in Numbered(body.keyframes)
                 THEN NewFrame(ParseFrame(EntriesOf(body.keyframes, f)))
                 ELSE Absent]]

\* build_prop_doc.
CreateDoc(body) ==
  [scene |-> body.scene,
   slots |-> ValueSlots(ParseValues(body.values)),
   actions |-> [a \in ActionNames |->
                  IF body.actions[a] = Absent THEN Absent
                  ELSE CreateAction(body.actions[a])]]

\* An update sets everything but the actions, from a body that leaves it out as
\* well.
UpdateDoc(doc, body) ==
  [doc EXCEPT !.scene = body.scene, !.slots = ValueSlots(ParseValues(body.values))]

\* All transactions on actions and keyframes but the creation of an action ask
\* for the action, and the update and removal of a keyframe for the keyframe.
ActionAssumed(doc, a) == TRUE  \* mutant: no $exists in the filter
ActionExists(doc, a) == doc.actions[a] # Absent
FrameExists(doc, a, f) ==
  doc.actions[a] # Absent /\ doc.actions[a].frames[f] # Absent

\* What Mongo makes of a dotted path that is not there.
ActionAt(doc, a) ==
  IF doc.actions[a] = Absent
  THEN [description |-> Absent, frames |-> [f \in FrameIds |-> Absent]]
  ELSE doc.actions[a]

SetAction(doc, a, action) == [doc EXCEPT !.actions[a] = action]
DescribeAction(doc, a, text) ==
  SetAction(doc, a, [ActionAt(doc, a) EXCEPT !.description = text])
SetFrame(doc, a, f, frame) ==
  SetAction(doc, a, [ActionAt(doc, a) EXCEPT !.frames[f] = frame])

\* build_query_prop_doc leaves an empty string out of the filter.
Matches(doc, scene) == doc # Absent /\ (scene = NoScene \/ doc.scene = scene)

\* bson_to_prop, and the JSON of the answer.
ReadFrame(frame) == WriteFrame(ReadSlots(frame.slots))
ReadAction(action) ==
  [description |-> action.description,
   frames |-> [f \in FrameIds |->
                 IF action.frames[f] = Absent \/ ~action.frames[f].numbered
                 THEN Absent ELSE ReadFrame(action.frames[f])]]
ReadDoc(doc) ==
  [scene |-> doc.scene,
   values |-> ReadSlots(doc.slots).values,
   actions |-> [a \in ActionNames |->
                  IF doc.actions[a] = Absent THEN Absent
                  ELSE ReadAction(doc.actions[a])]]

-----------------------------------------------------------------------------
Codes == {"NO_ERROR", "NOT_FOUND", "PROCESSING_ERROR"}
NoResponse == [success |-> FALSE, code |-> "NO_ERROR", error |-> FALSE,
               records |-> <<>>]

TypeOK ==
  /\ store \in [Keys -> PropDoc \union {Absent}]
  /\ inserted \subseteq Keys
  /\ call \in [Requests -> Calls]
  /\ pc \in [Requests -> {"idle", "running", "fetching", "returned"}]
  /\ attempts \in [Requests -> 0 .. MaxRetries]
  /\ \A r \in Requests :
       /\ response[r].success \in BOOLEAN /\ response[r].error \in BOOLEAN
       /\ response[r].code \in Codes
       /\ \A i \in DOMAIN response[r].records : response[r].records[i].key \in inserted
  /\ seen \in [Requests -> SUBSET Keys]
  /\ due \in [Requests -> SUBSET Keys]
  /\ applied \in [Requests -> Nat]

Init ==
  /\ store = [k \in Keys |-> IF k \in Stored THEN CreateDoc(InitialBody) ELSE Absent]
  /\ inserted = Stored
  /\ call \in [Requests -> Calls]
  /\ pc = [r \in Requests |-> "idle"]
  /\ attempts = [r \in Requests |-> 0]
  /\ response = [r \in Requests |-> NoResponse]
  /\ seen = [r \in Requests |-> {}]
  /\ due = [r \in Requests |-> {}]
  /\ applied = [r \in Requests |-> 0]

Goto(r, step) == pc' = [pc EXCEPT ![r] = step]

Begin(r) ==
  /\ pc[r] = "idle"
  /\ Goto(r, "running")
  /\ UNCHANGED <<store, inserted, call, attempts, response, seen, due, applied>>

-----------------------------------------------------------------------------
(***************************************************************************)
(* One attempt of prop_transaction, get_property or delete_property.       *)
(***************************************************************************)

\* The loop's end when the attempt was no success.
RetryForever(r) ==  \* mutant: the counter is not advanced
  /\ Goto(r, "running")
  /\ UNCHANGED attempts
RetryOnceMore(r) ==  \* mutant: <= instead of <
  /\ attempts' = [attempts EXCEPT ![r] = @ + 1]
  /\ Goto(r, IF attempts[r] < MaxRetries THEN "running" ELSE "returned")
Retry(r) ==
  /\ attempts' = [attempts EXCEPT ![r] = @ + 1]
  /\ Goto(r, IF attempts[r] + 1 < MaxRetries THEN "running" ELSE "returned")

Leave(r) == Goto(r, "returned") /\ UNCHANGED attempts

\* A mongocxx::exception breaks out of the loop.
RetryAfterException(r) == Retry(r)  \* mutant: it is retried like any other
LeaveAfterException(r) == Leave(r)

Fail(r, c) ==
  response' = [response EXCEPT ![r].code = c, ![r].error = TRUE]

\* Mongo changes document k on behalf of request r.
Write(r, k, doc) ==
  /\ store' = [store EXCEPT ![k] = doc]
  /\ applied' = [applied EXCEPT ![r] = @ + 1]
  /\ due' = [q \in Requests |->
               IF pc[q] = "fetching" /\ ~Matches(doc, call[q].scene)
               THEN due[q] \ {k} ELSE due[q]]

\* The reply arrives, or the connection fails and the driver throws.
Executed(r) ==
  \/ /\ response' = [response EXCEPT ![r].success = TRUE]
     /\ Leave(r)
  \/ /\ "reply_lost" \in Failures
     /\ Fail(r, "PROCESSING_ERROR")
     /\ LeaveAfterException(r)

\* One update_one: nothing is modified if no document matches or if the one
\* that does has nothing to change.
UpdateOne(r, matches, updated) ==
  LET k == call[r].key IN
  /\ IF store[k] # Absent /\ matches /\ updated # store[k]
       THEN Write(r, k, updated) /\ Executed(r)
       ELSE /\ Fail(r, "NOT_FOUND")
            /\ Retry(r)
            /\ UNCHANGED <<store, applied, due>>
  /\ UNCHANGED <<inserted, call, seen>>

Attempts(r, op) == pc[r] = "running" /\ call[r].op = op
Doc(r) == store[call[r].key]

CreateProperty(r) ==
  /\ Attempts(r, "create")
  /\ \E k \in Keys \ inserted :
       /\ Write(r, k, CreateDoc(call[r].body))
       /\ inserted' = inserted \union {k}
  /\ Executed(r)
  /\ UNCHANGED <<call, seen>>

UpdateProperty(r) ==
  /\ Attempts(r, "update")
  /\ UpdateOne(r, TRUE, UpdateDoc(Doc(r), call[r].body))

\* create_action replaces an action of that name, if there is one.
CreatePropertyAction(r) ==
  /\ Attempts(r, "action_create")
  /\ UpdateOne(r, TRUE, SetAction(Doc(r), call[r].action, CreateAction(call[r].body)))

\* Neither owner nor description to set: Mongo refuses the empty $set.
UpdatePropertyAction(r) ==
  /\ Attempts(r, "action_update")
  /\ call[r].body.description # NoText
  /\ UpdateOne(r, ActionExists(Doc(r), call[r].action),
       DescribeAction(Doc(r), call[r].action, call[r].body.description))

RefuseEmptyUpdate(r) ==
  /\ Attempts(r, "action_update")
  /\ call[r].body.description = NoText
  /\ Fail(r, "PROCESSING_ERROR")
  /\ LeaveAfterException(r)
  /\ UNCHANGED <<store, inserted, call, seen, due, applied>>

DeletePropertyAction(r) ==
  /\ Attempts(r, "action_remove")
  /\ UpdateOne(r, ActionExists(Doc(r), call[r].action),
       SetAction(Doc(r), call[r].action, Absent))

CreateKeyframe(r) ==
  /\ Attempts(r, "frame_create")
  /\ UpdateOne(r, ActionExists(Doc(r), call[r].action),
       SetFrame(Doc(r), call[r].action, call[r].frame,
                NewFrame(ParseFrameBody(call[r].body))))

UpdateKeyframe(r) ==
  LET doc == Doc(r)
      a == call[r].action
      f == call[r].frame
  IN
  /\ Attempts(r, "frame_update")
  /\ UpdateOne(r, FrameExists(doc, a, f),
       SetFrame(doc, a, f,
         [doc.actions[a].frames[f] EXCEPT
            !.slots = UpdateSlots(@, ParseFrameBody(call[r].body))]))

DeleteKeyframe(r) ==
  /\ Attempts(r, "frame_remove")
  /\ UpdateOne(r, FrameExists(Doc(r), call[r].action, call[r].frame),
       SetFrame(Doc(r), call[r].action, call[r].frame, Absent))

\* delete_property does not try again when there is nothing to delete.
DeleteProperty(r) ==
  /\ Attempts(r, "delete")
  /\ IF Doc(r) # Absent
       THEN Write(r, call[r].key, Absent) /\ Executed(r)
       ELSE Fail(r, "NOT_FOUND") /\ Leave(r) /\ UNCHANGED <<store, applied, due>>
  /\ UNCHANGED <<inserted, call, seen>>

Record(k) == [key |-> k, prop |-> ReadDoc(store[k])]
AddRecord(r, k) ==
  response' = [response EXCEPT ![r].records = Append(@, Record(k))]

GetProperty(r) ==
  /\ Attempts(r, "get")
  /\ IF Doc(r) # Absent THEN AddRecord(r, call[r].key)
     ELSE Fail(r, "PROCESSING_ERROR")
  /\ Leave(r)
  /\ UNCHANGED <<store, inserted, call, seen, due, applied>>

-----------------------------------------------------------------------------
(***************************************************************************)
(* property_query.                                                         *)
(***************************************************************************)
Matching(r) == {k \in Keys : Matches(store[k], call[r].scene)}

OpenCursor(r) ==
  /\ Attempts(r, "query")
  /\ seen' = [seen EXCEPT ![r] = {}]
  /\ due' = [due EXCEPT ![r] = Matching(r)]
  /\ Goto(r, "fetching")
  /\ UNCHANGED <<store, inserted, call, attempts, response, applied>>

\* results_processed > max_results.
ProcessedInAll(r) ==  \* mutant: results_processed outlives the attempt
  Len(response[r].records) > call[r].max
ProcessedEnough(r) == Cardinality(seen[r]) > call[r].max

\* The cursor returns every document that has matched since it was opened, and
\* may return others that match by now.
Fetch(r) ==
  /\ pc[r] = "fetching"
  /\ ~ProcessedEnough(r)
  /\ \E k \in Matching(r) \ seen[r] :
       AddRecord(r, k) /\ seen' = [seen EXCEPT ![r] = @ \union {k}]
  /\ UNCHANGED <<store, inserted, call, pc, attempts, due, applied>>

EndQuery(r) ==
  /\ pc[r] = "fetching"
  /\ ProcessedEnough(r) \/ due[r] \subseteq seen[r]
  /\ Leave(r)
  /\ UNCHANGED <<store, inserted, call, response, seen, due, applied>>

\* An exception of mongocxx leaves a message and no code in the list, and the
\* records there are; any other is retried, and they stay, too.
AbandonQuery(r) ==
  /\ "refused" \in Failures
  /\ pc[r] \in {"running", "fetching"} /\ call[r].op \in {"query", "get"}
  /\ response' = [response EXCEPT ![r].error = TRUE]
  /\ LeaveAfterException(r)
  /\ UNCHANGED <<store, inserted, call, seen, due, applied>>

Refused(r) ==
  /\ "refused" \in Failures
  /\ pc[r] = "running" /\ call[r].op \notin {"query", "get"}
  /\ Fail(r, "PROCESSING_ERROR")
  /\ LeaveAfterException(r)
  /\ UNCHANGED <<store, inserted, call, seen, due, applied>>

\* Any other exception; deletion and query keep its text to themselves.
Interrupted(r) ==
  /\ "interrupted" \in Failures
  /\ pc[r] \in {"running", "fetching"}
  /\ Retry(r)
  /\ response' = IF call[r].op \in {"query", "delete"} THEN response
                 ELSE [response EXCEPT ![r].error = TRUE]
  /\ UNCHANGED <<store, inserted, call, seen, due, applied>>

-----------------------------------------------------------------------------
Step(r) ==
  \/ CreateProperty(r)
  \/ UpdateProperty(r)
  \/ CreatePropertyAction(r)
  \/ UpdatePropertyAction(r)
  \/ RefuseEmptyUpdate(r)
  \/ DeletePropertyAction(r)
  \/ CreateKeyframe(r)
  \/ UpdateKeyframe(r)
  \/ DeleteKeyframe(r)
  \/ DeleteProperty(r)
  \/ GetProperty(r)
  \/ OpenCursor(r)
  \/ Fetch(r)
  \/ EndQuery(r)
  \/ AbandonQuery(r)
  \/ Refused(r)
  \/ Interrupted(r)

Terminated ==
  /\ \A r \in Requests : pc[r] = "returned"
  /\ UNCHANGED vars

Next == (\E r \in Requests : Begin(r) \/ Step(r)) \/ Terminated

\* A thread that has begun a call goes on with it.
Spec == Init /\ [][Next]_vars /\ \A r \in Requests : WF_vars(Step(r))

-----------------------------------------------------------------------------
\* The entries that were sent for keyframe f of action a, and the values for a
\* property: in the body of its creation or of a later request about it.
Begun(ops) == {r \in Requests : pc[r] # "idle" /\ call[r].op \in ops}
About(r, k, a) == call[r].key = k /\ call[r].action = a
PropsSent == {InitialBody} \union {call[r].body : r \in Begun({"create"})}
ActionsSent(k, a) ==
  {body.actions[a] : body \in {b \in PropsSent : b.actions[a] # Absent}}
    \union {call[r].body : r \in {q \in Begun({"action_create"}) : About(q, k, a)}}
FramesSent(k, a, f) ==
  {EntriesOf(body.keyframes, f) :
     body \in {b \in ActionsSent(k, a) : f \in Numbered(b.keyframes)}}
    \union {IF call[r].body.numbered THEN call[r].body.entries ELSE <<>> :
              r \in {q \in Begun({"frame_create", "frame_update"}) :
                       About(q, k, a) /\ call[q].frame = f}}
ValuesSent(k) ==
  {body.values : body \in PropsSent \union
     {call[r].body : r \in {q \in Begun({"update"}) : call[q].key = k}}}

\* The keyframes that a read of document k would answer with.
Read(k, a, f) == ReadDoc(store[k]).actions[a].frames[f]
Readable(k, a, f) ==
  /\ store[k] # Absent
  /\ store[k].actions[a] # Absent
  /\ store[k].actions[a].frames[f] # Absent

\* Values and handles are written slot by slot over those of a longer or shorter
\* keyframe.  Whatever overlaps, a read never mixes two requests: all values and
\* handles of a keyframe, and all values of a property, are those that one
\* request sent, as far as the factory accepts them and there is a slot for them.
FirstFour(list) == [i \in DOMAIN list \intersect SlotIds |-> list[i]]
ReadsOneRequest ==
  /\ \A k \in Keys, a \in ActionNames, f \in FrameIds :
       Readable(k, a, f) =>
         Read(k, a, f) \in {FirstFour(WriteFrame(ParseFrame(e))) : e \in FramesSent(k, a, f)}
  /\ \A k \in Keys :
       store[k] # Absent =>
         ReadDoc(store[k]).values \in {FirstFour(ParseValues(v)) : v \in ValuesSent(k)}

\* A keyframe that was posted with decimal points is read back as it was posted:
\* the test of the JSON round trip requires of a parsed property every
\* coordinate of the handle that was written.
KeyframesAsPosted ==
  \A k \in Keys, a \in ActionNames, f \in FrameIds :
    Readable(k, a, f) => Read(k, a, f) \in FramesSent(k, a, f)

\* A request that updates an action or keyframe while another removes it does
\* not bring part of it back: every stored action has its description, every
\* keyframe its number, and slots in use that bson_to_prop can index.
StoredWhole ==
  \A k \in Keys, a \in ActionNames :
    /\ store[k] # Absent
    /\ store[k].actions[a] # Absent
    => /\ store[k].actions[a].description # Absent
       /\ \A f \in FrameIds : Readable(k, a, f) =>
            /\ store[k].actions[a].frames[f].numbered
            /\ UsedFirst(store[k].actions[a].frames[f].slots)

\* The answer tells what happened: a success changed the document once, and
\* NOT_FOUND means that no attempt of the call changed anything, even when the
\* first attempts and the last ended differently.
Reads == {"get", "query"}
AnswersTrue ==
  \A r \in Requests :
    pc[r] = "returned" /\ call[r].op \notin Reads =>
      /\ response[r].success => applied[r] = 1
      /\ ~response[r].success /\ response[r].code = "NOT_FOUND" => applied[r] = 0
      /\ applied[r] <= 1

\* A query that was answered without an error and before its limit, in an
\* attempt that was not the last one to fail, misses no document that matched
\* from the beginning to the end of that attempt, whatever happened to it and to
\* the others meanwhile.
FoundKeys(r) == {response[r].records[i].key : i \in DOMAIN response[r].records}
QueryComplete ==
  \A r \in Requests :
    /\ pc[r] = "returned" /\ call[r].op = "query"
    /\ ~response[r].error /\ attempts[r] < MaxRetries
    /\ Cardinality(FoundKeys(r)) <= call[r].max
    => due[r] \subseteq FoundKeys(r)

\* A call that was begun returns.
CallsReturn ==
  \A r \in Requests : pc[r] # "idle" ~> pc[r] = "returned"
=============================================================================
