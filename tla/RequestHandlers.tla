--------------------------- MODULE RequestHandlers ---------------------------
(***************************************************************************)
(* The HTTP request handlers of CLyman (src/src/controller/include), next  *)
(* to the senders of the event stream: what each does to the database, in  *)
(* which order it publishes an event, and which status it answers with.    *)
(*                                                                         *)
(* Each request runs on a thread of its own.  A database call, with all    *)
(* its retries, is one step here (ObjectStore looks inside); the read that *)
(* some handlers make, and the event, are further steps.  The handlers of  *)
(* properties take the same steps as those of objects.                     *)
(***************************************************************************)
EXTENDS Naturals, Sequences

CONSTANTS
  Requests,    \* the requests and UDP events that are processed
  Works,       \* what these may be: [kind, input, keys]
  Keys,        \* the documents that are there at the start
  Original,    \* what these hold
  Absent,      \* a document that is not there
  Downstream,  \* does get_ivan() know a service to send events to?
  Failures     \* how a database call may fail

\* The handlers: base (a list of objects in the body), key, action and frame
\* (one in the body), action and frame deletion, lock and asset; and the
\* EventSender of a UDP update.
ListKinds    == {"create", "update", "query"}
KeyKinds     == {"get", "delete"}
MemberKinds  == {"action_create", "action_update", "frame_create", "frame_update"}
RemovalKinds == {"action_delete", "frame_delete"}
PlainKinds   == {"lock", "unlock", "asset_add", "asset_remove"}
Kinds == ListKinds \union KeyKinds \union MemberKinds \union RemovalKinds
           \union PlainKinds \union {"event"}

\* A body may not be JSON, or JSON of which nothing can be built; the index of
\* a keyframe, part of the path, may not be a number.
Inputs(kind) ==
  {"fine"}
    \union (IF kind \in ListKinds \union MemberKinds
            THEN {"bad_json", "unbuildable"} ELSE {})
    \union (IF kind \in {"frame_update", "frame_delete"}
            THEN {"bad_index"} ELSE {})

\* Only the body of a base handler may hold any number of objects.  Those of an
\* update all get the key in the path; those of a creation or query have none,
\* so that keys only counts them.
WellFormedWork(w) ==
  /\ w.kind \in Kinds
  /\ w.input \in Inputs(w.kind)
  /\ w.keys \in Seq(Keys)
  /\ w.kind \notin ListKinds => Len(w.keys) = 1
  /\ w.kind = "update" => \E k \in Keys : w.keys \in Seq({k})

ASSUME HandlerAssumption ==
  /\ \A w \in Works : WellFormedWork(w)
  /\ Original # Absent
  /\ Downstream \in BOOLEAN
  /\ Failures \subseteq {"error", "reply_lost", "exception"}

VARIABLES
  work,       \* what each request is
  pc,         \* where its handler is
  item,       \* the index i of the list
  code,       \* the error code of response_body
  status,     \* the HTTP status of the response
  store,      \* the last update of each document, or Absent
  applied,    \* history: the changes that took effect
  announced   \* history: the changes that an event was published for

vars == <<work, pc, item, code, status, store, applied, announced>>

world == <<store, applied, announced>>

Changes  == Requests \X Nat
Contents == Changes \union {Original, Absent}

Kind(r)   == work[r].kind
Key(r)    == work[r].keys[item[r]]
Change(r) == <<r, item[r]>>

TypeOK ==
  /\ work \in [Requests -> Works]
  /\ pc \in [Requests -> {"idle", "read", "call", "publish", "answer", "done"}]
  /\ item \in [Requests -> Nat]
  /\ \A r \in Requests : pc[r] \in {"read", "call", "publish"}
                           => item[r] \in 1 .. Len(work[r].keys)
  /\ code \in [Requests -> {"NO_ERROR", "NOT_FOUND", "TRANSLATION_ERROR",
                            "PROCESSING_ERROR"}]
  /\ status \in [Requests -> {0, 200, 400, 404, 500}]
  /\ store \in [Keys -> Contents]
  /\ applied \subseteq Changes
  /\ announced \subseteq Changes

Init ==
  /\ work \in [Requests -> Works]
  /\ pc = [r \in Requests |-> "idle"]
  /\ item = [r \in Requests |-> 1]
  /\ code = [r \in Requests |-> "NO_ERROR"]
  /\ status = [r \in Requests |-> 0]
  /\ store = [k \in Keys |-> Original]
  /\ applied = {}
  /\ announced = {}

-----------------------------------------------------------------------------
Goto(r, step)    == pc' = [pc EXCEPT ![r] = step]
SetCode(r, c)    == code' = [code EXCEPT ![r] = c]
Respond(r, http) == status' = [status EXCEPT ![r] = http]

(***************************************************************************)
(* The beginning of a request.                                             *)
(***************************************************************************)

\* A parse error, or for the update of a keyframe an index that is not a
\* number, is answered at once.
RejectBody(r) ==
  /\ pc[r] = "idle"
  /\ \/ work[r].input = "bad_json"
     \/ work[r].input = "bad_index" /\ Kind(r) = "frame_update"
  /\ SetCode(r, "TRANSLATION_ERROR")
  /\ Respond(r, 400)
  /\ Goto(r, "done")
  /\ UNCHANGED <<work, item, world>>

\* The factory throws: there is no object to work on.
FailToBuild(r) ==
  /\ pc[r] = "idle"
  /\ work[r].input = "unbuildable"
  /\ SetCode(r, "TRANSLATION_ERROR")
  /\ Goto(r, "answer")
  /\ UNCHANGED <<work, item, status, world>>

\* The deletion of a keyframe skips all it should do, with no error code.
SkipRemoval(r) ==
  /\ pc[r] = "idle"
  /\ work[r].input = "bad_index" /\ Kind(r) = "frame_delete"
  /\ Goto(r, "answer")
  /\ UNCHANGED <<work, item, code, status, world>>

\* The deletion of an object reads it first, for the scene of the event; an
\* EventSender publishes first; all others begin with their database call.
Begin(r) ==
  /\ pc[r] = "idle"
  /\ work[r].input = "fine"
  /\ Goto(r, CASE work[r].keys = <<>>  -> "answer"
               [] Kind(r) = "delete"   -> "read"
               [] Kind(r) = "event"    -> "publish"
               [] OTHER                -> "call")
  /\ UNCHANGED <<work, item, code, status, world>>

-----------------------------------------------------------------------------
(***************************************************************************)
(* The database call.                                                      *)
(***************************************************************************)

\* Which code a failed call leads to.  The creation of an object or action and
\* the deletion of an action or keyframe do not pass NOT_FOUND on.  A query has
\* no code of its own, and a read without records becomes NOT_FOUND.
FailureCode(r, reply) ==
  CASE Kind(r) = "query" -> code[r]
    [] Kind(r) = "get"   -> "NOT_FOUND"
    [] Kind(r) \in {"create", "action_create"} \union RemovalKinds ->
         "PROCESSING_ERROR"
    [] OTHER -> IF reply = "missing" THEN "NOT_FOUND" ELSE "PROCESSING_ERROR"

\* The next object of the list, if there is one.
OneMore(r) == item[r] <= Len(work[r].keys)  \* mutant: one object too many
MoreItems(r) == item[r] < Len(work[r].keys)

SameItem(r) == UNCHANGED item  \* mutant: the index is not advanced
NextItem(r) == item' = [item EXCEPT ![r] = @ + 1]

ContinueList(r) ==
  IF MoreItems(r)
    THEN NextItem(r) /\ Goto(r, "call")
    ELSE Goto(r, "answer") /\ UNCHANGED item

\* Where a handler goes after the call returned: those that create or update
\* publish, whether it succeeded or not.
AfterCall(r) ==
  IF Kind(r) = "query" THEN ContinueList(r)
  ELSE /\ Goto(r, CASE Kind(r) \in {"create", "update"} \union MemberKinds -> "publish"
                    [] Kind(r) \in RemovalKinds -> "read"
                    [] Kind(r) = "event"        -> "done"
                    [] OTHER                    -> "answer")
       /\ UNCHANGED item

\* Where it goes after an exception: a list is cut short, an action or keyframe
\* is published all the same.
AfterException(r) ==
  Goto(r, CASE Kind(r) \in MemberKinds  -> "publish"
            [] Kind(r) = "action_delete" -> "read"
            [] Kind(r) = "event"         -> "done"
            [] OTHER                     -> "answer")

\* What the call does to the store.  Only whole updates and deletions of a
\* document that other requests name are kept there.
Effect(r) ==
  /\ applied' = applied \union {Change(r)}
  /\ store' = IF Kind(r) \in {"update", "event"}
                THEN [store EXCEPT ![Key(r)] = Change(r)]
              ELSE IF Kind(r) = "delete"
                THEN [store EXCEPT ![Key(r)] = Absent]
              ELSE store

CanSucceed(r) == Kind(r) \in {"create", "query"} \/ store[Key(r)] # Absent

\* A success leaves the code that an earlier object of the list has set.
ClearCode(r) == SetCode(r, "NO_ERROR")  \* mutant: the last object decides
KeepCode(r) == UNCHANGED code

CallSucceeds(r) ==
  /\ pc[r] = "call"
  /\ CanSucceed(r)
  /\ Effect(r)
  /\ KeepCode(r)
  /\ AfterCall(r)
  /\ UNCHANGED <<work, status, announced>>

\* Nothing was modified: the document, or what the filter asks of it, is not
\* there, or the update changes nothing.
CallMisses(r) ==
  /\ pc[r] = "call"
  /\ Kind(r) \notin {"create", "query"}
  /\ Kind(r) = "get" => store[Key(r)] = Absent
  /\ SetCode(r, FailureCode(r, "missing"))
  /\ AfterCall(r)
  /\ UNCHANGED <<work, status, world>>

\* The call returns a failure, with the code NOT_FOUND if an attempt before
\* the last one missed; Mongo may have executed it nevertheless.
CallFails(r) ==
  /\ pc[r] = "call"
  /\ \/ "error" \in Failures /\ UNCHANGED <<store, applied>>
     \/ "reply_lost" \in Failures /\ CanSucceed(r) /\ Effect(r)
  /\ \E reply \in {"missing", "error"} : SetCode(r, FailureCode(r, reply))
  /\ AfterCall(r)
  /\ UNCHANGED <<work, status, announced>>

\* An exception out of the search for another Mongo.
CallThrows(r) ==
  /\ pc[r] = "call"
  /\ "exception" \in Failures
  /\ SetCode(r, "PROCESSING_ERROR")
  /\ AfterException(r)
  /\ UNCHANGED <<work, item, status, world>>

-----------------------------------------------------------------------------
(***************************************************************************)
(* The read for the event of a deletion, and the event.                    *)
(***************************************************************************)
ReadScene(r) ==
  /\ pc[r] = "read"
  /\ Goto(r, IF Kind(r) = "delete" \/ store[Key(r)] # Absent
             THEN "publish" ELSE "answer")
  /\ UNCHANGED <<work, item, code, status, world>>

\* The read fails, in its response or by an exception.
ReadSceneFails(r) ==
  /\ pc[r] = "read"
  /\ Failures # {}
  /\ \/ /\ Failures \intersect {"error", "reply_lost"} # {}
        /\ Goto(r, IF Kind(r) = "delete" THEN "publish" ELSE "answer")
        /\ UNCHANGED code
     \/ /\ "exception" \in Failures
        /\ Goto(r, IF Kind(r) = "delete" THEN "call" ELSE "answer")
        /\ SetCode(r, "PROCESSING_ERROR")
  /\ UNCHANGED <<work, item, status, world>>

\* The deletion of an action or keyframe is published only with an error code.
OnlyFailures(r) == code[r] # "NO_ERROR"  \* mutant: and so is everything else
Announces(r) == Kind(r) \in RemovalKinds => code[r] # "NO_ERROR"

Publish(r) ==
  /\ pc[r] = "publish"
  /\ announced' = announced \union
                    (IF Downstream /\ Announces(r) THEN {Change(r)} ELSE {})
  /\ IF Kind(r) \in ListKinds THEN ContinueList(r)
     ELSE /\ Goto(r, IF Kind(r) \in {"delete", "event"} THEN "call" ELSE "answer")
          /\ UNCHANGED item
  /\ UNCHANGED <<work, code, status, store, applied>>

-----------------------------------------------------------------------------
StatusOf(c) ==
  CASE c = "NO_ERROR"          -> 200
    [] c = "NOT_FOUND"         -> 404
    [] c = "TRANSLATION_ERROR" -> 400
    [] c = "PROCESSING_ERROR"  -> 500

Answer(r) ==
  /\ pc[r] = "answer"
  /\ Respond(r, StatusOf(code[r]))
  /\ Goto(r, "done")
  /\ UNCHANGED <<work, item, code, world>>

Arrive(r) == RejectBody(r) \/ FailToBuild(r) \/ SkipRemoval(r) \/ Begin(r)

Step(r) ==
  \/ CallSucceeds(r) \/ CallMisses(r) \/ CallFails(r) \/ CallThrows(r)
  \/ ReadScene(r) \/ ReadSceneFails(r) \/ Publish(r) \/ Answer(r)

AllDone == \A r \in Requests : pc[r] = "done"

Next ==
  \/ \E r \in Requests : Arrive(r) \/ Step(r)
  \/ AllDone /\ UNCHANGED vars

\* A thread that handles a request keeps running; no request need arrive.
Spec == Init /\ [][Next]_vars /\ \A r \in Requests : WF_vars(Step(r))

-----------------------------------------------------------------------------
Items(r) == {<<r, i>> : i \in 1 .. Len(work[r].keys)}

\* "200: Success" of a request that changes something: every object of its list
\* was changed, although an error is noted per object and a list may be cut
\* short.  The deletion of a keyframe whose index is no number is left aside.
AcknowledgedApplied ==
  \A r \in Requests :
    /\ status[r] = 200
    /\ Kind(r) \notin {"get", "query"}
    /\ work[r].input # "bad_index"
    => Items(r) \subseteq applied

\* "CLyman generates UDP messages to downstream services whenever updates are
\* received": what was acknowledged has been announced before, but for the
\* deletion of actions and keyframes (see RemovalAnnounced).
AcknowledgedAnnounced ==
  \A r \in Requests :
    /\ Downstream
    /\ status[r] = 200
    /\ Kind(r) \in {"create", "update", "delete"} \union MemberKinds
    => Items(r) \subseteq announced

\* A request that was begun is answered, and an event processed to its end.
RequestsAnswered == \A r \in Requests : pc[r] # "idle" ~> pc[r] = "done"

\* The documented output events include the deletion of keyframes and actions:
\* one that was acknowledged has been announced.
RemovalAnnounced ==
  \A r \in Requests :
    /\ Downstream
    /\ status[r] = 200
    /\ Kind(r) \in RemovalKinds
    => Items(r) \subseteq announced
=============================================================================
