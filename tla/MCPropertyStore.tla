-------------------------- MODULE MCPropertyStore --------------------------
(***************************************************************************)
(* Small instances of PropertyStore: two documents at the start and room   *)
(* for two others, two calls, two attempts instead of 11, keyframes of one *)
(* or two entries and one of five, which has no slot for the last, and     *)
(* queries for one or two records.                                         *)
(***************************************************************************)
EXTENDS PropertyStore

CONSTANTS r1, r2, k1, k2, k3, k4, street, park, walk, intro, outro

TwoRequests == {r1, r2}
FourKeys    == {k1, k2, k3, k4}
TwoKeys     == {k1, k2}

\* Entries that tell which request they are of, and at which place.
Point(n) == [value |-> n, double |-> TRUE,
             handle |-> [left |-> n, right_x |-> n, right_y |-> n]]
Whole(n) == [Point(n) EXCEPT !.double = FALSE]

Number(n) == [value |-> n, double |-> TRUE]
Keyframe(entries)  == [frame |-> 1, entries |-> entries]
FrameBody(entries) == [numbered |-> TRUE, entries |-> entries]

Actions(desc, keyframes) ==
  [a \in {walk} |-> [description |-> desc, keyframes |-> keyframes]]
NoActions == [a \in {walk} |-> Absent]

Start == [scene |-> street, values |-> <<Number(1), Number(2)>>,
          actions |-> Actions(intro, <<Keyframe(<<Point(1), Point(2)>>)>>)]
Bare  == [scene |-> street, values |-> <<>>, actions |-> Actions(intro, <<>>)]
Twice == [scene |-> street, values |-> <<Number(3)>>,
          actions |-> Actions(NoText, <<Keyframe(<<Point(3)>>), Keyframe(<<Point(4)>>)>>)]
Moved == [scene |-> park, values |-> <<Number(3)>>, actions |-> NoActions]
Blank == [scene |-> NoScene, values |-> <<[value |-> 4, double |-> FALSE]>>,
          actions |-> NoActions]

ActionCall(op, body) == [op |-> op, key |-> k1, action |-> walk, body |-> body]
FrameCall(op, body)  ==
  [op |-> op, key |-> k1, action |-> walk, frame |-> 1, body |-> body]

PropertyCalls ==
  {[op |-> "create", body |-> Twice],
   [op |-> "update", key |-> k1, body |-> Moved],
   [op |-> "update", key |-> k2, body |-> Blank],
   [op |-> "delete", key |-> k1],
   [op |-> "get", key |-> k1],
   [op |-> "query", scene |-> street, max |-> 2],
   [op |-> "query", scene |-> NoScene, max |-> 1]}
ActionCalls ==
  {ActionCall("action_create", [description |-> outro,
                                keyframes |-> <<Keyframe(<<Point(5)>>)>>]),
   ActionCall("action_update", [description |-> outro, keyframes |-> <<>>]),
   ActionCall("action_update", [description |-> NoText, keyframes |-> <<>>]),
   [op |-> "action_remove", key |-> k1, action |-> walk]}
FrameCalls ==
  {FrameCall("frame_create",
             FrameBody(<<Point(6), Point(7), Point(8), Point(9), Point(5)>>)),
   FrameCall("frame_update", FrameBody(<<Point(7)>>)),
   FrameCall("frame_update", FrameBody(<<Whole(8), Point(9)>>)),
   FrameCall("frame_update", [numbered |-> FALSE, entries |-> <<Point(9)>>]),
   [op |-> "frame_remove", key |-> k1, action |-> walk, frame |-> 1]}
AllCalls == PropertyCalls \union ActionCalls \union FrameCalls

OneCreation == {FrameCall("frame_create", FrameBody(<<Point(6)>>))}

NoFailures  == {}
AllFailures == {"refused", "interrupted", "reply_lost"}
=============================================================================
