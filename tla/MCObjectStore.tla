--------------------------- MODULE MCObjectStore ---------------------------
(***************************************************************************)
(* Small instances of ObjectStore: one document at the start, up to three  *)
(* calls, two attempts each instead of 11.  The calls of a run are those   *)
(* whose interplay its properties are about.                               *)
(***************************************************************************)
EXTENDS ObjectStore, TLC

CONSTANTS r1, r2, r3, k1, k2, k3, k4, anna, bob, carol, identity,
          moved, mesh, walk, frame1, v1, v2

OneRequest    == {r1}
TwoRequests   == {r1, r2}
ThreeRequests == {r1, r2, r3}
Interchangeable == Permutations(ThreeRequests)

OneKey  == {k1}
FourKeys == {k1, k2, k3, k4}
SomeDevices    == {anna, bob, carol}
SomeTransforms == {identity, moved}

\* The document is not locked, was moved, and has an action with one keyframe.
Walk == [description |-> v1, frames |-> [f \in FrameIds |-> NewFrame(v1)]]
Doc  == [owner |-> NoDevice, transform |-> moved,
         assets |-> [a \in Assets |-> 0],
         actions |-> [a \in ActionNames |-> Walk]]

NoFailures == {}
Visible    == {"refused", "interrupted"}
AllFailures == {"refused", "interrupted", "reply_lost"}

LockCalls ==
  {LockCall(k1, d) : d \in Devices} \union {UnlockCall(k1, d) : d \in Devices}
MovingCall == UpdateCall(k1, Payload(NoDevice, moved, {}))

AssetCalls ==
  {AddAssetCall(k1, mesh), RemoveAssetCall(k1, mesh), DeleteCall(k1), GetCall(k1),
   CreateCall(Payload(NoDevice, moved, {mesh})),
   UpdateCall(k1, Payload(NoDevice, moved, {mesh}))}
ActionCalls ==
  {ActionCall(op, k1, walk, v2) : op \in ActionOps}
    \union {FrameCall(op, k1, walk, frame1, v2) : op \in FrameOps}

LocksAndOthers ==
  LockCalls \union {MovingCall, DeleteCall(k1), GetCall(k1),
                    CreateCall(Payload(NoDevice, moved, {}))} \union ActionCalls
DocumentCalls == AssetCalls \union ActionCalls
OnlyLocking == {LockCall(k1, anna)}
=============================================================================
