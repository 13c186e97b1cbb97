--------------------------- MODULE MCObjectQuery ---------------------------
(***************************************************************************)
(* Two calls of every kind beside one query, which makes up to two         *)
(* attempts, for all objects, those with an asset or those of a device.    *)
(* One document at the start, and one more for each call that creates one. *)
(***************************************************************************)
EXTENDS MCObjectStore, ObjectQuery

CONSTANT q1

OneQuery == {q1}
ThreeKeys == {k1, k2, k3}
Twins    == Permutations(TwoRequests)

QueriedCalls ==
  DocumentCalls \union {CreateCall(Payload(anna, moved, {mesh})), LockCall(k1, anna)}

Ask(owner, assets, max) == [owner |-> owner, assets |-> assets, max |-> max]
SomeFilters ==
  {Ask(NoDevice, {}, 2), Ask(NoDevice, {mesh}, 1), Ask(anna, {}, 1)}
=============================================================================
