--------------------------- MODULE MCEventStream ---------------------------
(***************************************************************************)
(* A small instance of EventStream: three slots and two threads instead of *)
(* 13, and twice as many datagrams as there are slots.                     *)
(***************************************************************************)
EXTENDS EventStream

AllKinds     == {"update", "malformed", "unbuildable", "undecryptable"}
OnlyUpdates  == {"update"}
=============================================================================
