------------------------- MODULE MCRequestHandlers -------------------------
(***************************************************************************)
(* Small instances of RequestHandlers: two requests, two documents, and    *)
(* lists of up to two objects.                                             *)
(***************************************************************************)
EXTENDS RequestHandlers

CONSTANTS r1, r2, k1, k2

TwoRequests == {r1, r2}
TwoKeys     == {k1, k2}

Work(kind, input, keys) == [kind |-> kind, input |-> input, keys |-> keys]

\* Every kind of request about k1, some with a second object, and every kind
\* of unusable input.
AllWorks ==
  {Work(kind, "fine", <<k1>>) : kind \in Kinds}
    \union {Work(kind, "fine", <<k1, k1>>) : kind \in ListKinds}
    \union {Work("update", "fine", <<k2>>)}
    \union {Work("update", input, <<k1>>) : input \in {"bad_json", "unbuildable"}}
    \union {Work(kind, "bad_index", <<k1>>) :
              kind \in {"frame_update", "frame_delete"}}
    \union {Work("update", "fine", <<>>)}

OnlyRemovals == {Work(kind, "fine", <<k1>>) : kind \in RemovalKinds}

NoFailures  == {}
AllFailures == {"error", "reply_lost", "exception"}
=============================================================================
