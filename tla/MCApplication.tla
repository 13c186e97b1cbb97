--------------------------- MODULE MCApplication ---------------------------
(***************************************************************************)
(* A small instance of Application: one account, a fixed event destination *)
(* or one that Consul knows, and anything may fail but the registration,   *)
(* without which there is less to deregister.  All requests that differ    *)
(* for createRequestHandler are routed once, as an assumption.             *)
(***************************************************************************)
EXTENDS Application

CONSTANTS w1, w2, ivan

TwoWorkers == {w1, w2}
OneService == {ivan}

Http(method, path, user, password) ==
  [method |-> method, path |-> path, device |-> FALSE, user |-> user,
   password |-> password]
Create == <<"v1", "object">>
Key    == <<"v1", "object", "key">>
SomeRequests == {Http("POST", Create, "configured", "right"),
                 Http("POST", Create, "other", Absent),
                 Http("GET", <<"health">>, "other", "right"),
                 Http("HEAD", Key, "configured", "wrong")}

SomeFailures == {"configuration", "listing", "certificate", "deregistration",
                 "listen", "stream"}
BothWays == {"fixed", "discovered"}

-----------------------------------------------------------------------------
\* The segments that the code tells apart at each place of a path.
Segments == <<{"v1", "v2", "health"}, {"object", "property", "scene"},
              {"key", "query"}, {"action", "asset", "lock", "other"}, {"name"},
              {"keyframe", "other"}, {"0"}, {"more"}>>
PathsOfLength[n \in 0 .. Len(Segments)] ==
  IF n = 0 THEN {<<>>}
  ELSE {Append(path, segment) : path \in PathsOfLength[n - 1],
                                segment \in Segments[n]}
AllPaths == UNION {PathsOfLength[n] : n \in 0 .. Len(Segments)}

AllRoutes == [method : Methods, path : AllPaths, device : BOOLEAN]

ASSUME Routing == \A q \in AllRoutes : RoutedAsDocumented(q)
=============================================================================
