------------------------------- MODULE Router -------------------------------
(***************************************************************************)
(* Which handler a request gets: ObjectHandlerFactory::createRequestHandler *)
(* (src/src/controller/include/handler_factory.h), after authentication.   *)
(* A path is the sequence of its segments; a query string counts only by   *)
(* whether it names a device.                                              *)
(***************************************************************************)
EXTENDS Naturals, Sequences

Resources == {"object", "property"}
Methods   == {"GET", "POST", "PUT", "DELETE", "HEAD"}

OnAction(path, n) == Len(path) = n /\ path[4] = "action"
OnFrame(path, n)  == OnAction(path, n) /\ path[6] = "keyframe"
OnAsset(path) == path[2] = "object" /\ Len(path) = 5 /\ path[4] = "asset"
\* Anything may follow the lock.
OnLock(path)  == path[2] = "object" /\ Len(path) > 3 /\ path[4] = "lock"

PostRoute(path) ==
  CASE Len(path) = 2         -> "create"
    [] Len(path) = 3         -> IF path[3] = "query" THEN "query" ELSE "update"
    [] OnAction(path, 4)     -> "action_create"
    [] OnAction(path, 5)     -> "action_update"
    [] OnFrame(path, 6)      -> "frame_create"
    [] OnFrame(path, 7)      -> "frame_update"
    [] OTHER                 -> "none"

GetRoute(path, device) ==
  CASE OnLock(path)    -> IF device THEN "lock" ELSE "none"
    [] Len(path) = 3   -> "get"
    [] OTHER           -> "none"

DeleteRoute(path, device) ==
  CASE OnLock(path)      -> IF device THEN "unlock" ELSE "none"
    [] Len(path) = 3     -> "delete"
    [] OnAsset(path)     -> "asset_remove"
    [] OnAction(path, 5) -> "action_delete"
    [] OnFrame(path, 7)  -> "frame_delete"
    [] OTHER             -> "none"

PutRoute(path) == IF OnAsset(path) THEN "asset_add" ELSE "none"

\* The kind of the handler, as RequestHandlers names it; "none" is NULL.
Route(request) ==
  LET path == request.path IN
  IF path = <<"health">> /\ request.method = "GET" THEN "health"
  ELSE IF Len(path) > 1 /\ path[1] = "v1" /\ path[2] \in Resources
  THEN CASE request.method = "POST"   -> PostRoute(path)
         [] request.method = "GET"    -> GetRoute(path, request.device)
         [] request.method = "DELETE" -> DeleteRoute(path, request.device)
         [] request.method = "PUT"    -> PutRoute(path)
         [] OTHER                     -> "none"
  ELSE "none"

-----------------------------------------------------------------------------
(***************************************************************************)
(* The endpoints as docs/pages/Object_API.rst and Property_API.rst list    *)
(* them, and the health check of docs/pages/quickstart.rst.                *)
(***************************************************************************)
Free == "{}"  \* a segment that names a document, an action or a keyframe
Endpoint(method, path, kind) == [method |-> method, path |-> path, kind |-> kind]

EndpointsOf(resource) ==
  LET one    == <<"v1", resource, Free>>
      action == one \o <<"action">>
      frame  == action \o <<Free, "keyframe">>
  IN {Endpoint("POST", <<"v1", resource>>, "create"),
      Endpoint("POST", one, "update"),
      Endpoint("GET", one, "get"),
      Endpoint("DELETE", one, "delete"),
      Endpoint("GET", <<"v1", resource, "query">>, "query"),
      Endpoint("POST", action, "action_create"),
      Endpoint("POST", action \o <<Free>>, "action_update"),
      Endpoint("DELETE", action \o <<Free>>, "action_delete"),
      Endpoint("POST", frame, "frame_create"),
      Endpoint("POST", frame \o <<Free>>, "frame_update"),
      Endpoint("DELETE", frame \o <<Free>>, "frame_delete")}

Endpoints ==
  EndpointsOf("object") \union EndpointsOf("property")
    \union {Endpoint("GET", <<"v1", "object", Free, "lock">>, "lock"),
            Endpoint("DELETE", <<"v1", "object", Free, "lock">>, "unlock"),
            Endpoint("PUT", <<"v1", "object", Free, "asset", Free>>, "asset_add"),
            Endpoint("DELETE", <<"v1", "object", Free, "asset", Free>>, "asset_remove"),
            Endpoint("GET", <<"health">>, "health")}

Fits(path, pattern) ==
  /\ Len(path) = Len(pattern)
  /\ \A i \in DOMAIN path : pattern[i] \in {Free, path[i]}
Documented(request) ==
  {e.kind : e \in {d \in Endpoints : /\ d.method = request.method
                                     /\ Fits(request.path, d.path)
                                     /\ d.kind \in {"lock", "unlock"} => request.device}}

\* The documented query is GET; the code, and the examples in the documentation,
\* query with POST, so that GET reads the document whose key is "query" and POST
\* updates none of that key.
Query(request) ==
  /\ Len(request.path) = 3
  /\ request.path[3] = "query"
  /\ request.method \in {"GET", "POST"}

\* A lock may be followed by more segments.
LongLock(request) == Len(request.path) > 4 /\ request.path[4] = "lock"

\* Every documented request but a query gets the handler it asks for, and no
\* other request gets any.
RoutedAsDocumented(request) ==
  ~Query(request) /\ ~LongLock(request) =>
    IF Documented(request) = {} THEN Route(request) = "none"
    ELSE Documented(request) = {Route(request)}
=============================================================================
