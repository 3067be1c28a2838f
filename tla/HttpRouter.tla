----------------------------- MODULE HttpRouter -----------------------------
(***************************************************************************)
(* The routers.  @middy/http-router stages its routes in tables, one for    *)
(* each method and one for ANY, static paths apart from patterns, and       *)
(* dispatches a request through them; @middy/ws-router and                  *)
(* @middy/cloudformation-router look a key up.                              *)
(*                                                                         *)
(* A path is the sequence of the segments its slashes begin, so that "/a/"  *)
(* is <<"a", "">>.  The rawPath of an HTTP API event is percent-encoded.    *)
(***************************************************************************)
EXTENDS Naturals, SequencesExt

CONSTANT MaxRoutes  \* bound: a precedence shows between any two routes

VARIABLES
  router,
  routes,    \* the routes registered, in their order
  statics,   \* routesStatic, routesStaticAny: per method, pairs of a path and a route
  dynamics,  \* routesDynamic, routesDynamicAny: per method, the routes in their order
  keyed,     \* the table of the other routers: pairs of a key and a route
  refused    \* a route was refused: there is no router

vars == <<router, routes, statics, dynamics, keyed, refused>>

Methods == {"GET", "ANY"}
Params == {"{x}", "{y}", "{proxy+}"}
RouteKeys == {"Create", "Delete"}
RoutePaths ==
  {<<"">>, <<"a">>, <<"a", "">>, <<"a", "b">>, <<"{x}">>, <<"{proxy+}">>,
   <<"a", "{x}">>, <<"a", "{y}">>, <<"a", "{x}", "">>, <<"{x}", "b">>, <<"a", "{proxy+}">>}
Sent == {"", "a", "b", "%61", "%2F", "%252F", "%"}
Requests ==
  [kind : {"1.0", "2.0"}, method : {"GET", "POST"},
   path : {<<s>> : s \in Sent} \cup {<<s, t>> : s \in {"", "a", "%61"}, t \in Sent}
            \cup {<<"a", s, t>> : s \in {"b", "%2F"}, t \in {"", "b"}} \cup {<<"", "", "">>}]

Init ==
  /\ router \in {"http", "ws", "cloudformation"} /\ routes = <<>> /\ refused = FALSE
  /\ statics = [m \in Methods |-> {}] /\ dynamics = [m \in Methods |-> <<>>] /\ keyed = {}

----------------------------------------------------------------------------
(* Registration                                                            *)

Trimmed(path) == IF Last(path) = "" /\ Len(path) > 1 THEN Front(path) ELSE path
Dynamic(path) == \E n \in DOMAIN path : path[n] \in Params
\* What a pattern matches, without the names of its parameters.
Signature(path) == [n \in DOMAIN path |-> IF path[n] \in {"{x}", "{y}"} THEN "{}" ELSE path[n]]
Id == Len(routes) + 1

AttachStatic(method, path) ==
  /\ ~Dynamic(path)
  /\ IF \E e \in statics[method] : e[1] = path THEN refused' = TRUE /\ UNCHANGED statics
     ELSE /\ statics' = [statics EXCEPT ![method] = @ \cup {<<path, Id>>, <<Append(path, ""), Id>>}]
          /\ UNCHANGED refused
  /\ UNCHANGED dynamics
\* Fault: patterns that differ in the names of their parameters are told apart.
AsWritten(method, path) == \E n \in DOMAIN dynamics[method] : routes[dynamics[method][n]].path = path
Duplicate(method, path) ==
  \E n \in DOMAIN dynamics[method] : Signature(routes[dynamics[method][n]].path) = Signature(path)
AttachDynamic(method, path) ==
  /\ Dynamic(path)
  /\ IF Duplicate(method, path) THEN refused' = TRUE /\ UNCHANGED dynamics
     ELSE dynamics' = [dynamics EXCEPT ![method] = Append(@, Id)] /\ UNCHANGED refused
  /\ UNCHANGED statics
Register(method, written) ==
  LET path == Trimmed(written)
  IN  /\ router = "http" /\ ~refused /\ Len(routes) < MaxRoutes
      /\ AttachStatic(method, path) \/ AttachDynamic(method, path)
      /\ routes' = Append(routes, [method |-> method, path |-> path])
      /\ UNCHANGED <<router, keyed>>
Routes(key) == {e[2] : e \in {x \in keyed : x[1] = key}}
\* Fault: the first handler of a request type stays.
FirstStays(key) == IF Routes(key) = {} THEN keyed \cup {<<key, Id>>} ELSE keyed
LastStays(key) == {e \in keyed : e[1] # key} \cup {<<key, Id>>}
\* A route key cannot be registered twice; of two handlers of a request type the later stays.
RegisterKey(key) ==
  /\ router # "http" /\ ~refused /\ Len(routes) < MaxRoutes
  /\ routes' = Append(routes, [method |-> "ANY", path |-> <<key>>])
  /\ IF router = "ws" /\ Routes(key) # {} THEN refused' = TRUE /\ UNCHANGED keyed
     ELSE keyed' = LastStays(key) /\ UNCHANGED refused
  /\ UNCHANGED <<router, statics, dynamics>>

Next ==
  \/ \E method \in Methods, path \in RoutePaths : Register(method, path)
  \/ \E key \in RouteKeys : RegisterKey(key)
Spec == Init /\ [][Next]_vars

----------------------------------------------------------------------------
(* Dispatch                                                                *)

\* decodeURIComponent of a segment, and the escapes normalizeRawPath puts back.
Decode(s) == CASE s = "%61" -> "a" [] s = "%2F" -> "/" [] s = "%252F" -> "%2F" [] OTHER -> s
\* Fault: a decoded "%" stays as it is.
EscapeSlash(s) == IF s = "/" THEN "%2F" ELSE s
Escape(s) == CASE s = "/" -> "%2F" [] s = "%2F" -> "%252F" [] OTHER -> s
Encoded(request) == request.kind = "2.0" /\ \E n \in DOMAIN request.path : request.path[n] \notin {"", "a", "b"}
Malformed(request) == request.kind = "2.0" /\ \E n \in DOMAIN request.path : request.path[n] = "%"
NormalizeRawPath(path) == [n \in DOMAIN path |-> Escape(Decode(path[n]))]
PathOf(request) == IF Encoded(request) THEN NormalizeRawPath(request.path) ELSE request.path

\* The compiled pattern: a parameter takes one segment, {proxy+} the rest, if any, and a
\* slash may follow.
Takes(pattern, s) == IF pattern \in Params THEN s # "" ELSE s = pattern
Match(pattern, path) ==
  LET n == Len(pattern)
  IN  IF Last(pattern) = "{proxy+}"
      THEN Len(path) >= n - 1 /\ \A m \in 1..n - 1 : Takes(pattern[m], path[m])
      ELSE /\ Len(path) = n \/ (Len(path) = n + 1 /\ Last(path) = "")
           /\ \A m \in 1..n : Takes(pattern[m], path[m])
\* Fault: the slash that may follow is counted.
AllSlashes(path) == Len(path)
\* The pre-filter by the number of slashes.
RequestSegments(path) == IF Last(path) = "" THEN Len(path) - 1 ELSE Len(path)
Passes(pattern, path) == Last(pattern) = "{proxy+}" \/ Len(pattern) = RequestSegments(path)

Captures(pattern, path) ==
  [n \in {m \in DOMAIN pattern : pattern[m] \in Params} |->
     IF pattern[n] = "{proxy+}" THEN SubSeq(path, n, Len(path)) ELSE <<path[n]>>]
DecodeAll(captures) == [n \in DOMAIN captures |-> [m \in DOMAIN captures[n] |-> Decode(captures[n][m])]]

Static(method, path) == {e[2] : e \in {x \in statics[method] : x[1] = path}}
DynamicRoutes(method, path) ==
  SelectSeq(dynamics[method], LAMBDA r : Passes(routes[r].path, path) /\ Match(routes[r].path, path))
\* Fault: ANY is consulted with the method, in the order of registration.
ByOrder(method, path) ==
  LET both == DynamicRoutes("ANY", path) \o (IF method = "GET" THEN DynamicRoutes("GET", path) ELSE <<>>)
  IN  SortSeq(both, <)
\* The patterns of the method before those of ANY, each in the order of registration.
Candidates(method, path) ==
  (IF method = "GET" THEN DynamicRoutes("GET", path) ELSE <<>>) \o DynamicRoutes("ANY", path)

NotRouted(why) == [route |-> 0, captures |-> <<>>, why |-> why]
Routed(r, captures) == [route |-> r, captures |-> captures, why |-> "routed"]
Dispatch(request) ==
  LET path == PathOf(request)
      static == IF request.method = "GET" THEN Static("GET", path) ELSE {}
      any == Static("ANY", path)
      candidates == Candidates(request.method, path)
  IN  IF Malformed(request) THEN NotRouted("400")
      ELSE IF static \cup any # {} THEN Routed(CHOOSE r \in (IF static # {} THEN static ELSE any) : TRUE, <<>>)
      ELSE IF candidates = <<>> THEN NotRouted("notFound")
      ELSE LET r == candidates[1]
               captures == Captures(routes[r].path, path)
           IN  Routed(r, IF Encoded(request) THEN DecodeAll(captures) ELSE captures)

\* The other routers; None stands for an event without a key, or with one that is no request type.
None == "none"
LookUp(key, unknown) ==
  IF key = None THEN NotRouted(unknown)
  ELSE IF Routes(key) = {} THEN NotRouted("notFound") ELSE Routed(CHOOSE r \in Routes(key) : TRUE, <<>>)
DispatchRouteKey(key) == LookUp(key, "400")
DispatchRequestType(key) == LookUp(key, "error")

----------------------------------------------------------------------------
TypeOK ==
  /\ Len(routes) <= MaxRoutes /\ refused \in BOOLEAN
  /\ \A m \in Methods : \A e \in statics[m] : e[2] \in 1..Len(routes)
  /\ \A m \in Methods : ToSet(dynamics[m]) \subseteq 1..Len(routes)

\* The routes that answer a request: compared segment by segment, each decoded once.
Answers(route, request, decoded) == route.method \in {"ANY", request.method} /\ Match(route.path, decoded)
Rank(r) == <<IF Dynamic(routes[r].path) THEN 1 ELSE 0, IF routes[r].method = "ANY" THEN 1 ELSE 0, r>>
Precedes(r, s) ==
  \/ Rank(r)[1] < Rank(s)[1]
  \/ Rank(r)[1] = Rank(s)[1] /\ (Rank(r)[2] < Rank(s)[2] \/ (Rank(r)[2] = Rank(s)[2] /\ r < s))
\* A request goes to the static route of its path, else to the first pattern it matches, its
\* method before ANY, and no encoded slash separates segments; the captures are decoded once.
RoutedAsDeclared ==
  router = "http" /\ ~refused =>
    \A request \in Requests :
      LET decoded == IF request.kind = "2.0" THEN [n \in DOMAIN request.path |-> Decode(request.path[n])]
                     ELSE request.path
          answering == {r \in DOMAIN routes : Answers(routes[r], request, decoded)}
          got == Dispatch(request)
      IN  IF Malformed(request) THEN got = NotRouted("400")
          ELSE IF answering = {} THEN got = NotRouted("notFound")
          ELSE /\ got.route \in answering /\ \A r \in answering : Precedes(got.route, r) \/ r = got.route
               /\ got.captures = IF Dynamic(routes[got.route].path)
                                 THEN Captures(routes[got.route].path, decoded) ELSE <<>>
\* No route is hidden by one of its method that answers the same requests.
RoutesApart ==
  ~refused =>
    \A r, s \in DOMAIN routes :
      r < s /\ routes[r].method = routes[s].method /\ router # "cloudformation" =>
        Signature(routes[r].path) # Signature(routes[s].path)
\* A route key has one handler, a request type the last that was registered for it.
RoutedByKey ==
  router # "http" /\ ~refused =>
    \A key \in RouteKeys \cup {"Update"} :
      LET named == {r \in DOMAIN routes : routes[r].path = <<key>>}
          got == IF router = "ws" THEN DispatchRouteKey(key) ELSE DispatchRequestType(key)
      IN  IF named = {} THEN got = NotRouted("notFound")
          ELSE got.route \in named /\ \A r \in named : r <= got.route
Declared == RoutedAsDeclared /\ RoutesApart /\ RoutedByKey
=============================================================================
