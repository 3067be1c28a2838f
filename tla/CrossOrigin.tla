----------------------------- MODULE CrossOrigin -----------------------------
(***************************************************************************)
(* @middy/http-cors, and @middy/http-security-headers registered before it, *)
(* on a function behind a gateway and a shared cache.  All requests are for *)
(* one resource and of one method, and the handler answers all alike; what  *)
(* differs is where they come from and what a preflight asks for.           *)
(*                                                                         *)
(* A header map is a function of <<name, casing>>.  "frame" stands for the  *)
(* headers http-security-headers sets, "powered" for those it removes; the  *)
(* other headers of http-cors are constants, set like "acac".  The value of *)
(* "vary" is the set of its tokens.                                         *)
(***************************************************************************)
EXTENDS Naturals, FiniteSets

VARIABLES
  options,  \* of http-cors
  method,   \* of every request
  gateway,  \* "rest": sends headers and multiValueHeaders; "alb": with multi-value headers enabled
  handler,  \* what the handler answers
  stored,   \* what the shared cache holds: at most one request, and its answer
  answered  \* the last request and the answer it got, or nothing

vars == <<options, method, gateway, handler, stored, answered>>

None == "none"
Origins == {"site", "sub", "other", None}
\* The names a preflight asks for: a header every client may send, one in requestHeaders, another.
Asks == {[method |-> None, header |-> None], [method |-> "GET", header |-> "safelisted"],
         [method |-> "DELETE", header |-> "listed"], [method |-> "GET", header |-> "unlisted"]}
Requests ==
  IF method = "OPTIONS" THEN [origin : Origins, asks : Asks]
  ELSE [origin : Origins, asks : {[method |-> None, header |-> None]}]

\* "*.site" is an origin with a wildcard, of which "sub" is an instance.
OriginOptions ==
  [origin : {None}, origins : SUBSET {"*", "site", "*.site"}]
    \cup [origin : {"*", "site"}, origins : {{}, {"site"}}]
Has(option, entry) == entry \in option.origins \cup {option.origin}
OriginAny == Has(options, "*")

Defaults == [origin |-> None, origins |-> {}, credentials |-> None, requestMethods |-> {}, requestHeaders |-> {}]

EmptyMap == [key \in {} |-> None]
With(map, key, value) == [k \in DOMAIN map \cup {key} |-> IF k = key THEN value ELSE map[k]]
Without(map, names) == [k \in {key \in DOMAIN map : key[1] \notin names} |-> map[k]]
\* A response; isMulti: multiValueHeaders is defined.
Single(map) == [single |-> map, multi |-> EmptyMap, isMulti |-> FALSE]
Multi(map, multi) == [single |-> map, multi |-> multi, isMulti |-> TRUE]
HandlerMaps ==
  {EmptyMap,
   With(EmptyMap, <<"acao", "lower">>, "site"),
   With(With(With(EmptyMap, <<"vary", "Proper">>, {"Accept"}), <<"frame", "lower">>, "handler"),
        <<"powered", "Proper">>, "handler"),
   With(With(EmptyMap, <<"vary", "lower">>, {"*"}), <<"acac", "Proper">>, "true")}

Init ==
  /\ \E o \in OriginOptions, c \in {None, "true"}, m \in {{}, {"GET"}}, h \in {{}, {"listed"}} :
       options = [origin |-> o.origin, origins |-> o.origins, credentials |-> c,
                  requestMethods |-> m, requestHeaders |-> h]
  /\ ~(OriginAny /\ options.credentials = "true")  \* the middleware throws
  /\ method \in {"GET", "OPTIONS"} /\ gateway \in {"rest", "alb"}
  /\ IF method = "OPTIONS" THEN handler = Single(EmptyMap) /\ options.credentials = None
     ELSE options.requestMethods = {} /\ options.requestHeaders = {} /\
          handler \in [single : HandlerMaps, multi : HandlerMaps, isMulti : BOOLEAN]
  /\ ~handler.isMulti => handler.multi = EmptyMap
  /\ gateway = "alb" => handler.single = EmptyMap  \* it reads nothing else than multiValueHeaders
  /\ stored = {} /\ answered = {}

----------------------------------------------------------------------------
(* http-cors                                                               *)

\* Fault: an origin is reflected when any is allowed.
ReflectOrigin(origin) ==
  IF options.origins = {} THEN options.origin
  ELSE IF OriginAny \/ Has(options, origin) THEN origin
  ELSE IF Has(options, "*.site") /\ origin = "sub" THEN origin ELSE None
GetOrigin(origin) ==
  IF options.origins = {} THEN options.origin
  ELSE IF origin # None /\ Has(options, origin) THEN origin
  ELSE IF OriginAny THEN "*"
  ELSE IF Has(options, "*.site") /\ origin = "sub" THEN origin ELSE None
\* Fault: what a wildcard matches is forgotten.
StaticVaries == "site" \in options.origins
OriginVaries == \E entry \in options.origins : entry # "*"

Sets(map, name) == \E key \in DOMAIN map : key[1] = name
ValueOf(map, name) == map[CHOOSE key \in DOMAIN map : key[1] = name]

\* addHeaderPart, for Vary.
AddVary(map, tokens) ==
  LET key == <<"vary", IF <<"vary", "lower">> \in DOMAIN map THEN "lower" ELSE "Proper">>
      current == IF key \in DOMAIN map THEN map[key] ELSE {}
  IN  IF tokens = {} \/ "*" \in current THEN map ELSE With(map, key, current \cup tokens)

\* Fault: the casing of what the handler has set matters.
Overridden(map, name) == <<name, "Proper">> \notin DOMAIN map
Unset(map, name) == ~Sets(map, name)
ModifyHeaders(map, origin) ==
  LET credentials == IF Unset(map, "acac") THEN options.credentials ELSE ValueOf(map, "acac")
      allowed == IF Unset(map, "acao") THEN GetOrigin(origin) ELSE None
      first == IF Unset(map, "acac") /\ credentials # None
               THEN With(map, <<"acac", "Proper">>, credentials) ELSE map
      second == IF allowed = None THEN first ELSE With(first, <<"acao", "Proper">>, allowed)
  IN  IF OriginVaries \/ (OriginAny /\ allowed # "*") \/ (allowed = "*" /\ credentials = "true")
      THEN AddVary(second, {"Origin"}) ELSE second

PreflightVary ==
  (IF options.requestMethods = {} THEN {} ELSE {"Method"})
    \cup (IF options.requestHeaders = {} THEN {} ELSE {"Headers"})
\* setPreflightHeaders
Preflight(map) ==
  IF gateway = "alb" THEN Multi(EmptyMap, map) ELSE Single(map)
\* Fault: a rejection is the same for all.
RejectBare == Preflight(EmptyMap)
RejectPreflight ==
  Preflight(AddVary(EmptyMap, PreflightVary \cup (IF OriginVaries THEN {"Origin"} ELSE {})))

Accepted(asks) ==
  /\ options.requestMethods # {} /\ asks.method # None => asks.method \in options.requestMethods
  /\ options.requestHeaders # {} /\ asks.header \notin {None, "safelisted"} =>
       asks.header \in options.requestHeaders
\* The before hook, with disableBeforePreflightResponse off: it answers early.
CorsBefore(request) ==
  IF Accepted(request.asks) THEN Preflight(AddVary(ModifyHeaders(EmptyMap, request.origin), PreflightVary))
  ELSE RejectPreflight

CorsSingle(response, origin) == [response EXCEPT !.single = ModifyHeaders(@, origin)]
\* Both maps count for what the handler set; what changes goes into multiValueHeaders.
CorsMulti(response, origin) ==
  LET own == DOMAIN response.multi
      keys == DOMAIN response.single \cup own
      before == [k \in keys |-> IF k \in own THEN response.multi[k] ELSE response.single[k]]
      after == ModifyHeaders(before, origin)
      changed == {k \in DOMAIN after : k \notin keys \/ after[k] # before[k]}
  IN  Multi([k \in DOMAIN after \ (own \cup changed) |-> after[k]], [k \in own \cup changed |-> after[k]])
InMulti(response) == response.isMulti \/ gateway = "alb"
CorsAfter(response, origin) ==
  IF InMulti(response) THEN CorsMulti(response, origin) ELSE CorsSingle(response, origin)

----------------------------------------------------------------------------
(* http-security-headers                                                   *)

\* Fault: only what has the same casing is replaced.
ReplacedExactly(map) == [k \in DOMAIN map \ {<<"powered", "Proper">>, <<"frame", "Proper">>} |-> map[k]]
WithoutReplaced(map) == Without(map, {"frame", "powered"})
SecurityAfter(response) ==
  LET single == WithoutReplaced(response.single)
      multi == WithoutReplaced(response.multi)
      framed(map) == With(map, <<"frame", "Proper">>, "middy")
  IN  IF InMulti(response) THEN Multi(single, framed(multi)) ELSE Single(framed(single))

----------------------------------------------------------------------------
(* The function, the gateway and the cache                                 *)

Respond(request) ==
  IF method = "OPTIONS" THEN CorsBefore(request)
  ELSE SecurityAfter(CorsAfter(handler, request.origin))
\* The header fields the gateway sends.
Fields(map) == {<<key, map[key]>> : key \in DOMAIN map}
Sent(response) == Fields(response.multi) \cup (IF gateway = "alb" THEN {} ELSE Fields(response.single))

Named(answer, name) == {field \in answer : field[1][1] = name}
Values(answer, name) == {field[2] : field \in Named(answer, name)}
Matches(kept, request) ==
  LET vary == UNION Values(kept.answer, "vary")
  IN  /\ "*" \notin vary
      /\ "Origin" \in vary => request.origin = kept.request.origin
      /\ "Method" \in vary => request.asks.method = kept.request.asks.method
      /\ "Headers" \in vary => request.asks.header = kept.request.asks.header
Hit(request) ==
  \E kept \in stored :
    /\ Matches(kept, request)
    /\ answered' = {[kept EXCEPT !.request = request]} /\ UNCHANGED stored
Miss(request) ==
  /\ \A kept \in stored : ~Matches(kept, request)
  /\ answered' = {[request |-> request, answer |-> Sent(Respond(request))]}
  /\ stored' = answered'
Next ==
  /\ \E request \in Requests : Hit(request) \/ Miss(request)
  /\ UNCHANGED <<options, method, gateway, handler>>
Spec == Init /\ [][Next]_vars

----------------------------------------------------------------------------
TypeOK ==
  /\ method \in {"GET", "OPTIONS"} /\ gateway \in {"rest", "alb"}
  /\ options.origins \subseteq {"*", "site", "*.site"} /\ options.credentials \in {None, "true"}
  /\ \A seen \in answered : seen.request \in Requests
  /\ Cardinality(stored) = Cardinality(answered)

Grants(answer, origin) == Values(answer, "acao") \cap {"*", origin} # {}
\* What the options say of an origin, by themselves.
Allowed(origin) ==
  IF options.origins = {} THEN options.origin \in {"*", origin}
  ELSE Has(options, "*") \/ Has(options, origin) \/ (origin = "sub" /\ Has(options, "*.site"))
HandlerSets(name) == method = "GET" /\ (Sets(handler.single, name) \/ Sets(handler.multi, name))
\* Through the cache an origin is granted what the options say: no more and no less.
GrantedAsConfigured ==
  \A seen \in answered :
    seen.request.origin # None /\ ~HandlerSets("acao") =>
      (Grants(seen.answer, seen.request.origin) <=>
         Allowed(seen.request.origin) /\ Accepted(seen.request.asks))
\* No origin is named that the options do not name.  The handler's headers win and none is sent
\* twice; the headers of http-security-headers are its own.
SentOnce ==
  \A seen \in answered :
    /\ "other" \notin Values(seen.answer, "acao")
    /\ \A name \in {"acao", "acac", "frame"} : Cardinality(Named(seen.answer, name)) <= 1
    /\ HandlerSets("acao") => Values(seen.answer, "acao") \subseteq {"site"}
    /\ method = "GET" => Values(seen.answer, "frame") = {"middy"} /\ Values(seen.answer, "powered") = {}
CrossOriginHolds == GrantedAsConfigured /\ SentOnce
=============================================================================
