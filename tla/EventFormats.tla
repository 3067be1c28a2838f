---------------------------- MODULE EventFormats ----------------------------
(***************************************************************************)
(* One HTTP request as the events of API Gateway, a load balancer, VPC      *)
(* Lattice (all external) or @middy/ecs-http tell of it, the normalizers    *)
(* that rewrite the event, and the readers in the middlewares behind them,  *)
(* each of which finds its own way through the formats.                     *)
(*                                                                         *)
(* A header map is a function of <<name, casing>> to values: the lines of   *)
(* the field, in an array or joined to one string.  A path is the parts it   *)
(* has.  A query value is the number of times it is encoded.                *)
(***************************************************************************)
EXTENDS Naturals, SequencesExt, FiniteSets

VARIABLES
  request,  \* what the client sends, and the proxies on its way add
  gateway,  \* what makes the event of it
  chain,    \* the normalizers registered before the readers
  event,    \* the event, or nothing before it is made
  at        \* how many normalizers have been called

vars == <<request, gateway, chain, event, at>>

Gateways == {"rest", "http", "alb", "albMulti", "latticeV1", "latticeV2", "ecs1", "ecs2", "ecsAlb"}
None == "none"
Plain == [lines |-> <<"t1">>, proofs |-> <<>>, casing |-> "Proper", cookies |-> <<>>, query |-> <<>>,
          stage |-> FALSE, hops |-> <<>>, proxies |-> 0, trusted |-> 1]
\* A hop of X-Forwarded-For: the address, and whether the load balancer adds the port.
Hop(ip, port) == [ip |-> ip, port |-> port]
Claim == Hop("claimed", FALSE)
NoHop == Hop("", FALSE)   \* nothing between two commas
\* The Authorization lines, DPoP lines and cookies of the request, the levels of encoding of the
\* values of a query parameter, whether the path begins with a stage, and the hops of
\* X-Forwarded-For, the last proxies of which are trustworthy; trusted is options.trustedProxies.
Requests ==
  {[Plain EXCEPT !.lines = l, !.proofs = p, !.casing = c] :
     l \in {<<>>, <<"t1">>, <<"t1", "t2">>}, p \in {<<>>, <<"p1">>, <<"p1", "p2">>},
     c \in {"lower", "Proper", "UPPER"}}
  \cup {[Plain EXCEPT !.cookies = k, !.casing = c] :
          k \in {<<"token">>, <<"other", "token">>, <<"token", "other">>}, c \in {"lower", "Proper", "UPPER"}}
  \cup {[Plain EXCEPT !.query = q] : q \in {<<m>> : m \in 0..2} \cup {<<m, n>> : m \in 0..2, n \in 0..2}}
  \cup {[Plain EXCEPT !.stage = TRUE]}
  \cup {[Plain EXCEPT !.hops = [n \in 1..Len(c) + p |-> IF n <= Len(c) THEN c[n] ELSE proxied],
                      !.proxies = p, !.trusted = t] :
           c \in {<<>>, <<Claim>>, <<Claim, Claim>>, <<NoHop>>, <<Claim, NoHop>>},
           proxied \in {Hop("true", FALSE), Hop("true", TRUE)}, p \in 0..2, t \in 0..2}

EmptyMap == [key \in {} |-> None]
Joined(values) == [array |-> FALSE, of |-> values]
List(values) == [array |-> TRUE, of |-> values]
\* One header map: what the gateway makes of each field, by its form; lower-cased but by API
\* Gateway REST.
Field(name, values, Form(_)) ==
  IF values = <<>> THEN EmptyMap
  ELSE [key \in {<<name, IF gateway = "rest" THEN request.casing ELSE "lower">>} |-> Form(values)]
Join(f, g) == [key \in DOMAIN f \cup DOMAIN g |-> IF key \in DOMAIN f THEN f[key] ELSE g[key]]
HeaderMap(Form(_), cookies) ==
  Join(Field("authorization", request.lines, Form),
       Join(Field("dpop", request.proofs, Form), Field("cookie", cookies, Joined)))
LastOf(values) == Joined(<<Last(values)>>)
FirstOf(values) == Joined(<<Head(values)>>)

Init ==
  /\ request \in Requests /\ gateway \in Gateways
  /\ chain \in {<<>>, <<"event">>, <<"header">>, <<"event", "header">>, <<"header", "event">>}
  /\ event = {} /\ at = 0

----------------------------------------------------------------------------
(* The events.  version, elb and http say what distinguishes a format, and  *)
(* method where it has the method; the other fields are the properties      *)
(* readers look at, EmptyMap, <<>> or None when they are absent.            *)

Blank == [version |-> None, elb |-> FALSE, http |-> FALSE, method |-> {}, headers |-> EmptyMap,
          multi |-> EmptyMap, cookies |-> <<>>, query |-> <<>>, multiQuery |-> <<>>, snakeQuery |-> <<>>,
          path |-> None, rawPath |-> None, snakePath |-> None, contextPath |-> None, address |-> None]
\* node:http keeps the first Authorization line and joins those of other fields.
NodeHeaders ==
  Join(Field("authorization", request.lines, FirstOf),
       Join(Field("dpop", request.proofs, Joined), Field("cookie", request.cookies, Joined)))
Decoded(values) == [n \in DOMAIN values |-> IF values[n] = 0 THEN 0 ELSE values[n] - 1]
LastQuery(values) == IF values = <<>> THEN values ELSE <<Last(values)>>
Staged == IF request.stage THEN "stage/path" ELSE "path"

\* Fault: the first hop is the client's.
FromFront(xff, n) == IF n > Len(xff) THEN NoHop ELSE xff[n]
HopFromEnd(xff, n) == IF n > Len(xff) THEN NoHop ELSE xff[Len(xff) - n + 1]
StripClientPort(hop) == hop.ip
ClientIp ==
  LET hop == HopFromEnd(request.hops, request.trusted)
  IN  IF request.trusted > 0 /\ hop # NoHop THEN StripClientPort(hop) ELSE "socket"

\* Fault: the values are decoded as for the other formats.
CollectQuery(values) == LastQuery(Decoded(values))
\* collectQueryEncoded leaves the decoding to the normalizer, as a load balancer does.
CollectQueryEncoded(values) == LastQuery(values)
BuildEventV2 ==
  [Blank EXCEPT !.version = "2.0", !.http = TRUE, !.method = {"http"}, !.headers = NodeHeaders,
                !.cookies = request.cookies, !.query = Decoded(request.query),
                !.rawPath = Staged, !.address = ClientIp]
BuildEventV1 ==
  [Blank EXCEPT !.method = {"httpMethod"}, !.headers = NodeHeaders,
                !.multi = [key \in DOMAIN NodeHeaders |-> List(NodeHeaders[key].of)],
                !.query = LastQuery(Decoded(request.query)), !.multiQuery = Decoded(request.query),
                !.path = Staged, !.contextPath = Staged, !.address = ClientIp]
BuildEventAlb ==
  [Blank EXCEPT !.elb = TRUE, !.method = {"httpMethod"}, !.headers = NodeHeaders,
                !.query = CollectQueryEncoded(request.query), !.path = Staged]
EventOf ==
  CASE gateway = "ecs1" -> BuildEventV1
    [] gateway = "ecs2" -> BuildEventV2
    [] gateway = "ecsAlb" -> BuildEventAlb
    [] gateway = "rest" ->
         [Blank EXCEPT !.method = {"httpMethod"}, !.headers = HeaderMap(LastOf, request.cookies),
                       !.multi = HeaderMap(List, request.cookies),
                       !.query = LastQuery(Decoded(request.query)), !.multiQuery = Decoded(request.query),
                       !.path = "path", !.contextPath = Staged]
    [] gateway = "http" ->
         [Blank EXCEPT !.version = "2.0", !.http = TRUE, !.method = {"http"}, !.headers = HeaderMap(Joined, <<>>),
                       !.cookies = request.cookies, !.query = Decoded(request.query), !.rawPath = Staged]
    [] gateway = "alb" ->
         [Blank EXCEPT !.elb = TRUE, !.method = {"httpMethod"}, !.headers = HeaderMap(LastOf, request.cookies),
                       !.query = LastQuery(request.query), !.path = Staged]
    [] gateway = "albMulti" ->
         [Blank EXCEPT !.elb = TRUE, !.method = {"httpMethod"}, !.multi = HeaderMap(List, request.cookies),
                       !.multiQuery = request.query, !.path = Staged]
    [] gateway = "latticeV1" ->
         [Blank EXCEPT !.method = {"method"}, !.headers = HeaderMap(Joined, request.cookies),
                       !.snakeQuery = LastQuery(Decoded(request.query)), !.snakePath = Staged]
    [] gateway = "latticeV2" ->
         [Blank EXCEPT !.version = "2.0", !.method = {"method"}, !.headers = HeaderMap(List, request.cookies),
                       !.query = Decoded(request.query), !.path = Staged]
Deliver ==
  /\ event = {} /\ event' = {EventOf}
  /\ UNCHANGED <<request, gateway, chain, at>>

----------------------------------------------------------------------------
(* The normalizers                                                         *)

ResolveHttpEventVersion(e) ==
  IF e.version # None THEN e.version ELSE IF "method" \in e.method THEN "vpc" ELSE "1.0"
Calls(name) == event # {} /\ at < Len(chain) /\ chain[at + 1] = name /\ at' = at + 1

\* Fault: what is decoded depends on the map it came from.
FormDecodeSingle(e) == [e EXCEPT !.query = Decoded(@)]
FormDecodeParameters(e) == [e EXCEPT !.query = Decoded(@), !.multiQuery = Decoded(@)]
JoinMultiValueHeaders(e) ==
  IF e.elb /\ e.headers = EmptyMap
  THEN [e EXCEPT !.headers = [key \in DOMAIN e.multi |-> Joined(e.multi[key].of)],
                 !.query = IF @ = <<>> THEN LastQuery(e.multiQuery) ELSE @]
  ELSE e
HttpEventNormalizer ==
  /\ Calls("event")
  /\ \E e \in event :
       LET vpc == IF ResolveHttpEventVersion(e) = "vpc" THEN [e EXCEPT !.query = e.snakeQuery] ELSE e
           joined == JoinMultiValueHeaders(vpc)
       IN  event' = {IF e.elb THEN FormDecodeParameters(joined) ELSE joined}
  /\ UNCHANGED <<request, gateway, chain>>

\* options.canonical off
NormalizeHeaderKeys(map) ==
  [key \in {<<k[1], "lower">> : k \in DOMAIN map} |-> map[CHOOSE k \in DOMAIN map : k[1] = key[1]]]
HttpHeaderNormalizer ==
  /\ Calls("header")
  /\ event' = {[e EXCEPT !.headers = NormalizeHeaderKeys(@), !.multi = NormalizeHeaderKeys(@)] : e \in event}
  /\ UNCHANGED <<request, gateway, chain>>

Next == Deliver \/ HttpEventNormalizer \/ HttpHeaderNormalizer
Spec == Init /\ [][Next]_vars

----------------------------------------------------------------------------
(* The readers                                                             *)

\* Fault: only headers are looked at.
HeadersOnly(e) == e.headers
EventHeaders(e) == IF e.headers # EmptyMap THEN e.headers ELSE e.multi
ValueIn(map, name, casings) ==
  LET keys == {key \in DOMAIN map : key[1] = name /\ key[2] \in casings}
  IN  IF keys = {} THEN <<>>
      ELSE IF <<name, "Proper">> \in keys THEN <<map[<<name, "Proper">>]>> ELSE <<map[CHOOSE key \in keys : TRUE]>>
\* A joined value of several lines is no token.
FirstLine(value) == IF value.array \/ Len(value.of) = 1 THEN Head(value.of) ELSE "junk"
\* http-jwt and http-paseto, with tokenHeaderName "Authorization"
ReadHeaderValue(e) ==
  LET value == ValueIn(EventHeaders(e), "authorization", {"lower", "Proper"})
  IN  IF value = <<>> \/ FirstLine(value[1]) = "junk" THEN None ELSE FirstLine(value[1])
\* Fault: the cookies of the event are forgotten.
ReadCookieHeader(e) ==
  LET value == ValueIn(EventHeaders(e), "cookie", {"lower", "Proper"})
  IN  value # <<>> /\ Contains(value[1].of, "token")
ReadCookieValue(e) ==
  LET value == ValueIn(EventHeaders(e), "cookie", {"lower", "Proper"})
  IN  (value # <<>> /\ Contains(value[1].of, "token")) \/ Contains(e.cookies, "token")
\* http-dpop
ReadAuthorization(e) ==
  LET value == ValueIn(EventHeaders(e), "authorization", {"lower", "Proper", "UPPER"})
  IN  IF value = <<>> THEN None ELSE FirstLine(value[1])
\* Fault: the first proof is as good as another.
ReadFirstProof(e) ==
  LET value == ValueIn(EventHeaders(e), "dpop", {"lower", "Proper", "UPPER"})
  IN  IF value = <<>> THEN None ELSE FirstLine(value[1])
ReadProof(e) ==
  LET value == ValueIn(EventHeaders(e), "dpop", {"lower", "Proper", "UPPER"})
  IN  IF value = <<>> THEN None
      ELSE IF value[1].array /\ Len(value[1].of) > 1 THEN None ELSE FirstLine(value[1])
\* The first of what is present.
FirstPresent(paths) ==
  LET present == SelectSeq(paths, LAMBDA p : p # None) IN IF present = <<>> THEN None ELSE Head(present)
\* Fault: the path is the one the router matched.
ReadMatched(e) == FirstPresent(<<e.rawPath, e.path, e.snakePath>>)
\* http-dpop, http-x402 and http-router; each cuts off a query string on the path.
ReadPath(e) == FirstPresent(<<e.rawPath, e.contextPath, e.path, e.snakePath>>)
BuildResource(e) ==
  IF e.http THEN e.rawPath ELSE FirstPresent(<<e.contextPath, e.path, e.snakePath>>)
Route(e) ==
  CASE ResolveHttpEventVersion(e) = "1.0" -> e.path
    [] ResolveHttpEventVersion(e) = "2.0" -> IF e.http THEN e.rawPath ELSE e.path
    [] OTHER -> e.snakePath
\* Fault: every event of version 2.0 is API Gateway's.
AnyVersion2(e) == IF e.version = "2.0" THEN {"http"} ELSE {"httpMethod", "method"}
\* Where http-cors, http-router and http-dpop look for the method.
ReadHttpMethod(e) ==
  CASE ResolveHttpEventVersion(e) = "1.0" -> {"httpMethod"}
    [] ResolveHttpEventVersion(e) = "2.0" -> {"http", "method"}
    [] OTHER -> {"method"}

----------------------------------------------------------------------------
TypeOK ==
  /\ request \in Requests /\ gateway \in Gateways /\ at \in 0..Len(chain)
  /\ Cardinality(event) <= 1 /\ \A e \in event : DOMAIN e = DOMAIN Blank

Normalized(name) == Contains(SubSeq(chain, 1, at), name)
\* The casing of a client is lost on a reader that looks for two only, until it is normalized.
Readable == gateway # "rest" \/ request.casing # "UPPER" \/ Normalized("header")
\* The verifier and http-dpop read the same token, one that was sent; a single one is found
\* whatever the format, and so is the cookie.  A proof is only taken when there is one.
CredentialsFound ==
  \A e \in event :
    /\ ReadHeaderValue(e) \in {None, ReadAuthorization(e)}
    /\ Len(request.lines) = 1 /\ Readable => ReadHeaderValue(e) = "t1"
    /\ Contains(request.cookies, "token") /\ Readable => ReadCookieValue(e)
    /\ ReadProof(e) \in {"p1", "p2"} => Len(request.proofs) = 1 \/ gateway \in {"rest", "alb"}
\* After http-event-normalizer a query value has been decoded once, wherever it came from.
DecodedOnce ==
  \A e \in event :
    Normalized("event") =>
      /\ ToSet(e.query) \cup ToSet(e.multiQuery) \subseteq ToSet(Decoded(request.query))
      /\ request.query # <<>> => e.query # <<>> /\ Last(e.query) = Last(Decoded(request.query))
\* Every reader finds the method and the path of the request, http-dpop the path as the client
\* wrote it.
TargetFound ==
  \A e \in event :
    /\ e.method \cap ReadHttpMethod(e) # {}
    /\ ReadPath(e) = Staged /\ BuildResource(e) = Staged /\ Route(e) \in {"path", Staged}
\* With trustedProxies as many as there are or fewer the address is never one the client claims,
\* and it is the proxy's word, without a port, when there is a proxy to trust.
AddressIsTrue ==
  \A e \in event : request.trusted <= request.proxies /\ e.address # None =>
    e.address = IF request.trusted = 0 THEN "socket" ELSE "true"
RequestFound == CredentialsFound /\ DecodedOnce /\ TargetFound /\ AddressIsTrue
=============================================================================
