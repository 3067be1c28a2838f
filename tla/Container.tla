----------------------------- MODULE Container -----------------------------
(***************************************************************************)
(* The smaller parts of middy that keep a state of their own while a        *)
(* container lives: those of Fetching, and all others.  They share nothing; *)
(* a behaviour follows one of them and the other parts stay in their        *)
(* initial states.                                                          *)
(***************************************************************************)
EXTENDS Fetching, TLAPS

CONSTANTS Chunks, HighWaterMark, BatchLength                      \* see StreamResponse, BatchReport
CONSTANTS Connections, BodyLimit                                  \* see HttpServer
CONSTANTS MaxParts, MaxRoutes                                     \* see RequestBody, HttpRouter
CONSTANTS Received, DerivedClientsMax                             \* see RecordPayloads, ConnectionReplies
CONSTANTS MaxBodyBytes, MaxUsed                                   \* see Logging, Registration
CONSTANTS MaxCalls, Tasks                                         \* see ContextNamespaces, BatchReport
CONSTANTS MaxSignificant, PlainUpTo, PlainDownTo, MaxDecimals     \* see HttpResponse
CONSTANTS MaxBudget, MinWait, Margin                              \* see ObjectResponse
ASSUME PartsAssumption ==
  /\ {Chunks, HighWaterMark, BatchLength, MaxParts, Received, DerivedClientsMax} \subseteq Nat \ {0}
  /\ {MaxCalls, Tasks, MaxBudget, MinWait} \subseteq Nat \ {0} /\ MaxSignificant \in 1..PlainUpTo
  /\ {PlainDownTo, MaxDecimals, Margin} \subseteq Nat
  /\ {BodyLimit, MaxRoutes, MaxBodyBytes, MaxUsed} \subseteq Nat

VARIABLES call, body, position, stream, buffer, needDrain, flushed, committed, errors, thrown
VARIABLES stage, mode, record, failures
VARIABLES task, forcedExit, signalled, exitCode, taskFailures
VARIABLES outer, stackPhase, handled, stackResponse, oversized, told, lost
VARIABLES stack, versions, phase, at, response, error, payment, early
VARIABLES conn, keepAlive, draining, exit, responses
VARIABLES request, requestPhase, read, buffered, event, written, source, peer
VARIABLES pc, verifier, keys, algs, token, sender, answer
VARIABLES sent, chain, step, readable, base64, parsed, outcome
VARIABLES parts, surplus, open, form, formPromise, parser
VARIABLES router, routes, statics, dynamics, keyed, refused
VARIABLES corsOptions, method, corsGateway, handler, sharedCopy, answered
VARIABLES delivery, middlewares, called, turn, items, snapshot, settled, result
VARIABLES clientRequest, gateway, normalizers, httpEvent, normalized
VARIABLES wsOptions, wsCreds, pool, replying
VARIABLES omitPaths, payload, tree, logged
VARIABLES accept, settings, found, hook, reply
VARIABLES streams, content, teeSource, passed, tee, consumed, capture, log
VARIABLES stacks, used, threw
VARIABLES package, given, verdict, made
VARIABLES requestState, contextOf, derives, marked, late, publishers, todo, awaited, data, inherited, field
VARIABLES logger, flushes
VARIABLES batchFrom, cached, returned, report
VARIABLES price, terms
VARIABLES role, progress, url, budget, elapsed, get, clientCreds, keptClient, input, command, resent, since

streamify == INSTANCE StreamResponse
batch == INSTANCE BatchReport WITH event <- batchFrom, settled <- returned, reply <- report
ecsTask == INSTANCE TaskRunner WITH failures <- taskFailures
resource == INSTANCE StackReport WITH phase <- stackPhase, response <- stackResponse
http == INSTANCE HttpResponse
ecsHttp == INSTANCE HttpServer WITH phase <- requestPhase, answer <- written, client <- peer
auth == INSTANCE Authorization
parsing == INSTANCE RequestBody WITH promise <- formPromise
routing == INSTANCE HttpRouter
cors == INSTANCE CrossOrigin WITH options <- corsOptions, gateway <- corsGateway, stored <- sharedCopy
records == INSTANCE RecordPayloads WITH chain <- middlewares, at <- called
formats == INSTANCE EventFormats WITH request <- clientRequest, chain <- normalizers, event <- httpEvent,
                                      at <- normalized
replies == INSTANCE ConnectionReplies WITH options <- wsOptions, creds <- wsCreds, inv <- replying
logs == INSTANCE Logging WITH outcome <- logged, source <- teeSource
negotiation == INSTANCE Negotiation
registering == INSTANCE Registration
namespaces == INSTANCE ContextNamespaces
  WITH phase <- requestState, given <- contextOf, chain <- publishers, flushed <- flushes
objectResponse == INSTANCE ObjectResponse WITH pc <- progress, creds <- clientCreds, client <- keptClient

streamifyVars == <<call, body, position, stream, buffer, needDrain, flushed, committed, errors, thrown>>
batchVars == <<stage, mode, record, failures>>
ecsTaskVars == <<task, forcedExit, signalled, exitCode, taskFailures>>
resourceVars == <<outer, stackPhase, handled, stackResponse, oversized, told, lost>>
httpVars == <<stack, versions, phase, at, response, error, payment, early>>
ecsHttpVars == <<conn, keepAlive, draining, exit, responses>>
exchangeVars == <<request, requestPhase, read, buffered, event, written, source, peer>>
authVars == <<pc, verifier, keys, algs, token, sender, answer>>
parsingVars == <<sent, chain, step, readable, base64, parsed, outcome>>
multipartVars == <<parts, surplus, open, form, formPromise, parser>>
routingVars == <<router, routes, statics, dynamics, keyed, refused>>
corsVars == <<corsOptions, method, corsGateway, handler, sharedCopy, answered>>
recordsVars == <<delivery, middlewares, called, turn, items, snapshot, settled, result>>
formatsVars == <<clientRequest, gateway, normalizers, httpEvent, normalized>>
repliesVars == <<wsOptions, wsCreds, pool, replying>>
logsVars == <<omitPaths, payload, tree, logged>>
negotiationVars == <<accept, settings, found, hook, reply>>
teeVars == <<streams, content, teeSource, passed, tee, consumed, capture, log>>
registeringVars == <<stacks, used, threw>>
optionsVars == <<package, given, verdict, made>>
namespacesVars == <<requestState, contextOf, derives, marked, late, publishers, todo, awaited, data, inherited, field,
                    logger, flushes>>
batchRepliesVars == <<batchFrom, cached, returned, report>>
payingVars == <<price, terms>>
objectVars == <<role, progress, url, budget, elapsed, get, clientCreds, keptClient, input, command, resent, since>>
vars == <<fetchVars, streamifyVars, batchVars, ecsTaskVars,
          resourceVars, httpVars, ecsHttpVars, exchangeVars, authVars, parsingVars, multipartVars, routingVars,
          corsVars, recordsVars, formatsVars, repliesVars, logsVars,
          negotiationVars, teeVars, registeringVars, optionsVars, namespacesVars, batchRepliesVars,
          payingVars, objectVars>>

Parts == {"streamify", "batch", "ecs-task", "resource",
          "http", "ecs-http", "exchange", "auth", "parsing", "multipart", "routing",
          "cors", "records", "formats", "replies", "logs", "negotiation", "tee", "registering", "options",
          "namespaces", "batch-replies", "paying", "object"} \cup FetchParts

\* How a part is configured, and what it is sent, is of no interest to the others.
Init ==
  /\ part \in Parts
  /\ FetchInit
  /\ streamify!Init /\ batch!BatchInit /\ ecsTask!Init
  /\ resource!Init
  /\ part # "resource" => outer
  /\ http!Init
  /\ part # "http" => versions = {2} /\ stack[1] = "http-x402"
  /\ ecsHttp!DrainInit
  /\ part # "exchange" => request = [framing |-> "none", size |-> 0, bytes |-> "text", type |-> "none"]
  /\ ecsHttp!ExchangeInit
  /\ auth!Init
  /\ part # "auth" => verifier = "issuers"
  /\ parsing!FormInit
  /\ part # "routing" => router = "http"
  /\ routing!Init
  /\ part # "replies" => wsOptions = [endpoint |-> replies!None, assumeRole |-> TRUE]
  /\ replies!Init
  /\ part # "tee" => streams = "node" /\ content = <<>>
  /\ logs!TeeInit
  /\ registering!StackInit
  /\ namespaces!Init
  /\ part # "batch-replies" => batchFrom = "api"
  /\ batch!ReplyInit
  /\ objectResponse!Init
  /\ part # "object" => role
  \* What has many initial states is not even looked at by the others.
  /\ IF part = "cors" THEN cors!Init
     ELSE /\ corsOptions = cors!Defaults /\ method = "OPTIONS" /\ corsGateway = "rest"
          /\ handler = cors!Single(cors!EmptyMap) /\ sharedCopy = {} /\ answered = {}
  /\ IF part = "negotiation" THEN negotiation!Init
     ELSE /\ accept = <<>> /\ settings = {} /\ found = negotiation!Nothing /\ hook = "before"
          /\ reply = [coding |-> negotiation!None, noTransform |-> FALSE]
  /\ IF part = "options" THEN registering!OptionsInit
     ELSE /\ package = "warmup" /\ given = registering!Empty /\ verdict = "none"
          /\ made = registering!NotMade
  /\ IF part = "paying" THEN http!TermsInit
     ELSE price = [price |-> http!Nothing, decimals |-> 0, serves |-> TRUE] /\ terms = http!Unmade
  /\ IF part = "records" THEN records!Init
     ELSE /\ delivery = {} /\ middlewares = <<>> /\ called = 0 /\ turn = 1 /\ items = <<>> /\ snapshot = <<>>
          /\ settled = <<>> /\ result = "pending"
  /\ IF part = "formats" THEN formats!Init
     ELSE /\ clientRequest = formats!Plain /\ gateway = "rest" /\ normalizers = <<>> /\ httpEvent = {}
          /\ normalized = 0
  /\ IF part = "parsing" THEN parsing!BodyInit
     ELSE /\ chain = <<>> /\ sent = {} /\ step = 1 /\ readable = TRUE /\ base64 = FALSE /\ parsed = parsing!Unparsed
          /\ outcome = "none"
  /\ IF part = "logs" THEN logs!RedactionInit
     ELSE omitPaths = {} /\ payload = {} /\ tree = {} /\ logged = "none"

\* Only the part p takes a step.
Only(p) ==
  /\ Follows(p)
  /\ p # "streamify" => UNCHANGED streamifyVars
  /\ p # "batch" => UNCHANGED batchVars
  /\ p # "ecs-task" => UNCHANGED ecsTaskVars
  /\ p # "resource" => UNCHANGED resourceVars
  /\ p # "http" => UNCHANGED httpVars
  /\ p # "ecs-http" => UNCHANGED ecsHttpVars
  /\ p # "exchange" => UNCHANGED exchangeVars
  /\ p # "auth" => UNCHANGED authVars
  /\ p # "parsing" => UNCHANGED parsingVars
  /\ p # "multipart" => UNCHANGED multipartVars
  /\ p # "routing" => UNCHANGED routingVars
  /\ p # "cors" => UNCHANGED corsVars
  /\ p # "records" => UNCHANGED recordsVars
  /\ p # "formats" => UNCHANGED formatsVars
  /\ p # "replies" => UNCHANGED repliesVars
  /\ p # "logs" => UNCHANGED logsVars
  /\ p # "negotiation" => UNCHANGED negotiationVars
  /\ p # "tee" => UNCHANGED teeVars
  /\ p # "registering" => UNCHANGED registeringVars
  /\ p # "options" => UNCHANGED optionsVars
  /\ p # "namespaces" => UNCHANGED namespacesVars
  /\ p # "batch-replies" => UNCHANGED batchRepliesVars
  /\ p # "paying" => UNCHANGED payingVars
  /\ p # "object" => UNCHANGED objectVars
Next ==
  \/ Only("http-jwt") /\ jwks!Next
  \/ Only("appconfig") /\ appconfig!Next
  \/ Only("service") /\ service!Next
  \/ Only("schemas") /\ schemas!Next
  \/ Only("streamify") /\ streamify!Next
  \/ Only("batch") /\ batch!BatchNext
  \/ Only("ecs-task") /\ ecsTask!Next
  \/ Only("resource") /\ resource!Next
  \/ Only("http") /\ http!Next
  \/ Only("ecs-http") /\ ecsHttp!DrainNext
  \/ Only("exchange") /\ ecsHttp!ExchangeNext
  \/ Only("auth") /\ auth!Next
  \/ Only("parsing") /\ parsing!BodyNext
  \/ Only("multipart") /\ parsing!FormNext
  \/ Only("routing") /\ routing!Next
  \/ Only("cors") /\ cors!Next
  \/ Only("records") /\ records!Next
  \/ Only("sharing") /\ sharing!Next
  \/ Only("formats") /\ formats!Next
  \/ Only("replies") /\ replies!Next
  \/ Only("logs") /\ logs!RedactionNext
  \/ Only("negotiation") /\ negotiation!Next
  \/ Only("tee") /\ logs!TeeNext
  \/ Only("registering") /\ registering!StackNext
  \/ Only("options") /\ registering!OptionsNext
  \/ Only("namespaces") /\ namespaces!Next
  \/ Only("batch-replies") /\ batch!ReplyNext
  \/ Only("paying") /\ http!TermsNext
  \/ Only("object") /\ objectResponse!Next

\* Requests to services end, the code goes on when they do, timers fire, a stream is flushed
\* or destroyed, and a form ends or breaks off.  Neither the handler of a task or of an HTTP
\* request nor a client has to end.
Fairness ==
  /\ WF_jwksVars(part = "http-jwt" /\ jwks!Runs) /\ WF_jwksVars(part = "http-jwt" /\ jwks!TimePasses)
  /\ \A i \in Invocations : WF_appconfigVars(part = "appconfig" /\ appconfig!Goes(i))
  /\ \A a \in appconfig!Attempts : WF_appconfigVars(part = "appconfig" /\ appconfig!Client(a))
  /\ \A f \in appconfig!Fetches : WF_appconfigVars(part = "appconfig" /\ appconfig!Service(f))
  /\ WF_serviceVars(part = "service" /\ service!Goes)
  /\ WF_streamifyVars(part = "streamify" /\ streamify!Goes)
  /\ WF_streamifyVars(part = "streamify" /\ (streamify!Flush \/ streamify!ClientGone))
  /\ WF_batchVars(part = "batch" /\ batch!Goes)
  /\ WF_ecsTaskVars(part = "ecs-task" /\ ecsTask!ForcedExit)
  /\ WF_ecsHttpVars(part = "ecs-http" /\ (ecsHttp!Deadline \/ ecsHttp!ServerClosed))
  /\ WF_multipartVars(part = "multipart" /\ parsing!Goes)
  /\ WF_teeVars(part = "tee" /\ logs!Goes)

Spec == Init /\ [][Next]_vars /\ Fairness

----------------------------------------------------------------------------
\* The variables of every part have values the code can give them.
TypeOK ==
  /\ part \in Parts
  /\ part = "http-jwt" => jwks!TypeOK
  /\ part = "appconfig" => appconfig!TypeOK
  /\ part = "service" => service!TypeOK
  /\ part = "schemas" => schemas!TypeOK
  /\ part = "streamify" => streamify!TypeOK
  /\ part = "batch" => batch!BatchTypeOK
  /\ part = "ecs-task" => ecsTask!TypeOK
  /\ part = "resource" => resource!TypeOK
  /\ part = "http" => http!TypeOK
  /\ part = "ecs-http" => ecsHttp!DrainTypeOK
  /\ part = "exchange" => ecsHttp!ExchangeTypeOK
  /\ part = "auth" => auth!TypeOK
  /\ part = "parsing" => parsing!BodyTypeOK
  /\ part = "multipart" => parsing!FormTypeOK
  /\ part = "routing" => routing!TypeOK
  /\ part = "cors" => cors!TypeOK
  /\ part = "records" => records!TypeOK
  /\ part = "sharing" => sharing!TypeOK
  /\ part = "formats" => formats!TypeOK
  /\ part = "replies" => replies!TypeOK
  /\ part = "logs" => logs!RedactionTypeOK
  /\ part = "negotiation" => negotiation!TypeOK
  /\ part = "tee" => logs!TeeTypeOK
  /\ part = "registering" => registering!StackTypeOK
  /\ part = "options" => registering!OptionsTypeOK
  /\ part = "namespaces" => namespaces!TypeOK
  /\ part = "batch-replies" => batch!ReplyTypeOK
  /\ part = "paying" => http!TermsTypeOK
  /\ part = "object" => objectResponse!TypeOK

\* What is reported as done is done: a streamed response that fulfils is flushed, a record
\* left out of a batch report is processed, a task that exits with 0 has not failed, and
\* CloudFormation has been told what a custom resource returns, once, success for a
\* success only; and a streamed response that rejects reports every error.  What the handler
\* made is answered for a settled payment only, the receipt and the headers of an answer are
\* true, and every answer of the after or onError hooks has the policy headers; an origin is
\* granted what the options say of it, also by a shared cache.  A client that is told its
\* message was sent was sent it, by its own endpoint and credentials.  No value whose path is
\* to be omitted is logged, and logging a streamed body changes nothing for who reads it; an
\* answer is encoded in the best coding its client accepts and its server has; and every
\* service that delivers a batch is told of each record, in its own words, what came of it.
\* S3 is asked for an object in time, at a host allowed only, and an invocation writes its own
\* answer to its own route.
OutcomesHold ==
  /\ part = "streamify" => streamify!SuccessIsWhole
  /\ part = "batch" => batch!SuccessIsWhole
  /\ part = "ecs-task" => ecsTask!SuccessIsWhole
  /\ part = "resource" => resource!StackIsTold
  /\ part = "http" => http!AnswerIsTrue
  /\ part = "cors" => cors!CrossOriginHolds
  /\ part = "replies" => replies!RepliesReach
  /\ part = "logs" => logs!Redacted
  /\ part = "negotiation" => negotiation!EncodedAsNegotiated
  /\ part = "tee" => logs!LoggedAsSent
  /\ part = "batch-replies" => batch!ToldAsSettled
  /\ part = "object" => objectResponse!AskedInTime /\ objectResponse!WrittenAsOwn

\* What reaches a handler is the request that was sent.  Its token is signed by one of the
\* keys and bound to its sender, and what refuses one is what the key that signed it says;
\* its body is all of what the client sent, within bodyLimit, decoded once and parsed by the
\* parser of its type; a form has each of its parts once, unclipped and in order, or is
\* refused; its route is the first declared for it, no encoded slash separating segments.
\* Token, query, method, path and address are found in it in every format of event; a record
\* of a batch is handled only with its fields parsed, and Firehose gets back what it delivered.
\* Hooks are run as nested as their middlewares are used, one whose options are accepted is
\* what was meant, and what is made of them lets no lifetime, key or worker slip; a price is asked for to
\* the last digit.  What middlewares publish is found by their own request and those called
\* within it, and by no other, and a request's metrics are sent once, by itself.
\* And what is answered is whole or cut, the stream answered with does not outlive a client
\* that goes, and once a worker drains, none of its connections carries more than one
\* further response.
RequestsServed ==
  /\ part = "auth" => auth!TokenProven
  /\ part = "exchange" => ecsHttp!ExchangeHolds
  /\ part = "parsing" => parsing!BodyParsedOnce
  /\ part = "multipart" => parsing!FormIsWhole
  /\ part = "routing" => routing!Declared
  /\ part = "formats" => formats!RequestFound
  /\ part = "records" => records!PayloadsHandled
  /\ part = "ecs-http" => ecsHttp!ServesOnceMore
  /\ part = "registering" => registering!Nested
  /\ part = "options" => registering!OptionsHold
  /\ part = "namespaces" => namespaces!OwnNamespaceOnly /\ namespaces!OwnLoggerOnce
  /\ part = "paying" => http!AmountExact

\* Somebody waits for the part.  Callers of http-jwt and of appconfig are
\* interchangeable: one stands for all.
Waits ==
  CASE part = "http-jwt" -> verify[CHOOSE t \in Tokens : TRUE].pc \in {"first", "again"}
    [] part = "appconfig" -> inv[CHOOSE i \in Invocations : TRUE].pc # "idle"
    [] part = "service" -> \E i \in service!Callers : caller[i].pc = "awaits"
    [] part = "streamify" -> call # "settled"
    [] part = "batch" -> stage \notin {"new", "reported"}
    [] part = "ecs-task" -> signalled /\ task # "exited"
    [] part = "ecs-http" -> draining /\ exit = ecsHttp!NoExit
    [] part = "multipart" -> formPromise = "pending"
    [] part = "tee" -> logs!Unsettled
    [] OTHER -> FALSE
\* Nobody waits for ever: not for a stalled identity provider, a failed fetch or a client
\* being created, a stream whose client has gone, a connection that stays open, a task that
\* does not end, a batch that fails, a form that breaks off, or a body that is only logged.
CallsSettle == []<>~Waits

----------------------------------------------------------------------------
\* The steps of the other parts leave those of Fetching alone.
LEMMA OthersFollow ==
  ASSUME NEW p, p \notin FetchParts, Only(p) PROVE UNCHANGED fetchVars
BY DEF Only, Follows, fetchVars, FetchParts

\* A step of the container is one of Fetching, or nothing to it.
LEMMA PartFollows == [Next]_vars => [FetchNext]_fetchVars
<1> SUFFICES ASSUME [Next]_vars PROVE FetchNext \/ UNCHANGED fetchVars
  OBVIOUS
<1>1. CASE Next
  <2>1. \/ Only("appconfig") /\ appconfig!Next
        \/ Only("service") /\ service!Next
        \/ Only("schemas") /\ schemas!Next
        \/ Only("sharing") /\ sharing!Next
        \/ Only("http-jwt") /\ jwks!Next
        \/ \E p : p \notin FetchParts /\ Only(p)
    BY <1>1 DEF Next, FetchParts
  <2>2. \A p : Only(p) => Follows(p)
    BY DEF Only
  <2>3. FetchNext \/ \E p : p \notin FetchParts /\ Only(p)
    BY <2>1, <2>2 DEF FetchNext
  <2> QED BY <2>3, OthersFollow
<1>2. CASE UNCHANGED vars
  BY <1>2 DEF vars
<1> QED BY <1>1, <1>2

\* What the container does with the parts of Fetching is what Fetching allows, so that all
\* that is proved of it is true in the container.
THEOREM ContainerFetches == Spec => FetchSpec
<1>1. Init => FetchInit
  BY DEF Init
<1> QED BY <1>1, PartFollows, PTL DEF Spec, FetchSpec

\* The same of the parts whose theorems are elsewhere: what is proved of each is true of it
\* in the container.
THEOREM ContainerRuns ==
  Spec => /\ replies!Spec /\ streamify!Spec /\ ecsTask!Spec /\ resource!Spec
          /\ batch!BatchSpec /\ batch!ReplySpec /\ ecsHttp!DrainSpec /\ ecsHttp!ExchangeSpec
          /\ parsing!FormSpec /\ objectResponse!Spec /\ namespaces!Spec
          /\ routing!Spec /\ (part = "records" => records!Spec)
<1>1. [Next]_vars => [streamify!Next]_streamify!vars
  <2>1. Next => (Only("streamify") /\ streamify!Next) \/ \E p : p # "streamify" /\ Only(p)
    BY DEF Next
  <2>2. (\E p : p # "streamify" /\ Only(p)) \/ UNCHANGED vars => UNCHANGED streamifyVars
    BY DEF Only, vars
  <2> QED BY <2>1, <2>2 DEF streamifyVars, streamify!vars, streamify!callVars, streamify!streamVars
<1>2. [Next]_vars => [batch!BatchNext]_batch!batchVars
  <2>1. Next => (Only("batch") /\ batch!BatchNext) \/ \E p : p # "batch" /\ Only(p)
    BY DEF Next
  <2>2. (\E p : p # "batch" /\ Only(p)) \/ UNCHANGED vars => UNCHANGED batchVars
    BY DEF Only, vars
  <2> QED BY <2>1, <2>2 DEF batchVars, batch!batchVars
<1>3. [Next]_vars => [ecsTask!Next]_ecsTask!vars
  <2>1. Next => (Only("ecs-task") /\ ecsTask!Next) \/ \E p : p # "ecs-task" /\ Only(p)
    BY DEF Next
  <2>2. (\E p : p # "ecs-task" /\ Only(p)) \/ UNCHANGED vars => UNCHANGED ecsTaskVars
    BY DEF Only, vars
  <2> QED BY <2>1, <2>2 DEF ecsTaskVars, ecsTask!vars
<1>4. [Next]_vars => [resource!Next]_resource!vars
  <2>1. Next => (Only("resource") /\ resource!Next) \/ \E p : p # "resource" /\ Only(p)
    BY DEF Next
  <2>2. (\E p : p # "resource" /\ Only(p)) \/ UNCHANGED vars => UNCHANGED resourceVars
    BY DEF Only, vars
  <2> QED BY <2>1, <2>2 DEF resourceVars, resource!vars
<1>5. [Next]_vars => [ecsHttp!DrainNext]_ecsHttp!drainVars
  <2>1. Next => (Only("ecs-http") /\ ecsHttp!DrainNext) \/ \E p : p # "ecs-http" /\ Only(p)
    BY DEF Next
  <2>2. (\E p : p # "ecs-http" /\ Only(p)) \/ UNCHANGED vars => UNCHANGED ecsHttpVars
    BY DEF Only, vars
  <2> QED BY <2>1, <2>2 DEF ecsHttpVars, ecsHttp!drainVars
<1>6. [Next]_vars => [ecsHttp!ExchangeNext]_ecsHttp!exchangeVars
  <2>1. Next => (Only("exchange") /\ ecsHttp!ExchangeNext) \/ \E p : p # "exchange" /\ Only(p)
    BY DEF Next
  <2>2. (\E p : p # "exchange" /\ Only(p)) \/ UNCHANGED vars => UNCHANGED exchangeVars
    BY DEF Only, vars
  <2> QED BY <2>1, <2>2 DEF exchangeVars, ecsHttp!exchangeVars
<1>7. [Next]_vars => [replies!Next]_replies!vars
  <2>1. Next => (Only("replies") /\ replies!Next) \/ \E p : p # "replies" /\ Only(p)
    BY DEF Next
  <2>2. (\E p : p # "replies" /\ Only(p)) \/ UNCHANGED vars => UNCHANGED repliesVars
    BY DEF Only, vars
  <2> QED BY <2>1, <2>2 DEF repliesVars, replies!vars
<1>8. [Next]_vars => [batch!ReplyNext]_batch!replyVars
  <2>1. Next => (Only("batch-replies") /\ batch!ReplyNext) \/ \E p : p # "batch-replies" /\ Only(p)
    BY DEF Next
  <2>2. (\E p : p # "batch-replies" /\ Only(p)) \/ UNCHANGED vars => UNCHANGED batchRepliesVars
    BY DEF Only, vars
  <2> QED BY <2>1, <2>2 DEF batchRepliesVars, batch!replyVars
<1>9. [Next]_vars => [parsing!FormNext]_parsing!formVars
  <2>1. Next => (Only("multipart") /\ parsing!FormNext) \/ \E p : p # "multipart" /\ Only(p)
    BY DEF Next
  <2>2. (\E p : p # "multipart" /\ Only(p)) \/ UNCHANGED vars => UNCHANGED multipartVars
    BY DEF Only, vars
  <2> QED BY <2>1, <2>2 DEF multipartVars, parsing!formVars
<1>10. [Next]_vars => [objectResponse!Next]_objectResponse!vars
  <2>1. Next => (Only("object") /\ objectResponse!Next) \/ \E p : p # "object" /\ Only(p)
    BY DEF Next
  <2>2. (\E p : p # "object" /\ Only(p)) \/ UNCHANGED vars => UNCHANGED objectVars
    BY DEF Only, vars
  <2> QED BY <2>1, <2>2 DEF objectVars, objectResponse!vars
<1>11. [Next]_vars => [records!Next]_records!vars
  <2>1. Next => (Only("records") /\ records!Next) \/ \E p : p # "records" /\ Only(p)
    BY DEF Next
  <2>2. (\E p : p # "records" /\ Only(p)) \/ UNCHANGED vars => UNCHANGED recordsVars
    BY DEF Only, vars
  <2> QED BY <2>1, <2>2 DEF recordsVars, records!vars
<1>12. [Next]_vars => [namespaces!Next]_namespaces!vars
  <2>1. Next => (Only("namespaces") /\ namespaces!Next) \/ \E p : p # "namespaces" /\ Only(p)
    BY DEF Next
  <2>2. (\E p : p # "namespaces" /\ Only(p)) \/ UNCHANGED vars => UNCHANGED namespacesVars
    BY DEF Only, vars
  <2> QED BY <2>1, <2>2 DEF namespacesVars, namespaces!vars
<1>13. [Next]_vars => [routing!Next]_routing!vars
  <2>1. Next => (Only("routing") /\ routing!Next) \/ \E p : p # "routing" /\ Only(p)
    BY DEF Next
  <2>2. (\E p : p # "routing" /\ Only(p)) \/ UNCHANGED vars => UNCHANGED routingVars
    BY DEF Only, vars
  <2> QED BY <2>1, <2>2 DEF routingVars, routing!vars
<1>14. Init => /\ replies!Init /\ streamify!Init /\ ecsTask!Init /\ resource!Init /\ parsing!FormInit
               /\ objectResponse!Init /\ namespaces!Init /\ routing!Init
               /\ (part = "records" => records!Init)
               /\ batch!BatchInit /\ batch!ReplyInit /\ ecsHttp!DrainInit /\ ecsHttp!ExchangeInit
  BY DEF Init
<1> QED BY <1>1, <1>2, <1>3, <1>4, <1>5, <1>6, <1>7, <1>8, <1>9, <1>10, <1>11, <1>12, <1>13, <1>14, PTL
        DEF Spec, replies!Spec, streamify!Spec, ecsTask!Spec, resource!Spec, objectResponse!Spec, records!Spec,
            namespaces!Spec, routing!Spec, batch!BatchSpec, batch!ReplySpec, ecsHttp!DrainSpec,
            ecsHttp!ExchangeSpec, parsing!FormSpec
=============================================================================
