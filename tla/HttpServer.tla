----------------------------- MODULE HttpServer -----------------------------
(***************************************************************************)
(* A worker of @middy/ecs-http: its connections, up to its exit, and one   *)
(* request through it.                                                     *)
(***************************************************************************)
EXTENDS Naturals

----------------------------------------------------------------------------
(***************************************************************************)
(* A worker of @middy/ecs-http: the connections of its node:http server     *)
(* (external), createRequestHandler, and drainAndExit after SIGTERM.        *)
(*                                                                         *)
(* A connection is kept alive after a response unless the headers said it   *)
(* would be closed; they are written with the first byte of the response,   *)
(* which a stream then goes on with.  server.close() closes the idle        *)
(* connections, but not one that has never carried a request.               *)
(***************************************************************************)

CONSTANT Connections

VARIABLES
  conn,      \* what each connection is doing
  keepAlive, \* shouldKeepAlive of the response on it
  draining,
  exit,      \* the exit code, or NoExit
  responses  \* history: responses begun on it since SIGTERM

drainVars == <<conn, keepAlive, draining, exit, responses>>

NoExit == 2
Open == {"unused", "idle", "body", "handler", "response"}

DrainInit ==
  /\ conn = [c \in Connections |-> "none"] /\ keepAlive = [c \in Connections |-> TRUE]
  /\ draining = FALSE /\ exit = NoExit
  /\ responses = [c \in Connections |-> 0]

Connect(c) ==
  /\ exit = NoExit /\ ~draining /\ conn[c] \in {"none", "closed"}
  /\ conn' = [conn EXCEPT ![c] = "unused"]
  /\ UNCHANGED <<keepAlive, draining, exit, responses>>
\* A request arrives, with a body to read or without.
Request(c) ==
  /\ exit = NoExit /\ conn[c] \in {"unused", "idle"}
  /\ \E next \in {"body", "handler"} : conn' = [conn EXCEPT ![c] = next]
  /\ UNCHANGED <<keepAlive, draining, exit, responses>>
BodyRead(c) ==
  /\ exit = NoExit /\ conn[c] = "body" /\ conn' = [conn EXCEPT ![c] = "handler"]
  /\ UNCHANGED <<keepAlive, draining, exit, responses>>

\* Fault: only a result is looked at, no error.
ClosesAfterResult(c, failed) == draining /\ ~failed
\* closeIfDraining, before writeResponse and before writeError.
ClosesIfDraining(c, failed) == draining
Respond(c, failed) ==
  /\ exit = NoExit
  /\ conn' = [conn EXCEPT ![c] = "response"]
  /\ keepAlive' = [keepAlive EXCEPT ![c] = ~ClosesIfDraining(c, failed)]
  /\ responses' = [responses EXCEPT ![c] = IF draining THEN @ + 1 ELSE 0]
  /\ UNCHANGED <<draining, exit>>
HandlerAnswers(c) == conn[c] = "handler" /\ \E failed \in BOOLEAN : Respond(c, failed)
BodyRefused(c) == conn[c] = "body" /\ Respond(c, TRUE)

ResponseEnds(c) ==
  /\ exit = NoExit /\ conn[c] = "response"
  /\ conn' = [conn EXCEPT ![c] = IF keepAlive[c] THEN "idle" ELSE "closed"]
  /\ UNCHANGED <<keepAlive, draining, exit, responses>>
\* The client goes away, a source fails after the headers, or node:http times out.
Disconnects(c) ==
  /\ exit = NoExit /\ conn[c] \in Open /\ conn' = [conn EXCEPT ![c] = "closed"]
  /\ UNCHANGED <<keepAlive, draining, exit, responses>>

----------------------------------------------------------------------------
DrainAndExit ==
  /\ exit = NoExit /\ ~draining /\ draining' = TRUE
  /\ conn' = [c \in Connections |-> IF conn[c] = "idle" THEN "closed" ELSE conn[c]]
  /\ UNCHANGED <<keepAlive, exit, responses>>
Closed == \A c \in Connections : conn[c] \notin Open
ServerClosed ==
  /\ draining /\ exit = NoExit /\ Closed /\ exit' = 0
  /\ UNCHANGED <<conn, keepAlive, draining, responses>>
\* Fault: the worker waits for its last connection.
NoDeadline == FALSE
Overdue == draining
Deadline ==
  /\ Overdue /\ exit = NoExit /\ exit' = 1
  /\ conn' = [c \in Connections |-> "closed"]
  /\ UNCHANGED <<keepAlive, draining, responses>>

DrainNext ==
  \/ \E c \in Connections : \/ Connect(c) \/ Request(c) \/ BodyRead(c) \/ BodyRefused(c)
                            \/ HandlerAnswers(c) \/ ResponseEnds(c) \/ Disconnects(c)
  \/ DrainAndExit \/ ServerClosed \/ Deadline
DrainSpec == DrainInit /\ [][DrainNext]_drainVars

----------------------------------------------------------------------------
DrainTypeOK ==
  /\ conn \in [Connections -> Open \cup {"none", "closed"}]
  /\ keepAlive \in [Connections -> BOOLEAN] /\ draining \in BOOLEAN
  /\ exit \in {0, 1, NoExit} /\ responses \in [Connections -> Nat]

\* Once the drain has begun, no connection carries more than one further response, and none
\* is idle but those that were in the middle of a response kept alive.
ServesOnceMore ==
  \A c \in Connections : draining => responses[c] <= 1 /\ (conn[c] = "idle" => responses[c] = 0)

----------------------------------------------------------------------------
(***************************************************************************)
(* One request through createRequestHandler of @middy/ecs-http: its body is *)
(* read up to bodyLimit, the handler of the user gets an event, and what it *)
(* returns or throws is written.  Sizes are counted in chunks.  node:http   *)
(* (external) parses the request, reports a client that goes away by an     *)
(* error of the request and the close of the response, and frames what is   *)
(* written.                                                                 *)
(***************************************************************************)

CONSTANT BodyLimit  \* bodyLimit

VARIABLES
  request,  \* the request as it was sent
  phase,    \* "new", "reading", "handler", "streaming", "answered" or "cut"
  read,     \* chunks of the body that have arrived
  buffered, \* chunks kept
  event,    \* the body of the event: "none" yet, "empty", "whole" or "mangled"
  answer,   \* status and body of the response begun
  source,   \* the stream the handler returned: "none", "open", "ended", "failed" or "destroyed"
  client    \* "here", or when it went away: "left", before the response began, or "gone"

exchangeVars == <<request, phase, read, buffered, event, answer, source, client>>

Requests ==
  { r \in [framing : {"none", "length", "chunked"}, size : 0..BodyLimit + 2,
           bytes : {"text", "binary"}, type : {"text", "binary", "none"}] :
      (r.framing = "none" => r.size = 0) /\ (r.framing = "length" => r.size > 0) }
NoAnswer == [status |-> "none", body |-> "none"]

ExchangeInit ==
  /\ request \in Requests /\ phase = "new" /\ read = 0 /\ buffered = 0
  /\ event = "none" /\ answer = NoAnswer /\ source = "none" /\ client = "here"

----------------------------------------------------------------------------
(* The answers                                                             *)

HeadersSent == answer # NoAnswer
\* writeResponse without a stream, or writeError: the whole of it at once.
Answers(status, body) == answer' = [status |-> status, body |-> body] /\ phase' = "answered"
WriteError(status) ==
  IF HeadersSent THEN phase' = "cut" /\ UNCHANGED answer ELSE Answers(status, "message")

(* The request                                                             *)

HasBody == request.framing # "none"
\* Fault: a body may reach the limit no more.
ReachesLimit(size) == size >= BodyLimit
TooLarge(size) == size > BodyLimit
\* A type that is not text goes as base64, every other body as UTF-8.
EncodeBody ==
  IF request.size = 0 THEN "empty"
  ELSE IF request.type = "binary" \/ request.bytes = "text" THEN "whole" ELSE "mangled"
Arrives ==
  /\ phase = "new"
  /\ IF ~HasBody THEN phase' = "handler" /\ event' = "empty" /\ UNCHANGED answer
     ELSE IF request.framing = "length" /\ TooLarge(request.size) THEN WriteError("413") /\ UNCHANGED event
     ELSE phase' = "reading" /\ UNCHANGED <<answer, event>>
  /\ UNCHANGED <<request, read, buffered, source, client>>
\* A chunk that exceeds the limit ends the reading; the rest is discarded.
Data ==
  /\ phase = "reading" /\ client = "here" /\ read < request.size
  /\ read' = read + 1
  /\ IF TooLarge(read + 1) THEN WriteError("413") /\ UNCHANGED buffered
     ELSE buffered' = read + 1 /\ UNCHANGED <<phase, answer>>
  /\ UNCHANGED <<request, event, source, client>>
End ==
  /\ phase = "reading" /\ client = "here" /\ read = request.size
  /\ phase' = "handler" /\ event' = EncodeBody
  /\ UNCHANGED <<request, read, buffered, answer, source, client>>

----------------------------------------------------------------------------
(* The handler                                                             *)

\* Text, JSON or base64 of the handler, or nothing.
Returns == \E body \in {"whole", "empty"} : Answers("200", body) /\ UNCHANGED source
\* It throws, or what it returned cannot be serialized or has headers node:http refuses:
\* nothing is sent yet.
Throws == \E status \in {"4xx", "500"} : WriteError(status) /\ UNCHANGED source
\* The headers are sent before the stream is piped: one that is locked cuts the response.
ReturnsStream ==
  /\ answer' = [status |-> "200", body |-> "part"]
  /\ \/ source' = "open" /\ phase' = "streaming"
     \/ source' = "none" /\ phase' = "cut"
HandlerEnds ==
  /\ phase = "handler" /\ (Returns \/ Throws \/ ReturnsStream)
  /\ UNCHANGED <<request, read, buffered, event, client>>

\* Fault: a stream that fails just ends.
Ends == "answered"
Failure == "cut"
SourceEnds ==
  /\ phase = "streaming" /\ source = "open" /\ client = "here"
  /\ source' = "ended" /\ phase' = "answered" /\ answer' = [answer EXCEPT !.body = "whole"]
  /\ UNCHANGED <<request, read, buffered, event, client>>
\* The response is destroyed.
SourceFails ==
  /\ phase = "streaming" /\ source = "open" /\ source' = "failed" /\ phase' = Failure
  /\ UNCHANGED <<request, read, buffered, event, answer, client>>

\* Fault: the stream goes on.
KeepsReading == source
Destroyed == IF source = "open" THEN "destroyed" ELSE source
\* The close of the response destroys its source; one that had closed before is piped to in
\* vain.  A body that is being read fails.
ClientGone ==
  /\ client = "here" /\ phase \in {"reading", "handler", "streaming"}
  /\ client' = IF HeadersSent THEN "gone" ELSE "left"
  /\ source' = Destroyed
  /\ CASE phase = "streaming" -> phase' = "cut" /\ UNCHANGED answer
       [] phase = "reading" -> WriteError("500")
       [] OTHER -> UNCHANGED <<phase, answer>>
  /\ UNCHANGED <<request, read, buffered, event>>

ExchangeNext == Arrives \/ Data \/ End \/ HandlerEnds \/ SourceEnds \/ SourceFails \/ ClientGone
ExchangeSpec == ExchangeInit /\ [][ExchangeNext]_exchangeVars

----------------------------------------------------------------------------
ExchangeTypeOK ==
  /\ request \in Requests /\ read \in 0..request.size /\ buffered \in 0..BodyLimit
  /\ phase \in {"new", "reading", "handler", "streaming", "answered", "cut"}
  /\ event \in {"none", "empty", "whole", "mangled"}
  /\ answer.status \in {"none", "200", "4xx", "413", "500"}
  /\ source \in {"none", "open", "ended", "failed", "destroyed"}
  /\ client \in {"here", "gone", "left"}

\* The handler sees all of a body that is within the limit, whatever framed it, and only a
\* larger one is answered 413; the bytes are those the client sent, unless it called binary
\* ones text.
BodyArrives ==
  /\ event # "none" => request.size <= BodyLimit /\ (read = request.size \/ ~HasBody)
  /\ answer.status = "413" => request.size > BodyLimit
  /\ phase = "answered" /\ request.size > BodyLimit => answer.status = "413" \/ client = "left"
  /\ event = "mangled" => request.bytes = "binary" /\ request.type # "binary"
\* An answer that ends is whole, and a stream does not outlive the response it goes into,
\* but when the client had left before the handler returned it.
AnswerIsWhole ==
  /\ phase = "answered" => answer.body # "part" /\ source \in {"none", "ended"}
  /\ phase \in {"answered", "cut"} => source # "open"
  /\ source = "open" => client \in {"here", "left"}
ExchangeHolds == BodyArrives /\ AnswerIsWhole
=============================================================================
