-------------------------- MODULE ConnectionReplies --------------------------
(***************************************************************************)
(* @middy/ws-response: the answer of a WebSocket handler is posted to the   *)
(* connection, through a client for the endpoint the request came to.       *)
(* Clients are pooled by endpoint, each with the memo of createClientInit   *)
(* of @middy/util, while invocations overlap and sts refetches credentials. *)
(*                                                                         *)
(* A client is the endpoint and the credentials it is made with.  What      *)
(* becomes of one that is evicted while it is used is the network's failure.*)
(***************************************************************************)
EXTENDS Integers, SequencesExt

CONSTANT DerivedClientsMax

VARIABLES
  options,  \* the endpoint configured, or "none", and whether awsClientAssumeRole is set
  creds,    \* what sts has stored last, 0 without awsClientAssumeRole
  pool,     \* derivedClients, in the order of the Map
  inv       \* the invocations in flight

vars == <<options, creds, pool, inv>>

None == "none"
Replies == 1..2
Endpoints == {"stage", "domain"}
NoClient == [endpoint |-> None, creds |-> -1]
Idle == [pc |-> "idle", endpoint |-> None, kind |-> None, to |-> None, creds |-> 0,
         with |-> NoClient, posted |-> <<>>, response |-> None]

Init ==
  /\ options \in [endpoint : {None, "configured"}, assumeRole : BOOLEAN]
  /\ creds = (IF options.assumeRole THEN 1 ELSE 0)
  /\ pool = <<>> /\ inv = [i \in Replies |-> Idle]

Go(i, pc) == inv' = [inv EXCEPT ![i].pc = pc]
Answer(i, response) == inv' = [inv EXCEPT ![i].pc = "done", ![i].response = response]

----------------------------------------------------------------------------
\* The handler has answered a request that came to an endpoint, for its own connection,
\* another one or none.  Bound: the other invocation answers its own.
After(i) ==
  /\ inv[i].pc = "idle"
  /\ \E endpoint \in Endpoints, kind \in {"CONNECT", "MESSAGE", "DISCONNECT"}, to \in {None, "own", "other"} :
       /\ to = "own" \/ kind = "MESSAGE"
       /\ i = 1 \/ (to = "own" /\ kind = "MESSAGE")
       /\ inv' = [inv EXCEPT ![i] = [Idle EXCEPT !.pc = "after", !.endpoint = endpoint, !.kind = kind,
                                                 !.to = to, !.creds = creds, !.response = "handler"]]
  /\ UNCHANGED <<options, creds, pool>>

\* Fault: whoever has left is no case of its own.
Addressed(i) == inv[i].to # None
Deliverable(i) == inv[i].kind \notin {"CONNECT", "DISCONNECT"} /\ inv[i].to # None
LeftAlone(i) ==
  /\ inv[i].pc = "after" /\ ~Deliverable(i) /\ Go(i, "done")
  /\ UNCHANGED <<options, creds, pool>>

\* Fault: the endpoint is kept in the options.
FirstEndpoint(i) == IF pool = <<>> THEN inv[i].endpoint ELSE Head(pool).endpoint
EndpointOf(i) == IF options.endpoint = None THEN inv[i].endpoint ELSE options.endpoint
Prefetched == options.endpoint # None /\ ~options.assumeRole
Pooled(endpoint) == {n \in DOMAIN pool : pool[n].endpoint = endpoint}
\* Fault: a pooled client is used whatever its credentials.
AnyCreds(i, client) == client
MadeFor(i, client) == [endpoint |-> EndpointOf(i), creds |-> inv[i].creds]
ResolveClient(i) ==
  /\ inv[i].pc = "after" /\ Deliverable(i)
  /\ IF Prefetched THEN inv' = [inv EXCEPT ![i].pc = "send", ![i].with = [endpoint |-> options.endpoint, creds |-> 0]]
     ELSE inv' = [inv EXCEPT ![i].pc = "init",
                             ![i].with = IF Pooled(EndpointOf(i)) = {} THEN MadeFor(i, NoClient)
                                         ELSE MadeFor(i, pool[CHOOSE n \in Pooled(EndpointOf(i)) : TRUE])]
  /\ UNCHANGED <<options, creds, pool>>
\* Fault: the pool has no end.
KeepAll(clients) == clients
Evict(clients) == IF Len(clients) > DerivedClientsMax THEN Tail(clients) ELSE clients
\* derived.init has resolved: the entry is set, and another one may go.
ClientCreated(i) ==
  /\ inv[i].pc = "init" /\ Go(i, "send")
  /\ LET known == Pooled(inv[i].with.endpoint)
     IN  pool' = Evict(IF known = {} THEN Append(pool, inv[i].with)
                       ELSE [n \in DOMAIN pool |-> IF n \in known THEN inv[i].with ELSE pool[n]])
  /\ UNCHANGED <<options, creds>>
\* A failed attempt is no entry of its own, and the next invocation makes another.
ClientFails(i) ==
  /\ inv[i].pc = "init" /\ Answer(i, "error")
  /\ UNCHANGED <<options, creds, pool>>

\* API Gateway takes the message, or the connection is gone, or the request fails; a request
\* refused for its signature is sent once more.
Posted(i) ==
  inv' = [inv EXCEPT ![i].pc = "done", ![i].response = "200",
                     ![i].posted = Append(@, [at |-> inv[i].with, to |-> inv[i].to])]
\* Fault: the message is lost without a word.
GoneIsSent(i) == Answer(i, "200")
Gone(i) == Answer(i, "410")
PostToConnection(i) ==
  /\ inv[i].pc \in {"send", "again"}
  /\ Posted(i) \/ Gone(i) \/ Answer(i, "error")
  /\ UNCHANGED <<options, creds, pool>>
InvalidSignature(i) ==
  /\ inv[i].pc = "send" /\ Go(i, "again")
  /\ UNCHANGED <<options, creds, pool>>

Ends(i) ==
  /\ inv[i].pc = "done" /\ inv' = [inv EXCEPT ![i] = Idle]
  /\ UNCHANGED <<options, creds, pool>>
StsRefetches ==
  /\ options.assumeRole /\ creds = 1 /\ creds' = 2
  /\ UNCHANGED <<options, pool, inv>>

Next ==
  \/ \E i \in Replies :
       After(i) \/ LeftAlone(i) \/ ResolveClient(i) \/ ClientCreated(i) \/ ClientFails(i)
         \/ PostToConnection(i) \/ InvalidSignature(i) \/ Ends(i)
  \/ StsRefetches
Spec == Init /\ [][Next]_vars

----------------------------------------------------------------------------
TypeOK ==
  /\ creds \in 0..2 /\ Len(pool) <= DerivedClientsMax + 1
  /\ \A i \in Replies :
       /\ inv[i].pc \in {"idle", "after", "init", "send", "again", "done"}
       /\ inv[i].response \in {None, "handler", "200", "410", "error"}

\* A message reaches the endpoint its request came to, or the one configured, with the
\* credentials of its invocation, and only a client that was sent something is told so.  The pool
\* has one client for an endpoint, derivedClientsMax at most.
RepliesReach ==
  /\ Len(pool) <= DerivedClientsMax
  /\ \A m, n \in DOMAIN pool : pool[m].endpoint = pool[n].endpoint => m = n
  /\ \A i \in Replies :
       LET own == [endpoint |-> IF options.endpoint = None THEN inv[i].endpoint ELSE options.endpoint,
                   creds |-> inv[i].creds]
       IN  /\ inv[i].posted \in {<<>>, <<[at |-> own, to |-> inv[i].to]>>}
           /\ inv[i].response = "200" <=> inv[i].posted # <<>>
           /\ inv[i].posted # <<>> => inv[i].kind = "MESSAGE"
=============================================================================
