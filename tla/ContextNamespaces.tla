-------------------------- MODULE ContextNamespaces --------------------------
(***************************************************************************)
(* What the middlewares publish: context.middyContext[contextKey].  A middy *)
(* handler may call another with the context it was given; the inner       *)
(* request gets a context that inherits from it while the outer one is in  *)
(* flight.  A root (middyContext) and the namespace in it are named after  *)
(* the request that made them; prototype chains are followed live.         *)
(* cloudwatch-metrics publishes a logger the same way, and flushes it.      *)
(* A durable execution, which runs no onError, is left out.                *)
(***************************************************************************)
EXTENDS Naturals

CONSTANT MaxCalls

VARIABLES
  phase,     \* of each request
  given,     \* the context object of each request: the request it was made for
  derives,   \* the root each root inherits from, or None
  marked,    \* context[inFlight]: the root of the request in flight on a context, or None
  late,      \* the requests called on a context nothing was in flight on
  chain,     \* the middlewares of each request
  todo,      \* those of them whose before is still to run
  awaited,   \* the middleware whose values are awaited, or Nobody
  data,      \* root[contextKey] of each root: "absent", "null" or "namespace"
  inherited, \* the namespace each namespace inherits from, or None
  field,     \* the own fields of each namespace: the request that wrote them, or None
  logger,    \* loggers: a request's logger is "none", "held" or "taken"
  flushed    \* how often each request's logger was flushed

vars == <<phase, given, derives, marked, late, chain, todo, awaited, data, inherited, field, logger, flushed>>

Calls == 1..MaxCalls
None == 0
Fetchers == {"sts", "ssm"}  \* they share a contextKey; each publishes one name
Metrics == "cloudwatch-metrics"
Nobody == "nobody"
Ended(r) == phase[r] \in {"uncalled", "done"}

Init ==
  /\ phase = [r \in Calls |-> "uncalled"] /\ given = [r \in Calls |-> r]
  /\ derives = [r \in Calls |-> None] /\ marked = derives /\ inherited = derives /\ late = {}
  /\ chain = [r \in Calls |-> {}] /\ todo = chain /\ awaited = [r \in Calls |-> Nobody]
  /\ data = [r \in Calls |-> "absent"] /\ field = [r \in Calls |-> [n \in Fetchers |-> None]]
  /\ logger = [r \in Calls |-> "none"] /\ flushed = [r \in Calls |-> 0]

----------------------------------------------------------------------------
\* Fault: whoever passes a context that carries a middyContext is nested.
AnyParent(q) == TRUE
Nested(q) == marked[given[q]] = q
\* middyRequest, then runRequest at once.
Call(r, q) ==
  /\ phase[r] = "uncalled" /\ \A s \in Calls : s < r => phase[s] # "uncalled"
  /\ phase[q] \in {"uncalled", "handler", "after", "onError", "done"} /\ (phase[q] = "uncalled" => q = r)
  /\ \A s \in Calls : given[s] = given[q] /\ phase[s] # "uncalled" => s <= q
  /\ phase' = [phase EXCEPT ![r] = "before"]
  /\ IF phase[q] # "uncalled" /\ Nested(q)
     THEN given' = given /\ derives' = [derives EXCEPT ![r] = q]
     ELSE given' = [given EXCEPT ![r] = given[q]] /\ derives' = derives
  /\ marked' = [marked EXCEPT ![given'[r]] = r]
  /\ late' = IF \A s \in Calls : given[s] = given[q] => Ended(s) THEN late \cup {r} ELSE late
  /\ \E used \in {{Metrics}} \cup SUBSET Fetchers :
       chain' = [chain EXCEPT ![r] = used] /\ todo' = [todo EXCEPT ![r] = used]
  /\ UNCHANGED <<awaited, data, inherited, field, logger, flushed>>

\* root[contextKey], own or inherited: whose it is, or None.
Holder[r \in 0..MaxCalls] ==
  IF r = None \/ data[r] # "absent" THEN r ELSE Holder[derives[r]]

\* Fault: the namespace the outer request made will do.
AnyNamespace(r) == Holder[r] # None /\ data[Holder[r]] = "namespace"
OwnNamespace(r) == data[r] = "namespace"
\* Fault: the new namespace starts empty.
Empty(r) == None
\* Object.create(current): null, when the namespace was cleared.
Inherits(r) == IF Holder[r] # None /\ data[Holder[r]] = "namespace" THEN Holder[r] ELSE None
\* assignSetToContext, once every value is there: contextNamespace, then the fields.
Publish(r, m) ==
  LET into == IF OwnNamespace(r) THEN Holder[r] ELSE r
  IN  /\ data' = [data EXCEPT ![into] = "namespace"]
      /\ inherited' = IF OwnNamespace(r) THEN inherited ELSE [inherited EXCEPT ![r] = Inherits(r)]
      /\ field' = IF OwnNamespace(r) THEN [field EXCEPT ![into][m] = r]
                  ELSE [field EXCEPT ![r] = [n \in Fetchers |-> IF n = m THEN r ELSE None]]

FetcherBefore(r, m) ==
  /\ phase[r] = "before" /\ awaited[r] = Nobody /\ m \in todo[r]
  /\ todo' = [todo EXCEPT ![r] = @ \ {m}]
  /\ \/ Publish(r, m) /\ awaited' = awaited
     \/ awaited' = [awaited EXCEPT ![r] = m] /\ UNCHANGED <<data, inherited, field>>
  /\ UNCHANGED <<phase, given, derives, marked, late, chain, logger, flushed>>
Arrive(r) ==
  /\ awaited[r] # Nobody /\ awaited' = [awaited EXCEPT ![r] = Nobody]
  /\ \/ phase' = phase /\ Publish(r, awaited[r])
     \/ phase' = [phase EXCEPT ![r] = "onError"] /\ UNCHANGED <<data, inherited, field>>
  /\ UNCHANGED <<given, derives, marked, late, chain, todo, logger, flushed>>
MetricsBefore(r) ==
  /\ phase[r] = "before" /\ awaited[r] = Nobody /\ Metrics \in todo[r]
  /\ todo' = [todo EXCEPT ![r] = @ \ {Metrics}] /\ logger' = [logger EXCEPT ![r] = "held"]
  /\ UNCHANGED <<phase, given, derives, marked, late, chain, awaited, data, inherited, field, flushed>>

Handle(r) ==
  /\ phase[r] = "before" /\ awaited[r] = Nobody /\ todo[r] = {}
  /\ phase' = [phase EXCEPT ![r] = "handler"]
  /\ UNCHANGED <<given, derives, marked, late, chain, todo, awaited, data, inherited, field, logger, flushed>>
\* The handler sets context.middyContext[contextKey] = null.
Clear(r) ==
  /\ phase[r] = "handler" /\ data[r] # "null" /\ data' = [data EXCEPT ![r] = "null"]
  /\ UNCHANGED <<phase, given, derives, marked, late, chain, todo, awaited, inherited, field, logger, flushed>>
\* The handler returns; it throws, or a before or after does, or timeoutEarly abandons it; or
\* another middleware answers, and the hooks that are left, flushMetrics too, are not run.
Leave(r) ==
  /\ awaited[r] = Nobody
  /\ \/ phase[r] = "handler" /\ phase' = [phase EXCEPT ![r] = "after"]
     \/ phase[r] \in {"before", "handler", "after", "flushed"} /\ phase' = [phase EXCEPT ![r] = "onError"]
     \/ phase[r] \in {"before", "after", "onError"} /\ phase' = [phase EXCEPT ![r] = "over"]
  /\ UNCHANGED <<given, derives, marked, late, chain, todo, awaited, data, inherited, field, logger, flushed>>

----------------------------------------------------------------------------
\* context.middyContext[contextKey] of the logger, own or inherited.
LoggerOn[r \in 0..MaxCalls] ==
  IF r = None \/ logger[r] # "none" THEN r ELSE LoggerOn[derives[r]]
\* Fault: the logger in the context is flushed.
FromContext(r) == LoggerOn[r]
Taken(r) == IF logger[r] = "held" THEN r ELSE None
\* flushMetrics; a failed flush is swallowed, unless onFlushError throws.
FlushMetrics(r) ==
  /\ phase[r] \in {"after", "onError"}
  /\ logger' = [s \in Calls |-> IF s = Taken(r) THEN "taken" ELSE logger[s]]
  /\ flushed' = [s \in Calls |-> IF s = Taken(r) THEN flushed[s] + 1 ELSE flushed[s]]
  /\ phase' = [phase EXCEPT ![r] = IF @ = "after" THEN "flushed" ELSE "over"]
  /\ UNCHANGED <<given, derives, marked, late, chain, todo, awaited, data, inherited, field>>
\* Fault: the context is still the request's.
StillMarked(r) == marked
Unmarked(r) == [marked EXCEPT ![given[r]] = None]
\* runRequest returns or throws: the mark is cleared.
Finish(r) ==
  /\ phase[r] \in {"flushed", "over"} /\ phase' = [phase EXCEPT ![r] = "done"]
  /\ marked' = Unmarked(r)
  /\ UNCHANGED <<given, derives, late, chain, todo, awaited, data, inherited, field, logger, flushed>>

Next == \E r \in Calls :
  \/ \E q \in Calls : Call(r, q)
  \/ \E m \in Fetchers : FetcherBefore(r, m)
  \/ Arrive(r) \/ MetricsBefore(r) \/ Handle(r) \/ Clear(r) \/ Leave(r) \/ FlushMetrics(r) \/ Finish(r)
Spec == Init /\ [][Next]_vars

----------------------------------------------------------------------------
TypeOK ==
  /\ phase \in [Calls -> {"uncalled", "before", "handler", "after", "flushed", "onError", "over", "done"}]
  /\ given \in [Calls -> Calls] /\ derives \in [Calls -> 0..MaxCalls] /\ marked \in [Calls -> 0..MaxCalls]
  /\ late \subseteq Calls /\ {chain, todo} \subseteq [Calls -> SUBSET (Fetchers \cup {Metrics})]
  /\ awaited \in [Calls -> Fetchers \cup {Nobody}] /\ data \in [Calls -> {"absent", "null", "namespace"}]
  /\ inherited \in [Calls -> 0..MaxCalls] /\ field \in [Calls -> [Fetchers -> 0..MaxCalls]]
  /\ logger \in [Calls -> {"none", "held", "taken"}] /\ flushed \in [Calls -> 0..MaxCalls]

\* What reading a name finds, along the namespaces: the request that published it.
Along(s, n) ==
  LET on[t \in 0..MaxCalls] ==
        IF t = None THEN None ELSE IF field[t][n] # None THEN field[t][n] ELSE on[inherited[t]]
  IN  on[s]
Seen(r, n) == IF Holder[r] = None \/ data[Holder[r]] = "null" THEN None ELSE Along(Holder[r], n)
Uncleared[r \in 0..MaxCalls] == r = None \/ (data[r] # "null" /\ Uncleared[derives[r]])

\* A request writes to its own namespace only, and all that its middlewares publish is there,
\* whichever came first; through it an inner request sees what the outer one published, and
\* a request called when nothing is in flight on its context sees nothing of others.
OwnNamespaceOnly == \A r \in Calls, n \in Fetchers :
  /\ field[r][n] \in {None, r}
  /\ r \in late => Seen(r, n) \in {None, r}
  /\ phase[r] = "handler" /\ data[r] # "null" /\ n \in chain[r] => Seen(r, n) = r
  /\ derives[r] # None /\ Uncleared[r] /\ Seen(derives[r], n) # None => Seen(r, n) # None
\* A logger is flushed once at most, when its own request has come to its end.
OwnLoggerOnce == \A r \in Calls :
  flushed[r] <= 1 /\ (flushed[r] = 1 => phase[r] \in {"flushed", "onError", "over", "done"})
=============================================================================
