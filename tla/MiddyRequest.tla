--------------------------- MODULE MiddyRequest ---------------------------
(***************************************************************************)
(* The engine of @middy/core: middyRequest and runRequest                  *)
(* (packages/core/index.js) under executionModeStandard or                 *)
(* executionModeDurableContext, for several calls whose steps interleave   *)
(* at the awaits.                                                          *)
(*                                                                         *)
(* A call is made on a context object: one the runtime hands over (a Host, *)
(* possibly reused), or the derived one an earlier call works on, which    *)
(* its middlewares and its handler pass to a nested middy (a router's      *)
(* route, a batch record).  The code between two awaits is one action.     *)
(*                                                                         *)
(* Values and errors are known by where they come from: a response is      *)
(* tagged with the stack (or the handler, or timeoutEarlyResponse) that    *)
(* produced it, an error is the set of its origins, more than one for an   *)
(* AggregateError.                                                         *)
(***************************************************************************)
EXTENDS Integers

CONSTANTS
  Requests,   \* the calls of middy(event, context)
  Hosts,      \* the context objects of the runtime
  Durable,    \* those that carry the durable-execution brand
  StackLen,   \* number of middlewares in each stack
  None        \* no request

Stacks == {"before", "after", "onError"}
Objects == Hosts \cup Requests   \* r also names the context derived for call r

ASSUME RequestsAssumption ==
  /\ None \notin Requests /\ Requests \cap Hosts = {}
  /\ Durable \subseteq Hosts
ASSUME StackLenAssumption == StackLen \in [Stacks -> Nat]

VARIABLES
  pc,        \* where call r is; in a stack, idx[r] is the running middleware
  idx,
  ctx,       \* request.context: the object call r works on
  host,      \* the host's object it is, or is derived from
  ns,        \* ns[o]: o.middyContext, named by the call that created it
  mark,      \* mark[o]: o[inFlight], likewise
  inherits,  \* the namespace that of r was derived from, None for a fresh one
  response,  \* request.response
  early,     \* request.earlyResponse, "absent" when the key is not there
  error,     \* request.error: the origins of the caught error
  handler,   \* the promise the handler returned
  race,      \* how the handler or the early timeout settled the race
  timer,     \* the early-timeout timer
  aborted,   \* handlerAbort.signal.aborted
  thrown,    \* what runRequest throws, {} when it returns
  ends,      \* how many times requestEnd has run
  outcome    \* what the promise returned to the caller settled with

requestVars == <<response, early, error>>
handlerVars == <<handler, race, timer, aborted>>
contextVars == <<ctx, host, ns, mark, inherits>>
endVars == <<thrown, ends, outcome>>
vars == <<pc, idx, contextVars, requestVars, handlerVars, endVars>>

Values == Stacks \cup {"undefined", "handler", "timeout"}
Origins == Stacks \cup {"handler", "timeout", "hook", "requestStart", "requestEnd", "override"}
Phases == Stacks \cup {"idle", "handler", "resumed", "end", "done"}
Settlements == [by : {"nobody", "handler", "listener", "timeout"},
                value : Values, error : SUBSET Origins]
Outcomes == [kind : {"pending", "resolved", "rejected"},
             value : Values, error : SUBSET Origins]

Undecided == [by |-> "nobody", value |-> "undefined", error |-> {}]
Pending == [kind |-> "pending", value |-> "undefined", error |-> {}]
Resolved(v) == [kind |-> "resolved", value |-> v, error |-> {}]
Rejected(E) == [kind |-> "rejected", value |-> "undefined", error |-> E]

\* From the moment the in-flight mark is set until the finally that clears it.
Running(r) == pc[r] \in Stacks \cup {"handler", "resumed"}

Init ==
  /\ pc = [r \in Requests |-> "idle"]
  /\ idx = [r \in Requests |-> 0]
  /\ ctx = [r \in Requests |-> r]
  /\ host = [r \in Requests |-> None]
  /\ ns = [o \in Objects |-> None]
  /\ mark = [o \in Objects |-> None]
  /\ inherits = [r \in Requests |-> None]
  /\ response = [r \in Requests |-> "undefined"]
  /\ early = [r \in Requests |-> "absent"]
  /\ error = [r \in Requests |-> {}]
  /\ handler = [r \in Requests |-> "none"]
  /\ race = [r \in Requests |-> Undecided]
  /\ timer = [r \in Requests |-> "off"]
  /\ aborted = [r \in Requests |-> FALSE]
  /\ thrown = [r \in Requests |-> {}]
  /\ ends = [r \in Requests |-> 0]
  /\ outcome = [r \in Requests |-> Pending]

----------------------------------------------------------------------------
(* Starting a call                                                         *)

\* The objects user code can hold: a host's, and those calls were given.
Reachable == Hosts \cup {o \in Requests : pc[o] # "idle" /\ ctx[o] = o}

\* Fault: the mark is ignored and every call resets middyContext.
NestedNever(c) == FALSE

\* middyRequest takes the outer namespace for one whose stack is running.
Nested(c) == ns[c] # None /\ mark[c] = ns[c]

\* middyRequest: derive a context in a running one, reset one at rest.
NewContext(r, c) ==
  LET o == IF Nested(c) THEN r ELSE c IN
  /\ ctx' = [ctx EXCEPT ![r] = o]
  /\ host' = [host EXCEPT ![r] = IF c \in Hosts THEN c ELSE host[c]]
  /\ ns' = [ns EXCEPT ![o] = r]
  /\ inherits' = [inherits EXCEPT ![r] = IF Nested(c) THEN ns[c] ELSE None]

\* The call up to the first middleware: runRequest marks its context.
Start(r, c) ==
  /\ pc[r] = "idle" /\ c \in Reachable
  /\ NewContext(r, c)
  /\ mark' = [mark EXCEPT ![ctx'[r]] = r]
  /\ pc' = [pc EXCEPT ![r] = "before"]
  /\ idx' = [idx EXCEPT ![r] = 1]
  /\ UNCHANGED <<requestVars, handlerVars, endVars>>

\* Fault: requestEnd runs for a call that requestStart refused, too.
RequestStartThrowsThenEnds(r, c) ==
  /\ pc[r] = "idle" /\ c \in Reachable
  /\ NewContext(r, c)
  /\ pc' = [pc EXCEPT ![r] = "done"]
  /\ ends' = [ends EXCEPT ![r] = @ + 1]
  /\ outcome' = [outcome EXCEPT ![r] = Rejected({"requestStart"})]
  /\ UNCHANGED <<idx, mark, requestVars, handlerVars, thrown>>

\* requestStart throws: runRequest and requestEnd never run.
RequestStartThrows(r, c) ==
  /\ pc[r] = "idle" /\ c \in Reachable
  /\ NewContext(r, c)
  /\ pc' = [pc EXCEPT ![r] = "done"]
  /\ outcome' = [outcome EXCEPT ![r] = Rejected({"requestStart"})]
  /\ UNCHANGED <<idx, mark, requestVars, handlerVars, thrown, ends>>

----------------------------------------------------------------------------
(* Leaving runRequest                                                      *)

ClearTimeout(r) == timer' = [timer EXCEPT ![r] = IF @ = "armed" THEN "cleared" ELSE @]

\* Fault: no finally, the mark stays.
LeaveMarked(r, E) ==
  /\ pc' = [pc EXCEPT ![r] = "end"]
  /\ thrown' = [thrown EXCEPT ![r] = E]
  /\ UNCHANGED <<ctx, host, ns, mark, inherits, ends, outcome>>

\* The finally: give the context up, then hand E (or the response) over.
Leave(r, E) ==
  /\ mark' = [mark EXCEPT ![ctx[r]] = None]
  /\ pc' = [pc EXCEPT ![r] = "end"]
  /\ thrown' = [thrown EXCEPT ![r] = E]
  /\ UNCHANGED <<ctx, host, ns, inherits, ends, outcome>>

\* Fault: the catch leaves the timer armed.
CatchKeepingTimer(r, E) ==
  /\ response' = [response EXCEPT ![r] = "undefined"]
  /\ early' = [early EXCEPT ![r] = "absent"]
  /\ error' = [error EXCEPT ![r] = E]
  /\ UNCHANGED timer

\* Fault: the catch does not delete request.earlyResponse.
CatchKeepingEarlyResponse(r, E) ==
  /\ ClearTimeout(r)
  /\ response' = [response EXCEPT ![r] = "undefined"]
  /\ error' = [error EXCEPT ![r] = E]
  /\ UNCHANGED early

\* What the catch of runRequest does with the request before any onError.
Catch(r, E) ==
  /\ ClearTimeout(r)
  /\ response' = [response EXCEPT ![r] = "undefined"]
  /\ early' = [early EXCEPT ![r] = "absent"]
  /\ error' = [error EXCEPT ![r] = E]

\* A durable execution rethrows, any other one enters the onError stack.  The
\* brand is read through the prototype of a derived context.
Fail(r, E) ==
  /\ Catch(r, E)
  /\ IF host[r] \in Durable
     THEN Leave(r, E) /\ UNCHANGED idx
     ELSE /\ pc' = [pc EXCEPT ![r] = "onError"]
          /\ idx' = [idx EXCEPT ![r] = 1]
          /\ UNCHANGED <<contextVars, endVars>>

----------------------------------------------------------------------------
(* The middlewares of the running stack                                    *)

InMiddleware(r) == pc[r] \in Stacks /\ idx[r] <= StackLen[pc[r]]
LoopEnded(r, stack) == pc[r] = stack /\ idx[r] > StackLen[stack]

\* A middleware assigns request.response.
AssignResponse(r) ==
  /\ InMiddleware(r)
  /\ response' = [response EXCEPT ![r] = pc[r]]
  /\ UNCHANGED <<pc, idx, contextVars, early, error, handlerVars, endVars>>

\* A middleware assigns request.earlyResponse, possibly undefined.
AssignEarlyResponse(r) ==
  /\ InMiddleware(r)
  /\ \E v \in {"undefined", pc[r]} : early' = [early EXCEPT ![r] = v]
  /\ UNCHANGED <<pc, idx, contextVars, response, error, handlerVars, endVars>>

\* An onError middleware replaces request.error.
OverrideError(r) ==
  /\ InMiddleware(r) /\ pc[r] = "onError"
  /\ error' = [error EXCEPT ![r] = {"override"}]
  /\ UNCHANGED <<pc, idx, contextVars, response, early, handlerVars, endVars>>

\* A middleware returns nothing and has set no early response: on to the next.
MiddlewarePasses(r) ==
  /\ InMiddleware(r) /\ early[r] = "absent"
  /\ idx' = [idx EXCEPT ![r] = @ + 1]
  /\ UNCHANGED <<pc, contextVars, requestVars, handlerVars, endVars>>

\* A middleware returns a value or leaves an early response: the loop breaks.
MiddlewareAnswers(r) ==
  /\ InMiddleware(r)
  /\ \E v \in {pc[r], early[r]} \ {"absent"} :
       /\ early' = [early EXCEPT ![r] = v]
       /\ response' = [response EXCEPT ![r] = v]
  /\ idx' = [idx EXCEPT ![r] = StackLen[pc[r]] + 1]
  /\ UNCHANGED <<pc, contextVars, error, handlerVars, endVars>>

MiddlewareThrows(r) ==
  /\ InMiddleware(r) /\ pc[r] # "onError"
  /\ Fail(r, {pc[r]})
  /\ UNCHANGED <<handler, race, aborted>>

\* Fault: the error of the onError middleware replaces the request's.
OnErrorThrowsInstead(r) ==
  /\ InMiddleware(r) /\ pc[r] = "onError"
  /\ Leave(r, {"onError"})
  /\ UNCHANGED <<idx, requestVars, handlerVars>>

\* An onError middleware throws: a new error is aggregated with the request's.
OnErrorThrows(r) ==
  /\ InMiddleware(r) /\ pc[r] = "onError"
  /\ \E E \in {error[r], error[r] \cup {"onError"}} :
       /\ error' = [error EXCEPT ![r] = E]
       /\ Leave(r, E)
  /\ UNCHANGED <<idx, response, early, handlerVars>>

----------------------------------------------------------------------------
(* The handler and the early timeout                                       *)

\* An early response from the before stack skips handler and after stack.
SkipHandler(r) ==
  /\ LoopEnded(r, "before") /\ early[r] # "absent"
  /\ Leave(r, {})
  /\ UNCHANGED <<idx, requestVars, handlerVars>>

\* The beforeHandler hook, or the handler itself, throws synchronously.
HandlerThrows(r) ==
  /\ LoopEnded(r, "before") /\ early[r] = "absent"
  /\ \E o \in {"hook", "handler"} : Fail(r, {o})
  /\ UNCHANGED <<handler, race, aborted>>

\* The handler returns a plain value: no race, no timer.
HandlerReturns(r) ==
  /\ LoopEnded(r, "before") /\ early[r] = "absent"
  /\ \E v \in {"undefined", "handler"} :
       race' = [race EXCEPT ![r] = [by |-> "handler", value |-> v, error |-> {}]]
  /\ pc' = [pc EXCEPT ![r] = "resumed"]
  /\ UNCHANGED <<idx, contextVars, requestVars, handler, timer, aborted, endVars>>

\* The handler returns a thenable; the timer is armed when the early timeout
\* is configured and the context can tell the remaining time.
HandlerPends(r) ==
  /\ LoopEnded(r, "before") /\ early[r] = "absent"
  /\ handler' = [handler EXCEPT ![r] = "pending"]
  /\ \E t \in {"off", "armed"} : timer' = [timer EXCEPT ![r] = t]
  /\ pc' = [pc EXCEPT ![r] = "handler"]
  /\ UNCHANGED <<idx, contextVars, requestVars, race, aborted, endVars>>

\* What the handler's promise can settle with.
HandlerSettlements(by) ==
  {[by |-> by, value |-> "undefined", error |-> {"handler"}]}
  \cup {[by |-> by, value |-> v, error |-> {}] : v \in {"undefined", "handler"}}

\* What timeoutEarlyResponse can return or throw.
TimeoutSettlements ==
  {[by |-> "timeout", value |-> "undefined", error |-> {"timeout"}]}
  \cup {[by |-> "timeout", value |-> v, error |-> {}] : v \in {"undefined", "timeout"}}

\* Fault: a late settlement wakes runRequest up again.
DecideAnytime(r, settlement) ==
  /\ race' = [race EXCEPT ![r] = settlement]
  /\ pc' = [pc EXCEPT ![r] = "resumed"]

\* Promise.race: only the first settlement counts and wakes runRequest up.
Decide(r, settlement) ==
  IF pc[r] = "handler"
  THEN /\ race' = [race EXCEPT ![r] = settlement]
       /\ pc' = [pc EXCEPT ![r] = "resumed"]
  ELSE UNCHANGED <<race, pc>>

\* The handler's promise settles, perhaps long after its call was answered.
HandlerSettles(r) ==
  /\ handler[r] = "pending"
  /\ handler' = [handler EXCEPT ![r] = "settled"]
  /\ \E s \in HandlerSettlements("handler") : Decide(r, s)
  /\ UNCHANGED <<idx, contextVars, requestVars, timer, aborted, endVars>>

\* Fault: the timer aborts the signal and forgets to settle the race.
TimerOnlyAborts(r) ==
  /\ timer[r] = "armed" /\ pc[r] # "resumed"
  /\ timer' = [timer EXCEPT ![r] = "fired"]
  /\ aborted' = [aborted EXCEPT ![r] = TRUE]
  /\ UNCHANGED <<pc, race, handler, idx, contextVars, requestVars, endVars>>

\* timeoutResolve: abort() runs the listeners first; one that settles a promise
\* the handler returned directly decides the race before timeoutEarlyResponse.
\* Node runs every pending continuation before a timer: never when resumed.
TimerFires(r) ==
  /\ timer[r] = "armed" /\ pc[r] # "resumed"
  /\ timer' = [timer EXCEPT ![r] = "fired"]
  /\ aborted' = [aborted EXCEPT ![r] = TRUE]
  /\ \/ /\ \E s \in TimeoutSettlements : Decide(r, s)
        /\ UNCHANGED handler
     \/ /\ handler[r] = "pending"
        /\ handler' = [handler EXCEPT ![r] = "settled"]
        /\ \E s \in HandlerSettlements("listener") : Decide(r, s)
  /\ UNCHANGED <<idx, contextVars, requestVars, endVars>>

\* Fault: the timer is not cleared when the handler answers in time.
ResumeKeepingTimer(r) ==
  /\ pc[r] = "resumed" /\ race[r].error = {}
  /\ response' = [response EXCEPT ![r] = race[r].value]
  /\ pc' = [pc EXCEPT ![r] = "after"]
  /\ idx' = [idx EXCEPT ![r] = 1]
  /\ UNCHANGED <<contextVars, early, error, handlerVars, endVars>>

\* runRequest continues with the winner of the race.
Resume(r) ==
  /\ pc[r] = "resumed" /\ race[r].error = {}
  /\ response' = [response EXCEPT ![r] = race[r].value]
  /\ ClearTimeout(r)
  /\ pc' = [pc EXCEPT ![r] = "after"]
  /\ idx' = [idx EXCEPT ![r] = 1]
  /\ UNCHANGED <<contextVars, early, error, handler, race, aborted, endVars>>

\* The race was lost to an error, or the afterHandler hook throws.
ResumeFails(r) ==
  /\ pc[r] = "resumed"
  /\ Fail(r, IF race[r].error = {} THEN {"hook"} ELSE race[r].error)
  /\ UNCHANGED <<handler, race, aborted>>

----------------------------------------------------------------------------
(* The end of the stacks and of the call                                   *)

AfterEnds(r) ==
  /\ LoopEnded(r, "after")
  /\ Leave(r, {})
  /\ UNCHANGED <<idx, requestVars, handlerVars>>

\* An error no middleware answered is thrown.
OnErrorEnds(r) ==
  /\ LoopEnded(r, "onError")
  /\ Leave(r, IF response[r] = "undefined" THEN error[r] ELSE {})
  /\ UNCHANGED <<idx, requestVars, handlerVars>>

\* Fault: the early response is returned whether there is one or not.
SettlementEarly(r) == IF thrown[r] = {} THEN Resolved(early[r]) ELSE Rejected(thrown[r])

\* What the caller gets once requestEnd is through without an error.
Settlement(r) == IF thrown[r] = {} THEN Resolved(response[r]) ELSE Rejected(thrown[r])

RequestEnd(r) ==
  /\ pc[r] = "end"
  /\ ends' = [ends EXCEPT ![r] = @ + 1]
  /\ outcome' = [outcome EXCEPT ![r] = Settlement(r)]
  /\ pc' = [pc EXCEPT ![r] = "done"]
  /\ UNCHANGED <<idx, contextVars, requestVars, handlerVars, thrown>>

\* requestEnd throws or rejects: its error joins the request's.
RequestEndThrows(r) ==
  /\ pc[r] = "end"
  /\ ends' = [ends EXCEPT ![r] = @ + 1]
  /\ outcome' = [outcome EXCEPT ![r] = Rejected(thrown[r] \cup {"requestEnd"})]
  /\ pc' = [pc EXCEPT ![r] = "done"]
  /\ UNCHANGED <<idx, contextVars, requestVars, handlerVars, thrown>>

----------------------------------------------------------------------------
User(r) ==
  \/ \E c \in Objects : Start(r, c) \/ RequestStartThrows(r, c)
  \/ AssignResponse(r) \/ AssignEarlyResponse(r) \/ OverrideError(r)
  \/ HandlerSettles(r)

Stack(r) ==
  \/ MiddlewarePasses(r) \/ MiddlewareAnswers(r)
  \/ MiddlewareThrows(r) \/ OnErrorThrows(r)

Engine(r) ==
  \/ SkipHandler(r) \/ HandlerThrows(r) \/ HandlerReturns(r) \/ HandlerPends(r)
  \/ Resume(r) \/ ResumeFails(r) \/ AfterEnds(r) \/ OnErrorEnds(r)
  \/ RequestEnd(r) \/ RequestEndThrows(r)

Next == \E r \in Requests : User(r) \/ Stack(r) \/ Engine(r) \/ TimerFires(r)

Spec == Init /\ [][Next]_vars

(***************************************************************************)
(* Node runs every continuation and every timer; middlewares and hooks are *)
(* assumed to return.  Nothing is assumed of the handler's promise.        *)
(***************************************************************************)
FairSpec ==
  /\ Spec
  /\ \A r \in Requests :
       WF_vars(Stack(r)) /\ WF_vars(Engine(r)) /\ WF_vars(TimerFires(r))

----------------------------------------------------------------------------
(* Type correctness                                                        *)

\* Every variable stays in its type; in particular what a caller gets is a
\* response of a known origin, never the mark of a missing one.
TypeOK ==
  /\ pc \in [Requests -> Phases]
  /\ idx \in [Requests -> Nat]
  /\ ctx \in [Requests -> Objects]
  /\ host \in [Requests -> Hosts \cup {None}]
  /\ ns \in [Objects -> Requests \cup {None}]
  /\ mark \in [Objects -> Requests \cup {None}]
  /\ inherits \in [Requests -> Requests \cup {None}]
  /\ response \in [Requests -> Values]
  /\ early \in [Requests -> Values \cup {"absent"}]
  /\ error \in [Requests -> SUBSET Origins]
  /\ handler \in [Requests -> {"none", "pending", "settled"}]
  /\ race \in [Requests -> Settlements]
  /\ timer \in [Requests -> {"off", "armed", "fired", "cleared"}]
  /\ aborted \in [Requests -> BOOLEAN]
  /\ thrown \in [Requests -> SUBSET Origins]
  /\ ends \in [Requests -> Nat]
  /\ outcome \in [Requests -> Outcomes]

----------------------------------------------------------------------------
(* Contexts shared by nested, concurrent and successive calls              *)

\* A running call owns its context: the in-flight mark and middyContext of the
\* object it works on are its own, whatever nested calls, stragglers and later
\* calls do with that object; and a mark that is set belongs to a running call.
MarkTracksRun ==
  /\ \A r \in Requests :
       Running(r) => ns[ctx[r]] = r /\ mark[ctx[r]] = r
  /\ \A o \in Objects :
       mark[o] # None => Running(mark[o]) /\ ctx[mark[o]] = o

\* A call reads through to the namespace of another one only when that one is
\* running as it starts: a reused context never leaks an earlier invocation's.
InheritsOnlyFromRunning ==
  [][\A r \in Requests :
       inherits'[r] \notin {inherits[r], None} => Running(inherits'[r])]_vars

----------------------------------------------------------------------------
(* The race against the early timeout                                      *)

\* No timer of a call outlives the wait for its handler, on any path out of it:
\* one that did would abort a signal, or hold up the process, for nothing.
TimerDisarmed ==
  \A r \in Requests : timer[r] = "armed" => pc[r] \in {"handler", "resumed"}

\* A handler that answers by itself in time never sees its signal abort, during
\* the after and onError stacks either.
TimelyHandlerNotAborted ==
  \A r \in Requests : race[r].by = "handler" => ~aborted[r]

\* "timeoutEarlyResponse: Invoked when the early-timeout fires; its return
\* value becomes the response" (docs/intro/hooks): once the timer has fired for
\* a call that was still waiting, nothing else settles the race.
TimeoutAnswers ==
  \A r \in Requests : timer[r] = "fired" => race[r].by \notin {"nobody", "listener"}

----------------------------------------------------------------------------
(* Errors and responses                                                    *)

\* Whatever fails later, an onError middleware or the requestEnd hook, what the
\* caller gets reports the error of the request with it.
ErrorNotLost ==
  \A r \in Requests :
    /\ thrown[r] # {} => error[r] \subseteq thrown[r]
    /\ pc[r] = "done" => thrown[r] \subseteq outcome[r].error

\* A call that failed answers only with a response of its onError stack: one
\* that an earlier stack, the handler or the timeout left behind never escapes.
FailedNeverAnswersStale ==
  \A r \in Requests :
    outcome[r].kind = "resolved" /\ error[r] # {} => outcome[r].value = "onError"

\* requestEnd has run exactly once for a settled call that got past
\* requestStart, and never before the outcome is known.
RequestEndOnce ==
  \A r \in Requests :
    /\ pc[r] # "done" => ends[r] = 0
    /\ pc[r] = "done" => ends[r] = IF outcome[r] = Rejected({"requestStart"}) THEN 0 ELSE 1

----------------------------------------------------------------------------
(* The contract, and progress                                              *)

AbstractPhase(r) ==
  CASE pc[r] = "idle" -> "idle"
    [] Running(r) -> "open"
    [] pc[r] = "end" -> "committed"
    [] pc[r] = "done" -> "closed"

\* What a call has committed: runRequest's result, then the caller's outcome.
AbstractResult(r) ==
  LET o == IF pc[r] = "end" THEN Settlement(r) ELSE outcome[r] IN
  [answer |-> IF o.kind = "resolved" THEN o.value ELSE None, errors |-> o.error]

Contract == INSTANCE Invocation WITH
  Answers <- Values, Errors <- Origins,
  phase <- [r \in Requests |-> AbstractPhase(r)],
  scope <- [r \in Requests |-> IF Running(r) THEN ns[ctx[r]] ELSE None],
  result <- [r \in Requests |-> AbstractResult(r)]

\* The engine implements the contract of a call (module Invocation): one open,
\* one commit, one close; late handlers and timers change no result.
ImplementsContract == Contract!Spec

\* With the early timeout armed a call settles even when its handler never does.
EarlyTimeoutSettles ==
  \A r \in Requests : timer[r] = "armed" ~> pc[r] = "done"
============================================================================
