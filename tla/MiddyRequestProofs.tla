----------------------- MODULE MiddyRequestProofs -----------------------
(***************************************************************************)
(* Proofs about the engine, for any number of calls, hosts and middlewares. *)
(***************************************************************************)
EXTENDS MiddyRequest, Sequences, WellFoundedInduction, TLAPS

USE DEF Objects

(* The sets of tags: no one of them is mistaken for another.               *)
LEMMA Tags ==
  /\ Stacks \subseteq Values /\ Stacks \subseteq Origins /\ Stacks \subseteq Phases
  /\ {"undefined", "handler", "timeout"} \subseteq Values
  /\ {"handler", "timeout", "hook", "requestStart", "requestEnd", "override"} \subseteq Origins
  /\ {"idle", "handler", "resumed", "end", "done"} \subseteq Phases
BY DEF Stacks, Values, Origins, Phases

(* What an error path or an exit of runRequest leaves keeps its type.      *)
LEMMA LeaveTypes ==
  ASSUME TypeOK, NEW r \in Requests, NEW E \in SUBSET Origins, Leave(r, E)
  PROVE  /\ pc' \in [Requests -> Phases]
         /\ mark' \in [Objects -> Requests \cup {None}]
         /\ thrown' \in [Requests -> SUBSET Origins]
         /\ ctx' = ctx /\ host' = host /\ ns' = ns /\ inherits' = inherits
         /\ ends' = ends /\ outcome' = outcome
BY Tags DEF TypeOK, Leave

LEMMA FailTypes ==
  ASSUME TypeOK, NEW r \in Requests, NEW E \in SUBSET Origins, Fail(r, E),
         UNCHANGED <<handler, race, aborted>>
  PROVE  TypeOK'
<1>1. /\ timer' \in [Requests -> {"off", "armed", "fired", "cleared"}]
      /\ response' \in [Requests -> Values]
      /\ early' \in [Requests -> Values \cup {"absent"}]
      /\ error' \in [Requests -> SUBSET Origins]
  BY Tags DEF TypeOK, Fail, Catch, ClearTimeout
<1>2. CASE host[r] \in Durable
  <2>1. Leave(r, E) /\ idx' = idx
    BY <1>2 DEF Fail
  <2> QED BY <1>1, <2>1, LeaveTypes DEF TypeOK
<1>3. CASE host[r] \notin Durable
  <2>1. /\ pc' \in [Requests -> Phases]
        /\ idx' \in [Requests -> Nat]
        /\ UNCHANGED <<contextVars, endVars>>
    BY <1>3, Tags DEF TypeOK, Fail, Stacks
  <2> QED BY <1>1, <2>1 DEF TypeOK, contextVars, endVars
<1> QED BY <1>2, <1>3

LEMMA TypeInit == Init => TypeOK
BY RequestsAssumption, Tags
   DEF Init, TypeOK, Values, Settlements, Outcomes, Undecided, Pending

(* The context a call is given has the right types.                        *)
LEMMA NewContextTypes ==
  ASSUME TypeOK, NEW r \in Requests, NEW c \in Objects, c \in Reachable, NewContext(r, c)
  PROVE  /\ ctx' \in [Requests -> Objects]
         /\ host' \in [Requests -> Hosts \cup {None}]
         /\ ns' \in [Objects -> Requests \cup {None}]
         /\ inherits' \in [Requests -> Requests \cup {None}]
         /\ ctx'[r] \in Objects
<1>1. c \notin Hosts => c \in Requests
  OBVIOUS
<1> QED BY <1>1 DEF TypeOK, NewContext

LEMMA DecideTypes ==
  ASSUME TypeOK, NEW r \in Requests, NEW s \in Settlements, Decide(r, s)
  PROVE  /\ pc' \in [Requests -> Phases]
         /\ race' \in [Requests -> Settlements]
BY Tags DEF TypeOK, Decide

LEMMA SettlementTypes ==
  /\ HandlerSettlements("handler") \subseteq Settlements
  /\ HandlerSettlements("listener") \subseteq Settlements
  /\ TimeoutSettlements \subseteq Settlements
BY Tags DEF HandlerSettlements, TimeoutSettlements, Settlements

LEMMA OutcomeTypes ==
  ASSUME TypeOK, NEW r \in Requests
  PROVE  /\ Settlement(r) \in Outcomes
         /\ \A E \in SUBSET Origins : Rejected(E) \in Outcomes
BY Tags DEF TypeOK, Settlement, Outcomes, Resolved, Rejected

(* Type correctness is inductive: one step per action.                     *)
LEMMA TypeNext == TypeOK /\ [Next]_vars => TypeOK'
<1> SUFFICES ASSUME TypeOK, [Next]_vars PROVE TypeOK'
  OBVIOUS
<1> USE DEF requestVars, handlerVars, contextVars, endVars
<1>1. CASE UNCHANGED vars
  BY <1>1 DEF TypeOK, vars
<1>2. ASSUME NEW r \in Requests, User(r) PROVE TypeOK'
  <2>1. ASSUME NEW c \in Objects, Start(r, c) PROVE TypeOK'
    <3>1. /\ pc' \in [Requests -> Phases] /\ idx' \in [Requests -> Nat]
          /\ mark' = [mark EXCEPT ![ctx'[r]] = r]
      BY <2>1, Tags DEF Start, TypeOK, Stacks
    <3> QED BY <2>1, <3>1, NewContextTypes DEF Start, TypeOK
  <2>2. ASSUME NEW c \in Objects, RequestStartThrows(r, c) PROVE TypeOK'
    <3>1. /\ pc' \in [Requests -> Phases]
          /\ outcome' \in [Requests -> Outcomes]
      BY <2>2, Tags, OutcomeTypes DEF RequestStartThrows, TypeOK
    <3> QED BY <2>2, <3>1, NewContextTypes DEF RequestStartThrows, TypeOK
  <2>3. CASE AssignResponse(r)
    BY <2>3, Tags DEF AssignResponse, InMiddleware, TypeOK
  <2>4. CASE AssignEarlyResponse(r)
    BY <2>4, Tags DEF AssignEarlyResponse, InMiddleware, TypeOK
  <2>5. CASE OverrideError(r)
    BY <2>5, Tags DEF OverrideError, TypeOK
  <2>6. CASE HandlerSettles(r)
    BY <2>6, SettlementTypes, DecideTypes DEF HandlerSettles, TypeOK
  <2> QED BY <1>2, <2>1, <2>2, <2>3, <2>4, <2>5, <2>6 DEF User
<1>3. ASSUME NEW r \in Requests, Stack(r) PROVE TypeOK'
  <2>1. CASE MiddlewarePasses(r)
    BY <2>1 DEF MiddlewarePasses, TypeOK
  <2>2. CASE MiddlewareAnswers(r)
    BY <2>2, Tags, StackLenAssumption DEF MiddlewareAnswers, InMiddleware, TypeOK
  <2>3. CASE MiddlewareThrows(r)
    BY <2>3, Tags, FailTypes DEF MiddlewareThrows, InMiddleware
  <2>4. CASE OnErrorThrows(r)
    BY <2>4, Tags, LeaveTypes DEF OnErrorThrows, InMiddleware, TypeOK, Stacks
  <2> QED BY <1>3, <2>1, <2>2, <2>3, <2>4 DEF Stack
<1>4. ASSUME NEW r \in Requests, Engine(r) PROVE TypeOK'
  <2>1. CASE SkipHandler(r)
    BY <2>1, LeaveTypes DEF SkipHandler, TypeOK
  <2>2. CASE HandlerThrows(r)
    BY <2>2, Tags, FailTypes DEF HandlerThrows
  <2>3. CASE HandlerReturns(r)
    BY <2>3, Tags DEF HandlerReturns, TypeOK, Settlements
  <2>4. CASE HandlerPends(r)
    BY <2>4, Tags DEF HandlerPends, TypeOK
  <2>5. CASE Resume(r)
    BY <2>5, Tags DEF Resume, ClearTimeout, TypeOK, Settlements, Stacks
  <2>6. CASE ResumeFails(r)
    BY <2>6, Tags, FailTypes DEF ResumeFails, TypeOK, Settlements
  <2>7. CASE AfterEnds(r)
    BY <2>7, LeaveTypes DEF AfterEnds, TypeOK
  <2>8. CASE OnErrorEnds(r)
    BY <2>8, LeaveTypes DEF OnErrorEnds, TypeOK
  <2>9. CASE RequestEnd(r)
    BY <2>9, Tags, OutcomeTypes DEF RequestEnd, TypeOK
  <2>10. CASE RequestEndThrows(r)
    BY <2>10, Tags, OutcomeTypes DEF RequestEndThrows, TypeOK
  <2> QED BY <1>4, <2>1, <2>2, <2>3, <2>4, <2>5, <2>6, <2>7, <2>8, <2>9, <2>10 DEF Engine
<1>5. ASSUME NEW r \in Requests, TimerFires(r) PROVE TypeOK'
  BY <1>5, SettlementTypes, DecideTypes DEF TimerFires, TypeOK
<1> QED BY <1>1, <1>2, <1>3, <1>4, <1>5 DEF Next

(* Every variable stays in its type.                                       *)
THEOREM TypeCorrect == Spec => []TypeOK
BY TypeInit, TypeNext, PTL DEF Spec

----------------------------------------------------------------------------
(***************************************************************************)
(* Ownership of contexts.  MarkTracksRun alone is not inductive: the object *)
(* derived for a nested call must be new, so nobody may work on the object  *)
(* of a call that has not started.                                          *)
(***************************************************************************)
OwnContext ==
  \A r, q \in Requests : pc[r] = "idle" /\ q # r => ctx[q] # r
ContextInv == MarkTracksRun /\ OwnContext

(* A step that leaves the contexts and the set of running calls alone.      *)
LEMMA ContextKept ==
  ASSUME ContextInv, UNCHANGED contextVars,
         \A q \in Requests : Running(q)' <=> Running(q),
         \A q \in Requests : pc'[q] = "idle" => pc[q] = "idle",
         TypeOK
  PROVE  ContextInv'
<1>1. \A o \in Objects : mark[o] # None => mark[o] \in Requests
  BY DEF TypeOK
<1> QED BY <1>1 DEF ContextInv, MarkTracksRun, OwnContext, contextVars

(* The finally of runRequest clears the mark of that call and of no other.  *)
LEMMA LeaveContext ==
  ASSUME TypeOK, ContextInv, NEW r \in Requests, NEW E, Running(r), Leave(r, E)
  PROVE  ContextInv'
<1>1. ctx[r] \in Objects /\ mark' = [mark EXCEPT ![ctx[r]] = None]
  BY DEF TypeOK, Leave
<1>2. /\ ctx' = ctx /\ ns' = ns /\ ~Running(r)'
      /\ \A q \in Requests : q # r => (Running(q)' <=> Running(q))
      /\ \A q \in Requests : pc'[q] = "idle" => pc[q] = "idle"
  BY DEF TypeOK, Leave, Running, Stacks
<1>3. OwnContext'
  BY <1>2 DEF ContextInv, OwnContext
<1>4. ASSUME NEW q \in Requests, Running(q)' PROVE ns'[ctx'[q]] = q /\ mark'[ctx'[q]] = q
  <2>1. q # r /\ Running(q)
    BY <1>2, <1>4
  <2>2. ns[ctx[q]] = q /\ mark[ctx[q]] = q /\ ns[ctx[r]] = r
    BY <2>1 DEF ContextInv, MarkTracksRun
  <2>3. ctx[q] # ctx[r] /\ ctx[q] \in Objects
    BY <2>1, <2>2 DEF TypeOK
  <2> QED BY <1>1, <1>2, <2>2, <2>3 DEF TypeOK
<1>5. ASSUME NEW o \in Objects, mark'[o] # None PROVE Running(mark[o])' /\ ctx'[mark'[o]] = o
  <2>1. o # ctx[r] /\ mark'[o] = mark[o]
    BY <1>1, <1>5 DEF TypeOK
  <2>2. mark[o] \in Requests /\ Running(mark[o]) /\ ctx[mark[o]] = o
    BY <1>5, <2>1 DEF TypeOK, ContextInv, MarkTracksRun
  <2>3. mark[o] # r
    BY <2>1, <2>2
  <2> QED BY <1>2, <2>1, <2>2, <2>3
<1> QED BY <1>3, <1>4, <1>5 DEF ContextInv, MarkTracksRun

LEMMA FailContext ==
  ASSUME TypeOK, ContextInv, NEW r \in Requests, NEW E, Running(r), Fail(r, E)
  PROVE  ContextInv'
<1>1. CASE host[r] \in Durable
  BY <1>1, LeaveContext DEF Fail
<1>2. CASE host[r] \notin Durable
  <2>1. UNCHANGED contextVars /\ pc' = [pc EXCEPT ![r] = "onError"]
    BY <1>2 DEF Fail
  <2>2. \A q \in Requests : (Running(q)' <=> Running(q)) /\ (pc'[q] = "idle" => pc[q] = "idle")
    BY <2>1 DEF TypeOK, Running, Stacks
  <2> QED BY <2>1, <2>2, ContextKept
<1> QED BY <1>1, <1>2

(* The object a starting call ends up with belongs to no running call.      *)
LEMMA NewContextFree ==
  ASSUME TypeOK, ContextInv, NEW r \in Requests, NEW c \in Objects,
         pc[r] = "idle", c \in Reachable, NewContext(r, c)
  PROVE  /\ \A q \in Requests : Running(q) => ctx[q] # ctx'[r]
         /\ mark[ctx'[r]] = None
         /\ \A q \in Requests \ {r} : pc[q] = "idle" => ctx'[r] # q
         /\ ctx' = [ctx EXCEPT ![r] = ctx'[r]]
         /\ ns' = [ns EXCEPT ![ctx'[r]] = r]
         /\ ctx'[r] \in Objects
<1>1. ~Running(r)
  BY DEF Running, Stacks
<1>2. ctx'[r] = IF Nested(c) THEN r ELSE c
  BY DEF NewContext, TypeOK
<1>3. CASE Nested(c)
  <2>1. \A q \in Requests : Running(q) => ctx[q] # r
    BY <1>1, RequestsAssumption DEF ContextInv, OwnContext
  <2>2. mark[r] = None
    BY <1>1, <2>1 DEF ContextInv, MarkTracksRun, TypeOK
  <2> QED BY <1>2, <1>3, <2>1, <2>2 DEF NewContext
<1>4. CASE ~Nested(c)
  <2>1. \A q \in Requests : Running(q) => ctx[q] # c
    BY <1>4, RequestsAssumption DEF Nested, ContextInv, MarkTracksRun
  <2>2. mark[c] = None
    BY <2>1 DEF ContextInv, MarkTracksRun, TypeOK
  <2>3. \A q \in Requests : pc[q] = "idle" => c # q
    BY RequestsAssumption DEF Reachable
  <2> QED BY <1>2, <1>4, <2>1, <2>2, <2>3 DEF NewContext
<1> QED BY <1>3, <1>4

LEMMA StartContext ==
  ASSUME TypeOK, ContextInv, NEW r \in Requests, NEW c \in Objects, Start(r, c)
  PROVE  ContextInv'
<1> DEFINE o == ctx'[r]
<1>1. /\ \A q \in Requests : Running(q) => ctx[q] # o
      /\ \A q \in Requests \ {r} : pc[q] = "idle" => o # q
      /\ mark[o] = None /\ o \in Objects
      /\ ctx' = [ctx EXCEPT ![r] = o] /\ ns' = [ns EXCEPT ![o] = r]
  BY NewContextFree DEF Start
<1>2. mark' = [mark EXCEPT ![o] = r] /\ pc' = [pc EXCEPT ![r] = "before"] /\ pc[r] = "idle"
  BY DEF Start
<1> HIDE DEF o
<1>3. /\ Running(r)' /\ ~Running(r)
      /\ \A q \in Requests : q # r => (Running(q)' <=> Running(q))
  BY <1>2 DEF TypeOK, Running, Stacks
<1>4. OwnContext'
  BY <1>1, <1>2 DEF TypeOK, ContextInv, OwnContext
<1>5. ASSUME NEW q \in Requests, Running(q)' PROVE ns'[ctx'[q]] = q /\ mark'[ctx'[q]] = q
  <2>1. CASE q = r
    BY <1>1, <1>2, <2>1 DEF TypeOK
  <2>2. CASE q # r
    <3>1. Running(q) /\ ctx[q] # o /\ ctx'[q] = ctx[q] /\ ctx[q] \in Objects
      BY <1>1, <1>3, <1>5, <2>2 DEF TypeOK
    <3> QED BY <1>1, <1>2, <3>1 DEF TypeOK, ContextInv, MarkTracksRun
  <2> QED BY <2>1, <2>2
<1>6. ASSUME NEW x \in Objects, mark'[x] # None PROVE Running(mark[x])' /\ ctx'[mark'[x]] = x
  <2>1. CASE x = o
    BY <1>1, <1>2, <1>3, <2>1 DEF TypeOK
  <2>2. CASE x # o
    <3>1. mark'[x] = mark[x] /\ mark[x] \in Requests /\ Running(mark[x]) /\ ctx[mark[x]] = x
      BY <1>2, <1>6, <2>2 DEF TypeOK, ContextInv, MarkTracksRun
    <3> QED BY <1>1, <1>3, <3>1 DEF TypeOK
  <2> QED BY <2>1, <2>2
<1> QED BY <1>4, <1>5, <1>6 DEF ContextInv, MarkTracksRun

LEMMA RefusedContext ==
  ASSUME TypeOK, ContextInv, NEW r \in Requests, NEW c \in Objects, RequestStartThrows(r, c)
  PROVE  ContextInv'
<1> DEFINE o == ctx'[r]
<1>1. /\ \A q \in Requests : Running(q) => ctx[q] # o
      /\ \A q \in Requests \ {r} : pc[q] = "idle" => o # q
      /\ o \in Objects
      /\ ctx' = [ctx EXCEPT ![r] = o] /\ ns' = [ns EXCEPT ![o] = r]
  BY NewContextFree DEF RequestStartThrows
<1>2. mark' = mark /\ pc' = [pc EXCEPT ![r] = "done"] /\ pc[r] = "idle"
  BY DEF RequestStartThrows
<1> HIDE DEF o
<1>3. ~Running(r) /\ \A q \in Requests : Running(q)' <=> Running(q)
  BY <1>2 DEF TypeOK, Running, Stacks
<1>4. OwnContext'
  BY <1>1, <1>2 DEF TypeOK, ContextInv, OwnContext
<1>5. ASSUME NEW q \in Requests, Running(q)' PROVE ns'[ctx'[q]] = q /\ mark'[ctx'[q]] = q
  <2>1. Running(q) /\ q # r /\ ctx[q] # o /\ ctx'[q] = ctx[q] /\ ctx[q] \in Objects
    BY <1>1, <1>3, <1>5 DEF TypeOK
  <2> QED BY <1>1, <1>2, <2>1 DEF TypeOK, ContextInv, MarkTracksRun
<1>6. ASSUME NEW x \in Objects, mark'[x] # None PROVE Running(mark[x])' /\ ctx'[mark'[x]] = x
  <2>1. mark[x] \in Requests /\ Running(mark[x]) /\ ctx[mark[x]] = x
    BY <1>2, <1>6 DEF TypeOK, ContextInv, MarkTracksRun
  <2> QED BY <1>1, <1>2, <1>3, <2>1 DEF TypeOK
<1> QED BY <1>4, <1>5, <1>6 DEF ContextInv, MarkTracksRun

LEMMA ContextNext == TypeOK /\ ContextInv /\ [Next]_vars => ContextInv'
<1> SUFFICES ASSUME TypeOK, ContextInv, [Next]_vars PROVE ContextInv'
  OBVIOUS
<1> USE DEF requestVars, handlerVars, endVars
<1>1. CASE UNCHANGED vars
  <2>1. UNCHANGED contextVars /\ UNCHANGED pc
    BY <1>1 DEF vars
  <2> QED BY <2>1, ContextKept DEF Running
<1>2. ASSUME NEW r \in Requests, User(r) PROVE ContextInv'
  <2>1. CASE AssignResponse(r) \/ AssignEarlyResponse(r) \/ OverrideError(r)
    <3>1. UNCHANGED contextVars /\ UNCHANGED pc
      BY <2>1 DEF AssignResponse, AssignEarlyResponse, OverrideError
    <3> QED BY <3>1, ContextKept DEF Running
  <2>2. CASE HandlerSettles(r)
    <3>1. UNCHANGED contextVars
      BY <2>2 DEF HandlerSettles
    <3>2. \A q \in Requests : (Running(q)' <=> Running(q)) /\ (pc'[q] = "idle" => pc[q] = "idle")
      BY <2>2 DEF HandlerSettles, Decide, TypeOK, Running, Stacks
    <3> QED BY <3>1, <3>2, ContextKept
  <2> QED BY <1>2, <2>1, <2>2, StartContext, RefusedContext DEF User
<1>3. ASSUME NEW r \in Requests, Stack(r) PROVE ContextInv'
  <2>1. CASE MiddlewarePasses(r) \/ MiddlewareAnswers(r)
    <3>1. UNCHANGED contextVars /\ UNCHANGED pc
      BY <2>1 DEF MiddlewarePasses, MiddlewareAnswers
    <3> QED BY <3>1, ContextKept DEF Running
  <2>2. CASE MiddlewareThrows(r)
    BY <2>2, FailContext DEF MiddlewareThrows, InMiddleware, Running
  <2>3. CASE OnErrorThrows(r)
    BY <2>3, LeaveContext DEF OnErrorThrows, InMiddleware, Running
  <2> QED BY <1>3, <2>1, <2>2, <2>3 DEF Stack
<1>4. ASSUME NEW r \in Requests, Engine(r) PROVE ContextInv'
  <2>1. CASE SkipHandler(r) \/ AfterEnds(r)
    BY <2>1, LeaveContext DEF SkipHandler, AfterEnds, LoopEnded, Running, Stacks
  <2>2. CASE OnErrorEnds(r)
    BY <2>2, LeaveContext DEF OnErrorEnds, LoopEnded, Running, Stacks
  <2>3. CASE HandlerThrows(r)
    BY <2>3, FailContext DEF HandlerThrows, LoopEnded, Running, Stacks
  <2>4. CASE ResumeFails(r)
    BY <2>4, FailContext DEF ResumeFails, Running
  <2>5. CASE HandlerReturns(r) \/ HandlerPends(r) \/ Resume(r)
    <3>1. UNCHANGED contextVars
      BY <2>5 DEF HandlerReturns, HandlerPends, Resume
    <3>2. \A q \in Requests : (Running(q)' <=> Running(q)) /\ (pc'[q] = "idle" => pc[q] = "idle")
      BY <2>5 DEF HandlerReturns, HandlerPends, Resume, LoopEnded, TypeOK, Running, Stacks
    <3> QED BY <3>1, <3>2, ContextKept
  <2>6. CASE RequestEnd(r) \/ RequestEndThrows(r)
    <3>1. UNCHANGED contextVars
      BY <2>6 DEF RequestEnd, RequestEndThrows
    <3>2. \A q \in Requests : (Running(q)' <=> Running(q)) /\ (pc'[q] = "idle" => pc[q] = "idle")
      BY <2>6 DEF RequestEnd, RequestEndThrows, TypeOK, Running, Stacks
    <3> QED BY <3>1, <3>2, ContextKept
  <2> QED BY <1>4, <2>1, <2>2, <2>3, <2>4, <2>5, <2>6 DEF Engine
<1>5. ASSUME NEW r \in Requests, TimerFires(r) PROVE ContextInv'
  <2>1. UNCHANGED contextVars
    BY <1>5 DEF TimerFires
  <2>2. \A q \in Requests : (Running(q)' <=> Running(q)) /\ (pc'[q] = "idle" => pc[q] = "idle")
    BY <1>5 DEF TimerFires, Decide, TypeOK, Running, Stacks
  <2> QED BY <2>1, <2>2, ContextKept
<1> QED BY <1>1, <1>2, <1>3, <1>4, <1>5 DEF Next

LEMMA ContextInit == Init => ContextInv
<1> SUFFICES ASSUME Init PROVE ContextInv
  OBVIOUS
<1>1. \A r \in Requests : ~Running(r)
  BY DEF Init, Running, Stacks
<1>2. \A o \in Objects : mark[o] = None
  BY DEF Init
<1>3. OwnContext
  BY DEF Init, OwnContext
<1> QED BY <1>1, <1>2, <1>3 DEF ContextInv, MarkTracksRun

(* A running call owns the context it works on, and only running calls own  *)
(* one: nested, concurrent and successive calls never take over each        *)
(* other's in-flight mark or middyContext.                                  *)
THEOREM ContextOwnership == Spec => []MarkTracksRun
<1>1. ContextInv => MarkTracksRun
  BY DEF ContextInv
<1> QED BY <1>1, TypeInit, TypeNext, ContextInit, ContextNext, PTL DEF Spec

(* A call inherits the namespace of a running call or of none: what an      *)
(* earlier invocation published on a reused context is out of its reach.    *)
THEOREM NoStaleInheritance == Spec => InheritsOnlyFromRunning
<1> DEFINE A == \A r \in Requests : inherits'[r] \notin {inherits[r], None} => Running(inherits'[r])
<1>1. ASSUME TypeOK, ContextInv, NEW r \in Requests, NEW c \in Objects, NewContext(r, c)
      PROVE  A
  <2>1. inherits' = [inherits EXCEPT ![r] = IF Nested(c) THEN ns[c] ELSE None]
    BY <1>1 DEF NewContext
  <2>2. Nested(c) => Running(ns[c])
    BY <1>1 DEF Nested, ContextInv, MarkTracksRun
  <2>3. ~Nested(c) => inherits' = [inherits EXCEPT ![r] = None]
    BY <2>1
  <2> QED BY <2>1, <2>2, <2>3, <1>1 DEF TypeOK
<1>2. ASSUME TypeOK, ContextInv, Next PROVE A
  <2>1. ASSUME NEW r \in Requests, User(r) PROVE inherits' = inherits \/ A
    BY <1>1, <1>2, <2>1
       DEF User, Start, RequestStartThrows, AssignResponse, AssignEarlyResponse,
           OverrideError, HandlerSettles, contextVars
  <2>2. ASSUME NEW r \in Requests, Stack(r) PROVE inherits' = inherits
    BY <2>2 DEF Stack, MiddlewarePasses, MiddlewareAnswers, MiddlewareThrows,
                OnErrorThrows, Fail, Leave, contextVars
  <2>3. ASSUME NEW r \in Requests, Engine(r) PROVE inherits' = inherits
    BY <2>3 DEF Engine, SkipHandler, HandlerThrows, HandlerReturns, HandlerPends, Resume,
                ResumeFails, AfterEnds, OnErrorEnds, RequestEnd, RequestEndThrows,
                Fail, Leave, contextVars
  <2>4. ASSUME NEW r \in Requests, TimerFires(r) PROVE inherits' = inherits
    BY <2>4 DEF TimerFires, contextVars
  <2> QED BY <1>2, <2>1, <2>2, <2>3, <2>4 DEF Next
<1> QED BY <1>2, TypeInit, TypeNext, ContextInit, ContextNext, PTL DEF Spec, InheritsOnlyFromRunning

----------------------------------------------------------------------------
(***************************************************************************)
(* The race.  The two invariants hold because a timer is armed only while   *)
(* the race is open, and an abort is the mark of a timer that fired then.   *)
(***************************************************************************)
RaceInv ==
  \A r \in Requests :
    /\ pc[r] \in {"idle", "before"} => timer[r] = "off"
    /\ pc[r] = "handler" => timer[r] \in {"off", "armed"}
    /\ pc[r] \in {"idle", "before", "handler"} => race[r].by = "nobody"
    /\ timer[r] = "armed" => pc[r] \in {"handler", "resumed"}
    /\ aborted[r] => timer[r] = "fired"
    /\ race[r].by = "handler" => ~aborted[r]

LEMMA FailRace ==
  ASSUME TypeOK, RaceInv, NEW r \in Requests, NEW E, Fail(r, E),
         UNCHANGED <<handler, race, aborted>>
  PROVE  RaceInv'
<1>1. \E p \in {"end", "onError"} : pc' = [pc EXCEPT ![r] = p]
  BY DEF Fail, Leave
<1>2. timer' = [timer EXCEPT ![r] = IF @ = "armed" THEN "cleared" ELSE @]
  BY DEF Fail, Catch, ClearTimeout
<1> QED BY <1>1, <1>2 DEF TypeOK, RaceInv

LEMMA RaceNext == TypeOK /\ RaceInv /\ [Next]_vars => RaceInv'
<1> SUFFICES ASSUME TypeOK, RaceInv, [Next]_vars PROVE RaceInv'
  OBVIOUS
<1> USE DEF requestVars, handlerVars, contextVars, endVars
<1> DEFINE Kept == UNCHANGED <<race, timer, aborted>>
<1>1. CASE UNCHANGED vars
  BY <1>1 DEF RaceInv, vars
<1>2. ASSUME NEW r \in Requests, User(r) PROVE RaceInv'
  <2>1. ASSUME NEW c \in Objects, Start(r, c) \/ RequestStartThrows(r, c) PROVE RaceInv'
    <3>1. Kept /\ pc[r] = "idle" /\ \E p \in {"before", "done"} : pc' = [pc EXCEPT ![r] = p]
      BY <2>1 DEF Start, RequestStartThrows
    <3> QED BY <3>1 DEF TypeOK, RaceInv
  <2>2. CASE AssignResponse(r) \/ AssignEarlyResponse(r) \/ OverrideError(r)
    BY <2>2 DEF AssignResponse, AssignEarlyResponse, OverrideError, RaceInv
  <2>3. CASE HandlerSettles(r)
    <3>1. /\ UNCHANGED <<timer, aborted>>
          /\ \E s \in Settlements : Decide(r, s) /\ s.by = "handler"
      BY <2>3, SettlementTypes DEF HandlerSettles, HandlerSettlements
    <3> QED BY <3>1 DEF Decide, TypeOK, RaceInv
  <2> QED BY <1>2, <2>1, <2>2, <2>3 DEF User
<1>3. ASSUME NEW r \in Requests, Stack(r) PROVE RaceInv'
  <2>1. CASE MiddlewarePasses(r) \/ MiddlewareAnswers(r)
    BY <2>1 DEF MiddlewarePasses, MiddlewareAnswers, RaceInv
  <2>2. CASE MiddlewareThrows(r)
    BY <2>2, FailRace DEF MiddlewareThrows
  <2>3. CASE OnErrorThrows(r)
    <3>1. Kept /\ pc' = [pc EXCEPT ![r] = "end"] /\ pc[r] = "onError"
      BY <2>3 DEF OnErrorThrows, Leave
    <3> QED BY <3>1 DEF TypeOK, RaceInv
  <2> QED BY <1>3, <2>1, <2>2, <2>3 DEF Stack
<1>4. ASSUME NEW r \in Requests, Engine(r) PROVE RaceInv'
  <2>1. CASE SkipHandler(r) \/ AfterEnds(r) \/ OnErrorEnds(r)
    <3>1. /\ Kept /\ pc' = [pc EXCEPT ![r] = "end"]
          /\ pc[r] \in {"before", "after", "onError"}
      BY <2>1 DEF SkipHandler, AfterEnds, OnErrorEnds, LoopEnded, Leave
    <3> QED BY <3>1 DEF TypeOK, RaceInv
  <2>2. CASE HandlerThrows(r) \/ ResumeFails(r)
    BY <2>2, FailRace DEF HandlerThrows, ResumeFails
  <2>3. CASE HandlerReturns(r)
    <3>1. /\ pc[r] = "before" /\ pc' = [pc EXCEPT ![r] = "resumed"]
          /\ UNCHANGED <<timer, aborted>>
          /\ \E s \in Settlements : race' = [race EXCEPT ![r] = s]
      BY <2>3, Tags DEF HandlerReturns, LoopEnded, Settlements
    <3> QED BY <3>1 DEF TypeOK, RaceInv
  <2>4. CASE HandlerPends(r)
    BY <2>4 DEF HandlerPends, LoopEnded, TypeOK, RaceInv
  <2>5. CASE Resume(r)
    BY <2>5 DEF Resume, ClearTimeout, TypeOK, RaceInv
  <2>6. CASE RequestEnd(r) \/ RequestEndThrows(r)
    <3>1. Kept /\ pc' = [pc EXCEPT ![r] = "done"] /\ pc[r] = "end"
      BY <2>6 DEF RequestEnd, RequestEndThrows
    <3> QED BY <3>1 DEF TypeOK, RaceInv
  <2> QED BY <1>4, <2>1, <2>2, <2>3, <2>4, <2>5, <2>6 DEF Engine
<1>5. ASSUME NEW r \in Requests, TimerFires(r) PROVE RaceInv'
  <2>1. /\ timer[r] = "armed" /\ pc[r] = "handler"
        /\ timer' = [timer EXCEPT ![r] = "fired"]
        /\ aborted' = [aborted EXCEPT ![r] = TRUE]
    BY <1>5 DEF TimerFires, TypeOK, RaceInv
  <2>2. \E s \in Settlements : Decide(r, s) /\ s.by # "handler"
    BY <1>5, SettlementTypes DEF TimerFires, HandlerSettlements, TimeoutSettlements
  <2> QED BY <2>1, <2>2 DEF Decide, TypeOK, RaceInv
<1> QED BY <1>1, <1>2, <1>3, <1>4, <1>5 DEF Next

LEMMA RaceInit == Init => RaceInv
<1> SUFFICES ASSUME Init, NEW r \in Requests
             PROVE  pc[r] = "idle" /\ timer[r] = "off" /\ race[r].by = "nobody" /\ ~aborted[r]
  BY DEF RaceInv
<1>1. pc[r] = "idle" /\ timer[r] = "off" /\ race[r] = Undecided
  BY DEF Init
<1>2. ~aborted[r]
  BY Zenon DEF Init
<1> QED BY <1>1, <1>2 DEF Undecided

(* No early-timeout timer outlives the wait for the handler.                *)
THEOREM TimersAreDisarmed == Spec => []TimerDisarmed
<1>1. RaceInv => TimerDisarmed
  BY DEF RaceInv, TimerDisarmed
<1> QED BY <1>1, TypeInit, TypeNext, RaceInit, RaceNext, PTL DEF Spec

(* A handler that settled by itself never sees its abort signal fire.       *)
THEOREM TimelyHandlersRunOn == Spec => []TimelyHandlerNotAborted
<1>1. RaceInv => TimelyHandlerNotAborted
  BY DEF RaceInv, TimelyHandlerNotAborted
<1> QED BY <1>1, TypeInit, TypeNext, RaceInit, RaceNext, PTL DEF Spec

----------------------------------------------------------------------------
(***************************************************************************)
(* Errors.  Until its catch a call has no error; in the onError stack the   *)
(* response and the early response are that stack's; once runRequest is     *)
(* left, what it threw covers the request's error.                          *)
(***************************************************************************)
Unsettled(r) == thrown[r] = {} /\ ends[r] = 0 /\ outcome[r].kind = "pending"
NoStart(r) == /\ "requestStart" \notin thrown[r] \cup error[r]
              /\ "requestStart" \notin race[r].error

ErrorOf(r) ==
  /\ NoStart(r)
  /\ pc[r] \notin {"end", "done"} => Unsettled(r)
  /\ pc[r] \in {"idle", "before", "handler", "resumed", "after"} => error[r] = {}
  /\ pc[r] = "onError" => /\ response[r] \in {"undefined", "onError"}
                          /\ early[r] \in {"absent", "undefined", "onError"}
  /\ pc[r] = "end" => ends[r] = 0 /\ outcome[r].kind = "pending"
  /\ pc[r] = "done" =>
       /\ ends[r] = IF outcome[r] = Rejected({"requestStart"}) THEN 0 ELSE 1
       /\ thrown[r] \subseteq outcome[r].error
       /\ outcome[r].kind = "resolved" => thrown[r] = {} /\ outcome[r].value = response[r]
  /\ thrown[r] # {} => error[r] \subseteq thrown[r]
  /\ pc[r] \in {"end", "done"} /\ error[r] # {} /\ thrown[r] = {} => response[r] = "onError"

ErrorInv == \A r \in Requests : ErrorOf(r)

\* What ErrorOf says of q depends on these values of q alone.
Same(q) ==
  /\ pc'[q] = pc[q] /\ response'[q] = response[q] /\ early'[q] = early[q]
  /\ error'[q] = error[q] /\ race'[q] = race[q]
  /\ thrown'[q] = thrown[q] /\ ends'[q] = ends[q] /\ outcome'[q] = outcome[q]

LEMMA SameError ==
  ASSUME NEW q \in Requests, ErrorOf(q), Same(q)
  PROVE  ErrorOf(q)'
BY DEF ErrorOf, NoStart, Unsettled, Same

LEMMA ErrorStep ==
  ASSUME ErrorInv, NEW r \in Requests, \A q \in Requests \ {r} : Same(q), ErrorOf(r)'
  PROVE  ErrorInv'
BY SameError DEF ErrorInv

(* runRequest is left: by an answer, or by throwing what covers the error.  *)
LEMMA LeaveError ==
  ASSUME TypeOK, ErrorInv, NEW r \in Requests, NEW E, Leave(r, E),
         pc[r] \notin {"end", "done"},
         UNCHANGED <<response, early, race>>,
         error' = [error EXCEPT ![r] = error'[r]],
         "requestStart" \notin E \cup error'[r],
         E # {} => error'[r] \subseteq E,
         E = {} /\ error'[r] # {} => response[r] = "onError"
  PROVE  ErrorInv'
<1>1. /\ pc' = [pc EXCEPT ![r] = "end"] /\ thrown' = [thrown EXCEPT ![r] = E]
      /\ ends' = ends /\ outcome' = outcome
  BY DEF Leave
<1>2. \A q \in Requests \ {r} : Same(q)
  BY <1>1 DEF Same, TypeOK
<1>3. ErrorOf(r)'
  <2>1. pc'[r] = "end" /\ thrown'[r] = E /\ ends'[r] = 0 /\ outcome'[r].kind = "pending"
    BY <1>1 DEF TypeOK, ErrorInv, ErrorOf, Unsettled
  <2>2. NoStart(r)'
    BY <2>1 DEF ErrorInv, ErrorOf, NoStart
  <2> QED BY <2>1, <2>2 DEF ErrorOf
<1> QED BY <1>2, <1>3, ErrorStep

(* The catch: a durable execution throws the error, any other one starts    *)
(* its onError stack with the response and the early response reset.        *)
LEMMA FailError ==
  ASSUME TypeOK, ErrorInv, NEW r \in Requests, NEW E, Fail(r, E),
         pc[r] \notin {"end", "done"}, "requestStart" \notin E, E # {},
         UNCHANGED <<handler, race, aborted>>
  PROVE  ErrorInv'
<1>1. /\ response' = [response EXCEPT ![r] = "undefined"]
      /\ early' = [early EXCEPT ![r] = "absent"] /\ error' = [error EXCEPT ![r] = E]
  BY DEF Fail, Catch
<1>2. CASE host[r] \in Durable
  <2>1. /\ pc' = [pc EXCEPT ![r] = "end"] /\ thrown' = [thrown EXCEPT ![r] = E]
        /\ ends' = ends /\ outcome' = outcome
    BY <1>2 DEF Fail, Leave
  <2>2. \A q \in Requests \ {r} : Same(q)
    BY <1>1, <2>1 DEF Same, TypeOK
  <2>3. /\ pc'[r] = "end" /\ thrown'[r] = E /\ error'[r] = E
        /\ ends'[r] = 0 /\ outcome'[r].kind = "pending" /\ race'[r] = race[r]
    BY <1>1, <2>1 DEF TypeOK, ErrorInv, ErrorOf, Unsettled
  <2>4. ErrorOf(r)'
    BY <2>3 DEF ErrorInv, ErrorOf, NoStart
  <2> QED BY <2>2, <2>4, ErrorStep
<1>3. CASE host[r] \notin Durable
  <2>1. pc' = [pc EXCEPT ![r] = "onError"] /\ UNCHANGED endVars
    BY <1>3 DEF Fail
  <2>2. \A q \in Requests \ {r} : Same(q)
    BY <1>1, <2>1 DEF Same, TypeOK, endVars
  <2>3. /\ pc'[r] = "onError" /\ error'[r] = E /\ response'[r] = "undefined"
        /\ early'[r] = "absent" /\ race'[r] = race[r] /\ Unsettled(r)' /\ thrown'[r] = thrown[r]
    BY <1>1, <2>1 DEF TypeOK, ErrorInv, ErrorOf, Unsettled, endVars
  <2>4. ErrorOf(r)'
    BY <2>3 DEF ErrorInv, ErrorOf, NoStart, Unsettled
  <2> QED BY <2>2, <2>4, ErrorStep
<1> QED BY <1>2, <1>3

LEMMA SettlementErrors ==
  \A s \in HandlerSettlements("handler") \cup HandlerSettlements("listener")
            \cup TimeoutSettlements : s \in Settlements /\ "requestStart" \notin s.error
<1>1. \A s \in HandlerSettlements("handler") \cup HandlerSettlements("listener")
               \cup TimeoutSettlements : s.error \in {{}, {"handler"}, {"timeout"}}
  BY DEF HandlerSettlements, TimeoutSettlements
<1> QED BY <1>1, SettlementTypes

(* While its handler is awaited a call has no error: either settlement of   *)
(* the race, at whatever time it comes, leaves ErrorInv alone.              *)
LEMMA DecideError ==
  ASSUME TypeOK, ErrorInv, NEW r \in Requests, NEW s \in Settlements,
         "requestStart" \notin s.error, Decide(r, s),
         UNCHANGED <<requestVars, endVars>>
  PROVE  ErrorInv'
<1> USE DEF requestVars, endVars
<1>1. \A q \in Requests \ {r} : Same(q)
  BY DEF Decide, Same, TypeOK
<1>2. CASE pc[r] = "handler"
  <2>1. pc'[r] = "resumed" /\ race'[r] = s /\ error[r] = {} /\ Unsettled(r)
    BY <1>2 DEF Decide, TypeOK, ErrorInv, ErrorOf
  <2>2. ErrorOf(r)'
    BY <2>1 DEF ErrorInv, ErrorOf, NoStart, Unsettled
  <2> QED BY <1>1, <2>2, ErrorStep
<1>3. CASE pc[r] # "handler"
  BY <1>3, SameError DEF Decide, Same, ErrorInv
<1> QED BY <1>2, <1>3

LEMMA MiddlewareError ==
  ASSUME TypeOK, ErrorInv, NEW r \in Requests,
         AssignResponse(r) \/ AssignEarlyResponse(r) \/ OverrideError(r)
           \/ MiddlewarePasses(r) \/ MiddlewareAnswers(r)
  PROVE  ErrorInv'
<1> USE DEF endVars, handlerVars
<1>1. /\ UNCHANGED <<pc, race, endVars>> /\ pc[r] \in Stacks
      /\ response'[r] \in {response[r], pc[r], early[r]}
      /\ response'[r] = "absent" => response[r] = "absent"
      /\ early'[r] \in {early[r], pc[r], "undefined"}
      /\ error'[r] = error[r] \/ (pc[r] = "onError" /\ error'[r] = {"override"})
  <2>1. CASE AssignResponse(r) \/ AssignEarlyResponse(r) \/ OverrideError(r)
    BY <2>1, Tags DEF AssignResponse, AssignEarlyResponse, OverrideError, InMiddleware,
                Values, Stacks, TypeOK
  <2>2. CASE MiddlewarePasses(r)
    BY <2>2 DEF MiddlewarePasses, InMiddleware, requestVars
  <2>3. CASE MiddlewareAnswers(r)
    BY <2>3 DEF MiddlewareAnswers, InMiddleware, Stacks, TypeOK
  <2> QED BY <2>1, <2>2, <2>3
<1>2. \A q \in Requests \ {r} : Same(q)
  BY DEF AssignResponse, AssignEarlyResponse, OverrideError, MiddlewarePasses,
         MiddlewareAnswers, TypeOK, Same, requestVars
<1>3. pc[r] \notin {"end", "done", "idle", "handler", "resumed"} /\ Unsettled(r) /\ NoStart(r)
  BY <1>1 DEF Stacks, ErrorInv, ErrorOf
<1>4. ErrorOf(r)'
  BY <1>1, <1>3 DEF ErrorInv, ErrorOf, NoStart, Unsettled
<1> QED BY <1>2, <1>4, ErrorStep

LEMMA EndError ==
  ASSUME TypeOK, ErrorInv, NEW r \in Requests, RequestEnd(r) \/ RequestEndThrows(r)
  PROVE  ErrorInv'
<1> USE DEF requestVars, handlerVars
<1>1. /\ pc[r] = "end" /\ pc' = [pc EXCEPT ![r] = "done"]
      /\ ends' = [ends EXCEPT ![r] = @ + 1]
      /\ outcome' = [outcome EXCEPT ![r] = outcome'[r]]
      /\ UNCHANGED <<requestVars, race, thrown>>
  BY DEF RequestEnd, RequestEndThrows, TypeOK
<1>2. \A q \in Requests \ {r} : Same(q)
  BY <1>1 DEF Same, TypeOK
<1>3. /\ pc'[r] = "done" /\ ends'[r] = 1 /\ thrown'[r] = thrown[r]
      /\ error'[r] = error[r] /\ response'[r] = response[r] /\ race'[r] = race[r]
  BY <1>1 DEF TypeOK, ErrorInv, ErrorOf
<1>4. \/ outcome'[r] = Settlement(r)
      \/ outcome'[r] = Rejected(thrown[r] \cup {"requestEnd"})
  BY DEF RequestEnd, RequestEndThrows, TypeOK
<1>5. /\ outcome'[r] # Rejected({"requestStart"})
      /\ thrown[r] \subseteq outcome'[r].error
      /\ outcome'[r].kind = "resolved" => thrown[r] = {} /\ outcome'[r].value = response[r]
  <2>1. "requestStart" \notin thrown[r]
    BY DEF ErrorInv, ErrorOf, NoStart
  <2> QED BY <1>4, <2>1 DEF Settlement, Resolved, Rejected
<1>6. ErrorOf(r)'
  BY <1>1, <1>3, <1>5 DEF ErrorInv, ErrorOf, NoStart
<1> QED BY <1>2, <1>6, ErrorStep

LEMMA StartError ==
  ASSUME TypeOK, ErrorInv, NEW r \in Requests, NEW c \in Objects,
         Start(r, c) \/ RequestStartThrows(r, c)
  PROVE  ErrorInv'
<1> USE DEF requestVars, handlerVars, endVars
<1>1. \A q \in Requests \ {r} : Same(q)
  BY DEF Start, RequestStartThrows, Same, TypeOK
<1>2. pc[r] = "idle" /\ Unsettled(r) /\ error[r] = {} /\ NoStart(r)
  BY DEF Start, RequestStartThrows, ErrorInv, ErrorOf
<1>3. CASE Start(r, c)
  <2>1. pc'[r] = "before" /\ UNCHANGED <<requestVars, race, endVars>>
    BY <1>3 DEF Start, TypeOK
  <2>2. ErrorOf(r)'
    BY <1>2, <2>1 DEF ErrorOf, NoStart, Unsettled
  <2> QED BY <1>1, <2>2, ErrorStep
<1>4. CASE RequestStartThrows(r, c)
  <2>1. /\ pc'[r] = "done" /\ outcome'[r] = Rejected({"requestStart"})
        /\ UNCHANGED <<requestVars, race, thrown, ends>>
    BY <1>4 DEF RequestStartThrows, TypeOK
  <2>2. ErrorOf(r)'
    BY <1>2, <2>1 DEF ErrorOf, NoStart, Unsettled, Rejected
  <2> QED BY <1>1, <2>2, ErrorStep
<1> QED BY <1>3, <1>4

LEMMA ErrorNext == TypeOK /\ ErrorInv /\ [Next]_vars => ErrorInv'
<1> SUFFICES ASSUME TypeOK, ErrorInv, [Next]_vars PROVE ErrorInv'
  OBVIOUS
<1> USE DEF requestVars, handlerVars, endVars
<1>1. CASE UNCHANGED vars
  BY <1>1, SameError DEF vars, Same, ErrorInv
<1>2. ASSUME NEW r \in Requests, User(r) PROVE ErrorInv'
  <2>1. CASE HandlerSettles(r)
    BY <2>1, SettlementErrors, DecideError DEF HandlerSettles
  <2> QED BY <1>2, <2>1, StartError, MiddlewareError DEF User
<1>3. ASSUME NEW r \in Requests, Stack(r) PROVE ErrorInv'
  <2>1. CASE MiddlewareThrows(r)
    <3>1. pc[r] \in {"before", "after"} /\ Fail(r, {pc[r]})
      BY <2>1 DEF MiddlewareThrows, InMiddleware, Stacks
    <3> QED BY <2>1, <3>1, FailError DEF MiddlewareThrows
  <2>2. CASE OnErrorThrows(r)
    <3>1. PICK E \in {error[r], error[r] \cup {"onError"}} :
            error' = [error EXCEPT ![r] = E] /\ Leave(r, E)
      BY <2>2 DEF OnErrorThrows
    <3>2. pc[r] = "onError" /\ UNCHANGED <<response, early, race>> /\ error'[r] = E
      BY <2>2, <3>1 DEF OnErrorThrows, TypeOK
    <3>3. "requestStart" \notin E
      BY <3>1 DEF ErrorInv, ErrorOf, NoStart
    <3> QED BY <3>1, <3>2, <3>3, LeaveError
  <2> QED BY <1>3, <2>1, <2>2, MiddlewareError DEF Stack
<1>4. ASSUME NEW r \in Requests, Engine(r) PROVE ErrorInv'
  <2>1. CASE SkipHandler(r) \/ AfterEnds(r)
    <3>1. /\ pc[r] \in {"before", "after"} /\ Leave(r, {})
          /\ UNCHANGED <<response, early, error, race>>
      BY <2>1 DEF SkipHandler, AfterEnds, LoopEnded
    <3>2. error[r] = {} /\ error' = [error EXCEPT ![r] = error'[r]]
      BY <3>1 DEF ErrorInv, ErrorOf, TypeOK
    <3> QED BY <3>1, <3>2, LeaveError
  <2>2. CASE OnErrorEnds(r)
    <3> DEFINE E == IF response[r] = "undefined" THEN error[r] ELSE {}
    <3>1. /\ pc[r] = "onError" /\ Leave(r, E)
          /\ UNCHANGED <<response, early, error, race>>
      BY <2>2 DEF OnErrorEnds, LoopEnded
    <3>2. /\ response[r] \in {"undefined", "onError"} /\ "requestStart" \notin error[r]
          /\ error' = [error EXCEPT ![r] = error'[r]] /\ error'[r] = error[r]
      BY <3>1 DEF ErrorInv, ErrorOf, NoStart, TypeOK
    <3> QED BY <3>1, <3>2, LeaveError
  <2>3. CASE HandlerThrows(r)
    <3>1. pc[r] = "before" /\ \E o \in {"hook", "handler"} : Fail(r, {o})
      BY <2>3 DEF HandlerThrows, LoopEnded
    <3> QED BY <2>3, <3>1, FailError DEF HandlerThrows
  <2>4. CASE HandlerReturns(r)
    <3>1. PICK v \in {"undefined", "handler"} :
            race' = [race EXCEPT ![r] = [by |-> "handler", value |-> v, error |-> {}]]
      BY <2>4 DEF HandlerReturns
    <3>2. /\ pc[r] = "before" /\ pc' = [pc EXCEPT ![r] = "resumed"]
          /\ UNCHANGED <<requestVars, endVars>>
      BY <2>4 DEF HandlerReturns, LoopEnded
    <3>3. \A q \in Requests \ {r} : Same(q)
      BY <3>1, <3>2 DEF Same, TypeOK
    <3>4. pc'[r] = "resumed" /\ race'[r].error = {}
      BY <3>1, <3>2 DEF TypeOK
    <3>5. ErrorOf(r)'
      BY <3>2, <3>4 DEF ErrorInv, ErrorOf, NoStart, Unsettled
    <3> QED BY <3>3, <3>5, ErrorStep
  <2>5. CASE HandlerPends(r)
    <3>1. /\ pc[r] = "before" /\ pc' = [pc EXCEPT ![r] = "handler"]
          /\ UNCHANGED <<requestVars, race, endVars>>
      BY <2>5 DEF HandlerPends, LoopEnded
    <3>2. \A q \in Requests \ {r} : Same(q)
      BY <3>1 DEF Same, TypeOK
    <3>3. ErrorOf(r)'
      BY <3>1 DEF ErrorInv, ErrorOf, NoStart, Unsettled, TypeOK
    <3> QED BY <3>2, <3>3, ErrorStep
  <2>6. CASE Resume(r)
    <3>1. /\ pc[r] = "resumed" /\ pc' = [pc EXCEPT ![r] = "after"]
          /\ response' = [response EXCEPT ![r] = race[r].value]
          /\ UNCHANGED <<early, error, race, endVars>>
      BY <2>6 DEF Resume
    <3>2. \A q \in Requests \ {r} : Same(q)
      BY <3>1 DEF Same, TypeOK
    <3>3. ErrorOf(r)'
      BY <3>1 DEF ErrorInv, ErrorOf, NoStart, Unsettled, TypeOK
    <3> QED BY <3>2, <3>3, ErrorStep
  <2>7. CASE ResumeFails(r)
    <3> DEFINE E == IF race[r].error = {} THEN {"hook"} ELSE race[r].error
    <3>1. pc[r] = "resumed" /\ Fail(r, E) /\ E # {} /\ UNCHANGED <<handler, race, aborted>>
      BY <2>7 DEF ResumeFails
    <3>2. "requestStart" \notin E
      BY DEF ErrorInv, ErrorOf, NoStart
    <3> QED BY <3>1, <3>2, FailError
  <2> QED BY <1>4, <2>1, <2>2, <2>3, <2>4, <2>5, <2>6, <2>7, EndError DEF Engine
<1>5. ASSUME NEW r \in Requests, TimerFires(r) PROVE ErrorInv'
  BY <1>5, SettlementErrors, DecideError DEF TimerFires
<1> QED BY <1>1, <1>2, <1>3, <1>4, <1>5 DEF Next

LEMMA ErrorInit == Init => ErrorInv
<1> SUFFICES ASSUME Init, NEW r \in Requests PROVE ErrorOf(r)
  BY DEF ErrorInv
<1>1. /\ pc[r] = "idle" /\ error[r] = {} /\ thrown[r] = {} /\ ends[r] = 0
      /\ race[r] = Undecided /\ outcome[r] = Pending
  BY DEF Init
<1> QED BY <1>1 DEF ErrorOf, NoStart, Unsettled, Undecided, Pending

LEMMA ErrorFacts ==
  TypeOK /\ ErrorInv => ErrorNotLost /\ FailedNeverAnswersStale /\ RequestEndOnce
<1> SUFFICES ASSUME TypeOK, ErrorInv, NEW r \in Requests
             PROVE  /\ thrown[r] # {} => error[r] \subseteq thrown[r]
                    /\ pc[r] = "done" => thrown[r] \subseteq outcome[r].error
                    /\ outcome[r].kind = "resolved" /\ error[r] # {} => outcome[r].value = "onError"
                    /\ pc[r] # "done" => ends[r] = 0
                    /\ pc[r] = "done" => ends[r] = IF outcome[r] = Rejected({"requestStart"}) THEN 0 ELSE 1
  BY DEF ErrorNotLost, FailedNeverAnswersStale, RequestEndOnce
<1> QED BY DEF ErrorInv, ErrorOf, Unsettled

(* Nothing that fails later, in an onError middleware or in requestEnd,     *)
(* hides the error of the request from the caller.                          *)
THEOREM ErrorsAreReported == Spec => []ErrorNotLost
BY ErrorFacts, TypeInit, TypeNext, ErrorInit, ErrorNext, PTL DEF Spec

(* A call that failed answers only with a response of its onError stack,    *)
(* whatever the stacks, the handler and the timeout had left behind.        *)
THEOREM StaleAnswersAreDropped == Spec => []FailedNeverAnswersStale
BY ErrorFacts, TypeInit, TypeNext, ErrorInit, ErrorNext, PTL DEF Spec

(* requestEnd runs once for every settled call that got past requestStart,  *)
(* and for no other.                                                        *)
THEOREM RequestEndRunsOnce == Spec => []RequestEndOnce
BY ErrorFacts, TypeInit, TypeNext, ErrorInit, ErrorNext, PTL DEF Spec

----------------------------------------------------------------------------
(***************************************************************************)
(* The engine implements module Invocation.  Below, cphase, cscope and      *)
(* cresult are what the refinement mapping gives phase, scope and result.   *)
(***************************************************************************)
cphase == [r \in Requests |-> AbstractPhase(r)]
cscope == [r \in Requests |-> IF Running(r) THEN ns[ctx[r]] ELSE None]
cresult == [r \in Requests |-> AbstractResult(r)]

\* The contract sees nothing of call q change.
Hidden(q) ==
  /\ AbstractPhase(q)' = AbstractPhase(q)
  /\ AbstractResult(q)' = AbstractResult(q)
  /\ Running(q)' <=> Running(q)

LEMMA ScopeIsOwn ==
  ContextInv => cscope = [r \in Requests |-> IF Running(r) THEN r ELSE None]
BY DEF ContextInv, MarkTracksRun, cscope

(* A step of call r alone changes the contract's state at r alone.          *)
LEMMA AbstractStep ==
  ASSUME ContextInv, ContextInv', NEW r \in Requests, \A q \in Requests \ {r} : Hidden(q)
  PROVE  /\ cphase' = [cphase EXCEPT ![r] = AbstractPhase(r)']
         /\ cscope' = [cscope EXCEPT ![r] = IF Running(r)' THEN r ELSE None]
         /\ cresult' = [cresult EXCEPT ![r] = AbstractResult(r)']
<1>1. cscope' = [q \in Requests |-> IF Running(q)' THEN q ELSE None]
  BY ScopeIsOwn DEF ContextInv, MarkTracksRun, cscope
<1>2. cscope' = [cscope EXCEPT ![r] = IF Running(r)' THEN r ELSE None]
  BY <1>1, ScopeIsOwn DEF Hidden
<1>3. cphase' = [cphase EXCEPT ![r] = AbstractPhase(r)']
  BY DEF Hidden, cphase
<1>4. cresult' = [cresult EXCEPT ![r] = AbstractResult(r)']
  BY DEF Hidden, cresult
<1> QED BY <1>2, <1>3, <1>4

LEMMA AbstractStutter ==
  ASSUME ContextInv, ContextInv', \A q \in Requests : Hidden(q)
  PROVE  UNCHANGED Contract!vars
<1>1. cscope' = [q \in Requests |-> IF Running(q)' THEN q ELSE None]
  BY ScopeIsOwn DEF ContextInv, MarkTracksRun, cscope
<1>2. cscope' = cscope
  BY <1>1, ScopeIsOwn DEF Hidden
<1>3. cphase' = cphase /\ cresult' = cresult
  BY DEF Hidden, cphase, cresult
<1> QED BY <1>2, <1>3 DEF Contract!vars, cphase, cscope, cresult

(* A call whose step stays within its stacks and its handler is still open, *)
(* and one that takes no step looks the same.                               *)
LEMMA StaysHidden ==
  ASSUME TypeOK, NEW q \in Requests,
         \/ Running(q) /\ Running(q)' /\ outcome'[q] = outcome[q]
         \/ /\ pc'[q] = pc[q] /\ outcome'[q] = outcome[q]
            /\ response'[q] = response[q] /\ thrown'[q] = thrown[q]
  PROVE  Hidden(q)
<1>1. CASE Running(q) /\ Running(q)' /\ outcome'[q] = outcome[q]
  BY <1>1 DEF Hidden, AbstractPhase, AbstractResult, Running, Stacks
<1>2. CASE /\ pc'[q] = pc[q] /\ outcome'[q] = outcome[q]
           /\ response'[q] = response[q] /\ thrown'[q] = thrown[q]
  BY <1>2 DEF Hidden, AbstractPhase, AbstractResult, Running, Settlement
<1> QED BY <1>1, <1>2

(* Leaving runRequest commits what it returns or throws.                    *)
LEMMA LeaveCommits ==
  ASSUME TypeOK, TypeOK', ContextInv, ContextInv', NEW r \in Requests, NEW E,
         Leave(r, E), Running(r), \A q \in Requests \ {r} : response'[q] = response[q]
  PROVE  Contract!Commit(r)
<1>1. /\ pc' = [pc EXCEPT ![r] = "end"] /\ thrown' = [thrown EXCEPT ![r] = E]
      /\ outcome' = outcome
  BY DEF Leave
<1>2. \A q \in Requests \ {r} : Hidden(q)
  BY <1>1, StaysHidden DEF TypeOK
<1>3. pc'[r] = "end" /\ ~Running(r)' /\ AbstractPhase(r)' = "committed"
  BY <1>1 DEF TypeOK, Running, Stacks, AbstractPhase
<1>4. AbstractPhase(r) = "open"
  BY DEF AbstractPhase, Running, Stacks
<1>5. AbstractResult(r)' \in Contract!Results
  <2>1. response'[r] \in Values /\ thrown'[r] \in SUBSET Origins
    BY DEF TypeOK
  <2>2. AbstractResult(r)' = IF thrown'[r] = {} THEN Contract!Answered(response'[r])
                                                ELSE Contract!Failed(thrown'[r])
    BY <1>3 DEF AbstractResult, Settlement, Resolved, Rejected, Contract!Answered, Contract!Failed
  <2> QED BY <2>1, <2>2 DEF Contract!Results
<1>6. /\ cphase' = [cphase EXCEPT ![r] = "committed"]
      /\ cscope' = [cscope EXCEPT ![r] = None]
      /\ cresult' = [cresult EXCEPT ![r] = AbstractResult(r)']
  BY <1>2, <1>3, AbstractStep
<1> QED BY <1>4, <1>5, <1>6 DEF Contract!Commit, cphase, cscope, cresult

(* A step that keeps call r open, and every other call where it is.         *)
LEMMA InsideStutters ==
  ASSUME TypeOK, ContextInv, ContextInv', NEW r \in Requests, Running(r), Running(r)',
         UNCHANGED outcome,
         \A q \in Requests \ {r} : /\ pc'[q] = pc[q] /\ response'[q] = response[q]
                                   /\ thrown'[q] = thrown[q]
  PROVE  UNCHANGED Contract!vars
BY StaysHidden, AbstractStutter

LEMMA FailCommits ==
  ASSUME TypeOK, TypeOK', ContextInv, ContextInv', NEW r \in Requests, NEW E,
         Fail(r, E), Running(r)
  PROVE  Contract!Commit(r) \/ UNCHANGED Contract!vars
<1>1. response' = [response EXCEPT ![r] = "undefined"]
  BY DEF Fail, Catch
<1>2. CASE host[r] \in Durable
  BY <1>1, <1>2, LeaveCommits DEF Fail, TypeOK
<1>3. CASE host[r] \notin Durable
  <2>1. pc' = [pc EXCEPT ![r] = "onError"] /\ UNCHANGED <<outcome, thrown>>
    BY <1>3 DEF Fail, endVars
  <2>2. Running(r)'
    BY <2>1 DEF Running, Stacks, TypeOK
  <2> QED BY <1>1, <2>1, <2>2, InsideStutters DEF TypeOK
<1> QED BY <1>2, <1>3

LEMMA StartOpens ==
  ASSUME TypeOK, ContextInv, ContextInv', NEW r \in Requests, NEW c \in Objects, Start(r, c)
  PROVE  Contract!Open(r)
<1>1. /\ pc[r] = "idle" /\ pc' = [pc EXCEPT ![r] = "before"]
      /\ UNCHANGED <<outcome, response, thrown>>
  BY DEF Start, requestVars, endVars
<1>2. \A q \in Requests \ {r} : Hidden(q)
  BY <1>1, StaysHidden DEF TypeOK
<1>3. /\ AbstractPhase(r) = "idle" /\ AbstractPhase(r)' = "open" /\ Running(r)'
      /\ AbstractResult(r)' = AbstractResult(r)
  BY <1>1 DEF TypeOK, AbstractPhase, AbstractResult, Running, Stacks
<1>4. /\ cphase' = [cphase EXCEPT ![r] = "open"]
      /\ cscope' = [cscope EXCEPT ![r] = r]
      /\ cresult' = [cresult EXCEPT ![r] = AbstractResult(r)]
  BY <1>2, <1>3, AbstractStep
<1>5. cresult' = cresult
  BY <1>4 DEF cresult
<1> QED BY <1>3, <1>4, <1>5 DEF Contract!Open, cphase, cscope, cresult

LEMMA RequestStartRefuses ==
  ASSUME TypeOK, ContextInv, ContextInv', NEW r \in Requests, NEW c \in Objects,
         RequestStartThrows(r, c)
  PROVE  Contract!Refuse(r)
<1>1. /\ pc[r] = "idle" /\ pc' = [pc EXCEPT ![r] = "done"]
      /\ outcome' = [outcome EXCEPT ![r] = Rejected({"requestStart"})]
      /\ UNCHANGED <<response, thrown>>
  BY DEF RequestStartThrows, requestVars
<1>2. \A q \in Requests \ {r} : Hidden(q)
  BY <1>1, StaysHidden DEF TypeOK
<1>3. /\ AbstractPhase(r) = "idle" /\ AbstractPhase(r)' = "closed" /\ ~Running(r) /\ ~Running(r)'
      /\ AbstractResult(r)' = Contract!Failed({"requestStart"})
  BY <1>1 DEF TypeOK, AbstractPhase, AbstractResult, Running, Stacks, Rejected, Contract!Failed
<1>4. /\ Contract!Failed({"requestStart"}) \in Contract!Results
      /\ Contract!Failed({"requestStart"}).errors # {}
  BY Tags DEF Contract!Results, Contract!Failed
<1>5. /\ cphase' = [cphase EXCEPT ![r] = "closed"]
      /\ cscope' = [cscope EXCEPT ![r] = None]
      /\ cresult' = [cresult EXCEPT ![r] = AbstractResult(r)']
  BY <1>2, <1>3, AbstractStep
<1>6. cscope' = cscope
  BY <1>3, <1>5 DEF cscope
<1> QED BY <1>3, <1>4, <1>5, <1>6 DEF Contract!Refuse, cphase, cscope, cresult

LEMMA RequestEndCloses ==
  ASSUME TypeOK, ContextInv, ContextInv', NEW r \in Requests,
         RequestEnd(r) \/ RequestEndThrows(r)
  PROVE  Contract!Close(r)
<1>1. /\ pc[r] = "end" /\ pc' = [pc EXCEPT ![r] = "done"]
      /\ outcome' = [outcome EXCEPT ![r] = outcome'[r]]
      /\ UNCHANGED <<response, thrown>>
  BY DEF RequestEnd, RequestEndThrows, requestVars, TypeOK
<1>2. \A q \in Requests \ {r} : Hidden(q)
  BY <1>1, StaysHidden DEF TypeOK
<1>3. /\ AbstractPhase(r) = "committed" /\ AbstractPhase(r)' = "closed"
      /\ ~Running(r) /\ ~Running(r)'
  BY <1>1 DEF TypeOK, AbstractPhase, Running, Stacks
<1>4. \/ AbstractResult(r)' = AbstractResult(r)
      \/ AbstractResult(r)' = Contract!Failed(AbstractResult(r).errors \cup {"requestEnd"})
  <2>1. CASE RequestEnd(r)
    BY <1>1, <2>1 DEF RequestEnd, AbstractResult, TypeOK
  <2>2. CASE RequestEndThrows(r)
    BY <1>1, <2>2
       DEF RequestEndThrows, AbstractResult, Settlement, Resolved, Rejected, TypeOK, Contract!Failed
  <2> QED BY <2>1, <2>2
<1>5. /\ cphase' = [cphase EXCEPT ![r] = "closed"]
      /\ cscope' = [cscope EXCEPT ![r] = None]
      /\ cresult' = [cresult EXCEPT ![r] = AbstractResult(r)']
  BY <1>2, <1>3, AbstractStep
<1>6. cscope' = cscope
  BY <1>3, <1>5 DEF cscope
<1>7. cresult' = cresult \/ \E e \in Origins :
        cresult' = [cresult EXCEPT ![r] = Contract!Failed(@.errors \cup {e})]
  BY <1>4, <1>5, Tags DEF cresult
<1> QED BY <1>3, <1>5, <1>6, <1>7 DEF Contract!Close, cphase, cscope, cresult

LEMMA ContractNext ==
  TypeOK /\ TypeOK' /\ ContextInv /\ ContextInv' /\ [Next]_vars => [Contract!Next]_(Contract!vars)
<1> SUFFICES ASSUME TypeOK, TypeOK', ContextInv, ContextInv', [Next]_vars
             PROVE  Contract!Next \/ UNCHANGED Contract!vars
  OBVIOUS
<1> USE DEF requestVars, handlerVars, endVars
<1>1. CASE UNCHANGED vars
  BY <1>1, StaysHidden, AbstractStutter DEF vars
<1>2. ASSUME NEW r \in Requests,
             AssignResponse(r) \/ AssignEarlyResponse(r) \/ OverrideError(r)
               \/ MiddlewarePasses(r) \/ MiddlewareAnswers(r)
      PROVE  UNCHANGED Contract!vars
  <2>1. /\ UNCHANGED <<pc, outcome, thrown>> /\ pc[r] \in Stacks
        /\ \A q \in Requests \ {r} : response'[q] = response[q]
    BY <1>2 DEF AssignResponse, AssignEarlyResponse, OverrideError, MiddlewarePasses,
                MiddlewareAnswers, InMiddleware, TypeOK
  <2> QED BY <2>1, InsideStutters DEF Running
<1>3. ASSUME NEW r \in Requests, HandlerSettles(r) \/ TimerFires(r)
      PROVE  UNCHANGED Contract!vars
  <2>1. UNCHANGED <<outcome, response, thrown>> /\ \E s : Decide(r, s)
    BY <1>3 DEF HandlerSettles, TimerFires
  <2>2. CASE pc[r] = "handler"
    <3>1. pc' = [pc EXCEPT ![r] = "resumed"]
      BY <2>1, <2>2 DEF Decide
    <3> QED BY <2>1, <2>2, <3>1, InsideStutters DEF Running, TypeOK
  <2>3. CASE pc[r] # "handler"
    BY <2>1, <2>3, StaysHidden, AbstractStutter DEF Decide
  <2> QED BY <2>2, <2>3
<1>4. ASSUME NEW r \in Requests,
             MiddlewareThrows(r) \/ HandlerThrows(r) \/ ResumeFails(r)
      PROVE  Contract!Commit(r) \/ UNCHANGED Contract!vars
  <2>1. Running(r) /\ \E E : Fail(r, E)
    BY <1>4 DEF MiddlewareThrows, HandlerThrows, ResumeFails, InMiddleware, LoopEnded,
                Running, Stacks
  <2> QED BY <2>1, FailCommits
<1>5. ASSUME NEW r \in Requests,
             OnErrorThrows(r) \/ SkipHandler(r) \/ AfterEnds(r) \/ OnErrorEnds(r)
      PROVE  Contract!Commit(r)
  <2>1. Running(r) /\ UNCHANGED response /\ \E E : Leave(r, E)
    BY <1>5 DEF OnErrorThrows, SkipHandler, AfterEnds, OnErrorEnds, InMiddleware,
                LoopEnded, Running, Stacks
  <2> QED BY <2>1, LeaveCommits
<1>6. ASSUME NEW r \in Requests, HandlerReturns(r) \/ HandlerPends(r) \/ Resume(r)
      PROVE  UNCHANGED Contract!vars
  <2>1. /\ Running(r) /\ \E p \in {"resumed", "handler", "after"} : pc' = [pc EXCEPT ![r] = p]
        /\ UNCHANGED <<outcome, thrown>>
        /\ \A q \in Requests \ {r} : response'[q] = response[q]
    BY <1>6 DEF HandlerReturns, HandlerPends, Resume, LoopEnded, Running, Stacks, TypeOK
  <2>2. Running(r)' /\ \A q \in Requests \ {r} : pc'[q] = pc[q]
    BY <2>1 DEF Running, Stacks, TypeOK
  <2> QED BY <2>1, <2>2, InsideStutters
<1> QED
  BY <1>1, <1>2, <1>3, <1>4, <1>5, <1>6, StartOpens, RequestStartRefuses, RequestEndCloses
  DEF Next, User, Stack, Engine, Contract!Next

LEMMA ContractInit == Init => Contract!Init
<1> SUFFICES ASSUME Init PROVE Contract!Init
  OBVIOUS
<1>1. \A r \in Requests : /\ AbstractPhase(r) = "idle" /\ ~Running(r)
                          /\ AbstractResult(r) = Contract!NoResult
  BY DEF Init, AbstractPhase, AbstractResult, Running, Stacks, Pending, Contract!NoResult
<1> QED BY <1>1 DEF Contract!Init

(* The engine implements the contract of a call: each one opens its scope,  *)
(* commits one result and closes, and no other step changes what it shows.  *)
THEOREM Refinement == Spec => ImplementsContract
BY TypeInit, TypeNext, ContextInit, ContextNext, ContractInit, ContractNext, PTL
   DEF Spec, ImplementsContract, Contract!Spec

----------------------------------------------------------------------------
(* The response of a streamified handler (@middy/core, executionModeStreamifyResponse). *)
CONSTANTS Chunks, HighWaterMark
VARIABLES call, body, position, stream, buffer, needDrain, flushed, committed, errors, thrownErrors
streamify == INSTANCE StreamResponse WITH thrown <- thrownErrors

\* The stream holds what was written to it and not flushed; a destroyed one loses some.
Written ==
  /\ position <= streamify!Length /\ flushed + buffer <= position
  /\ stream # "destroyed" => flushed + buffer = position
\* What is known of the call at each step.
Requesting == call = "runRequest" => position = 0 /\ committed = FALSE /\ errors = {}
Writing == call \in {"write", "drain"} => body # "other" /\ position < streamify!Length /\ errors = {}
Ending == call \in {"end", "finished"} => position = streamify!Length /\ errors = {}
\* It has all been flushed if nothing has failed.
Flushed == call \in {"requestEnd", "settled"} /\ errors = {} => flushed = streamify!Length
Thrown == (call # "settled" => thrownErrors = {}) /\ (call = "settled" => thrownErrors = errors)
Uncommitted == "response" \in errors => committed = FALSE
StreamInv == streamify!TypeOK /\ Written /\ Requesting /\ Writing /\ Ending /\ Flushed /\ Thrown /\ Uncommitted

\* A response has a chunk at least.
LEMMA LengthIs == ASSUME Chunks \in Nat \ {0} PROVE streamify!Length \in 1..Chunks
BY DEF streamify!Length

\* Every step keeps the invariant.
LEMMA StreamSteps ==
  ASSUME Chunks \in Nat \ {0}, HighWaterMark \in Nat, StreamInv, [streamify!Next]_streamify!vars
  PROVE  StreamInv'
<1>0. streamify!Length \in 1..Chunks /\ streamify!Length' \in 1..Chunks
  BY DEF streamify!Length
<1> USE DEF StreamInv, Requesting, Writing, Ending, Flushed, Thrown, Uncommitted, Written
<1>1. ASSUME NEW b \in streamify!Bodies, NEW prelude \in BOOLEAN, streamify!RunRequest(b, prelude) PROVE StreamInv'
  <2>1. streamify!TypeOK'
    BY <1>0, <1>1 DEF streamify!RunRequest, streamify!Rejects, streamify!streamVars, streamify!TypeOK
  <2>2. Written'
    BY <1>0, <1>1 DEF streamify!RunRequest, streamify!Rejects, streamify!streamVars, streamify!TypeOK,
         streamify!Length
  <2>3. Requesting' /\ Writing' /\ Ending'
    <3>1. position' = 0 /\ body' = b /\ errors = {}
      BY <1>1 DEF streamify!RunRequest
    <3>2. call' = "requestEnd" \/ (call' = "write" /\ b # "other" /\ errors' = errors)
      BY <1>1 DEF streamify!RunRequest, streamify!Rejects
    <3> QED BY <1>0, <3>1, <3>2
  <2>4. Flushed' /\ Thrown'
    BY <1>0, <1>1 DEF streamify!RunRequest, streamify!Rejects, streamify!streamVars, streamify!TypeOK,
         streamify!Length
  <2>5. Uncommitted'
    BY <1>0, <1>1 DEF streamify!RunRequest, streamify!Rejects, streamify!streamVars, streamify!TypeOK
  <2> QED BY <2>1, <2>2, <2>3, <2>4, <2>5
<1>2. CASE streamify!RunRequestFails
  BY <1>0, <1>2 DEF streamify!RunRequestFails, streamify!Rejects, streamify!TypeOK, streamify!streamVars,
       streamify!Length
<1>3. CASE streamify!Write
  <2>0. needDrain' \in BOOLEAN
    <3>1. needDrain' = needDrain \/ needDrain' = streamify!Full
      BY <1>3 DEF streamify!Write, streamify!Push, streamify!streamVars
    <3> QED BY <3>1 DEF streamify!TypeOK, streamify!Full
  <2>1. streamify!TypeOK'
    <3>1. /\ call' \in {"end", "drain", "write"} /\ position' = position + 1 /\ position < streamify!Length
          /\ buffer' \in {buffer, buffer + 1}
          /\ UNCHANGED <<body, committed, errors, thrownErrors, stream, flushed>>
      BY <1>3 DEF streamify!Write, streamify!Push, streamify!streamVars
    <3>2. buffer \in Nat /\ flushed \in Nat /\ position \in Nat /\ streamify!Length <= Chunks
      BY <1>0 DEF streamify!TypeOK
    <3> QED BY <1>0, <2>0, <3>1, <3>2 DEF streamify!TypeOK
  <2>2. Written'
    BY <1>0, <1>3 DEF streamify!Write, streamify!Push, streamify!Full, streamify!streamVars, streamify!TypeOK,
         streamify!Length
  <2>3. Requesting' /\ Writing' /\ Ending'
    BY <1>0, <1>3 DEF streamify!Write, streamify!Push, streamify!Full, streamify!streamVars, streamify!TypeOK,
         streamify!Length
  <2>4. Flushed' /\ Thrown'
    BY <1>0, <1>3 DEF streamify!Write, streamify!Push, streamify!Full, streamify!streamVars, streamify!TypeOK,
         streamify!Length
  <2>5. Uncommitted'
    BY <1>0, <1>3 DEF streamify!Write, streamify!Push, streamify!Full, streamify!streamVars, streamify!TypeOK
  <2> QED BY <2>1, <2>2, <2>3, <2>4, <2>5
<1>4. CASE streamify!WaitForDrain
  <2>1. streamify!TypeOK'
    BY <1>0, <1>4 DEF streamify!WaitForDrain, streamify!Rejects, streamify!streamVars, streamify!TypeOK
  <2>2. Written'
    BY <1>0, <1>4 DEF streamify!WaitForDrain, streamify!Rejects, streamify!streamVars, streamify!TypeOK,
         streamify!Length
  <2>3. Requesting' /\ Writing' /\ Ending'
    BY <1>0, <1>4 DEF streamify!WaitForDrain, streamify!Rejects, streamify!streamVars, streamify!TypeOK,
         streamify!Length
  <2>4. Flushed' /\ Thrown'
    BY <1>0, <1>4 DEF streamify!WaitForDrain, streamify!Rejects, streamify!streamVars, streamify!TypeOK,
         streamify!Length
  <2>5. Uncommitted'
    BY <1>0, <1>4 DEF streamify!WaitForDrain, streamify!Rejects, streamify!streamVars, streamify!TypeOK
  <2> QED BY <2>1, <2>2, <2>3, <2>4, <2>5
<1>5. CASE streamify!EndStream
  BY <1>0, <1>5 DEF streamify!EndStream, streamify!End, streamify!TypeOK, streamify!streamVars, streamify!Length
<1>6. CASE streamify!WaitForFinish
  <2>1. streamify!TypeOK'
    BY <1>0, <1>6 DEF streamify!WaitForFinish, streamify!Rejects, streamify!Finished, streamify!streamVars,
         streamify!TypeOK
  <2>2. Written'
    BY <1>0, <1>6 DEF streamify!WaitForFinish, streamify!Rejects, streamify!Finished, streamify!streamVars,
         streamify!TypeOK, streamify!Length
  <2>3. Requesting' /\ Writing' /\ Ending'
    BY <1>0, <1>6 DEF streamify!WaitForFinish, streamify!Rejects, streamify!Finished, streamify!streamVars,
         streamify!TypeOK, streamify!Length
  <2>4. Flushed' /\ Thrown'
    BY <1>0, <1>6 DEF streamify!WaitForFinish, streamify!Rejects, streamify!Finished, streamify!streamVars,
         streamify!TypeOK, streamify!Length
  <2>5. Uncommitted'
    BY <1>0, <1>6 DEF streamify!WaitForFinish, streamify!Rejects, streamify!Finished, streamify!streamVars,
         streamify!TypeOK
  <2> QED BY <2>1, <2>2, <2>3, <2>4, <2>5
<1>7. CASE streamify!SourceFails
  BY <1>0, <1>7 DEF streamify!SourceFails, streamify!Rejects, streamify!TypeOK, streamify!streamVars,
       streamify!Length
<1>8. CASE streamify!RequestEnd
  BY <1>0, <1>8 DEF streamify!RequestEnd, streamify!Reported, streamify!TypeOK, streamify!streamVars,
       streamify!Length
<1>9. CASE streamify!Flush
  BY <1>0, <1>9 DEF streamify!Flush, streamify!TypeOK, streamify!callVars, streamify!Length
<1>10. CASE streamify!ClientGone
  BY <1>0, <1>10 DEF streamify!ClientGone, streamify!TypeOK, streamify!callVars, streamify!Length
<1>11. CASE UNCHANGED streamify!vars
  BY <1>11 DEF streamify!vars, streamify!callVars, streamify!streamVars, streamify!TypeOK, streamify!Length
<1> QED BY <1>1, <1>2, <1>3, <1>4, <1>5, <1>6, <1>7, <1>8, <1>9, <1>10, <1>11 DEF streamify!Next, streamify!Goes

\* A streamed response that fulfils is flushed to the last chunk, and one that rejects reports
\* every error, for any number of chunks and any high water mark.
THEOREM StreamsAreWhole ==
  ASSUME Chunks \in Nat \ {0}, HighWaterMark \in Nat
  PROVE streamify!Spec => [](streamify!TypeOK /\ streamify!SuccessIsWhole)
<1>1. streamify!Init => StreamInv
  <2>1. streamify!Init => committed \in BOOLEAN /\ needDrain \in BOOLEAN
    BY DEF streamify!Init
  <2>2. streamify!Init => streamify!TypeOK
    BY <2>1 DEF streamify!Init, streamify!TypeOK, streamify!Bodies
  <2> QED BY <2>2 DEF streamify!Init, StreamInv, Written, Requesting, Writing, Ending, Flushed, Thrown,
       Uncommitted, streamify!Length
<1>2. StreamInv /\ [streamify!Next]_streamify!vars => StreamInv'
  BY StreamSteps
<1>3. StreamInv => streamify!TypeOK /\ streamify!SuccessIsWhole
  BY DEF StreamInv, streamify!SuccessIsWhole, Flushed, Thrown, Uncommitted
<1> QED BY <1>1, <1>2, <1>3, PTL DEF streamify!Spec

----------------------------------------------------------------------------
(* The custom resource of @middy/cloudformation-response, in a stack with another middleware. *)
VARIABLES outer, stackPhase, handled, stackResponse, oversized, told, lost
resource == INSTANCE StackReport WITH phase <- stackPhase, response <- stackResponse

Statuses == {"other", "SUCCESS", "FAILED"}
\* Nothing has been told, or what the handler answered.
ToldNothing == told = <<>>
ToldAnswer == Len(told) = 1 /\ told[1] = handled
\* Nothing is told before the handler has ended; then what it answered is, if it can be sent.
Untold == stackPhase \in {"before", "handler"} => ToldNothing
Answered ==
  stackPhase \in {"after", "otherAfter"} =>
    /\ stackResponse \in {handled, "other"} /\ handled # "none"
    /\ outer /\ stackPhase = "otherAfter" => stackResponse = handled /\ ToldAnswer
    /\ ~(outer /\ stackPhase = "otherAfter") => ToldNothing
\* An error after that comes of a lost answer or of the other middleware.
Erring == stackPhase = "onError" => ToldNothing \/ (ToldAnswer /\ (outer \/ lost))
\* What has been told in the end: what the handler answered, an error, or one after the other.
Told ==
  /\ Len(told) <= 2
  /\ Len(told) = 1 => told[1] \in {handled, "FAILED"}
  /\ Len(told) = 2 => told[1] = handled /\ told[2] = "FAILED" /\ (outer \/ lost)
Returned == stackPhase = "returned" /\ stackResponse # "other" => told # <<>> /\ told[Len(told)] = stackResponse
StackInv == resource!TypeOK /\ Untold /\ Answered /\ Erring /\ Told /\ Returned

\* One more Status is told, the last.
LEMMA Tells ==
  ASSUME resource!TypeOK, NEW status \in Statuses, told' = Append(told, status)
  PROVE  /\ told' \in Seq(Statuses) /\ Len(told') = Len(told) + 1 /\ told'[Len(told')] = status
         /\ told' # <<>> /\ \A n \in 1..Len(told) : told'[n] = told[n]
BY DEF resource!TypeOK, Statuses

\* The after hook tells CloudFormation what the handler answered.
LEMMA AfterKeeps == ASSUME StackInv, resource!After PROVE StackInv'
<1> USE DEF StackInv
<1>1. /\ stackPhase = "after" /\ stackResponse \in {handled, "other"} /\ handled # "none" /\ told = <<>>
      /\ Len(told) = 0
      /\ UNCHANGED <<outer, handled, oversized>>
  BY DEF resource!After, Answered, ToldNothing
<1>2. handled \in Statuses \/ stackResponse = "other"
  BY <1>1 DEF resource!TypeOK, Statuses
<1>3. \/ /\ stackResponse # "other" /\ stackResponse' = stackResponse /\ told' = Append(told, handled) /\ UNCHANGED lost
         /\ stackPhase' = IF outer THEN "otherAfter" ELSE "returned"
      \/ /\ stackPhase' = "onError" /\ stackResponse' = "none"
         /\ (stackResponse # "other" /\ told' = Append(told, handled) /\ lost' = TRUE) \/ UNCHANGED <<told, lost>>
  BY <1>1 DEF resource!After, resource!Put, resource!Shaped
<1>4. told' = Append(told, handled) /\ stackResponse # "other" => ToldAnswer' /\ told' \in Seq(Statuses) /\ told' # <<>>
  BY <1>1, <1>2, Tells DEF ToldAnswer
<1>5. told' = told => ToldNothing' /\ Len(told') = 0 /\ told' \in Seq(Statuses)
  BY <1>1 DEF ToldNothing, resource!TypeOK, Statuses
<1>6. resource!TypeOK'
  <2>1. lost' \in BOOLEAN /\ outer' \in BOOLEAN /\ oversized' \in BOOLEAN
    BY <1>1, <1>3 DEF resource!TypeOK
  <2> QED BY <1>1, <1>3, <1>4, <1>5, <2>1 DEF resource!TypeOK, Statuses
<1>7. Untold' /\ Answered'
  BY <1>1, <1>3, <1>4, <1>5 DEF Untold, Answered
<1>8. Erring' /\ Told'
  <2>1. CASE told' = Append(told, handled) /\ stackResponse # "other"
    <3>1. ToldAnswer' /\ (stackPhase' = "onError" => lost')
      BY <1>3, <1>4, <2>1
    <3> QED BY <3>1 DEF Erring, Told, ToldAnswer
  <2>2. CASE told' = told
    BY <1>5, <2>2 DEF Erring, Told
  <2> QED BY <1>3, <2>1, <2>2
<1>9. Returned'
  BY <1>1, <1>3, <1>4, <1>5 DEF Returned, ToldAnswer
<1> QED BY <1>6, <1>7, <1>8, <1>9

\* The onError hook tells it of the failure.
LEMMA OnErrorKeeps == ASSUME StackInv, resource!OnError PROVE StackInv'
<1> USE DEF StackInv
<1>1. /\ stackPhase = "onError" /\ UNCHANGED <<outer, handled, oversized>> /\ stackResponse' = "FAILED"
      /\ stackPhase' \in {"returned", "rejected"}
  BY DEF resource!OnError, resource!ErrorStatus
<1>2. /\ \/ told' = Append(told, "FAILED") /\ lost' \in {lost, TRUE}
         \/ stackPhase' = "rejected" /\ UNCHANGED <<told, lost>>
      /\ stackPhase' = "returned" => told' = Append(told, "FAILED")
  BY DEF resource!OnError, resource!Put, resource!ErrorStatus
<1>3. Len(told) = 0 \/ (Len(told) = 1 /\ told[1] = handled /\ (outer \/ lost))
  BY <1>1 DEF Erring, ToldNothing, ToldAnswer
<1>4. told' = Append(told, "FAILED") => /\ told' \in Seq(Statuses) /\ Len(told') = Len(told) + 1
                                        /\ told'[Len(told')] = "FAILED" /\ told' # <<>>
                                        /\ \A n \in 1..Len(told) : told'[n] = told[n]
  BY Tells DEF Statuses
<1>5. resource!TypeOK'
  <2>1. lost' \in BOOLEAN /\ outer' \in BOOLEAN /\ oversized' \in BOOLEAN
    BY <1>1, <1>2 DEF resource!TypeOK
  <2> QED BY <1>1, <1>2, <1>4, <2>1 DEF resource!TypeOK, Statuses
<1>6. Told'
  <2>1. outer \/ lost => outer' \/ lost'
    BY <1>1, <1>2
  <2>2. CASE UNCHANGED <<told, lost>>
    BY <1>1, <2>2 DEF Told
  <2>3. CASE told' = Append(told, "FAILED")
    BY <1>1, <1>3, <1>4, <2>1, <2>3 DEF Told
  <2> QED BY <1>2, <2>2, <2>3
<1> QED BY <1>1, <1>2, <1>4, <1>5, <1>6 DEF Untold, Answered, Erring, Returned

\* Every step keeps the invariant.
LEMMA StackSteps == ASSUME StackInv, [resource!Next]_resource!vars PROVE StackInv'
<1> USE DEF StackInv, Untold, Answered, Erring, Told, Returned, ToldNothing, ToldAnswer
<1>1. CASE resource!Before
  BY <1>1 DEF resource!Before, resource!TypeOK
<1>2. CASE resource!Handler
  BY <1>2 DEF resource!Handler, resource!TypeOK
<1>3. CASE resource!OtherAfter
  BY <1>3 DEF resource!OtherAfter, resource!TypeOK
<1>4. CASE UNCHANGED resource!vars
  BY <1>4 DEF resource!vars, resource!TypeOK
<1> QED BY <1>1, <1>2, <1>3, <1>4, AfterKeeps, OnErrorKeeps DEF resource!Next

\* CloudFormation has been told what a custom resource returns, last and once, and a success only
\* when the handler made it, whatever fails: the sending, or another middleware of the stack.
THEOREM StacksAreTold == resource!Spec => [](resource!TypeOK /\ resource!StackIsTold)
<1>1. resource!Init => StackInv
  <2>1. resource!Init => oversized \in BOOLEAN /\ lost \in BOOLEAN
    BY DEF resource!Init
  <2>2. resource!Init => resource!TypeOK
    BY <2>1 DEF resource!Init, resource!TypeOK
  <2> QED BY <2>2 DEF resource!Init, StackInv, Untold, Answered, Erring, Told, Returned, ToldNothing
<1>2. StackInv /\ [resource!Next]_resource!vars => StackInv'
  BY StackSteps
<1>3. StackInv => resource!TypeOK /\ resource!StackIsTold
  <2> SUFFICES ASSUME StackInv PROVE resource!StackIsTold
    BY DEF StackInv
  <2>1. Len(told) \in 0..2 /\ DOMAIN told = 1..Len(told)
    <3>1. told \in Seq({"other", "SUCCESS", "FAILED"})
      BY DEF StackInv, resource!TypeOK
    <3>2. Len(told) <= 2
      BY DEF StackInv, Told
    <3>3. Len(told) \in Nat
      BY <3>1
    <3>4. DOMAIN told = 1..Len(told)
      BY <3>1
    <3> QED BY <3>2, <3>3, <3>4
  <2>2. \A n \in DOMAIN told : told[n] = handled \/ (told[n] = "FAILED" /\ n = Len(told))
    BY <2>1 DEF StackInv, Told
  <2>3. Len(told) > 1 => (outer \/ lost) /\ Len(told) = 2
    BY <2>1 DEF StackInv, Told
  <2> QED BY <2>2, <2>3 DEF StackInv, Returned, resource!StackIsTold
<1> QED BY <1>1, <1>2, <1>3, PTL DEF resource!Spec

----------------------------------------------------------------------------
(* The namespaces of context.middyContext: what a request publishes stays its own.              *)
CONSTANT MaxCalls
VARIABLES requestState, contextOf, derives, marked, late, publishers, todo, awaited, data, inherited, field,
          logger, flushes
names == INSTANCE ContextNamespaces
  WITH phase <- requestState, given <- contextOf, chain <- publishers, flushed <- flushes

\* A set of naturals has a least element.
LEMMA Least ==
  ASSUME NEW S, S \subseteq Nat, S # {}
  PROVE  \E m \in S : \A q \in S : m <= q
<1>1. PICK m \in S : \A q \in S : ~(<<q, m>> \in OpToRel(<, Nat))
  BY WFMin, NatLessThanWellFounded
<1>2. ASSUME NEW q \in S PROVE m <= q
  <2>1. q \in Nat /\ m \in Nat
    OBVIOUS
  <2>2. ~(q < m)
    BY <1>1, <1>2, <2>1 DEF OpToRel
  <2> QED BY <2>1, <2>2
<1> QED BY <1>2

\* What goes on from one to the next of lower rank until it stops is defined, and is one of the
\* values it can stop with.
Follows(D, Stops, val, next, V) ==
  \E f \in [D -> V] : f = [x \in D |-> IF x \in Stops THEN val[x] ELSE f[next[x]]]
LEMMA Defined ==
  ASSUME NEW N \in Nat, NEW D, D = 0..N, NEW Stops, NEW val, NEW next, NEW V,
         \A x \in D \cap Stops : val[x] \in V,
         \A x \in D \ Stops : next[x] \in D /\ next[x] < x
  PROVE  Follows(D, Stops, val, next, V)
<1> DEFINE Upto(f, k) == \A x \in 0..k : f[x] \in V /\ f[x] = IF x \in Stops THEN val[x] ELSE f[next[x]]
           S == {k \in D : ~\E f : Upto(f, k)}
<1>1. S = {}
  <2> SUFFICES ASSUME S # {} PROVE FALSE
    OBVIOUS
  <2>0. S \subseteq Nat
    OBVIOUS
  <2>1. PICK k \in S : \A j \in S : k <= j
    BY <2>0, Least
  <2>2. k \in 0..N /\ ~\E f : Upto(f, k)
    OBVIOUS
  <2>3. CASE k = 0
    <3> DEFINE f == [x \in D |-> val[x]]
    <3>1. 0 \in D /\ 0..k = {0} /\ 0 \in Stops
      BY <2>3
    <3>2. f[0] = val[0] /\ val[0] \in V
      BY <3>1
    <3> HIDE DEF f
    <3>3. Upto(f, k)
      BY <3>1, <3>2
    <3> QED BY <2>2, <3>3
  <2>4. CASE k # 0
    <3>1. k - 1 \in D /\ k - 1 \in Nat /\ ~(k <= k - 1)
      BY <2>2, <2>4
    <3> HIDE DEF S
    <3>5. k - 1 \notin S
      BY <2>1, <3>1
    <3> USE DEF S
    <3> HIDE DEF Upto
    <3>2. PICK g : Upto(g, k - 1)
      BY <3>1, <3>5
    <3> USE DEF Upto
    <3> DEFINE f == [x \in D |-> IF x <= k - 1 THEN g[x] ELSE IF x \in Stops THEN val[x] ELSE g[next[x]]]
    <3>3. ASSUME NEW x \in 0..k PROVE f[x] \in V /\ f[x] = IF x \in Stops THEN val[x] ELSE f[next[x]]
      <4>1. CASE x \in Stops
        <5>1. x \in D /\ val[x] \in V /\ (x <= k - 1 => x \in 0..(k - 1))
          BY <2>2, <4>1
        <5>2. x \in 0..(k - 1) => g[x] = val[x]
          BY <3>2, <4>1
        <5>3. f[x] = val[x]
          BY <4>1, <5>1, <5>2
        <5> QED BY <4>1, <5>1, <5>3
      <4>2. CASE x \notin Stops
        <5>1. x \in D /\ next[x] \in D /\ next[x] \in 0..(k - 1)
          BY <2>2, <4>2
        <5>2. f[next[x]] = g[next[x]] /\ g[next[x]] \in V
          BY <3>2, <5>1
        <5>3. f[x] = g[next[x]]
          BY <2>2, <3>2, <4>2, <5>1
        <5> QED BY <4>2, <5>2, <5>3
      <4> QED BY <4>1, <4>2
    <3> HIDE DEF f
    <3>4. Upto(f, k)
      BY <3>3
    <3> QED BY <2>2, <3>4
  <2> QED BY <2>3, <2>4
<1>2. PICK g : Upto(g, N)
  <2>1. N \in D
    OBVIOUS
  <2> HIDE DEF Upto
  <2>2. \E g : Upto(g, N)
    BY <1>1, <2>1
  <2> QED BY <2>2
<1> DEFINE f == [x \in D |-> g[x]]
<1>3. f \in [D -> V] /\ f = [x \in D |-> IF x \in Stops THEN val[x] ELSE f[next[x]]]
  BY <1>2
<1> QED BY <1>3 DEF Follows

\* Requests and namespaces inherit from earlier ones.
Shape ==
  /\ MaxCalls \in Nat /\ {derives, inherited} \subseteq [1..MaxCalls -> 0..MaxCalls]
  /\ \A r \in 1..MaxCalls : derives[r] < r /\ inherited[r] < r

\* The namespace a request finds is its own or that of the one it derives from.
HolderFollows ==
  /\ names!Holder[0] = 0
  /\ \A r \in 1..MaxCalls : names!Holder[r] = IF data[r] # "absent" THEN r ELSE names!Holder[derives[r]]
LEMMA HolderIs == Shape => HolderFollows
<1> SUFFICES ASSUME Shape PROVE HolderFollows
  OBVIOUS
<1> USE DEF Shape
<1> DEFINE D == 0..MaxCalls
           val == [x \in D |-> x]
           Stops == {x \in D : x = 0 \/ data[x] # "absent"}
<1>1. Follows(D, Stops, val, derives, D)
  <2>1. \A x \in D \cap Stops : val[x] \in D
    OBVIOUS
  <2>2. \A x \in D \ Stops : derives[x] \in D /\ derives[x] < x
    OBVIOUS
  <2>3. MaxCalls \in Nat /\ D = 0..MaxCalls
    OBVIOUS
  <2> HIDE DEF val, Stops, D
  <2> QED BY <2>1, <2>2, <2>3, Defined
<1>2. PICK f : f = [r \in 0..MaxCalls |-> IF r = 0 \/ data[r] # "absent" THEN r ELSE f[derives[r]]]
  <2>1. PICK f : f = [x \in D |-> IF x \in Stops THEN val[x] ELSE f[derives[x]]]
    BY <1>1 DEF Follows
  <2>2. f = [r \in 0..MaxCalls |-> IF r = 0 \/ data[r] # "absent" THEN r ELSE f[derives[r]]]
    BY <2>1
  <2> QED BY <2>2
<1>3. names!Holder = [r \in 0..MaxCalls |-> IF r = 0 \/ data[r] # "absent" THEN r ELSE names!Holder[derives[r]]]
  BY <1>2 DEF names!Holder, names!None
<1> QED BY <1>3 DEF HolderFollows

\* No namespace on the way has been cleared.
UnclearedFollows ==
  /\ names!Uncleared[0]
  /\ \A r \in 1..MaxCalls : names!Uncleared[r] <=> data[r] # "null" /\ names!Uncleared[derives[r]]
LEMMA UnclearedIs == Shape => UnclearedFollows
<1> SUFFICES ASSUME Shape PROVE UnclearedFollows
  OBVIOUS
<1> USE DEF Shape
<1> DEFINE D == 0..MaxCalls
           val == [x \in D |-> x = 0]
           Stops == {x \in D : x = 0 \/ data[x] = "null"}
<1>1. Follows(D, Stops, val, derives, BOOLEAN)
  <2>1. \A x \in D \cap Stops : val[x] \in BOOLEAN
    OBVIOUS
  <2>2. \A x \in D \ Stops : derives[x] \in D /\ derives[x] < x
    OBVIOUS
  <2>3. MaxCalls \in Nat /\ D = 0..MaxCalls
    OBVIOUS
  <2> HIDE DEF val, Stops, D
  <2> QED BY <2>1, <2>2, <2>3, Defined
<1>2. PICK f \in [D -> BOOLEAN] : f = [x \in D |-> IF x \in Stops THEN val[x] ELSE f[derives[x]]]
  BY <1>1 DEF Follows
<1>3. ASSUME NEW x \in D PROVE f[x] = (x = 0 \/ (data[x] # "null" /\ f[derives[x]]))
  <2>1. f[x] = IF x \in Stops THEN val[x] ELSE f[derives[x]]
    BY <1>2, Zenon
  <2>2. CASE x \in Stops
    <3>1. f[x] = (x = 0)
      BY <2>1, <2>2, Zenon
    <3>2. x = 0 \/ data[x] = "null"
      BY <2>2
    <3> QED BY <3>1, <3>2, Zenon
  <2>3. CASE x \notin Stops
    <3>1. x # 0 /\ data[x] # "null" /\ derives[x] \in D
      BY <2>3
    <3>2. f[derives[x]] \in BOOLEAN /\ f[x] = f[derives[x]]
      BY <2>1, <2>3, <3>1, Zenon
    <3> QED BY <3>1, <3>2, Zenon
  <2> QED BY <2>2, <2>3
<1>4. f = [x \in 0..MaxCalls |-> x = 0 \/ (data[x] # "null" /\ f[derives[x]])]
  BY <1>3, Zenon
<1>5. names!Uncleared = [x \in 0..MaxCalls |-> x = 0 \/ (data[x] # "null" /\ names!Uncleared[derives[x]])]
  BY <1>4, Zenon DEF names!Uncleared, names!None
<1>6. \A x \in 0..MaxCalls : names!Uncleared[x] = (x = 0 \/ (data[x] # "null" /\ names!Uncleared[derives[x]]))
  BY <1>5, Zenon
<1>7. 0 \in 0..MaxCalls /\ \A r \in 1..MaxCalls : r \in 0..MaxCalls /\ r # 0
  OBVIOUS
<1> QED BY <1>6, <1>7, Zenon DEF UnclearedFollows

\* A name is looked for along the namespaces.
AlongFollows ==
  \A n \in names!Fetchers :
    /\ names!Along(0, n) = 0
    /\ \A s \in 1..MaxCalls : names!Along(s, n) = IF field[s][n] # 0 THEN field[s][n] ELSE names!Along(inherited[s], n)
LEMMA AlongIs == Shape => AlongFollows
<1> SUFFICES ASSUME Shape, NEW n \in names!Fetchers
             PROVE  /\ names!Along(0, n) = 0
                    /\ \A s \in 1..MaxCalls :
                         names!Along(s, n) = IF field[s][n] # 0 THEN field[s][n] ELSE names!Along(inherited[s], n)
  BY DEF AlongFollows
<1> USE DEF Shape
<1> DEFINE D == 0..MaxCalls
           val == [x \in D |-> IF x = 0 THEN 0 ELSE field[x][n]]
           Stops == {x \in D : x = 0 \/ field[x][n] # 0}
           V == {val[x] : x \in D}
<1>1. Follows(D, Stops, val, inherited, V)
  <2>1. \A x \in D \cap Stops : val[x] \in V
    OBVIOUS
  <2>2. \A x \in D \ Stops : inherited[x] \in D /\ inherited[x] < x
    OBVIOUS
  <2>3. MaxCalls \in Nat /\ D = 0..MaxCalls
    OBVIOUS
  <2> HIDE DEF val, Stops, D, V
  <2> QED BY <2>1, <2>2, <2>3, Defined
<1>2. PICK f : f = [x \in D |-> IF x \in Stops THEN val[x] ELSE f[inherited[x]]]
  BY <1>1 DEF Follows
<1>3. f = [t \in 0..MaxCalls |-> IF t = 0 THEN 0 ELSE IF field[t][n] # 0 THEN field[t][n] ELSE f[inherited[t]]]
  BY <1>2
<1> DEFINE on == CHOOSE on : on = [t \in 0..MaxCalls |->
                   IF t = 0 THEN 0 ELSE IF field[t][n] # 0 THEN field[t][n] ELSE on[inherited[t]]]
<1>4. on = [t \in 0..MaxCalls |-> IF t = 0 THEN 0 ELSE IF field[t][n] # 0 THEN field[t][n] ELSE on[inherited[t]]]
  BY <1>3
<1>5. \A s \in 0..MaxCalls : names!Along(s, n) = on[s]
  BY DEF names!Along, names!None
<1> HIDE DEF on
<1>6. \A t \in 0..MaxCalls : on[t] = IF t = 0 THEN 0 ELSE IF field[t][n] # 0 THEN field[t][n] ELSE on[inherited[t]]
  BY <1>4
<1>7. \A s \in 1..MaxCalls : s \in 0..MaxCalls /\ s # 0 /\ inherited[s] \in 0..MaxCalls
  OBVIOUS
<1>8. 0 \in 0..MaxCalls
  OBVIOUS
<1> QED BY <1>5, <1>6, <1>7, <1>8, Zenon

\* Primed, what these lemmas say is true of the next state.
LEMMA FollowsNext == Shape' => HolderFollows' /\ UnclearedFollows'
<1>1. (Shape => HolderFollows /\ UnclearedFollows)'
  BY HolderIs, UnclearedIs, PTL
<1> QED BY <1>1

\* What a request finds is a namespace, or cleared, of an earlier request or its own.
LEMMA HolderBelow ==
  ASSUME Shape, NEW r \in 0..MaxCalls
  PROVE  /\ names!Holder[r] \in 0..r
         /\ names!Holder[r] # 0 => data[names!Holder[r]] # "absent"
         /\ names!Holder[r] # 0 /\ names!Uncleared[r] => data[names!Holder[r]] # "null"
<1> DEFINE P(x) == /\ names!Holder[x] \in 0..x
                   /\ names!Holder[x] # 0 => data[names!Holder[x]] # "absent"
                   /\ names!Holder[x] # 0 /\ names!Uncleared[x] => data[names!Holder[x]] # "null"
           S == {x \in 0..MaxCalls : ~P(x)}
<1>1. S = {}
  <2> SUFFICES ASSUME S # {} PROVE FALSE
    OBVIOUS
  <2>1. S \subseteq Nat
    BY DEF Shape
  <2>2. PICK x \in S : \A y \in S : x <= y
    BY <2>1, Least
  <2>3. x \in 0..MaxCalls /\ ~P(x)
    OBVIOUS
  <2>4. HolderFollows /\ UnclearedFollows
    BY HolderIs, UnclearedIs
  <2>5. x # 0
    BY <2>3, <2>4 DEF HolderFollows, Shape
  <2>6. x \in 1..MaxCalls /\ derives[x] \in 0..MaxCalls /\ derives[x] < x
    BY <2>3, <2>5 DEF Shape
  <2>7. P(derives[x])
    <3>1. ~(x <= derives[x])
      BY <2>6
    <3> HIDE DEF P
    <3> QED BY <2>2, <2>6, <3>1
  <2>8. CASE data[x] = "absent"
    <3>1. names!Holder[x] = names!Holder[derives[x]] /\ (names!Uncleared[x] => names!Uncleared[derives[x]])
      BY <2>4, <2>6, <2>8 DEF HolderFollows, UnclearedFollows
    <3> QED BY <2>3, <2>6, <2>7, <3>1
  <2>9. CASE data[x] # "absent"
    <3>1. names!Holder[x] = x /\ (names!Uncleared[x] => data[x] # "null")
      BY <2>4, <2>6, <2>9 DEF HolderFollows, UnclearedFollows
    <3> QED BY <2>3, <2>6, <2>9, <3>1
  <2> QED BY <2>8, <2>9
<1> QED BY <1>1

\* What becomes of a request that is not one of X is nothing to those that do not derive from it.
LEMMA Frame ==
  ASSUME Shape, Shape', NEW X, X \subseteq 1..MaxCalls,
         \A x \in X : derives'[x] = derives[x] /\ data'[x] = data[x] /\ (derives[x] = 0 \/ derives[x] \in X)
  PROVE  \A x \in X \cup {0} : names!Holder'[x] = names!Holder[x] /\ (names!Uncleared'[x] <=> names!Uncleared[x])
<1> DEFINE P(x) == names!Holder'[x] = names!Holder[x] /\ (names!Uncleared'[x] <=> names!Uncleared[x])
           S == {x \in X \cup {0} : ~P(x)}
<1>0. HolderFollows /\ UnclearedFollows /\ HolderFollows' /\ UnclearedFollows'
  BY HolderIs, UnclearedIs, FollowsNext
<1>1. S = {}
  <2> SUFFICES ASSUME S # {} PROVE FALSE
    OBVIOUS
  <2>1. S \subseteq Nat
    <3>1. S \subseteq X \cup {0}
      OBVIOUS
    <3> HIDE DEF S
    <3> QED BY <3>1 DEF Shape
  <2>2. PICK x \in S : \A y \in S : x <= y
    <3> HIDE DEF S
    <3> QED BY <2>1, Least
  <2>3. x \in X \cup {0} /\ ~P(x)
    OBVIOUS
  <2>4. x # 0
    BY <2>3, <1>0 DEF HolderFollows, UnclearedFollows
  <2>5. x \in X /\ x \in 1..MaxCalls /\ derives[x] \in 0..MaxCalls /\ derives[x] < x /\ derives[x] \in X \cup {0}
    BY <2>3, <2>4 DEF Shape
  <2>6. P(derives[x])
    <3>1. ~(x <= derives[x])
      BY <2>5
    <3> HIDE DEF P
    <3> QED BY <2>2, <2>5, <3>1
  <2>7. derives'[x] = derives[x] /\ data'[x] = data[x]
    BY <2>5
  <2>8. names!Holder'[x] = names!Holder[x]
    BY <1>0, <2>5, <2>6, <2>7 DEF HolderFollows
  <2>9. names!Uncleared'[x] <=> names!Uncleared[x]
    BY <1>0, <2>5, <2>6, <2>7 DEF UnclearedFollows
  <2> QED BY <2>3, <2>8, <2>9
<1> QED BY <1>1

\* A request derives from one that is past its middlewares' before, and inherits no further.
Lineage == \A r \in names!Calls :
  /\ derives[r] < r /\ inherited[r] < r
  /\ derives[r] = 0 => inherited[r] = 0
  /\ derives[r] # 0 => requestState[derives[r]] \notin {"uncalled", "before"}
InOrder == \A r, s \in names!Calls : r < s /\ requestState[r] = "uncalled" => requestState[s] = "uncalled"
\* The mark of a context is of a request that is in flight on it.
Marks == \A c \in names!Calls : marked[c] # 0 => contextOf[marked[c]] = c /\ ~names!Ended(marked[c])
LateAlone == \A r \in late : derives[r] = 0 /\ requestState[r] # "uncalled"
Stages == \A r \in names!Calls :
  /\ requestState[r] = "uncalled" => derives[r] = 0 /\ data[r] = "absent"
  /\ requestState[r] = "before" => data[r] # "null"
  /\ awaited[r] # names!Nobody => requestState[r] = "before"
  /\ requestState[r] = "handler" => todo[r] = {}
HasPublished == \A r \in names!Calls, n \in names!Fetchers :
  /\ field[r][n] \in {0, r}
  /\ requestState[r] \in {"before", "handler"} /\ data[r] # "null" /\ n \in publishers[r] /\ n \notin todo[r]
       /\ awaited[r] # n => data[r] = "namespace" /\ field[r][n] = r
\* A namespace inherits from the one its request found, as long as that one is there.
BuildsOn == \A r \in names!Calls :
  data[r] = "namespace" /\ names!Uncleared[r] => inherited[r] = names!Holder[derives[r]]
Flushes == \A r \in names!Calls :
  /\ flushes[r] = IF logger[r] = "taken" THEN 1 ELSE 0
  /\ logger[r] = "taken" => requestState[r] \in {"flushed", "onError", "over", "done"}
NsInv ==
  /\ MaxCalls \in Nat /\ names!TypeOK /\ Lineage /\ InOrder /\ Marks /\ LateAlone /\ Stages
  /\ HasPublished /\ BuildsOn /\ Flushes

\* The types of the variables, in parts.
Phased ==
  /\ requestState \in [names!Calls ->
       {"uncalled", "before", "handler", "after", "flushed", "onError", "over", "done"}]
  /\ awaited \in [names!Calls -> names!Fetchers \cup {names!Nobody}]
  /\ data \in [names!Calls -> {"absent", "null", "namespace"}]
  /\ logger \in [names!Calls -> {"none", "held", "taken"}]
Linked ==
  /\ contextOf \in [names!Calls -> names!Calls] /\ derives \in [names!Calls -> 0..MaxCalls]
  /\ marked \in [names!Calls -> 0..MaxCalls] /\ late \subseteq names!Calls
  /\ inherited \in [names!Calls -> 0..MaxCalls]
Counted == field \in [names!Calls -> [names!Fetchers -> 0..MaxCalls]] /\ flushes \in [names!Calls -> 0..MaxCalls]
Listed == {publishers, todo} \subseteq [names!Calls -> SUBSET (names!Fetchers \cup {names!Metrics})]
LEMMA NsTypes == names!TypeOK <=> Phased /\ Linked /\ Counted /\ Listed
BY DEF names!TypeOK, Phased, Linked, Counted, Listed

LEMMA NsTypesNext == Phased' /\ Linked' /\ Counted' /\ Listed' => names!TypeOK'
<1>1. (Phased /\ Linked /\ Counted /\ Listed => names!TypeOK)'
  BY NsTypes, PTL
<1> QED BY <1>1

LEMMA ShapeHolds == NsInv => Shape
BY DEF NsInv, names!TypeOK, Lineage, names!Calls, Shape

\* Before any call the namespaces are in order.
LEMMA NsInit == ASSUME MaxCalls \in Nat, names!Init PROVE NsInv
<1> USE DEF names!Init, names!Calls, names!None, names!Nobody, names!Fetchers
<1>1. names!TypeOK
  BY DEF names!TypeOK
<1>2. Lineage /\ InOrder /\ Marks /\ LateAlone
  BY DEF Lineage, InOrder, Marks, LateAlone
<1>3. Stages /\ HasPublished /\ Flushes
  BY DEF Stages, HasPublished, Flushes
<1>4. BuildsOn
  BY DEF BuildsOn
<1> QED BY <1>1, <1>2, <1>3, <1>4 DEF NsInv

\* A step that leaves the namespaces and who derives from whom alone.
LEMMA BuildsOnStays ==
  ASSUME NsInv, UNCHANGED <<derives, data, inherited>>
  PROVE  BuildsOn'
<1>1. names!Holder' = names!Holder /\ names!Uncleared' = names!Uncleared
  BY DEF names!Holder, names!Uncleared
<1> QED BY <1>1 DEF NsInv, BuildsOn, names!Calls

\* A request is called.
LEMMA NsCall == ASSUME NsInv, NEW r \in names!Calls, NEW q \in names!Calls, names!Call(r, q) PROVE NsInv'
<1> USE DEF names!Calls, names!None
<1>0. MaxCalls \in Nat /\ Phased /\ Linked /\ Counted /\ Listed
  BY NsTypes DEF NsInv
<1>1. /\ requestState[r] = "uncalled" /\ requestState' = [requestState EXCEPT ![r] = "before"]
      /\ UNCHANGED <<awaited, data, inherited, field, logger, flushes>>
      /\ marked' = [marked EXCEPT ![contextOf'[r]] = r] /\ \A s \in 1..MaxCalls : s < r => requestState[s] # "uncalled"
      /\ late' = IF \A s \in 1..MaxCalls : contextOf[s] = contextOf[q] => names!Ended(s) THEN late \cup {r} ELSE late
  BY DEF names!Call
<1>2. /\ derives[r] = 0 /\ data[r] = "absent" /\ awaited[r] = names!Nobody
      /\ \A x \in 1..MaxCalls : derives[x] # r
      /\ \A c \in 1..MaxCalls : marked[c] # r
  <2>1. derives[r] = 0 /\ data[r] = "absent" /\ awaited[r] = names!Nobody
    BY <1>1 DEF NsInv, Stages
  <2>2. \A x \in 1..MaxCalls : derives[x] # r
    BY <1>1 DEF NsInv, Lineage
  <2>3. \A c \in 1..MaxCalls : marked[c] # r
    BY <1>1 DEF NsInv, Marks, names!Ended
  <2> QED BY <2>1, <2>2, <2>3
<1>3. \/ /\ contextOf' = contextOf /\ derives' = [derives EXCEPT ![r] = q] /\ q < r
         /\ requestState[q] \notin {"uncalled", "before"} /\ ~names!Ended(q) /\ q # r
      \/ contextOf' = [contextOf EXCEPT ![r] = contextOf[q]] /\ derives' = derives
  <2>1. CASE requestState[q] # "uncalled" /\ names!Nested(q)
    <3>1. /\ contextOf' = contextOf /\ derives' = [derives EXCEPT ![r] = q]
          /\ requestState[q] \notin {"uncalled", "before"}
      BY <2>1 DEF names!Call
    <3>2. ~names!Ended(q)
      <4>1. contextOf[q] \in names!Calls /\ marked[contextOf[q]] = q /\ q # 0
        BY <2>1, <1>0 DEF Linked, names!Nested
      <4> QED BY <4>1 DEF NsInv, Marks
    <3>3. q < r
      BY <1>0, <1>1, <2>1 DEF NsInv, InOrder
    <3> QED BY <3>1, <3>2, <3>3
  <2>2. CASE ~(requestState[q] # "uncalled" /\ names!Nested(q))
    BY <2>2 DEF names!Call
  <2> QED BY <2>1, <2>2
<1>4. /\ requestState'[r] = "before" /\ \A x \in 1..MaxCalls \ {r} : requestState'[x] = requestState[x]
      /\ \A x \in 1..MaxCalls \ {r} : contextOf'[x] = contextOf[x] /\ derives'[x] = derives[x]
      /\ contextOf'[r] \in 1..MaxCalls
      /\ \/ derives'[r] = 0
         \/ /\ derives'[r] = q /\ q < r /\ q # r /\ requestState[q] \notin {"uncalled", "before"} /\ ~names!Ended(q)
            /\ contextOf'[r] = contextOf[r]
  <2>1. requestState'[r] = "before" /\ \A x \in 1..MaxCalls \ {r} : requestState'[x] = requestState[x]
    BY <1>0, <1>1 DEF Phased
  <2>2. contextOf \in [1..MaxCalls -> 1..MaxCalls] /\ derives \in [1..MaxCalls -> 0..MaxCalls]
    BY <1>0 DEF Linked
  <2> QED BY <1>2, <1>3, <2>1, <2>2
<1>5. PICK used \in SUBSET (names!Fetchers \cup {names!Metrics}) :
        publishers' = [publishers EXCEPT ![r] = used] /\ todo' = [todo EXCEPT ![r] = used]
  <2>1. PICK used \in {{names!Metrics}} \cup SUBSET names!Fetchers :
          publishers' = [publishers EXCEPT ![r] = used] /\ todo' = [todo EXCEPT ![r] = used]
    BY DEF names!Call
  <2>2. used \in SUBSET (names!Fetchers \cup {names!Metrics})
    OBVIOUS
  <2> QED BY <2>1, <2>2
<1>6. names!TypeOK'
  <2>1. Linked'
    <3>1. contextOf' \in [1..MaxCalls -> 1..MaxCalls]
      BY <1>0, <1>3 DEF Linked
    <3>2. derives' \in [1..MaxCalls -> 0..MaxCalls]
      <4>0. \A n \in 1..MaxCalls : n \in 0..MaxCalls
        OBVIOUS
      <4>1. derives \in [1..MaxCalls -> 0..MaxCalls] /\ q \in 0..MaxCalls
        BY <1>0, <4>0 DEF Linked
      <4>2. CASE derives' = derives
        BY <4>1, <4>2
      <4>3. CASE derives' = [derives EXCEPT ![r] = q]
        BY <4>1, <4>3
      <4> QED BY <1>3, <4>2, <4>3
    <3>3. late' \subseteq 1..MaxCalls
      BY <1>0, <1>1 DEF Linked
    <3>4. marked' \in [1..MaxCalls -> 0..MaxCalls]
      <4>0. \A n \in 1..MaxCalls : n \in 0..MaxCalls
        OBVIOUS
      <4>1. marked \in [1..MaxCalls -> 0..MaxCalls] /\ r \in 0..MaxCalls
        BY <1>0, <4>0 DEF Linked
      <4>2. marked' = [marked EXCEPT ![contextOf'[r]] = r]
        BY <1>1
      <4> QED BY <4>1, <4>2
    <3> QED BY <1>0, <1>1, <3>1, <3>2, <3>3, <3>4 DEF Linked
  <2>2. Listed'
    BY <1>0, <1>5 DEF Listed
  <2>3. Phased'
    BY <1>0, <1>1 DEF Phased
  <2>4. Counted'
    BY <1>1, <1>0 DEF Counted
  <2> QED BY <2>1, <2>2, <2>3, <2>4, NsTypesNext
<1>7. Lineage'
  <2> SUFFICES ASSUME NEW x \in 1..MaxCalls
               PROVE  /\ derives'[x] < x /\ inherited'[x] < x
                      /\ derives'[x] = 0 => inherited'[x] = 0
                      /\ derives'[x] # 0 => requestState'[derives'[x]] \notin {"uncalled", "before"}
    BY DEF Lineage
  <2>1. /\ derives[x] < x /\ inherited'[x] = inherited[x] /\ inherited[x] < x /\ derives[x] \in 0..MaxCalls
        /\ derives[x] = 0 => inherited[x] = 0
        /\ derives[x] # 0 => requestState[derives[x]] \notin {"uncalled", "before"}
    BY <1>0, <1>1 DEF NsInv, Lineage, Linked
  <2>2. CASE x = r
    BY <1>0, <1>2, <1>4, <2>1, <2>2
  <2>3. CASE x # r
    BY <1>2, <1>4, <2>1, <2>3
  <2> QED BY <2>2, <2>3
<1>8. InOrder'
  BY <1>1, <1>4 DEF NsInv, InOrder
<1>9. Marks'
  <2> SUFFICES ASSUME NEW c \in 1..MaxCalls, marked'[c] # 0
               PROVE  contextOf'[marked'[c]] = c /\ requestState'[marked'[c]] \notin {"uncalled", "done"}
    BY DEF Marks, names!Ended
  <2>1. /\ marked[c] \in 0..MaxCalls /\ marked[c] # r
        /\ marked[c] # 0 => contextOf[marked[c]] = c /\ requestState[marked[c]] \notin {"uncalled", "done"}
    BY <1>0, <1>2 DEF NsInv, Marks, Linked, names!Ended
  <2>2. marked'[c] = IF c = contextOf'[r] THEN r ELSE marked[c]
    BY <1>0, <1>1, <1>4 DEF Linked
  <2>3. CASE c = contextOf'[r]
    BY <1>4, <2>2, <2>3
  <2>4. CASE c # contextOf'[r]
    BY <1>4, <2>1, <2>2, <2>4
  <2> QED BY <2>3, <2>4
<1>10. LateAlone'
  <2> SUFFICES ASSUME NEW x \in late' PROVE derives'[x] = 0 /\ requestState'[x] # "uncalled"
    BY DEF LateAlone
  <2>1. CASE x \in late
    <3>1. x \in 1..MaxCalls /\ derives[x] = 0 /\ requestState[x] # "uncalled"
      BY <1>0, <2>1 DEF NsInv, LateAlone, Linked
    <3> QED BY <1>1, <1>4, <3>1
  <2>2. CASE x \notin late
    <3>1. x = r /\ \A s \in 1..MaxCalls : contextOf[s] = contextOf[q] => names!Ended(s)
      BY <1>1, <2>2
    <3> QED BY <1>4, <3>1
  <2> QED BY <2>1, <2>2
<1>11. Stages' /\ HasPublished' /\ Flushes'
  <2>1. \A x \in 1..MaxCalls : x # r => todo'[x] = todo[x] /\ publishers'[x] = publishers[x]
    BY <1>0, <1>5 DEF Listed
  <2>2. todo'[r] = used /\ publishers'[r] = used
    BY <1>0, <1>5 DEF Listed
  <2>3. Stages'
    BY <1>1, <1>2, <1>4, <2>1, <2>2 DEF NsInv, Stages
  <2>4. HasPublished'
    BY <1>1, <1>4, <2>1, <2>2 DEF NsInv, HasPublished
  <2>5. Flushes'
    BY <1>1, <1>4 DEF NsInv, Flushes
  <2> QED BY <2>3, <2>4, <2>5
<1>12. BuildsOn'
  <2> DEFINE X == 1..MaxCalls \ {r}
  <2>1. \A x \in X : derives'[x] = derives[x] /\ data'[x] = data[x] /\ (derives[x] = 0 \/ derives[x] \in X)
    <3>1. derives \in [1..MaxCalls -> 0..MaxCalls]
      BY <1>0 DEF Linked
    <3>2. \A x \in 1..MaxCalls : derives[x] # r
      BY <1>2
    <3>3. \A x \in X : derives'[x] = derives[x] /\ data'[x] = data[x]
      BY <1>1, <1>4
    <3>4. \A x \in X : derives[x] = 0 \/ derives[x] \in X
      BY <3>1, <3>2
    <3> QED BY <3>3, <3>4
  <2>2. Shape /\ Shape'
    <3>1. derives' \in [1..MaxCalls -> 0..MaxCalls] /\ inherited' \in [1..MaxCalls -> 0..MaxCalls]
      BY <1>6 DEF names!TypeOK
    <3>2. \A x \in 1..MaxCalls : derives'[x] < x /\ inherited'[x] < x
      BY <1>7 DEF Lineage
    <3>3. Shape'
      BY <1>0, <3>1, <3>2 DEF Shape
    <3> QED BY <3>3, ShapeHolds
  <2>3. X \subseteq 1..MaxCalls
    OBVIOUS
  <2> HIDE DEF X
  <2>4. \A x \in X \cup {0} : names!Holder'[x] = names!Holder[x] /\ (names!Uncleared'[x] <=> names!Uncleared[x])
    BY <2>1, <2>2, <2>3, Frame
  <2> USE DEF X
  <2> SUFFICES ASSUME NEW x \in 1..MaxCalls, data'[x] = "namespace", names!Uncleared'[x]
               PROVE  inherited'[x] = names!Holder'[derives'[x]]
    BY DEF BuildsOn
  <2>5. x \in X /\ data[x] = "namespace" /\ inherited'[x] = inherited[x]
    BY <1>1, <1>2
  <2>6. inherited[x] = names!Holder[derives[x]]
    BY <2>4, <2>5 DEF NsInv, BuildsOn
  <2>7. derives'[x] = derives[x] /\ derives[x] \in X \cup {0}
    BY <2>1, <2>5
  <2>8. names!Holder'[derives[x]] = names!Holder[derives[x]]
    BY <2>4, <2>7
  <2> QED BY <2>5, <2>6, <2>7, <2>8
<1> QED BY <1>0, <1>6, <1>7, <1>8, <1>9, <1>10, <1>11, <1>12 DEF NsInv

\* What publishing does: the request's own namespace is there, with the value in it.
PublishDoes(r, m) ==
  /\ data' = [data EXCEPT ![r] = "namespace"]
  /\ inherited' \in [names!Calls -> 0..MaxCalls] /\ field' \in [names!Calls -> [names!Fetchers -> 0..MaxCalls]]
  /\ \A x \in names!Calls \ {r} : inherited'[x] = inherited[x] /\ field'[x] = field[x]
  /\ field'[r][m] = r
  /\ \A n \in names!Fetchers \ {m} : field'[r][n] = IF data[r] = "namespace" THEN field[r][n] ELSE 0
  /\ IF data[r] = "namespace" THEN inherited'[r] = inherited[r]
     ELSE data[r] = "absent" /\ inherited'[r] = names!Inherits(r)
LEMMA NsPublish ==
  ASSUME NsInv, NEW r \in names!Calls, NEW m \in names!Fetchers, requestState[r] = "before", names!Publish(r, m)
  PROVE  PublishDoes(r, m)
<1> USE DEF names!Calls, names!None
<1>0. MaxCalls \in Nat /\ Phased /\ Linked /\ Counted /\ r \in 0..MaxCalls /\ r # 0
  BY NsTypes DEF NsInv
<1>1. /\ data[r] \in {"absent", "namespace"} /\ data \in [1..MaxCalls -> {"absent", "null", "namespace"}]
      /\ inherited \in [1..MaxCalls -> 0..MaxCalls] /\ field \in [1..MaxCalls -> [names!Fetchers -> 0..MaxCalls]]
  BY <1>0 DEF NsInv, Stages, Phased, Linked, Counted
<1>2. names!Holder[r] \in 0..MaxCalls /\ (data[r] = "namespace" => names!Holder[r] = r)
  <2>1. names!Holder[r] \in 0..r
    BY <1>0, ShapeHolds, HolderBelow
  <2>2. HolderFollows
    BY ShapeHolds, HolderIs
  <2> QED BY <1>0, <2>1, <2>2 DEF HolderFollows
<1>3. CASE data[r] = "namespace"
  <2>1. data' = [data EXCEPT ![r] = "namespace"] /\ inherited' = inherited /\ field' = [field EXCEPT ![r][m] = r]
    BY <1>2, <1>3 DEF names!Publish, names!OwnNamespace
  <2>2. field' \in [1..MaxCalls -> [names!Fetchers -> 0..MaxCalls]]
    BY <1>0, <1>1, <2>1
  <2>3. /\ \A x \in 1..MaxCalls \ {r} : field'[x] = field[x]
        /\ field'[r][m] = r /\ \A n \in names!Fetchers \ {m} : field'[r][n] = field[r][n]
    BY <1>1, <2>1
  <2> QED BY <1>1, <1>3, <2>1, <2>2, <2>3 DEF PublishDoes
<1>4. CASE data[r] # "namespace"
  <2> DEFINE new == [n \in names!Fetchers |-> IF n = m THEN r ELSE 0]
  <2>1. /\ data' = [data EXCEPT ![r] = "namespace"] /\ inherited' = [inherited EXCEPT ![r] = names!Inherits(r)]
        /\ field' = [field EXCEPT ![r] = new]
    BY <1>4 DEF names!Publish, names!OwnNamespace
  <2>2. names!Inherits(r) \in 0..MaxCalls
    <3>1. 0 \in 0..MaxCalls
      BY <1>0
    <3> QED BY <1>2, <3>1 DEF names!Inherits
  <2>3. inherited' \in [1..MaxCalls -> 0..MaxCalls]
    BY <1>1, <2>1, <2>2
  <2>4. new \in [names!Fetchers -> 0..MaxCalls]
    BY <1>0
  <2>5. new[m] = r /\ \A n \in names!Fetchers \ {m} : new[n] = 0
    OBVIOUS
  <2> HIDE DEF new
  <2>6. field' \in [1..MaxCalls -> [names!Fetchers -> 0..MaxCalls]]
    BY <1>1, <2>1, <2>4
  <2> QED BY <1>1, <1>4, <2>1, <2>3, <2>5, <2>6 DEF PublishDoes
<1> QED BY <1>3, <1>4

\* So what namespaces inherit from stays what it was: none derives from a request that still publishes.
LEMMA PublishBuildsOn ==
  ASSUME NsInv, NEW r \in names!Calls, NEW m \in names!Fetchers, requestState[r] = "before", PublishDoes(r, m),
         derives' = derives
  PROVE  /\ BuildsOn'
         /\ \A x \in names!Calls : inherited'[x] < x /\ (derives[x] = 0 => inherited'[x] = 0)
<1> USE DEF names!Calls, names!None
<1>0. MaxCalls \in Nat /\ Phased /\ Linked /\ Counted /\ r \in 0..MaxCalls /\ r # 0 /\ Shape
  BY NsTypes, ShapeHolds DEF NsInv
<1>1. \A x \in 1..MaxCalls : derives[x] # r /\ derives[x] \in 0..MaxCalls /\ derives[x] < x
  BY <1>0 DEF NsInv, Lineage, Linked
<1>2. data[r] # "namespace" => data[r] = "absent" /\ inherited'[r] = names!Inherits(r)
  BY DEF PublishDoes
<1>3. HolderFollows /\ UnclearedFollows
  BY <1>0, HolderIs, UnclearedIs
<1>4. data[r] = "absent" => names!Holder[r] = names!Holder[derives[r]]
  BY <1>3 DEF HolderFollows
<1>5. names!Inherits(r) = 0 \/ names!Inherits(r) = names!Holder[r]
  BY DEF names!Inherits
<1>6. names!Holder[derives[r]] \in 0..derives[r]
  BY <1>0, <1>1, HolderBelow
<1>7. \A x \in 1..MaxCalls : inherited'[x] < x /\ (derives[x] = 0 => inherited'[x] = 0)
  <2> SUFFICES ASSUME NEW x \in 1..MaxCalls PROVE inherited'[x] < x /\ (derives[x] = 0 => inherited'[x] = 0)
    OBVIOUS
  <2>1. inherited[x] < x /\ (derives[x] = 0 => inherited[x] = 0)
    BY DEF NsInv, Lineage
  <2>2. CASE x # r \/ data[r] = "namespace"
    <3>1. inherited'[x] = inherited[x]
      BY <2>2 DEF PublishDoes
    <3> QED BY <2>1, <3>1
  <2>3. CASE x = r /\ data[r] # "namespace"
    <3>1. inherited'[r] \in 0..derives[r]
      BY <1>1, <1>2, <1>4, <1>5, <1>6, <2>3
    <3> QED BY <1>1, <2>3, <3>1
  <2> QED BY <2>2, <2>3
<1>8. Shape'
  <2>1. derives' \in [1..MaxCalls -> 0..MaxCalls] /\ inherited' \in [1..MaxCalls -> 0..MaxCalls]
    BY <1>0 DEF Linked, PublishDoes
  <2> QED BY <1>0, <1>1, <1>7, <2>1 DEF Shape
<1> DEFINE X == 1..MaxCalls \ {r}
<1>9. \A x \in X : derives'[x] = derives[x] /\ data'[x] = data[x] /\ (derives[x] = 0 \/ derives[x] \in X)
  <2>1. \A x \in X : derives[x] = 0 \/ derives[x] \in X
    BY <1>1
  <2>2. data' = [data EXCEPT ![r] = "namespace"] /\ data \in [1..MaxCalls -> {"absent", "null", "namespace"}]
    BY <1>0 DEF Phased, PublishDoes
  <2> QED BY <2>1, <2>2
<1>10. X \subseteq 1..MaxCalls /\ \A x \in 1..MaxCalls : x # r => x \in X
  OBVIOUS
<1>11. \A x \in 1..MaxCalls : derives[x] \in X \cup {0}
  BY <1>1
<1> HIDE DEF X
<1>12. \A x \in X \cup {0} : names!Holder'[x] = names!Holder[x] /\ (names!Uncleared'[x] <=> names!Uncleared[x])
  BY <1>0, <1>8, <1>9, <1>10, Frame
<1>13. ASSUME NEW x \in 1..MaxCalls, data'[x] = "namespace", names!Uncleared'[x]
       PROVE  inherited'[x] = names!Holder'[derives'[x]]
  <2>0. names!Holder'[derives'[x]] = names!Holder[derives[x]]
    BY <1>11, <1>12
  <2>1. CASE x # r
    <3>1. x \in X /\ data[x] = "namespace" /\ inherited'[x] = inherited[x] /\ names!Uncleared[x]
      <4>1. x \in X
        BY <1>10, <2>1
      <4>2. inherited'[x] = inherited[x]
        BY <2>1 DEF PublishDoes
      <4>3. names!Uncleared[x]
        BY <1>12, <1>13, <4>1, Zenon
      <4> QED BY <1>9, <1>13, <4>1, <4>2, <4>3
    <3> QED BY <2>0, <3>1 DEF NsInv, BuildsOn
  <2>2. CASE x = r
    <3>1. names!Uncleared[derives[r]]
      <4>1. names!Uncleared'[derives'[r]]
        BY <1>8, <1>13, <2>2, FollowsNext DEF UnclearedFollows
      <4> QED BY <1>11, <1>12, <4>1, Zenon
    <3>2. CASE data[r] = "namespace"
      <4>1. inherited'[r] = inherited[r]
        BY <3>2 DEF PublishDoes
      <4>2. names!Uncleared[r]
        BY <1>3, <3>1, <3>2 DEF UnclearedFollows
      <4> QED BY <2>0, <2>2, <3>2, <4>1, <4>2 DEF NsInv, BuildsOn
    <3>3. CASE data[r] # "namespace"
      <4>1. inherited'[r] = names!Inherits(r) /\ names!Holder[r] = names!Holder[derives[r]]
        BY <1>2, <1>4, <3>3
      <4>2. names!Holder[derives[r]] # 0 => data[names!Holder[derives[r]]] \notin {"absent", "null"}
        BY <1>0, <1>1, <3>1, HolderBelow
      <4>3. names!Holder[derives[r]] \in 0..MaxCalls
        BY <1>0, <1>1, <1>6
      <4>4. \A y \in 1..MaxCalls : data[y] \in {"absent", "null", "namespace"}
        BY <1>0 DEF Phased
      <4>5. names!Holder[derives[r]] # 0 => data[names!Holder[derives[r]]] = "namespace"
        <5>1. names!Holder[derives[r]] # 0 => names!Holder[derives[r]] \in 1..MaxCalls
          BY <1>0, <4>3
        <5> QED BY <4>2, <4>4, <5>1
      <4> QED BY <2>0, <2>2, <4>1, <4>5 DEF names!Inherits
    <3> QED BY <3>2, <3>3
  <2> QED BY <2>1, <2>2
<1> QED BY <1>7, <1>13 DEF BuildsOn

\* A fetching middleware publishes at once, or awaits its values.
LEMMA NsFetcherBefore ==
  ASSUME NsInv, NEW r \in names!Calls, NEW m \in names!Fetchers, names!FetcherBefore(r, m) PROVE NsInv'
<1> USE DEF names!Calls, names!None
<1>0. MaxCalls \in Nat /\ Phased /\ Linked /\ Counted /\ Listed
  BY NsTypes DEF NsInv
<1>1. /\ requestState[r] = "before" /\ awaited[r] = names!Nobody /\ todo' = [todo EXCEPT ![r] = @ \ {m}]
      /\ UNCHANGED <<requestState, contextOf, derives, marked, late, publishers, logger, flushes>>
  BY DEF names!FetcherBefore
<1>2. \/ PublishDoes(r, m) /\ awaited' = awaited
      \/ awaited' = [awaited EXCEPT ![r] = m] /\ UNCHANGED <<data, inherited, field>>
  BY <1>1, NsPublish DEF names!FetcherBefore
<1>3. /\ \A x \in 1..MaxCalls \ {r} : todo'[x] = todo[x]
      /\ todo'[r] = todo[r] \ {m}
  BY <1>0, <1>1 DEF Listed
<1>4. Listed'
  <2>1. todo' \in [1..MaxCalls -> SUBSET (names!Fetchers \cup {names!Metrics})]
    BY <1>0, <1>1 DEF Listed
  <2> QED BY <1>0, <1>1, <2>1 DEF Listed
<1>5. CASE PublishDoes(r, m) /\ awaited' = awaited
  <2>1. names!TypeOK'
    <3>1. Phased'
      BY <1>0, <1>1, <1>5 DEF Phased, PublishDoes
    <3>2. Linked' /\ Counted'
      BY <1>0, <1>1, <1>5 DEF Linked, Counted, PublishDoes
    <3> QED BY <1>4, <3>1, <3>2, NsTypesNext
  <2>2. BuildsOn' /\ \A x \in 1..MaxCalls : inherited'[x] < x /\ (derives[x] = 0 => inherited'[x] = 0)
    BY <1>1, <1>5, PublishBuildsOn
  <2>3. Lineage'
    BY <1>1, <2>2 DEF NsInv, Lineage
  <2>4. InOrder' /\ Marks' /\ LateAlone' /\ Flushes'
    BY <1>1 DEF NsInv, InOrder, Marks, LateAlone, Flushes, names!Ended
  <2>5. data'[r] = "namespace" /\ \A x \in 1..MaxCalls \ {r} : data'[x] = data[x]
    BY <1>0, <1>5 DEF Phased, PublishDoes
  <2>6. Stages'
    BY <1>1, <1>3, <1>5, <2>5 DEF NsInv, Stages
  <2>7. HasPublished'
    <3> SUFFICES ASSUME NEW x \in 1..MaxCalls, NEW n \in names!Fetchers
                 PROVE  /\ field'[x][n] \in {0, x}
                        /\ requestState'[x] \in {"before", "handler"} /\ data'[x] # "null" /\ n \in publishers'[x]
                             /\ n \notin todo'[x] /\ awaited'[x] # n => data'[x] = "namespace" /\ field'[x][n] = x
      BY DEF HasPublished
    <3>1. /\ field[x][n] \in {0, x}
          /\ requestState[x] \in {"before", "handler"} /\ data[x] # "null" /\ n \in publishers[x]
               /\ n \notin todo[x] /\ awaited[x] # n => data[x] = "namespace" /\ field[x][n] = x
      BY DEF NsInv, HasPublished
    <3>2. CASE x # r
      <4>1. field'[x] = field[x]
        BY <1>5, <3>2 DEF PublishDoes
      <4> QED BY <1>1, <1>3, <1>5, <2>5, <3>1, <3>2, <4>1
    <3>3. CASE x = r /\ n = m
      <4>1. field'[r][m] = r
        BY <1>5 DEF PublishDoes
      <4> QED BY <2>5, <3>3, <4>1
    <3>4. CASE x = r /\ n # m
      <4>1. field'[r][n] = IF data[r] = "namespace" THEN field[r][n] ELSE 0
        BY <1>5, <3>4 DEF PublishDoes
      <4>2. n \notin todo'[r] => n \notin todo[r]
        BY <1>3, <3>4
      <4>3. data[r] # "null"
        BY <1>1 DEF NsInv, Stages
      <4> QED BY <1>1, <1>5, <2>5, <3>1, <3>4, <4>1, <4>2, <4>3
    <3> QED BY <3>2, <3>3, <3>4
  <2> QED BY <1>0, <2>1, <2>2, <2>3, <2>4, <2>6, <2>7 DEF NsInv
<1>6. CASE awaited' = [awaited EXCEPT ![r] = m] /\ UNCHANGED <<data, inherited, field>>
  <2>1. names!TypeOK'
    <3>1. Phased'
      BY <1>0, <1>1, <1>6 DEF Phased
    <3>2. Linked' /\ Counted'
      BY <1>0, <1>1, <1>6 DEF Linked, Counted
    <3> QED BY <1>4, <3>1, <3>2, NsTypesNext
  <2>2. BuildsOn'
    BY <1>1, <1>6, BuildsOnStays
  <2>3. Lineage' /\ InOrder' /\ Marks' /\ LateAlone' /\ Flushes'
    BY <1>1, <1>6 DEF NsInv, Lineage, InOrder, Marks, LateAlone, Flushes, names!Ended
  <2>4. awaited'[r] = m /\ \A x \in 1..MaxCalls \ {r} : awaited'[x] = awaited[x]
    BY <1>0, <1>6 DEF Phased
  <2>5. Stages'
    BY <1>1, <1>3, <1>6, <2>4 DEF NsInv, Stages
  <2>6. HasPublished'
    <3> SUFFICES ASSUME NEW x \in 1..MaxCalls, NEW n \in names!Fetchers
                 PROVE  /\ field'[x][n] \in {0, x}
                        /\ requestState'[x] \in {"before", "handler"} /\ data'[x] # "null" /\ n \in publishers'[x]
                             /\ n \notin todo'[x] /\ awaited'[x] # n => data'[x] = "namespace" /\ field'[x][n] = x
      BY DEF HasPublished
    <3>1. /\ field[x][n] \in {0, x}
          /\ requestState[x] \in {"before", "handler"} /\ data[x] # "null" /\ n \in publishers[x]
               /\ n \notin todo[x] /\ awaited[x] # n => data[x] = "namespace" /\ field[x][n] = x
      BY DEF NsInv, HasPublished
    <3>2. n \notin todo'[x] /\ awaited'[x] # n => n \notin todo[x] /\ awaited[x] # n
      <4>1. n # names!Nobody
        BY DEF names!Nobody, names!Fetchers
      <4> QED BY <1>1, <1>3, <2>4, <4>1
    <3> QED BY <1>1, <1>6, <3>1, <3>2
  <2> QED BY <1>0, <2>1, <2>2, <2>3, <2>5, <2>6 DEF NsInv
<1> QED BY <1>2, <1>5, <1>6

\* The values arrive, and are published, or the request goes wrong.
LEMMA NsArrive == ASSUME NsInv, NEW r \in names!Calls, names!Arrive(r) PROVE NsInv'
<1> USE DEF names!Calls, names!None
<1> DEFINE m == awaited[r]
<1>0. MaxCalls \in Nat /\ Phased /\ Linked /\ Counted /\ Listed
  BY NsTypes DEF NsInv
<1>1. /\ awaited[r] # names!Nobody /\ awaited' = [awaited EXCEPT ![r] = names!Nobody]
      /\ UNCHANGED <<contextOf, derives, marked, late, publishers, todo, logger, flushes>>
  BY DEF names!Arrive
<1>2. requestState[r] = "before" /\ m \in names!Fetchers
  BY <1>0, <1>1 DEF NsInv, Stages, Phased
<1>3. awaited'[r] = names!Nobody /\ \A x \in 1..MaxCalls \ {r} : awaited'[x] = awaited[x]
  BY <1>0, <1>1 DEF Phased
<1>4. Listed'
  BY <1>0, <1>1 DEF Listed
<1>5. CASE requestState' = requestState /\ names!Publish(r, m)
  <2>0. PublishDoes(r, m)
    BY <1>2, <1>5, NsPublish
  <2>1. names!TypeOK'
    <3>1. Phased'
      BY <1>0, <1>1, <1>5, <2>0 DEF Phased, PublishDoes
    <3>2. Linked' /\ Counted'
      BY <1>0, <1>1, <2>0 DEF Linked, Counted, PublishDoes
    <3> QED BY <1>4, <3>1, <3>2, NsTypesNext
  <2>2. BuildsOn' /\ \A x \in 1..MaxCalls : inherited'[x] < x /\ (derives[x] = 0 => inherited'[x] = 0)
    BY <1>1, <1>2, <2>0, PublishBuildsOn
  <2>3. Lineage'
    BY <1>1, <1>5, <2>2 DEF NsInv, Lineage
  <2>4. InOrder' /\ Marks' /\ LateAlone' /\ Flushes'
    BY <1>1, <1>5 DEF NsInv, InOrder, Marks, LateAlone, Flushes, names!Ended
  <2>5. data'[r] = "namespace" /\ \A x \in 1..MaxCalls \ {r} : data'[x] = data[x]
    BY <1>0, <2>0 DEF Phased, PublishDoes
  <2>6. Stages'
    BY <1>1, <1>3, <1>5, <2>5 DEF NsInv, Stages
  <2>7. HasPublished'
    <3> SUFFICES ASSUME NEW x \in 1..MaxCalls, NEW n \in names!Fetchers
                 PROVE  /\ field'[x][n] \in {0, x}
                        /\ requestState'[x] \in {"before", "handler"} /\ data'[x] # "null" /\ n \in publishers'[x]
                             /\ n \notin todo'[x] /\ awaited'[x] # n => data'[x] = "namespace" /\ field'[x][n] = x
      BY DEF HasPublished
    <3>1. /\ field[x][n] \in {0, x}
          /\ requestState[x] \in {"before", "handler"} /\ data[x] # "null" /\ n \in publishers[x]
               /\ n \notin todo[x] /\ awaited[x] # n => data[x] = "namespace" /\ field[x][n] = x
      BY DEF NsInv, HasPublished
    <3>2. CASE x # r
      <4>1. field'[x] = field[x]
        BY <2>0, <3>2 DEF PublishDoes
      <4> QED BY <1>1, <1>3, <1>5, <2>5, <3>1, <3>2, <4>1
    <3>3. CASE x = r /\ n = m
      <4>1. field'[r][m] = r
        BY <2>0 DEF PublishDoes
      <4> QED BY <2>5, <3>3, <4>1
    <3>4. CASE x = r /\ n # m
      <4>1. field'[r][n] = IF data[r] = "namespace" THEN field[r][n] ELSE 0
        BY <2>0, <3>4 DEF PublishDoes
      <4>2. data[r] # "null"
        BY <1>2 DEF NsInv, Stages
      <4> QED BY <1>1, <1>2, <1>5, <2>5, <3>1, <3>4, <4>1, <4>2
    <3> QED BY <3>2, <3>3, <3>4
  <2> QED BY <1>0, <2>1, <2>2, <2>3, <2>4, <2>6, <2>7 DEF NsInv
<1>6. CASE requestState' = [requestState EXCEPT ![r] = "onError"] /\ UNCHANGED <<data, inherited, field>>
  <2>1. names!TypeOK'
    <3>1. Phased'
      BY <1>0, <1>1, <1>6 DEF Phased
    <3>2. Linked' /\ Counted'
      BY <1>0, <1>1, <1>6 DEF Linked, Counted
    <3> QED BY <1>4, <3>1, <3>2, NsTypesNext
  <2>2. BuildsOn'
    BY <1>1, <1>6, BuildsOnStays
  <2>3. requestState'[r] = "onError" /\ \A x \in 1..MaxCalls \ {r} : requestState'[x] = requestState[x]
    BY <1>0, <1>6 DEF Phased
  <2>4. Lineage' /\ LateAlone'
    <3>1. late \subseteq 1..MaxCalls /\ derives \in [1..MaxCalls -> 0..MaxCalls]
      BY <1>0 DEF Linked
    <3> QED BY <1>0, <1>1, <1>6, <2>3, <3>1 DEF NsInv, Lineage, LateAlone
  <2>5. InOrder' /\ Flushes'
    BY <1>1, <1>2, <2>3 DEF NsInv, InOrder, Flushes
  <2>6. Marks'
    <3>1. marked \in [1..MaxCalls -> 0..MaxCalls]
      BY <1>0 DEF Linked
    <3> QED BY <1>0, <1>1, <1>6, <2>3, <3>1 DEF NsInv, Marks, names!Ended
  <2>7. Stages'
    BY <1>1, <1>3, <1>6, <2>3 DEF NsInv, Stages
  <2>8. HasPublished'
    BY <1>1, <1>3, <1>6, <2>3 DEF NsInv, HasPublished
  <2> QED BY <1>0, <2>1, <2>2, <2>4, <2>5, <2>6, <2>7, <2>8 DEF NsInv
<1> QED BY <1>5, <1>6 DEF names!Arrive

\* A request goes on, and no namespace is touched.
Moves(r, next) ==
  /\ next \in {"handler", "after", "flushed", "onError", "over", "done"}
  /\ requestState[r] # "uncalled" /\ requestState' = [requestState EXCEPT ![r] = next]
  /\ next = "handler" => requestState[r] = "before" /\ todo[r] = {}
  /\ awaited[r] = names!Nobody
  /\ UNCHANGED <<contextOf, derives, late, publishers, todo, awaited, data, inherited, field>>
LEMMA NsMoves ==
  ASSUME NsInv, NEW r \in names!Calls, NEW next, Moves(r, next)
  PROVE  /\ Phased' <=> logger' \in [names!Calls -> {"none", "held", "taken"}]
         /\ Linked' <=> marked' \in [names!Calls -> 0..MaxCalls]
         /\ Counted' <=> flushes' \in [names!Calls -> 0..MaxCalls]
         /\ Listed' /\ Lineage' /\ InOrder' /\ LateAlone' /\ Stages' /\ HasPublished' /\ BuildsOn'
         /\ requestState'[r] = next /\ \A x \in names!Calls \ {r} : requestState'[x] = requestState[x]
<1> USE DEF names!Calls, names!None
<1>0. MaxCalls \in Nat /\ Phased /\ Linked /\ Counted /\ Listed
  BY NsTypes DEF NsInv
<1>1. UNCHANGED <<contextOf, derives, late, publishers, todo, awaited, data, inherited, field>>
  BY DEF Moves
<1>2. requestState'[r] = next /\ \A x \in 1..MaxCalls \ {r} : requestState'[x] = requestState[x]
  BY <1>0 DEF Phased, Moves
<1>3. Phased' <=> logger' \in [1..MaxCalls -> {"none", "held", "taken"}]
  <2>1. requestState' \in [1..MaxCalls ->
          {"uncalled", "before", "handler", "after", "flushed", "onError", "over", "done"}]
    BY <1>0 DEF Phased, Moves
  <2> QED BY <1>0, <1>1, <2>1 DEF Phased
<1>4. /\ Linked' <=> marked' \in [1..MaxCalls -> 0..MaxCalls]
      /\ Counted' <=> flushes' \in [1..MaxCalls -> 0..MaxCalls]
  BY <1>0, <1>1 DEF Linked, Counted
<1>5. Listed'
  BY <1>0, <1>1 DEF Listed
<1>6. Lineage' /\ LateAlone'
  <2>1. late \subseteq 1..MaxCalls /\ derives \in [1..MaxCalls -> 0..MaxCalls]
    BY <1>0 DEF Linked
  <2> QED BY <1>0, <1>1, <1>2, <2>1 DEF NsInv, Lineage, LateAlone, Moves
<1>7. InOrder'
  BY <1>2 DEF NsInv, InOrder, Moves
<1>8. Stages'
  BY <1>1, <1>2 DEF NsInv, Stages, Moves
<1>9. HasPublished'
  BY <1>1, <1>2 DEF NsInv, HasPublished, Moves
<1>10. BuildsOn'
  BY <1>1, BuildsOnStays
<1> QED BY <1>2, <1>3, <1>4, <1>5, <1>6, <1>7, <1>8, <1>9, <1>10

\* A request reaches its handler, or leaves where it is.
LEMMA NsHandle == ASSUME NsInv, NEW r \in names!Calls, names!Handle(r) \/ names!Leave(r) PROVE NsInv'
<1> USE DEF names!Calls
<1>0. MaxCalls \in Nat /\ Phased /\ Linked /\ Counted
  BY NsTypes DEF NsInv
<1>1. PICK next : Moves(r, next) /\ next # "done" /\ UNCHANGED <<marked, logger, flushes>>
             /\ requestState[r] \in {"before", "handler", "after", "flushed", "onError"}
             /\ (requestState[r] \in {"flushed", "onError"} => next \in {"onError", "over"})
  <2>1. CASE names!Handle(r)
    <3>1. Moves(r, "handler")
      BY <2>1 DEF names!Handle, Moves
    <3> QED BY <2>1, <3>1 DEF names!Handle
  <2>2. CASE names!Leave(r)
    <3>1. CASE requestState[r] = "handler" /\ requestState' = [requestState EXCEPT ![r] = "after"]
      <4>1. Moves(r, "after")
        BY <2>2, <3>1 DEF names!Leave, Moves
      <4> QED BY <2>2, <3>1, <4>1 DEF names!Leave
    <3>2. CASE /\ requestState[r] \in {"before", "handler", "after", "flushed"}
               /\ requestState' = [requestState EXCEPT ![r] = "onError"]
      <4>1. Moves(r, "onError")
        BY <2>2, <3>2 DEF names!Leave, Moves
      <4> QED BY <2>2, <3>2, <4>1 DEF names!Leave
    <3>3. CASE /\ requestState[r] \in {"before", "after", "onError"}
               /\ requestState' = [requestState EXCEPT ![r] = "over"]
      <4>1. Moves(r, "over")
        BY <2>2, <3>3 DEF names!Leave, Moves
      <4> QED BY <2>2, <3>3, <4>1 DEF names!Leave
    <3> QED BY <2>2, <3>1, <3>2, <3>3 DEF names!Leave
  <2> QED BY <2>1, <2>2
<1>2. names!TypeOK'
  BY <1>0, <1>1, NsMoves, NsTypesNext DEF Phased, Linked, Counted
<1>3. requestState'[r] = next /\ \A x \in names!Calls \ {r} : requestState'[x] = requestState[x]
  BY <1>1, NsMoves
<1>4. Marks'
  <2>1. marked \in [1..MaxCalls -> 0..MaxCalls] /\ contextOf' = contextOf
    BY <1>0, <1>1 DEF Linked, Moves
  <2> QED BY <1>0, <1>1, <1>3, <2>1 DEF NsInv, Marks, names!Ended, Moves
<1>5. Flushes'
  BY <1>1, <1>3 DEF NsInv, Flushes
<1> QED BY <1>0, <1>1, <1>2, <1>4, <1>5, NsMoves DEF NsInv

\* cloudwatch-metrics publishes a logger of its own.
LEMMA NsMetricsBefore == ASSUME NsInv, NEW r \in names!Calls, names!MetricsBefore(r) PROVE NsInv'
<1> USE DEF names!Calls
<1>0. MaxCalls \in Nat /\ Phased /\ Linked /\ Counted /\ Listed
  BY NsTypes DEF NsInv
<1>1. /\ requestState[r] = "before" /\ todo' = [todo EXCEPT ![r] = @ \ {names!Metrics}]
      /\ logger' = [logger EXCEPT ![r] = "held"]
      /\ UNCHANGED <<requestState, contextOf, derives, marked, late, publishers, awaited, data, inherited, field>>
      /\ flushes' = flushes
  BY DEF names!MetricsBefore
<1>2. todo'[r] = todo[r] \ {names!Metrics} /\ \A x \in 1..MaxCalls \ {r} : todo'[x] = todo[x]
  BY <1>0, <1>1 DEF Listed
<1>3. logger'[r] = "held" /\ \A x \in 1..MaxCalls \ {r} : logger'[x] = logger[x]
  BY <1>0, <1>1 DEF Phased
<1>4. names!TypeOK'
  <2>1. Phased' /\ Linked' /\ Counted'
    BY <1>0, <1>1 DEF Phased, Linked, Counted
  <2>2. todo' \in [1..MaxCalls -> SUBSET (names!Fetchers \cup {names!Metrics})]
    BY <1>0, <1>1 DEF Listed
  <2>3. Listed'
    BY <1>0, <1>1, <2>2 DEF Listed
  <2> QED BY <2>1, <2>3, NsTypesNext
<1>5. BuildsOn'
  BY <1>1, BuildsOnStays
<1>6. Lineage' /\ InOrder' /\ Marks' /\ LateAlone'
  BY <1>1 DEF NsInv, Lineage, InOrder, Marks, LateAlone, names!Ended
<1>7. Stages'
  BY <1>1, <1>2 DEF NsInv, Stages
<1>8. HasPublished'
  <2>1. names!Metrics \notin names!Fetchers
    BY DEF names!Metrics, names!Fetchers
  <2> QED BY <1>1, <1>2, <2>1 DEF NsInv, HasPublished
<1>9. Flushes'
  BY <1>1, <1>3 DEF NsInv, Flushes
<1> QED BY <1>0, <1>4, <1>5, <1>6, <1>7, <1>8, <1>9 DEF NsInv

\* What is cleared takes itself away from the requests that derive from it.
LEMMA NsClear == ASSUME NsInv, NEW r \in names!Calls, names!Clear(r) PROVE NsInv'
<1> USE DEF names!Calls, names!None
<1>0. MaxCalls \in Nat /\ Phased /\ Linked /\ Counted /\ Listed /\ Shape
  BY NsTypes, ShapeHolds DEF NsInv
<1>1. /\ requestState[r] = "handler" /\ data' = [data EXCEPT ![r] = "null"]
      /\ UNCHANGED <<requestState, contextOf, derives, marked, late, publishers, todo, awaited, inherited, field>>
      /\ UNCHANGED <<logger, flushes>>
  BY DEF names!Clear
<1>2. data'[r] = "null" /\ \A x \in 1..MaxCalls \ {r} : data'[x] = data[x]
  BY <1>0, <1>1 DEF Phased
<1>3. names!TypeOK'
  <2>1. Phased' /\ Linked' /\ Counted' /\ Listed'
    BY <1>0, <1>1 DEF Phased, Linked, Counted, Listed
  <2> QED BY <2>1, NsTypesNext
<1>4. Lineage' /\ InOrder' /\ Marks' /\ LateAlone' /\ Flushes'
  BY <1>1 DEF NsInv, Lineage, InOrder, Marks, LateAlone, Flushes, names!Ended
<1>5. Stages' /\ HasPublished'
  BY <1>1, <1>2 DEF NsInv, Stages, HasPublished
<1> DEFINE X == {x \in 1..MaxCalls : names!Uncleared'[x]}
<1>6. Shape'
  BY <1>0, <1>1 DEF Shape
<1>7. UnclearedFollows'
  BY <1>6, FollowsNext
<1>8. \A x \in 1..MaxCalls : names!Uncleared'[x] => data'[x] # "null" /\ names!Uncleared'[derives[x]]
  BY <1>1, <1>7 DEF UnclearedFollows
<1>9. \A x \in X : derives'[x] = derives[x] /\ data'[x] = data[x] /\ (derives[x] = 0 \/ derives[x] \in X)
  <2> SUFFICES ASSUME NEW x \in X
               PROVE  derives'[x] = derives[x] /\ data'[x] = data[x] /\ (derives[x] = 0 \/ derives[x] \in X)
    OBVIOUS
  <2>1. x \in 1..MaxCalls /\ names!Uncleared'[x]
    OBVIOUS
  <2>2. data'[x] # "null" /\ names!Uncleared'[derives[x]]
    BY <1>8, <2>1, Zenon
  <2>3. derives[x] = 0 \/ derives[x] \in 1..MaxCalls
    BY <1>0, <2>1 DEF Linked
  <2>4. data'[x] = data[x]
    BY <1>2, <2>1, <2>2
  <2> QED BY <1>1, <2>2, <2>3, <2>4
<1>10. X \subseteq 1..MaxCalls /\ \A x \in 1..MaxCalls : names!Uncleared'[x] => x \in X
  OBVIOUS
<1> HIDE DEF X
<1>11. \A x \in X \cup {0} : names!Holder'[x] = names!Holder[x] /\ (names!Uncleared'[x] <=> names!Uncleared[x])
  BY <1>0, <1>6, <1>9, <1>10, Frame
<1>12. ASSUME NEW x \in 1..MaxCalls, data'[x] = "namespace", names!Uncleared'[x]
       PROVE  inherited'[x] = names!Holder'[derives'[x]]
  <2>1. x \in X
    BY <1>10, <1>12, Zenon
  <2>2. names!Uncleared[x]
    BY <1>11, <1>12, <2>1, Zenon
  <2>3. data[x] = "namespace" /\ derives'[x] = derives[x] /\ derives[x] \in X \cup {0}
    BY <1>9, <1>12, <2>1
  <2>4. names!Holder'[derives[x]] = names!Holder[derives[x]]
    BY <1>11, <2>3
  <2>5. inherited[x] = names!Holder[derives[x]]
    BY <2>2, <2>3 DEF NsInv, BuildsOn
  <2> QED BY <1>1, <2>3, <2>4, <2>5
<1>13. BuildsOn'
  BY <1>12 DEF BuildsOn
<1> QED BY <1>0, <1>3, <1>4, <1>5, <1>13 DEF NsInv

\* A logger is flushed where its own request ends, and no other is.
LEMMA NsFlushMetrics == ASSUME NsInv, NEW r \in names!Calls, names!FlushMetrics(r) PROVE NsInv'
<1> USE DEF names!Calls, names!None
<1>0. MaxCalls \in Nat /\ Phased /\ Linked /\ Counted /\ r # 0
  BY NsTypes DEF NsInv
<1> DEFINE next == IF requestState[r] = "after" THEN "flushed" ELSE "over"
           taken == {x \in 1..MaxCalls : x = r /\ logger[r] = "held"}
<1>1. /\ requestState[r] \in {"after", "onError"} /\ marked' = marked
      /\ requestState' = [requestState EXCEPT ![r] = next]
      /\ logger' = [s \in 1..MaxCalls |-> IF s = names!Taken(r) THEN "taken" ELSE logger[s]]
      /\ flushes' = [s \in 1..MaxCalls |-> IF s = names!Taken(r) THEN flushes[s] + 1 ELSE flushes[s]]
  BY DEF names!FlushMetrics
<1>2. Moves(r, next)
  <2>1. awaited[r] = names!Nobody
    BY <1>1 DEF NsInv, Stages
  <2> QED BY <1>1, <2>1 DEF names!FlushMetrics, Moves
<1>3. \A s \in 1..MaxCalls : s = names!Taken(r) <=> s \in taken
  BY <1>0 DEF names!Taken
<1>4. /\ \A x \in taken : x = r /\ logger'[x] = "taken" /\ flushes'[x] = 1
      /\ \A x \in 1..MaxCalls \ taken : logger'[x] = logger[x] /\ flushes'[x] = flushes[x]
  <2>1. \A x \in taken : flushes[x] = 0
    BY DEF NsInv, Flushes
  <2> QED BY <1>1, <1>3, <2>1
<1>5. taken \subseteq {r}
  OBVIOUS
<1> HIDE DEF taken
<1>6. logger' \in [1..MaxCalls -> {"none", "held", "taken"}]
  BY <1>0, <1>1 DEF Phased
<1>7. flushes' \in [1..MaxCalls -> 0..MaxCalls]
  <2>0. 1 \in 0..MaxCalls
    BY <1>0
  <2>1. 1 \in 0..MaxCalls /\ flushes \in [1..MaxCalls -> 0..MaxCalls]
    BY <1>0, <2>0, Zenon DEF Counted, names!Calls
  <2>2. \A x \in 1..MaxCalls : flushes'[x] \in 0..MaxCalls
    BY <1>4, <2>1
  <2> QED BY <1>1, <2>2
<1>8. names!TypeOK'
  BY <1>0, <1>1, <1>2, <1>6, <1>7, NsMoves, NsTypesNext DEF Linked
<1>9. requestState'[r] \in {"flushed", "over"} /\ \A x \in names!Calls \ {r} : requestState'[x] = requestState[x]
  BY <1>2, NsMoves
<1>10. Marks'
  <2>1. marked \in [1..MaxCalls -> 0..MaxCalls] /\ contextOf' = contextOf
    BY <1>0, <1>2 DEF Linked, Moves
  <2> QED BY <1>0, <1>1, <1>9, <2>1 DEF NsInv, Marks, names!Ended
<1>11. Flushes'
  <2> SUFFICES ASSUME NEW x \in 1..MaxCalls
               PROVE  /\ flushes'[x] = IF logger'[x] = "taken" THEN 1 ELSE 0
                      /\ logger'[x] = "taken" => requestState'[x] \in {"flushed", "onError", "over", "done"}
    BY DEF Flushes
  <2>1. /\ flushes[x] = IF logger[x] = "taken" THEN 1 ELSE 0
        /\ logger[x] = "taken" => requestState[x] \in {"flushed", "onError", "over", "done"}
    BY DEF NsInv, Flushes
  <2>2. CASE x \in taken
    BY <1>4, <1>9, <2>2
  <2>3. CASE x \notin taken
    BY <1>4, <1>9, <2>1, <2>3
  <2> QED BY <2>2, <2>3
<1> QED BY <1>0, <1>2, <1>8, <1>10, <1>11, NsMoves DEF NsInv

\* A request ends, and nothing is in flight on its context any more.
LEMMA NsFinish == ASSUME NsInv, NEW r \in names!Calls, names!Finish(r) PROVE NsInv'
<1> USE DEF names!Calls, names!None
<1>0. MaxCalls \in Nat /\ Phased /\ Linked /\ Counted
  BY NsTypes DEF NsInv
<1>1. requestState[r] \in {"flushed", "over"} /\ marked' = [marked EXCEPT ![contextOf[r]] = 0]
      /\ UNCHANGED <<contextOf, logger, flushes>>
  BY DEF names!Finish, names!Unmarked
<1>2. Moves(r, "done")
  <2>1. awaited[r] = names!Nobody
    BY <1>1 DEF NsInv, Stages
  <2> QED BY <1>1, <2>1 DEF names!Finish, Moves
<1>3. marked' \in [1..MaxCalls -> 0..MaxCalls]
  <2>0. 0 \in 0..MaxCalls
    BY <1>0
  <2>1. 0 \in 0..MaxCalls /\ marked \in [1..MaxCalls -> 0..MaxCalls]
    BY <1>0, <2>0, Zenon DEF Linked
  <2>2. \A c : [marked EXCEPT ![c] = 0] \in [1..MaxCalls -> 0..MaxCalls]
    BY <2>1
  <2> QED BY <1>1, <2>2
<1>4. names!TypeOK'
  BY <1>0, <1>1, <1>2, <1>3, NsMoves, NsTypesNext DEF Phased, Counted
<1>5. requestState'[r] = "done" /\ \A x \in names!Calls \ {r} : requestState'[x] = requestState[x]
  BY <1>2, NsMoves
<1>6. Marks'
  <2> SUFFICES ASSUME NEW c \in 1..MaxCalls, marked'[c] # 0
               PROVE  contextOf'[marked'[c]] = c /\ requestState'[marked'[c]] \notin {"uncalled", "done"}
    BY DEF Marks, names!Ended
  <2>1. marked \in [1..MaxCalls -> 0..MaxCalls]
    BY <1>0 DEF Linked
  <2>2. c # contextOf[r] /\ marked'[c] = marked[c] /\ marked[c] \in 1..MaxCalls
    BY <1>0, <1>1, <2>1
  <2>3. contextOf[marked[c]] = c /\ requestState[marked[c]] \notin {"uncalled", "done"}
    BY <2>2 DEF NsInv, Marks, names!Ended
  <2> QED BY <1>1, <1>5, <2>2, <2>3
<1>7. Flushes'
  BY <1>1, <1>5 DEF NsInv, Flushes
<1> QED BY <1>0, <1>2, <1>4, <1>6, <1>7, NsMoves DEF NsInv

\* So every step keeps them in order.
LEMMA NsNext == ASSUME NsInv, [names!Next]_(names!vars) PROVE NsInv'
<1>1. CASE names!Next
  <2>1. PICK r \in names!Calls :
          \/ \E q \in names!Calls : names!Call(r, q)
          \/ \E m \in names!Fetchers : names!FetcherBefore(r, m)
          \/ names!Arrive(r) \/ names!MetricsBefore(r) \/ names!Handle(r) \/ names!Clear(r) \/ names!Leave(r)
          \/ names!FlushMetrics(r) \/ names!Finish(r)
    BY <1>1 DEF names!Next
  <2> QED BY <2>1, NsCall, NsFetcherBefore, NsArrive, NsMetricsBefore, NsHandle, NsClear, NsFlushMetrics,
             NsFinish
<1>2. CASE UNCHANGED names!vars
  <2>1. UNCHANGED <<requestState, contextOf, derives, marked, late, publishers, todo, awaited, data, inherited>>
        /\ UNCHANGED <<field, logger, flushes>>
    BY <1>2 DEF names!vars
  <2>2. BuildsOn'
    BY <2>1, BuildsOnStays
  <2>3. names!TypeOK'
    BY <2>1 DEF NsInv, names!TypeOK, names!Calls
  <2>4. Lineage' /\ InOrder' /\ Marks' /\ LateAlone' /\ Flushes'
    BY <2>1 DEF NsInv, Lineage, InOrder, Marks, LateAlone, Flushes, names!Ended, names!Calls
  <2>5. Stages' /\ HasPublished'
    BY <2>1 DEF NsInv, Stages, HasPublished, names!Calls
  <2> QED BY <2>2, <2>3, <2>4, <2>5 DEF NsInv
<1> QED BY <1>1, <1>2

\* What is read along the namespaces is what the request and those it derives from published.
LEMMA NsSeen == NsInv => names!OwnNamespaceOnly
<1> SUFFICES ASSUME NsInv, NEW r \in names!Calls, NEW n \in names!Fetchers
             PROVE  /\ field[r][n] \in {0, r}
                    /\ r \in late => names!Seen(r, n) \in {0, r}
                    /\ requestState[r] = "handler" /\ data[r] # "null" /\ n \in publishers[r]
                         => names!Seen(r, n) = r
                    /\ derives[r] # 0 /\ names!Uncleared[r] /\ names!Seen(derives[r], n) # 0 => names!Seen(r, n) # 0
  BY DEF names!OwnNamespaceOnly, names!None
<1> USE DEF names!Calls, names!None
<1>0. MaxCalls \in Nat /\ Phased /\ Linked /\ Shape /\ r # 0
  BY NsTypes, ShapeHolds DEF NsInv
<1>1. HolderFollows /\ AlongFollows
  BY <1>0, HolderIs, AlongIs
<1>2. names!Holder[r] = IF data[r] # "absent" THEN r ELSE names!Holder[derives[r]]
  BY <1>1 DEF HolderFollows
<1>3. names!Along(0, n) = 0 /\ names!Along(r, n) = IF field[r][n] # 0 THEN field[r][n] ELSE names!Along(inherited[r], n)
  BY <1>1 DEF AlongFollows
<1>4. field[r][n] \in {0, r} /\ names!Holder[0] = 0
  BY <1>1 DEF NsInv, HasPublished, HolderFollows
<1>5. ASSUME r \in late PROVE names!Seen(r, n) \in {0, r}
  <2>1. derives[r] = 0 /\ inherited[r] = 0
    BY <1>5 DEF NsInv, LateAlone, Lineage
  <2>2. names!Along(r, n) \in {0, r} /\ names!Holder[r] \in {0, r}
    BY <1>2, <1>3, <1>4, <2>1
  <2> QED BY <2>2 DEF names!Seen
<1>6. ASSUME requestState[r] = "handler", data[r] # "null", n \in publishers[r] PROVE names!Seen(r, n) = r
  <2>1. todo[r] = {} /\ awaited[r] = names!Nobody
    BY <1>6 DEF NsInv, Stages
  <2>2. n # names!Nobody
    BY DEF names!Fetchers, names!Nobody
  <2>3. data[r] = "namespace" /\ field[r][n] = r
    BY <1>6, <2>1, <2>2 DEF NsInv, HasPublished
  <2> QED BY <1>0, <1>2, <1>3, <2>3 DEF names!Seen
<1>7. ASSUME derives[r] # 0, names!Uncleared[r], names!Seen(derives[r], n) # 0 PROVE names!Seen(r, n) # 0
  <2>1. data[r] # "null" /\ data[r] \in {"absent", "null", "namespace"}
    <3>1. data[r] # "null"
      BY <1>0, <1>7, UnclearedIs DEF UnclearedFollows
    <3> QED BY <1>0, <3>1 DEF Phased
  <2>2. CASE data[r] = "absent"
    BY <1>2, <1>7, <2>2 DEF names!Seen
  <2>3. CASE data[r] = "namespace"
    <3>1. inherited[r] = names!Holder[derives[r]]
      BY <1>7, <2>3 DEF NsInv, BuildsOn
    <3>2. names!Along(inherited[r], n) # 0
      BY <1>7, <3>1 DEF names!Seen
    <3>3. names!Along(r, n) # 0 /\ names!Holder[r] = r
      BY <1>2, <1>3, <1>4, <2>3, <3>2
    <3> QED BY <1>0, <2>3, <3>3 DEF names!Seen
  <2> QED BY <2>1, <2>2, <2>3
<1> QED BY <1>4, <1>5, <1>6, <1>7

\* For any number of requests nested in any way: what a middleware publishes is found by its own
\* handler and by those called under it, unless it is cleared, and by none called when nothing was
\* in flight (contextNamespace and assignSetToContext, util/index.js); each logger is flushed once
\* at most, by its own request (cloudwatch-metrics/index.js).
THEOREM NamespacesAreOwn ==
  ASSUME MaxCalls \in Nat
  PROVE  names!Spec => [](names!TypeOK /\ names!OwnNamespaceOnly /\ names!OwnLoggerOnce)
<1>1. names!Init => NsInv
  BY NsInit
<1>2. NsInv /\ [names!Next]_(names!vars) => NsInv'
  BY NsNext
<1>3. NsInv => names!TypeOK /\ names!OwnNamespaceOnly /\ names!OwnLoggerOnce
  <2>1. ASSUME NsInv PROVE names!OwnLoggerOnce
    BY <2>1 DEF NsInv, Flushes, names!OwnLoggerOnce
  <2> QED BY <2>1, NsSeen DEF NsInv
<1> QED BY <1>1, <1>2, <1>3, PTL DEF names!Spec
=============================================================================
