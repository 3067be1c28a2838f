---------------------------- MODULE Invocation ----------------------------
(***************************************************************************)
(* What a caller of middy(event, context) is promised, whatever the        *)
(* middlewares, the handler and the timers do meanwhile.                    *)
(*                                                                         *)
(* A call opens a scope: from then until its stack commits a result, the   *)
(* context it works on shows the call's own namespace.  It commits ONE     *)
(* result, an answer or a set of errors, and only then gives the context   *)
(* up.  The requestEnd hook runs after the commit, once; it can fail the   *)
(* call, and then its error is added to what was committed.  Nothing else  *)
(* may change a result: not a handler that settles late, not a timer, not  *)
(* another call on the same context.                                       *)
(***************************************************************************)
CONSTANTS Requests, Answers, Errors, None

VARIABLES
  phase,    \* phase[r]: how far call r is
  scope,    \* scope[r]: whose namespace the context of an open r shows
  result    \* result[r]: what r has committed, or settled with

vars == <<phase, scope, result>>

NoResult == [answer |-> None, errors |-> {}]
Answered(v) == [answer |-> v, errors |-> {}]
Failed(E) == [answer |-> None, errors |-> E]
Results == {Answered(v) : v \in Answers} \cup {Failed(E) : E \in (SUBSET Errors) \ {{}}}

Init ==
  /\ phase = [r \in Requests |-> "idle"]
  /\ scope = [r \in Requests |-> None]
  /\ result = [r \in Requests |-> NoResult]

Open(r) ==
  /\ phase[r] = "idle"
  /\ phase' = [phase EXCEPT ![r] = "open"]
  /\ scope' = [scope EXCEPT ![r] = r]
  /\ UNCHANGED result

\* The requestStart hook threw: nothing was opened.
Refuse(r) ==
  /\ phase[r] = "idle"
  /\ phase' = [phase EXCEPT ![r] = "closed"]
  /\ \E res \in Results : res.errors # {} /\ result' = [result EXCEPT ![r] = res]
  /\ UNCHANGED scope

Commit(r) ==
  /\ phase[r] = "open"
  /\ phase' = [phase EXCEPT ![r] = "committed"]
  /\ scope' = [scope EXCEPT ![r] = None]
  /\ \E res \in Results : result' = [result EXCEPT ![r] = res]

Close(r) ==
  /\ phase[r] = "committed"
  /\ phase' = [phase EXCEPT ![r] = "closed"]
  /\ \/ UNCHANGED result
     \/ \E e \in Errors : result' = [result EXCEPT ![r] = Failed(@.errors \cup {e})]
  /\ UNCHANGED scope

Next == \E r \in Requests : Open(r) \/ Refuse(r) \/ Commit(r) \/ Close(r)

Spec == Init /\ [][Next]_vars
============================================================================
