----------------------------- MODULE StackReport -----------------------------
(***************************************************************************)
(* A CloudFormation custom resource under @middy/cloudformation-response    *)
(* with sendResponse on, and one other middleware that may answer early and *)
(* whose after hook may throw.  CloudFormation (external) takes what is PUT *)
(* to the ResponseURL of the event; the answer of a PUT may be lost.        *)
(***************************************************************************)
EXTENDS Naturals, Sequences

VARIABLES
  outer,    \* the other middleware is registered first
  phase,    \* what comes next, "returned" or "rejected"
  handled,  \* what the handler did: "SUCCESS", "FAILED" (its own Status), "invalid", "thrown"
  response, \* the Status of request.response, "none", or "other": early, or no object
  oversized,    \* the response of the handler is too large, even without its Reason
  told,     \* history: the Status of each PUT CloudFormation has taken
  lost      \* history: the answer of one was lost

vars == <<outer, phase, handled, response, oversized, told, lost>>

Init ==
  /\ outer \in BOOLEAN /\ phase = "before"
  /\ handled = "none" /\ response = "none" /\ oversized = FALSE
  /\ told = <<>> /\ lost = FALSE

\* The before hook of the other middleware.
Before ==
  /\ phase = "before"
  /\ \/ phase' = "handler" /\ UNCHANGED response
     \/ phase' = "onError" /\ UNCHANGED response
     \/ phase' = "returned" /\ response' = "other"  \* early: the after hooks are skipped
  /\ UNCHANGED <<outer, handled, oversized, told, lost>>
Handler ==
  /\ phase = "handler" /\ handled' \in {"SUCCESS", "FAILED", "invalid", "thrown"}
  /\ response' = CASE handled' = "thrown" -> "none" [] handled' = "invalid" -> "other" [] OTHER -> handled'
  /\ oversized' \in BOOLEAN
  /\ phase' = IF handled' = "thrown" THEN "onError" ELSE IF outer THEN "after" ELSE "otherAfter"
  /\ UNCHANGED <<outer, told, lost>>
OtherAfter ==
  /\ phase = "otherAfter" /\ phase' \in {IF outer THEN "returned" ELSE "after", "onError"}
  /\ response' = IF phase' = "onError" THEN "none" ELSE response
  /\ UNCHANGED <<outer, handled, oversized, told, lost>>

\* The PUT of sendResponse, or what stands in its way: it arrives, or its answer is lost (the
\* middleware throws, too), or nothing arrives.
Put(status, tooLarge, answered) ==
  IF answered THEN ~tooLarge /\ told' = Append(told, status) /\ UNCHANGED lost
  ELSE \/ ~tooLarge /\ told' = Append(told, status) /\ lost' = TRUE
       \/ UNCHANGED <<told, lost>>
\* Fault: whatever the handler returned is sent.
Anything(status) == TRUE
Shaped(status) == status # "other"
After ==
  /\ phase = "after"
  /\ \/ /\ Shaped(response) /\ Put(response, oversized, TRUE)
        /\ phase' = (IF outer THEN "otherAfter" ELSE "returned") /\ UNCHANGED response
     \/ /\ IF Shaped(response) THEN Put(response, oversized, FALSE) ELSE UNCHANGED <<told, lost>>
        /\ phase' = "onError" /\ response' = "none"
  /\ UNCHANGED <<outer, handled, oversized>>
\* Fault: the after hook gives the error its default Status.
DefaultStatus == "SUCCESS"
ErrorStatus == "FAILED"
\* Its Reason is trimmed to what CloudFormation takes.
OnError ==
  /\ phase = "onError" /\ response' = ErrorStatus
  /\ \E answered \in BOOLEAN :
       Put(ErrorStatus, FALSE, answered) /\ phase' = IF answered THEN "returned" ELSE "rejected"
  /\ UNCHANGED <<outer, handled, oversized>>

Next == Before \/ Handler \/ OtherAfter \/ After \/ OnError
Spec == Init /\ [][Next]_vars

----------------------------------------------------------------------------
TypeOK ==
  /\ outer \in BOOLEAN /\ oversized \in BOOLEAN /\ lost \in BOOLEAN
  /\ phase \in {"before", "handler", "otherAfter", "after", "onError", "returned", "rejected"}
  /\ handled \in {"none", "SUCCESS", "FAILED", "invalid", "thrown"}
  /\ response \in {"none", "other", "SUCCESS", "FAILED"} /\ told \in Seq({"other", "SUCCESS", "FAILED"})

\* An invocation that returns, but for an early answer of another middleware, has told
\* CloudFormation what it returns; success is told for a handler that succeeded only, and
\* nothing is told twice, but after a lost answer or an after hook that throws later.
StackIsTold ==
  /\ phase = "returned" /\ response # "other" => told # <<>> /\ told[Len(told)] = response
  /\ \A n \in DOMAIN told : told[n] = handled \/ (told[n] = "FAILED" /\ n = Len(told))
  /\ Len(told) > 1 => (outer \/ lost) /\ Len(told) = 2
=============================================================================
