----------------------------- MODULE TaskRunner -----------------------------
(***************************************************************************)
(* ecsTaskRunner of @middy/ecs-task: one run of the handler, one of the two *)
(* callbacks, and the exit that SIGTERM forces when they take too long.     *)
(***************************************************************************)
EXTENDS Naturals

VARIABLES
  task,        \* what is awaited: "handler", "onSuccess", "onFailure", or "exited"
  forcedExit,  \* the timer of onSigterm is armed
  signalled,   \* SIGTERM has come
  exitCode,    \* the exit code, or NoExit
  failures     \* history: what has failed

vars == <<task, forcedExit, signalled, exitCode, failures>>
NoExit == 255

Init == task = "handler" /\ forcedExit = FALSE /\ signalled = FALSE /\ exitCode = NoExit /\ failures = {}

Exit(code) == task' = "exited" /\ exitCode' = code /\ forcedExit' = FALSE
Awaits(next) == task' = next /\ UNCHANGED <<exitCode, forcedExit>>

HandlerEnds(ok) ==
  /\ task = "handler" /\ Awaits(IF ok THEN "onSuccess" ELSE "onFailure")
  /\ failures' = (IF ok THEN failures ELSE failures \cup {"handler"})
  /\ UNCHANGED signalled
\* Fault: an error of onSuccess is swallowed, like one of onFailure.
ExitsAnyway(ok) == Exit(0)
\* An error of onSuccess is an error of the task: onFailure hears of it.
SucceedsIf(ok) == IF ok THEN Exit(0) ELSE Awaits("onFailure")
OnSuccessEnds(ok) ==
  /\ task = "onSuccess" /\ SucceedsIf(ok)
  /\ failures' = (IF ok THEN failures ELSE failures \cup {"onSuccess"})
  /\ UNCHANGED signalled
\* Whether it throws or not.
OnFailureEnds == task = "onFailure" /\ Exit(1) /\ UNCHANGED <<signalled, failures>>

\* Fault: the signal is only remembered.
TimerNotArmed == UNCHANGED forcedExit
ArmTimer == forcedExit' = TRUE
Sigterm ==
  /\ task # "exited" /\ ~signalled /\ signalled' = TRUE /\ ArmTimer
  /\ UNCHANGED <<task, exitCode, failures>>
ForcedExit == forcedExit /\ Exit(124) /\ UNCHANGED <<signalled, failures>>

Next == (\E ok \in BOOLEAN : HandlerEnds(ok) \/ OnSuccessEnds(ok)) \/ OnFailureEnds \/ Sigterm \/ ForcedExit
Spec == Init /\ [][Next]_vars

----------------------------------------------------------------------------
TypeOK ==
  /\ task \in {"handler", "onSuccess", "onFailure", "exited"}
  /\ forcedExit \in BOOLEAN /\ signalled \in BOOLEAN
  /\ exitCode \in {0, 1, 124, NoExit} /\ failures \subseteq {"handler", "onSuccess"}

\* The task reports success only if neither the handler nor onSuccess has failed, and
\* failure only if one of them has or the exit was forced.
SuccessIsWhole == (exitCode = 0 => failures = {}) /\ (exitCode = 1 => failures # {})
=============================================================================
