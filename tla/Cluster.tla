------------------------------ MODULE Cluster ------------------------------
(***************************************************************************)
(* The node:cluster primary of @middy/ecs-batch (packages/ecs-batch/index.js;*)
(* @middy/ecs-http runs the same primary, without a source that can close) *)
(* and its workers as the primary sees them: forks, exits, re-forks with    *)
(* backoff, and the drain that SIGTERM or a closed source starts.           *)
(*                                                                         *)
(* Workers are numbered in the order of their forks.  The primary learns of  *)
(* a worker's death by two events, exit and disconnect, in either order;    *)
(* cluster.workers lists the worker until the second one.  The initial state *)
(* is the one in which runPrimary has returned.                             *)
(***************************************************************************)
EXTENDS Integers, FiniteSets

CONSTANTS
  Workers,       \* options.workers
  InitialDelay,  \* reforkBackoff.initialMs
  MaxDelay,      \* reforkBackoff.maxMs
  MaxForks       \* bound: workers forked in all

ASSUME ClusterAssumption ==
  /\ Workers \in Nat \ {0} /\ MaxForks \in Nat /\ Workers <= MaxForks
  /\ InitialDelay \in Nat \ {0} /\ MaxDelay \in Nat /\ InitialDelay <= MaxDelay

VARIABLES
  primary,         \* "running", "stopping" (the flag stopping) or "exited"
  terminated,      \* ECS has sent the task its SIGTERM
  workerExitCode,  \* the code the primary exits with
  due,             \* re-forks whose timer has not fired
  delay,           \* delayMs
  forked,          \* workers forked so far
  proc,            \* proc[w]: the process of worker w
  code,            \* code[w]: the code it exited with
  sigterm,         \* the workers that have a SIGTERM pending
  exitSeen,        \* the workers whose exit event the primary has had
  disconnectSeen,  \* the workers whose disconnect event it has had
  replaced         \* history: the workers whose exit started a re-fork timer

primaryVars == <<primary, terminated, workerExitCode>>
reforkVars == <<due, delay, forked, replaced>>
eventVars == <<exitSeen, disconnectSeen>>
workerVars == <<proc, code, sigterm>>
vars == <<primaryVars, reforkVars, eventVars, workerVars>>

Forks == 1..MaxForks
Forked == 1..forked
Alive == {w \in Forked : proc[w] # "dead"}

BySignal == -1      \* the code of a worker that a signal killed: null
SourceClosed == 2   \* sourceClosedExitCode

\* Object.values(cluster.workers), after the exit events of E and the disconnect
\* events of D.
LiveWorkers(E, D) == Forked \ (E \cap D)

Init ==
  /\ primary = "running" /\ terminated = FALSE /\ workerExitCode = 0
  /\ due = 0 /\ delay = 0 /\ forked = Workers /\ replaced = {}
  /\ exitSeen = {} /\ disconnectSeen = {} /\ sigterm = {}
  /\ proc = [w \in Forks |-> IF w <= Workers THEN "booting" ELSE "none"]
  /\ code = [w \in Forks |-> 0]

----------------------------------------------------------------------------
(* Workers                                                                 *)

Die(w, c) ==
  /\ proc' = [proc EXCEPT ![w] = "dead"]
  /\ code' = [code EXCEPT ![w] = c]
  /\ sigterm' = sigterm \ {w}

\* runWorker has installed the SIGTERM handler.
Ready(w) ==
  /\ w \in Forked /\ proc[w] = "booting"
  /\ proc' = [proc EXCEPT ![w] = "up"]
  /\ UNCHANGED <<code, sigterm, primaryVars, reforkVars, eventVars>>

\* A crash, a poll loop that rejects, or a kill from outside.
Fail(w) ==
  /\ w \in Alive
  /\ \E c \in {1, BySignal} : Die(w, c)
  /\ UNCHANGED <<primaryVars, reforkVars, eventVars>>

\* The poll loop rejects with a SourceClosedError.
SourceCloses(w) ==
  /\ w \in Alive /\ proc[w] # "booting"
  /\ Die(w, SourceClosed)
  /\ UNCHANGED <<primaryVars, reforkVars, eventVars>>

\* The handler is installed for one signal: before it and after it the signal
\* kills the worker.
TakeSigterm(w) ==
  /\ w \in Alive \cap sigterm
  /\ IF proc[w] = "up"
     THEN /\ proc' = [proc EXCEPT ![w] = "draining"]
          /\ sigterm' = sigterm \ {w}
          /\ UNCHANGED code
     ELSE Die(w, BySignal)
  /\ UNCHANGED <<primaryVars, reforkVars, eventVars>>

\* drainAndExit: the loop has settled, or the deadline has passed.
DrainEnds(w) ==
  /\ w \in Alive /\ proc[w] = "draining"
  /\ \E c \in {0, 1} : Die(w, c)
  /\ UNCHANGED <<primaryVars, reforkVars, eventVars>>

----------------------------------------------------------------------------
(* The primary                                                             *)

\* exitWhenDrained, when the workers live are listed.
ExitWhenDrained(live) ==
  primary' = IF live = {} THEN "exited" ELSE "stopping"

\* Fault: the primary does not wait for the workers it signalled.
StopAtOnce(live) ==
  /\ sigterm' = sigterm \cup (live \cap Alive)
  /\ primary' = "exited"

\* onSigterm: pass the signal on to every worker listed.
Stop(live) ==
  /\ sigterm' = sigterm \cup (live \cap Alive)
  /\ ExitWhenDrained(live)

\* Fault: the code of a worker that a signal killed passes as 0.
ReportedNullAsZero(w) == IF code[w] = BySignal THEN 0 ELSE code[w]

Reported(w) == IF code[w] = BySignal THEN 1 ELSE code[w]

\* Fault: the first exit counts as one that follows another.
NextDelayFromZero ==
  \/ delay' = InitialDelay
  \/ delay' = IF 2 * delay > MaxDelay THEN MaxDelay ELSE 2 * delay

\* Fault: the doubling has no cap.
NextDelayUncapped ==
  \/ delay' = InitialDelay
  \/ replaced # {} /\ delay' = 2 * delay

\* nextReforkDelay: the initial delay if the exit before was healthyMs ago, as
\* it is for the first one, or else twice the delay before.
NextDelay ==
  \/ delay' = InitialDelay
  \/ /\ replaced # {}
     /\ delay' = IF 2 * delay > MaxDelay THEN MaxDelay ELSE 2 * delay

\* The exit event of a worker, when the task stops, when the worker's source
\* has closed, and otherwise.
ExitEvent(w) ==
  /\ primary # "exited"
  /\ w \in Forked \ (Alive \cup exitSeen)
  /\ exitSeen' = exitSeen \cup {w}
  /\ \/ /\ primary = "stopping"
        /\ workerExitCode' = IF Reported(w) > workerExitCode
                             THEN Reported(w) ELSE workerExitCode
        /\ ExitWhenDrained(LiveWorkers(exitSeen \cup {w}, disconnectSeen))
        /\ UNCHANGED <<sigterm, reforkVars>>
     \/ /\ primary = "running" /\ code[w] = SourceClosed
        /\ workerExitCode' = SourceClosed
        /\ Stop(LiveWorkers(exitSeen \cup {w}, disconnectSeen))
        /\ UNCHANGED reforkVars
     \/ /\ primary = "running" /\ code[w] # SourceClosed
        /\ due' = due + 1 /\ replaced' = replaced \cup {w}
        /\ NextDelay
        /\ UNCHANGED <<primary, workerExitCode, forked, sigterm>>
  /\ UNCHANGED <<terminated, disconnectSeen, proc, code>>

\* Fault: only exit events look whether the workers are gone.
DisconnectUnchecked(w) ==
  /\ primary # "exited"
  /\ w \in Forked \ (Alive \cup disconnectSeen)
  /\ disconnectSeen' = disconnectSeen \cup {w}
  /\ UNCHANGED <<primaryVars, exitSeen, reforkVars, workerVars>>

\* Fault: a worker that disconnects is replaced as one that exits is.
DisconnectReforks(w) ==
  /\ primary # "exited"
  /\ w \in Forked \ (Alive \cup disconnectSeen)
  /\ disconnectSeen' = disconnectSeen \cup {w}
  /\ \/ /\ primary = "stopping" /\ UNCHANGED reforkVars
        /\ ExitWhenDrained(LiveWorkers(exitSeen, disconnectSeen \cup {w}))
     \/ /\ primary = "running" /\ due' = due + 1 /\ NextDelay
        /\ UNCHANGED <<primary, forked, replaced>>
  /\ UNCHANGED <<terminated, workerExitCode, exitSeen, workerVars>>

\* The disconnect event of a worker.
DisconnectEvent(w) ==
  /\ primary # "exited"
  /\ w \in Forked \ (Alive \cup disconnectSeen)
  /\ disconnectSeen' = disconnectSeen \cup {w}
  /\ IF primary = "stopping"
     THEN ExitWhenDrained(LiveWorkers(exitSeen, disconnectSeen \cup {w}))
     ELSE UNCHANGED primary
  /\ UNCHANGED <<terminated, workerExitCode, exitSeen, reforkVars, workerVars>>

Fork ==
  /\ forked < MaxForks
  /\ forked' = forked + 1
  /\ proc' = [proc EXCEPT ![forked + 1] = "booting"]

\* Fault: the timer forks even when the task stops.
ReforkAlways ==
  /\ primary # "exited" /\ due > 0 /\ due' = due - 1
  /\ Fork
  /\ UNCHANGED <<primaryVars, delay, replaced, eventVars, code, sigterm>>

\* The timer of a re-fork fires; it forks nothing once the task stops.
Refork ==
  /\ primary # "exited" /\ due > 0 /\ due' = due - 1
  /\ IF primary = "running" THEN Fork ELSE UNCHANGED <<forked, proc>>
  /\ UNCHANGED <<primaryVars, delay, replaced, eventVars, code, sigterm>>

\* ECS stops the task; the handler is installed once, and ECS signals once.
Sigterm ==
  /\ primary # "exited" /\ ~terminated /\ terminated' = TRUE
  /\ Stop(LiveWorkers(exitSeen, disconnectSeen))
  /\ UNCHANGED <<workerExitCode, reforkVars, eventVars, proc, code>>

----------------------------------------------------------------------------
\* A step of worker w's process.
WorkerStep(w) ==
  \/ Ready(w) \/ Fail(w) \/ SourceCloses(w) \/ TakeSigterm(w) \/ DrainEnds(w)

Next ==
  \/ \E w \in Forks : WorkerStep(w) \/ ExitEvent(w) \/ DisconnectEvent(w)
  \/ Refork \/ Sigterm

\* Signals and events arrive, and a worker's drain has a deadline.
Fairness ==
  \A w \in Forks :
    /\ WF_vars(TakeSigterm(w)) /\ WF_vars(DrainEnds(w))
    /\ WF_vars(ExitEvent(w)) /\ WF_vars(DisconnectEvent(w))

Spec == Init /\ [][Next]_vars /\ Fairness

----------------------------------------------------------------------------
(* Properties                                                              *)

\* The state is well typed; the delay never passes its cap.
TypeOK ==
  /\ primary \in {"running", "stopping", "exited"} /\ terminated \in BOOLEAN
  /\ workerExitCode \in 0..SourceClosed
  /\ due \in Nat /\ delay \in 0..MaxDelay /\ forked \in Workers..MaxForks
  /\ proc \in [Forks -> {"none", "booting", "up", "draining", "dead"}]
  /\ code \in [Forks -> BySignal..SourceClosed]
  /\ exitSeen \subseteq Forked /\ disconnectSeen \subseteq Forked
  /\ replaced \subseteq exitSeen /\ sigterm \subseteq Forked

\* While the task runs, every worker that died is replaced exactly once: the
\* workers not known to have exited and the re-forks under way are always as
\* many as the options ask for, whatever the order of the events of a death.
WorkersReplaced ==
  primary = "running" => Cardinality(Forked \ exitSeen) + due = Workers

\* No re-fork is ever scheduled without delay: a worker that dies as it starts
\* cannot make the primary fork in a tight loop.
ReforksBackedOff == due > 0 => delay >= InitialDelay

\* The primary does not exit while a process it forked is alive.
ExitsLast == primary = "exited" => Alive = {}

\* The task exits with the highest code of the workers that were not replaced,
\* a kill counting as 1: no failure of the drain is lost, and no failure that a
\* re-fork made good is reported.
ExitCodeTells ==
  primary = "exited" =>
    LET counted == Forked \ replaced
        CodeOf(w) == IF code[w] = BySignal THEN 1 ELSE code[w]
    IN /\ \A w \in counted : CodeOf(w) <= workerExitCode
       /\ workerExitCode = 0 \/ \E w \in counted : CodeOf(w) = workerExitCode

\* A task that begins to stop exits: no worker is left unsignalled, no event of
\* a death is the last without the primary noticing that nobody is left.
StopsEventually == primary = "stopping" ~> primary = "exited"

\* What the guide says of a worker on SIGTERM: it awaits the handler in flight
\* and exits by itself.  So no second signal is sent to a worker that drains.
DrainUndisturbed == \A w \in Forked : proc[w] = "draining" => w \notin sigterm
============================================================================
