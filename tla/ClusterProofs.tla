---------------------------- MODULE ClusterProofs ----------------------------
(***************************************************************************)
(* Proofs about the cluster primary, for any number of workers and          *)
(* re-forks and any backoff, about a worker that serves HTTP, about the     *)
(* task of @middy/ecs-task, about the forms that                            *)
(* @middy/http-multipart-body-parser reads of the requests that are served, *)
(* and about the tables of the routers that dispatch them.                  *)
(***************************************************************************)
EXTENDS Cluster, HttpServer, SequenceTheorems, FiniteSetTheorems, TLAPS

USE ClusterAssumption

\* The primary hears of dead workers only.
EventInv == \A w \in exitSeen \cup disconnectSeen : proc[w] = "dead"

\* As long as the task runs every exit has been answered with a re-fork.
AnswerInv == primary = "running" => replaced = exitSeen /\ workerExitCode = 0

\* Timers are armed by exits, with a delay.
DelayInv ==
  /\ replaced = {} => due = 0
  /\ replaced # {} => delay >= InitialDelay

\* The exit code is the highest of the exits heard of and not answered.
CodeInv ==
  /\ \A w \in exitSeen \ replaced : Reported(w) <= workerExitCode
  /\ workerExitCode = 0 \/ \E w \in exitSeen \ replaced : Reported(w) = workerExitCode

\* The primary exits with the last event of its last worker.
LastInv == primary = "exited" => LiveWorkers(exitSeen, disconnectSeen) = {}

Inv ==
  /\ TypeOK /\ EventInv /\ AnswerInv /\ DelayInv /\ CodeInv /\ LastInv
  /\ WorkersReplaced

(* A worker's own step moves no dead worker, and nothing of the primary.    *)
LEMMA WorkerStepEffect ==
  ASSUME TypeOK, NEW w \in Forks, WorkerStep(w)
  PROVE  /\ UNCHANGED <<primaryVars, reforkVars, eventVars>>
         /\ proc' \in [Forks -> {"none", "booting", "up", "draining", "dead"}]
         /\ code' \in [Forks -> BySignal..SourceClosed]
         /\ sigterm' \subseteq sigterm
         /\ \A v \in Forks : proc[v] = "dead" => proc'[v] = "dead" /\ code'[v] = code[v]
<1> USE DEF TypeOK, Alive, Die, BySignal, SourceClosed
<1>1. CASE Ready(w)
  BY <1>1 DEF Ready
<1>2. CASE Fail(w)
  BY <1>2 DEF Fail
<1>3. CASE SourceCloses(w)
  BY <1>3 DEF SourceCloses
<1>4. CASE TakeSigterm(w)
  BY <1>4 DEF TakeSigterm
<1>5. CASE DrainEnds(w)
  BY <1>5 DEF DrainEnds
<1> QED BY <1>1, <1>2, <1>3, <1>4, <1>5 DEF WorkerStep

LEMMA ReportedBounds ==
  ASSUME TypeOK, NEW w \in Forks
  PROVE  Reported(w) \in 0..SourceClosed
BY DEF TypeOK, Reported, BySignal, SourceClosed

LEMMA InitInv == Init => Inv
<1> SUFFICES ASSUME Init PROVE Inv
  OBVIOUS
<1>1. TypeOK
  <2>1. proc \in [Forks -> {"none", "booting", "up", "draining", "dead"}]
    BY DEF Init
  <2>2. code \in [Forks -> BySignal..SourceClosed]
    BY DEF Init, BySignal, SourceClosed
  <2>3. terminated \in BOOLEAN
    BY DEF Init
  <2>4. sigterm \subseteq Forked /\ replaced \subseteq exitSeen
    BY DEF Init
  <2> QED BY <2>1, <2>2, <2>3, <2>4 DEF Init, TypeOK, SourceClosed
<1>2. EventInv /\ AnswerInv /\ DelayInv /\ CodeInv /\ LastInv
  BY DEF Init, EventInv, AnswerInv, DelayInv, CodeInv, LastInv
<1>3. WorkersReplaced
  <2>1. Forked \ exitSeen = 1..Workers
    BY DEF Init, Forked
  <2> QED BY <2>1, FS_Interval DEF Init, WorkersReplaced
<1> QED BY <1>1, <1>2, <1>3 DEF Inv

LEMMA ExitKeepsInv ==
  ASSUME Inv, NEW w \in Forks, ExitEvent(w)
  PROVE  Inv'
<1>0. /\ TypeOK /\ EventInv /\ AnswerInv /\ DelayInv /\ CodeInv /\ LastInv
      /\ WorkersReplaced
  BY DEF Inv
<1>1. /\ primary # "exited" /\ w \in Forked /\ w \notin exitSeen /\ proc[w] = "dead"
      /\ exitSeen' = exitSeen \cup {w}
      /\ UNCHANGED <<terminated, disconnectSeen, proc, code, forked>>
  BY DEF ExitEvent, Alive, reforkVars
<1>2. Reported(w) \in 0..SourceClosed /\ \A v \in Forks : Reported(v)' = Reported(v)
  BY <1>0, <1>1, ReportedBounds DEF Reported
<1>3. EventInv'
  BY <1>0, <1>1 DEF EventInv
<1>4. CASE primary = "stopping"
  <2>1. /\ workerExitCode' = IF Reported(w) > workerExitCode
                             THEN Reported(w) ELSE workerExitCode
        /\ primary' = IF LiveWorkers(exitSeen \cup {w}, disconnectSeen) = {}
                      THEN "exited" ELSE "stopping"
        /\ UNCHANGED <<sigterm, due, delay, replaced>>
    BY <1>4 DEF ExitEvent, ExitWhenDrained, reforkVars
  <2>2. TypeOK'
    BY <1>0, <1>1, <1>2, <2>1 DEF TypeOK, Forked
  <2>3. AnswerInv' /\ WorkersReplaced' /\ DelayInv'
    BY <1>0, <2>1 DEF AnswerInv, WorkersReplaced, DelayInv
  <2>4. LastInv'
    BY <1>1, <2>1 DEF LastInv, LiveWorkers, Forked
  <2>5. CodeInv'
    <3>1. exitSeen' \ replaced' = (exitSeen \ replaced) \cup {w}
      BY <1>0, <1>1, <2>1 DEF TypeOK
    <3>2. exitSeen' \subseteq Forks /\ workerExitCode \in Nat
      BY <1>0, <1>1 DEF TypeOK, Forked, Forks, SourceClosed
    <3>3. \A v \in exitSeen \ replaced : Reported(v) \in Nat /\ Reported(v) <= workerExitCode
      BY <1>0, <1>1, <3>2, ReportedBounds DEF CodeInv, SourceClosed
    <3> QED BY <1>0, <1>2, <2>1, <3>1, <3>2, <3>3 DEF CodeInv, SourceClosed
  <2> QED BY <1>3, <2>2, <2>3, <2>4, <2>5 DEF Inv
<1>5. CASE primary = "running" /\ code[w] = SourceClosed
  <2>1. /\ workerExitCode' = SourceClosed
        /\ sigterm' = sigterm \cup (LiveWorkers(exitSeen \cup {w}, disconnectSeen) \cap Alive)
        /\ primary' = IF LiveWorkers(exitSeen \cup {w}, disconnectSeen) = {}
                      THEN "exited" ELSE "stopping"
        /\ UNCHANGED <<due, delay, replaced>>
    BY <1>5 DEF ExitEvent, Stop, ExitWhenDrained, reforkVars
  <2>2. sigterm' \subseteq Forked' /\ Forked' = Forked
    BY <1>0, <1>1, <2>1 DEF TypeOK, Forked, Alive
  <2>3. workerExitCode' \in 0..SourceClosed
    BY <2>1 DEF SourceClosed
  <2>4. TypeOK'
    BY <1>0, <1>1, <2>1, <2>2, <2>3 DEF TypeOK
  <2>5. AnswerInv' /\ WorkersReplaced' /\ DelayInv'
    BY <1>0, <2>1 DEF AnswerInv, WorkersReplaced, DelayInv
  <2>6. LastInv'
    BY <1>1, <2>1 DEF LastInv, LiveWorkers, Forked
  <2>7. CodeInv'
    <3>1. exitSeen' \ replaced' = {w}
      BY <1>0, <1>1, <1>5, <2>1 DEF AnswerInv
    <3>2. Reported(w)' = SourceClosed
      BY <1>2, <1>5 DEF Reported, SourceClosed, BySignal
    <3> QED BY <2>1, <3>1, <3>2 DEF CodeInv, SourceClosed
  <2> QED BY <1>3, <2>4, <2>5, <2>6, <2>7 DEF Inv
<1>6. CASE primary = "running" /\ code[w] # SourceClosed
  <2>1. /\ due' = due + 1 /\ replaced' = replaced \cup {w}
        /\ NextDelay
        /\ UNCHANGED <<primary, workerExitCode, sigterm>>
    BY <1>6 DEF ExitEvent
  <2>2. delay' \in 0..MaxDelay /\ delay' >= InitialDelay
    BY <1>0, <2>1 DEF NextDelay, DelayInv, TypeOK
  <2>3. TypeOK'
    BY <1>0, <1>1, <2>1, <2>2 DEF TypeOK, Forked
  <2>4. AnswerInv' /\ LastInv' /\ DelayInv'
    BY <1>0, <1>1, <1>6, <2>1, <2>2 DEF AnswerInv, LastInv, DelayInv
  <2>5. CodeInv'
    <3>1. exitSeen \ replaced = {} /\ exitSeen' \ replaced' = {}
      BY <1>0, <1>1, <1>6, <2>1 DEF AnswerInv
    <3> QED BY <1>0, <2>1, <3>1 DEF CodeInv
  <2>6. WorkersReplaced'
    <3>1. IsFiniteSet(Forked)
      BY <1>0, FS_Interval DEF Forked, TypeOK
    <3>2. IsFiniteSet(Forked \ exitSeen) /\ Cardinality(Forked \ exitSeen) \in Nat
      BY <3>1, FS_Subset, FS_CardinalityType
    <3>3. Forked' \ exitSeen' = (Forked \ exitSeen) \ {w} /\ w \in Forked \ exitSeen
      BY <1>1 DEF Forked
    <3>4. Cardinality(Forked' \ exitSeen') = Cardinality(Forked \ exitSeen) - 1
      <4> DEFINE S == Forked \ exitSeen
      <4>1. Cardinality(S \ {w}) = Cardinality(S) - 1
        <5> HIDE DEF S
        <5>1. IsFiniteSet(S) /\ w \in S
          BY <3>2, <3>3 DEF S
        <5> QED BY <5>1, FS_RemoveElement
      <4> QED BY <3>3, <4>1
    <3> QED BY <1>0, <1>6, <2>1, <3>2, <3>4 DEF WorkersReplaced, TypeOK
  <2> QED BY <1>3, <2>3, <2>4, <2>5, <2>6 DEF Inv
<1> QED BY <1>1, <1>4, <1>5, <1>6, <1>0 DEF TypeOK

LEMMA DisconnectKeepsInv ==
  ASSUME Inv, NEW w \in Forks, DisconnectEvent(w)
  PROVE  Inv'
<1>0. /\ TypeOK /\ EventInv /\ AnswerInv /\ DelayInv /\ CodeInv /\ LastInv
      /\ WorkersReplaced
  BY DEF Inv
<1>1. /\ primary # "exited" /\ w \in Forked /\ proc[w] = "dead"
      /\ disconnectSeen' = disconnectSeen \cup {w}
      /\ primary' = IF primary # "stopping" THEN primary
                    ELSE IF LiveWorkers(exitSeen, disconnectSeen \cup {w}) = {}
                         THEN "exited" ELSE "stopping"
      /\ UNCHANGED <<terminated, workerExitCode, exitSeen, due, delay, forked,
                     replaced, proc, code, sigterm>>
  BY DEF DisconnectEvent, ExitWhenDrained, Alive, reforkVars, workerVars
<1>2. TypeOK'
  BY <1>0, <1>1 DEF TypeOK, Forked
<1>3. EventInv' /\ AnswerInv' /\ DelayInv'
  BY <1>0, <1>1 DEF EventInv, AnswerInv, DelayInv
<1>4. CodeInv'
  BY <1>0, <1>1 DEF CodeInv, Reported
<1>5. LastInv'
  BY <1>0, <1>1 DEF LastInv, LiveWorkers, Forked, TypeOK
<1>6. WorkersReplaced'
  BY <1>0, <1>1 DEF WorkersReplaced, Forked, TypeOK
<1> QED BY <1>2, <1>3, <1>4, <1>5, <1>6 DEF Inv

LEMMA ReforkKeepsInv ==
  ASSUME Inv, Refork
  PROVE  Inv'
<1>0. /\ TypeOK /\ EventInv /\ AnswerInv /\ DelayInv /\ CodeInv /\ LastInv
      /\ WorkersReplaced
  BY DEF Inv
<1>1. /\ primary # "exited" /\ due > 0 /\ due' = due - 1
      /\ UNCHANGED <<primary, terminated, workerExitCode, delay, replaced,
                     exitSeen, disconnectSeen, code, sigterm>>
  BY DEF Refork, primaryVars, eventVars
<1>2. DelayInv' /\ AnswerInv' /\ LastInv'
  BY <1>0, <1>1 DEF DelayInv, AnswerInv, LastInv
<1>3. CodeInv'
  BY <1>0, <1>1 DEF CodeInv, Reported
<1>4. CASE primary = "running"
  <2>1. forked < MaxForks /\ forked' = forked + 1 /\ proc' = [proc EXCEPT ![forked + 1] = "booting"]
    BY <1>4 DEF Refork, Fork
  <2>2. forked + 1 \in Forks \ Forked /\ Forked' = Forked \cup {forked + 1}
    BY <1>0, <2>1, SMTT(30) DEF Forked, Forks, TypeOK
  <2>3. TypeOK'
    BY <1>0, <1>1, <2>1, <2>2 DEF TypeOK
  <2>4. EventInv'
    BY <1>0, <1>1, <2>1, <2>2 DEF EventInv, TypeOK
  <2>5. WorkersReplaced'
    <3>1. IsFiniteSet(Forked)
      BY <1>0, FS_Interval DEF Forked, TypeOK
    <3>2. IsFiniteSet(Forked \ exitSeen) /\ Cardinality(Forked \ exitSeen) \in Nat
      BY <3>1, FS_Subset, FS_CardinalityType
    <3>3. /\ Forked' \ exitSeen' = (Forked \ exitSeen) \cup {forked + 1}
          /\ forked + 1 \notin Forked \ exitSeen
      BY <1>0, <1>1, <2>2 DEF TypeOK
    <3>4. Cardinality(Forked' \ exitSeen') = Cardinality(Forked \ exitSeen) + 1
      BY <3>2, <3>3, FS_AddElement
    <3> QED BY <1>0, <1>1, <1>4, <3>2, <3>4 DEF WorkersReplaced, TypeOK
  <2> QED BY <1>2, <1>3, <2>3, <2>4, <2>5 DEF Inv
<1>5. CASE primary # "running"
  <2>1. UNCHANGED <<forked, proc>>
    BY <1>5 DEF Refork
  <2>2. TypeOK'
    BY <1>0, <1>1, <2>1 DEF TypeOK, Forked
  <2>3. EventInv' /\ WorkersReplaced'
    BY <1>0, <1>1, <1>5, <2>1 DEF EventInv, WorkersReplaced
  <2> QED BY <1>2, <1>3, <2>2, <2>3 DEF Inv
<1> QED BY <1>4, <1>5

LEMMA SigtermKeepsInv ==
  ASSUME Inv, Sigterm
  PROVE  Inv'
<1>0. /\ TypeOK /\ EventInv /\ AnswerInv /\ DelayInv /\ CodeInv /\ LastInv
  BY DEF Inv
<1>1. /\ terminated' = TRUE
      /\ sigterm' = sigterm \cup (LiveWorkers(exitSeen, disconnectSeen) \cap Alive)
      /\ primary' = IF LiveWorkers(exitSeen, disconnectSeen) = {}
                    THEN "exited" ELSE "stopping"
      /\ UNCHANGED <<workerExitCode, due, delay, forked, replaced, exitSeen,
                     disconnectSeen, proc, code>>
  BY DEF Sigterm, Stop, ExitWhenDrained, reforkVars, eventVars
<1>2. TypeOK'
  BY <1>0, <1>1 DEF TypeOK, Forked, Alive
<1>3. EventInv' /\ AnswerInv' /\ DelayInv' /\ WorkersReplaced'
  BY <1>0, <1>1 DEF EventInv, AnswerInv, DelayInv, WorkersReplaced
<1>4. CodeInv'
  BY <1>0, <1>1 DEF CodeInv, Reported
<1>5. LastInv'
  BY <1>1 DEF LastInv, LiveWorkers, Forked
<1> QED BY <1>2, <1>3, <1>4, <1>5 DEF Inv

LEMMA WorkerKeepsInv ==
  ASSUME Inv, NEW w \in Forks, WorkerStep(w)
  PROVE  Inv'
<1>0. /\ TypeOK /\ EventInv /\ AnswerInv /\ DelayInv /\ CodeInv /\ LastInv
      /\ WorkersReplaced
  BY DEF Inv
<1>1. /\ UNCHANGED <<primary, terminated, workerExitCode, due, delay, forked,
                     replaced, exitSeen, disconnectSeen>>
      /\ proc' \in [Forks -> {"none", "booting", "up", "draining", "dead"}]
      /\ code' \in [Forks -> BySignal..SourceClosed]
      /\ sigterm' \subseteq sigterm
      /\ \A v \in Forks : proc[v] = "dead" => proc'[v] = "dead" /\ code'[v] = code[v]
  BY <1>0, WorkerStepEffect DEF primaryVars, reforkVars, eventVars
<1>2. exitSeen \cup disconnectSeen \subseteq Forks
  BY <1>0 DEF TypeOK, Forked, Forks
<1>3. TypeOK'
  BY <1>0, <1>1 DEF TypeOK, Forked
<1>4. EventInv' /\ AnswerInv' /\ DelayInv'
  BY <1>0, <1>1, <1>2 DEF EventInv, AnswerInv, DelayInv
<1>5. CodeInv'
  <2>1. \A v \in exitSeen : Reported(v)' = Reported(v)
    BY <1>0, <1>1, <1>2 DEF EventInv, Reported
  <2> QED BY <1>0, <1>1, <2>1 DEF CodeInv
<1>6. LastInv' /\ WorkersReplaced'
  BY <1>0, <1>1 DEF LastInv, LiveWorkers, WorkersReplaced, Forked
<1> QED BY <1>3, <1>4, <1>5, <1>6 DEF Inv

LEMMA NextInv == Inv /\ [Next]_vars => Inv'
<1> SUFFICES ASSUME Inv, [Next]_vars PROVE Inv'
  OBVIOUS
<1>1. ASSUME NEW w \in Forks, WorkerStep(w) PROVE Inv'
  BY <1>1, WorkerKeepsInv
<1>2. ASSUME NEW w \in Forks, ExitEvent(w) PROVE Inv'
  BY <1>2, ExitKeepsInv
<1>3. ASSUME NEW w \in Forks, DisconnectEvent(w) PROVE Inv'
  BY <1>3, DisconnectKeepsInv
<1>4. CASE Refork
  BY <1>4, ReforkKeepsInv
<1>5. CASE Sigterm
  BY <1>5, SigtermKeepsInv
<1>6. CASE UNCHANGED vars
  BY <1>6 DEF vars, primaryVars, reforkVars, eventVars, workerVars, Inv, TypeOK,
    EventInv, AnswerInv, DelayInv, CodeInv, LastInv, LiveWorkers,
    WorkersReplaced, Forked, Reported
<1> QED BY <1>1, <1>2, <1>3, <1>4, <1>5, <1>6 DEF Next

LEMMA SpecInv == Spec => []Inv
BY InitInv, NextInv, PTL DEF Spec

\* The state of the cluster is well typed; the re-fork delay keeps to its cap.
THEOREM TypeCorrect == Spec => []TypeOK
<1>1. Inv => TypeOK
  BY DEF Inv
<1> QED BY <1>1, SpecInv, PTL

\* As long as the task runs, each worker that exited is replaced exactly once.
THEOREM ReplacesEachOnce == Spec => []WorkersReplaced
<1>1. Inv => WorkersReplaced
  BY DEF Inv
<1> QED BY <1>1, SpecInv, PTL

\* A re-fork always waits for a delay.
THEOREM BacksOff == Spec => []ReforksBackedOff
<1>1. Inv => ReforksBackedOff
  BY DEF Inv, ReforksBackedOff, DelayInv, TypeOK
<1> QED BY <1>1, SpecInv, PTL

\* The primary outlives the processes it forked.
THEOREM PrimaryExitsLast == Spec => []ExitsLast
<1>1. Inv => ExitsLast
  BY DEF Inv, ExitsLast, Alive, LastInv, LiveWorkers, EventInv
<1> QED BY <1>1, SpecInv, PTL

\* The exit code of the task is the highest of the workers not replaced.
THEOREM TaskTellsExitCode == Spec => []ExitCodeTells
<1>1. ASSUME Inv PROVE ExitCodeTells
  <2>1. CASE primary = "exited"
    <3>1. exitSeen = Forked
      BY <1>1, <2>1 DEF Inv, LastInv, LiveWorkers, TypeOK
    <3> QED BY <1>1, <3>1 DEF Inv, CodeInv, Reported, ExitCodeTells
  <2>2. CASE primary # "exited"
    BY <2>2 DEF ExitCodeTells
  <2> QED BY <2>1, <2>2
<1> QED BY <1>1, SpecInv, PTL
----------------------------------------------------------------------------
(***************************************************************************)
(* A worker of @middy/ecs-http, for any number of connections and any body  *)
(* limit.                                                                  *)
(***************************************************************************)

\* A connection that has begun a response since the drain began is about to be closed.
LastResponse ==
  /\ ~draining => \A c \in Connections : responses[c] = 0
  /\ \A c \in Connections :
       responses[c] <= 1 /\ (responses[c] = 1 => conn[c] \in {"response", "closed"}
             /\ (conn[c] = "response" => keepAlive[c] = FALSE))
DrainInv == DrainTypeOK /\ LastResponse

\* A response begun during the drain closes its connection.
LEMMA RespondKeeps ==
  ASSUME DrainInv, NEW c \in Connections, NEW failed \in BOOLEAN, conn[c] \in {"body", "handler"}, Respond(c, failed)
  PROVE  DrainInv'
<1> USE DEF DrainInv
<1>1. responses[c] = 0
  BY DEF LastResponse, DrainTypeOK
<1>2. DrainTypeOK'
  BY DEF Respond, DrainTypeOK, Open, ClosesIfDraining
<1>3. responses' = [responses EXCEPT ![c] = IF draining THEN 1 ELSE 0]
  BY <1>1 DEF Respond
<1>4. draining' = draining /\ conn' = [conn EXCEPT ![c] = "response"]
  BY DEF Respond
<1>5. draining => keepAlive'[c] = FALSE
  BY DEF Respond, DrainTypeOK, ClosesIfDraining
<1>6. \A d \in Connections : d # c => UNCHANGED <<conn[d], keepAlive[d], responses[d]>>
  BY <1>3, <1>4 DEF Respond, DrainTypeOK
<1>7. \A d \in Connections : responses'[d] <= 1
  BY <1>3, <1>6 DEF DrainTypeOK, LastResponse
<1>8. \A d \in Connections : responses'[d] = 1 => conn'[d] \in {"response", "closed"}
  BY <1>3, <1>4, <1>6 DEF DrainTypeOK, LastResponse
<1>9. ASSUME NEW d \in Connections, responses'[d] = 1, conn'[d] = "response" PROVE keepAlive'[d] = FALSE
  <2>1. CASE d = c
    BY <1>3, <1>5, <1>9, <2>1 DEF DrainTypeOK
  <2>2. CASE d # c
    BY <1>6, <1>9, <2>2 DEF LastResponse
  <2> QED BY <2>1, <2>2
<1>10. ~draining' => \A d \in Connections : responses'[d] = 0
  BY <1>3, <1>4, <1>6 DEF DrainTypeOK, LastResponse
<1>11. LastResponse'
  BY <1>7, <1>8, <1>9, <1>10 DEF LastResponse
<1> QED BY <1>2, <1>11

\* Every other step leaves that response to be the last.
LEMMA DrainSteps == ASSUME DrainInv, [DrainNext]_drainVars PROVE DrainInv'
<1> USE DEF DrainInv
<1>1. ASSUME NEW c \in Connections, Connect(c) PROVE DrainInv'
  BY <1>1 DEF Connect, DrainTypeOK, LastResponse, Open
<1>2. ASSUME NEW c \in Connections, Request(c) PROVE DrainInv'
  BY <1>2 DEF Request, DrainTypeOK, LastResponse, Open
<1>3. ASSUME NEW c \in Connections, BodyRead(c) PROVE DrainInv'
  BY <1>3 DEF BodyRead, DrainTypeOK, LastResponse, Open
<1>4. ASSUME NEW c \in Connections, BodyRefused(c) \/ HandlerAnswers(c) PROVE DrainInv'
  BY <1>4, RespondKeeps DEF BodyRefused, HandlerAnswers
<1>5. ASSUME NEW c \in Connections, ResponseEnds(c) PROVE DrainInv'
  BY <1>5 DEF ResponseEnds, DrainTypeOK, LastResponse, Open
<1>6. ASSUME NEW c \in Connections, Disconnects(c) PROVE DrainInv'
  BY <1>6 DEF Disconnects, DrainTypeOK, LastResponse, Open
<1>7. CASE DrainAndExit
  BY <1>7 DEF DrainAndExit, DrainTypeOK, LastResponse, Open
<1>8. CASE ServerClosed
  BY <1>8 DEF ServerClosed, DrainTypeOK, LastResponse
<1>9. CASE Deadline
  BY <1>9 DEF Deadline, DrainTypeOK, LastResponse
<1>10. CASE UNCHANGED drainVars
  BY <1>10 DEF drainVars, DrainTypeOK, LastResponse
<1> QED BY <1>1, <1>2, <1>3, <1>4, <1>5, <1>6, <1>7, <1>8, <1>9, <1>10 DEF DrainNext

\* Once the drain has begun, each connection carries at most one further response, and is idle
\* only before it, however many connections there are.
THEOREM LastRequestsAreServed == DrainSpec => [](DrainTypeOK /\ ServesOnceMore)
<1>1. DrainInit => DrainInv
  <2>1. DrainInit => DrainTypeOK
    <3>1. DrainInit => keepAlive \in [Connections -> BOOLEAN]
      BY Zenon DEF DrainInit
    <3>2. DrainInit => conn \in [Connections -> Open \cup {"none", "closed"}]
      BY Zenon DEF DrainInit
    <3>3. DrainInit => responses \in [Connections -> Nat]
      BY DEF DrainInit
    <3>4. DrainInit => draining \in BOOLEAN /\ exit \in {0, 1, NoExit}
      BY DEF DrainInit
    <3> QED BY <3>1, <3>2, <3>3, <3>4 DEF DrainTypeOK
  <2>2. DrainInit => LastResponse
    BY DEF DrainInit, LastResponse
  <2> QED BY <2>1, <2>2 DEF DrainInv
<1>2. DrainInv /\ [DrainNext]_drainVars => DrainInv'
  BY DrainSteps
<1>3. DrainInv => DrainTypeOK /\ ServesOnceMore
  BY DEF DrainInv, DrainTypeOK, LastResponse, ServesOnceMore
<1> QED BY <1>1, <1>2, <1>3, PTL DEF DrainSpec

----------------------------------------------------------------------------
\* What is known of the request in each phase.
BeforeHandler ==
  phase \in {"new", "reading"} =>
    event = "none" /\ answer = NoAnswer /\ source = "none" /\ client = "here"
Reading ==
  /\ phase = "new" => read = 0
  /\ phase = "reading" =>
       HasBody /\ read <= BodyLimit /\ (request.framing = "length" => request.size <= BodyLimit)
Handling ==
  phase = "handler" =>
    event # "none" /\ answer = NoAnswer /\ source = "none" /\ client \in {"here", "left"}
Streaming ==
  phase = "streaming" => /\ event # "none" /\ answer = [status |-> "200", body |-> "part"]
                         /\ source = "open" /\ client \in {"here", "left"}
Answered == phase = "answered" /\ answer.status # "413" /\ client # "left" => event # "none"
PhaseInv == BeforeHandler /\ Reading /\ Handling /\ Streaming /\ Answered
ExchangeInv == ExchangeTypeOK /\ PhaseInv /\ BodyArrives /\ AnswerIsWhole

\* A request without a framing has no body.
LEMMA SizesAreNatural ==
  ASSUME BodyLimit \in Nat, NEW r \in Requests
  PROVE  r.size \in Nat /\ (r.framing = "none" => r.size = 0)
BY DEF Requests

\* A length in the headers beyond the limit is refused before anything is read.
LEMMA ArrivesKeeps == ASSUME BodyLimit \in Nat, ExchangeInv, Arrives PROVE ExchangeInv'
<1>1. request.size \in Nat /\ (~HasBody => request.size = 0) /\ UNCHANGED <<request, read, buffered, source, client>>
  BY SizesAreNatural DEF ExchangeInv, ExchangeTypeOK, HasBody, Arrives
<1>2. /\ answer = NoAnswer /\ event = "none" /\ source = "none" /\ read = 0 /\ client = "here"
      /\ phase = "new" /\ buffered \in 0..BodyLimit /\ request \in Requests
  BY DEF Arrives, ExchangeInv, PhaseInv, BeforeHandler, Reading, ExchangeTypeOK
<1>3. \/ ~HasBody /\ phase' = "handler" /\ event' = "empty" /\ answer' = NoAnswer
      \/ /\ request.size > BodyLimit /\ phase' = "answered" /\ event' = "none"
         /\ answer' = [status |-> "413", body |-> "message"]
      \/ /\ HasBody /\ (request.framing = "length" => request.size <= BodyLimit)
         /\ phase' = "reading" /\ event' = "none" /\ answer' = NoAnswer
  BY <1>1, <1>2 DEF Arrives, WriteError, HeadersSent, Answers, TooLarge
<1>4. ExchangeTypeOK'
  BY <1>1, <1>2, <1>3 DEF ExchangeTypeOK, NoAnswer
<1>5. PhaseInv'
  BY <1>1, <1>2, <1>3 DEF PhaseInv, BeforeHandler, Reading, Handling, Streaming, Answered, HasBody
<1>6. BodyArrives'
  BY <1>1, <1>2, <1>3 DEF BodyArrives, HasBody, NoAnswer
<1>7. AnswerIsWhole'
  BY <1>1, <1>2, <1>3 DEF AnswerIsWhole
<1> QED BY <1>4, <1>5, <1>6, <1>7 DEF ExchangeInv

\* The chunk that passes the limit ends the reading.
LEMMA DataKeeps == ASSUME BodyLimit \in Nat, ExchangeInv, Data PROVE ExchangeInv'
<1>1. request.size \in Nat /\ request \in Requests
  BY SizesAreNatural DEF ExchangeInv, ExchangeTypeOK
<1>2. /\ answer = NoAnswer /\ event = "none" /\ source = "none" /\ phase = "reading" /\ client = "here"
      /\ read \in Nat /\ read < request.size /\ read' = read + 1 /\ UNCHANGED <<request, event, source, client>>
      /\ buffered \in 0..BodyLimit /\ HasBody /\ (request.framing = "length" => request.size <= BodyLimit)
  BY <1>1 DEF Data, ExchangeInv, PhaseInv, BeforeHandler, Reading, ExchangeTypeOK
<1>3. \/ /\ read + 1 > BodyLimit /\ phase' = "answered" /\ answer' = [status |-> "413", body |-> "message"]
         /\ buffered' = buffered
      \/ read + 1 <= BodyLimit /\ phase' = "reading" /\ answer' = NoAnswer /\ buffered' = read + 1
  BY <1>1, <1>2 DEF Data, WriteError, HeadersSent, Answers, TooLarge
<1>4. ExchangeTypeOK'
  BY <1>1, <1>2, <1>3 DEF ExchangeTypeOK, NoAnswer
<1>5. PhaseInv'
  BY <1>1, <1>2, <1>3 DEF PhaseInv, BeforeHandler, Reading, Handling, Streaming, Answered, HasBody
<1>6. BodyArrives'
  BY <1>1, <1>2, <1>3 DEF BodyArrives, HasBody, NoAnswer
<1>7. AnswerIsWhole'
  BY <1>1, <1>2, <1>3 DEF AnswerIsWhole
<1> QED BY <1>4, <1>5, <1>6, <1>7 DEF ExchangeInv

\* The handler gets what was read.
LEMMA EndKeeps == ASSUME BodyLimit \in Nat, ExchangeInv, End PROVE ExchangeInv'
<1>1. request.size \in Nat /\ request \in Requests
  BY SizesAreNatural DEF ExchangeInv, ExchangeTypeOK
<1>2. request.bytes = "text" \/ request.bytes = "binary"
  BY <1>1 DEF Requests
<1> QED
  BY <1>1, <1>2 DEF End, EncodeBody, ExchangeInv, PhaseInv, ExchangeTypeOK, BeforeHandler, Reading, Handling,
       Streaming,
                    Answered, BodyArrives, AnswerIsWhole, HasBody

\* What the handler returns or throws is the first thing written.
LEMMA HandlerKeeps == ASSUME BodyLimit \in Nat, ExchangeInv, HandlerEnds PROVE ExchangeInv'
<1>1. /\ event # "none" /\ answer = NoAnswer /\ source = "none" /\ phase = "handler"
      /\ request.size \in Nat /\ request.size <= BodyLimit
      /\ UNCHANGED <<request, read, buffered, event, client>>
  BY SizesAreNatural DEF ExchangeInv, ExchangeTypeOK, PhaseInv, Handling, BodyArrives, HandlerEnds
<1>2. client \in {"here", "left"}
  BY DEF ExchangeInv, PhaseInv, Handling, HandlerEnds
<1>3. \/ /\ phase' = "answered" /\ source' = "none"
         /\ \E status \in {"200", "4xx", "500"}, body \in {"whole", "empty", "message"} :
              answer' = [status |-> status, body |-> body]
      \/ /\ answer' = [status |-> "200", body |-> "part"]
         /\ (source' = "open" /\ phase' = "streaming") \/ (source' = "none" /\ phase' = "cut")
  BY <1>1 DEF HandlerEnds, Returns, Throws, ReturnsStream, Answers, WriteError, HeadersSent
<1>4. ExchangeTypeOK'
  BY <1>1, <1>3 DEF ExchangeInv, ExchangeTypeOK
<1>5. PhaseInv'
  BY <1>1, <1>2, <1>3 DEF PhaseInv, BeforeHandler, Reading, Handling, Streaming, Answered
<1>6. BodyArrives'
  BY <1>1, <1>3 DEF ExchangeInv, BodyArrives, HasBody
<1>7. AnswerIsWhole'
  BY <1>1, <1>2, <1>3 DEF AnswerIsWhole
<1> QED BY <1>4, <1>5, <1>6, <1>7 DEF ExchangeInv

\* A stream ends the answer whole, or cuts it.
LEMMA SourceKeeps == ASSUME BodyLimit \in Nat, ExchangeInv, SourceEnds \/ SourceFails PROVE ExchangeInv'
<1>1. /\ event # "none" /\ answer = [status |-> "200", body |-> "part"]
      /\ client \in {"here", "left"} /\ UNCHANGED <<request, read, buffered, event, client>>
      /\ request.size \in Nat /\ request.size <= BodyLimit
  BY SizesAreNatural
     DEF SourceEnds, SourceFails, ExchangeInv, ExchangeTypeOK, PhaseInv, Streaming, BodyArrives
<1>2. \/ source' = "ended" /\ phase' = "answered" /\ answer' = [status |-> "200", body |-> "whole"]
      \/ source' = "failed" /\ phase' = "cut" /\ answer' = answer
  BY <1>1 DEF SourceEnds, SourceFails, Failure
<1>3. ExchangeTypeOK'
  BY <1>1, <1>2 DEF ExchangeInv, ExchangeTypeOK
<1>4. PhaseInv'
  BY <1>1, <1>2 DEF PhaseInv, BeforeHandler, Reading, Handling, Streaming, Answered
<1>5. BodyArrives'
  BY <1>1, <1>2 DEF ExchangeInv, BodyArrives, HasBody
<1>6. AnswerIsWhole'
  BY <1>1, <1>2 DEF AnswerIsWhole
<1> QED BY <1>3, <1>4, <1>5, <1>6 DEF ExchangeInv

\* A client that goes away fails a body that is read and destroys a stream that is written.
LEMMA GoneKeeps == ASSUME BodyLimit \in Nat, ExchangeInv, ClientGone PROVE ExchangeInv'
<1>1. /\ client = "here" /\ UNCHANGED <<request, read, buffered, event>> /\ source' = Destroyed
      /\ request.size \in Nat /\ phase \in {"reading", "handler", "streaming"}
  BY SizesAreNatural DEF ClientGone, ExchangeInv, ExchangeTypeOK
<1>2. \/ /\ phase = "reading" /\ event = "none" /\ source' = "none" /\ phase' = "answered"
         /\ client' = "left" /\ answer' = [status |-> "500", body |-> "message"]
      \/ /\ phase = "handler" /\ event # "none" /\ source' = "none" /\ phase' = "handler"
         /\ client' = "left" /\ answer' = NoAnswer
      \/ /\ phase = "streaming" /\ event # "none" /\ source' = "destroyed" /\ phase' = "cut"
         /\ client' = "gone" /\ answer' = answer /\ answer = [status |-> "200", body |-> "part"]
  <2>1. CASE phase = "reading"
    BY <1>1, <2>1 DEF ClientGone, ExchangeInv, PhaseInv, BeforeHandler, Destroyed, WriteError, Answers, HeadersSent
  <2>2. CASE phase = "handler"
    BY <1>1, <2>2 DEF ClientGone, ExchangeInv, PhaseInv, Handling, Destroyed, HeadersSent
  <2>3. CASE phase = "streaming"
    BY <1>1, <2>3 DEF ClientGone, ExchangeInv, PhaseInv, Streaming, Destroyed, HeadersSent, NoAnswer
  <2> QED BY <1>1, <2>1, <2>2, <2>3
<1>3. ExchangeTypeOK'
  BY <1>1, <1>2 DEF ExchangeInv, ExchangeTypeOK, NoAnswer
<1>4. PhaseInv'
  BY <1>1, <1>2 DEF PhaseInv, BeforeHandler, Reading, Handling, Streaming, Answered
<1>5. BodyArrives'
  BY <1>1, <1>2 DEF ExchangeInv, BodyArrives, HasBody, NoAnswer
<1>6. AnswerIsWhole'
  BY <1>1, <1>2 DEF AnswerIsWhole
<1> QED BY <1>3, <1>4, <1>5, <1>6 DEF ExchangeInv

\* The steps of one request together.
LEMMA ExchangeSteps == ASSUME BodyLimit \in Nat, ExchangeInv, [ExchangeNext]_exchangeVars PROVE ExchangeInv'
<1>1. CASE UNCHANGED exchangeVars
  BY <1>1 DEF exchangeVars, ExchangeInv, PhaseInv, ExchangeTypeOK, BeforeHandler, Reading, Handling, Streaming,
       Answered,
              BodyArrives, AnswerIsWhole, HasBody
<1> QED BY <1>1, ArrivesKeeps, DataKeeps, EndKeeps, HandlerKeeps, SourceKeeps, GoneKeeps DEF ExchangeNext

\* The handler sees the whole of each body within the limit and of no other, an answer that
\* ends is whole, and a stream does not outlive its response, for any limit.
THEOREM ExchangesAreWhole == ASSUME BodyLimit \in Nat PROVE ExchangeSpec => [](ExchangeTypeOK /\ ExchangeHolds)
<1>1. ExchangeInit => ExchangeInv
  <2> SUFFICES ASSUME ExchangeInit PROVE ExchangeInv
    OBVIOUS
  <2>1. request.size \in Nat
    BY SizesAreNatural DEF ExchangeInit
  <2> QED
    BY <2>1 DEF ExchangeInit, ExchangeInv, PhaseInv, ExchangeTypeOK, BeforeHandler, Reading, Handling,
         Streaming, Answered,
                BodyArrives, AnswerIsWhole, HasBody, NoAnswer
<1>2. ExchangeInv /\ [ExchangeNext]_exchangeVars => ExchangeInv'
  BY ExchangeSteps
<1>3. ExchangeInv => ExchangeTypeOK /\ ExchangeHolds
  BY DEF ExchangeInv, ExchangeHolds
<1> QED BY <1>1, <1>2, <1>3, PTL DEF ExchangeSpec

----------------------------------------------------------------------------
(***************************************************************************)
(* The task of @middy/ecs-task.                                            *)
(***************************************************************************)

VARIABLES task, forcedExit, signalled, exitCode, failures
ecsTask == INSTANCE TaskRunner

\* onSuccess is awaited after a handler that succeeded, onFailure after a failure, and the
\* process has a code when it has exited, not before.
TaskInv ==
  /\ ecsTask!TypeOK
  /\ task \in {"handler", "onSuccess"} => failures = {}
  /\ task = "onFailure" => failures # {}
  /\ task # "exited" => exitCode = ecsTask!NoExit
  /\ ecsTask!SuccessIsWhole

\* Each outcome of the handler and of the callbacks keeps them in this order.
LEMMA TaskSteps == ASSUME TaskInv, [ecsTask!Next]_ecsTask!vars PROVE TaskInv'
<1> DEFINE InOrder ==
      /\ task \in {"handler", "onSuccess"} => failures = {}
      /\ task = "onFailure" => failures # {}
      /\ task # "exited" => exitCode = 255
<1> SUFFICES ecsTask!TypeOK' /\ InOrder' /\ ecsTask!SuccessIsWhole'
  BY DEF TaskInv, ecsTask!NoExit
<1>0. InOrder /\ ecsTask!SuccessIsWhole
  BY DEF TaskInv, ecsTask!NoExit
<1> USE DEF ecsTask!TypeOK, ecsTask!NoExit
<1>1. ASSUME NEW ok \in BOOLEAN, ecsTask!HandlerEnds(ok) PROVE ecsTask!TypeOK' /\ InOrder' /\ ecsTask!SuccessIsWhole'
  BY <1>0, <1>1 DEF ecsTask!HandlerEnds, ecsTask!Awaits, TaskInv, ecsTask!SuccessIsWhole
<1>2. ASSUME NEW ok \in BOOLEAN, ecsTask!OnSuccessEnds(ok) PROVE ecsTask!TypeOK' /\ InOrder' /\ ecsTask!SuccessIsWhole'
  <2>1. ecsTask!TypeOK'
    <3>1. failures' \subseteq {"handler", "onSuccess"} /\ signalled' \in BOOLEAN
      BY <1>2 DEF ecsTask!OnSuccessEnds, TaskInv
    <3>2. CASE ok
      <4>1. task' = "exited" /\ exitCode' = 0 /\ forcedExit' = FALSE
        BY <1>2, <3>2 DEF ecsTask!OnSuccessEnds, ecsTask!SucceedsIf, ecsTask!Exit
      <4> QED BY <3>1, <4>1
    <3>3. CASE ~ok
      <4>1. task' = "onFailure" /\ exitCode' = exitCode /\ forcedExit' = forcedExit
        BY <1>2, <3>3 DEF ecsTask!OnSuccessEnds, ecsTask!SucceedsIf, ecsTask!Awaits
      <4> QED BY <3>1, <4>1 DEF TaskInv
    <3> QED BY <3>2, <3>3
  <2>2. InOrder' /\ ecsTask!SuccessIsWhole'
    BY <1>0, <1>2 DEF ecsTask!OnSuccessEnds, ecsTask!SucceedsIf, ecsTask!Exit, ecsTask!Awaits,
         ecsTask!SuccessIsWhole
  <2> QED BY <2>1, <2>2
<1>3. CASE ecsTask!OnFailureEnds
  <2>1. ecsTask!TypeOK'
    BY <1>3 DEF ecsTask!OnFailureEnds, ecsTask!Exit, TaskInv
  <2>2. InOrder' /\ ecsTask!SuccessIsWhole'
    BY <1>0, <1>3 DEF ecsTask!OnFailureEnds, ecsTask!Exit, ecsTask!SuccessIsWhole
  <2> QED BY <2>1, <2>2
<1>4. CASE ecsTask!Sigterm
  BY <1>0, <1>4 DEF ecsTask!Sigterm, ecsTask!ArmTimer, TaskInv, ecsTask!SuccessIsWhole
<1>5. CASE ecsTask!ForcedExit
  <2>1. ecsTask!TypeOK'
    BY <1>5 DEF ecsTask!ForcedExit, ecsTask!Exit, TaskInv
  <2>2. InOrder' /\ ecsTask!SuccessIsWhole'
    BY <1>5 DEF ecsTask!ForcedExit, ecsTask!Exit, ecsTask!SuccessIsWhole
  <2> QED BY <2>1, <2>2
<1>6. CASE UNCHANGED ecsTask!vars
  BY <1>0, <1>6 DEF ecsTask!vars, TaskInv, ecsTask!SuccessIsWhole
<1> QED BY <1>1, <1>2, <1>3, <1>4, <1>5, <1>6 DEF ecsTask!Next

\* A task exits with 0 only if its handler and onSuccess have succeeded, and with 1 only if one
\* of them failed, whenever SIGTERM comes.
THEOREM TasksTellOutcome == ecsTask!Spec => [](ecsTask!TypeOK /\ ecsTask!SuccessIsWhole)
<1>1. ecsTask!Init => TaskInv
  <2>1. ecsTask!Init => ecsTask!TypeOK
    BY DEF ecsTask!Init, ecsTask!TypeOK, ecsTask!NoExit
  <2>2. ecsTask!Init => ecsTask!SuccessIsWhole
    BY DEF ecsTask!Init, ecsTask!SuccessIsWhole, ecsTask!NoExit
  <2> QED BY <2>1, <2>2 DEF ecsTask!Init, TaskInv
<1>2. TaskInv /\ [ecsTask!Next]_ecsTask!vars => TaskInv'
  BY TaskSteps
<1>3. TaskInv => ecsTask!TypeOK /\ ecsTask!SuccessIsWhole
  BY DEF TaskInv
<1> QED BY <1>1, <1>2, <1>3, PTL DEF ecsTask!Spec

----------------------------------------------------------------------------
(* The form of @middy/http-multipart-body-parser. *)
CONSTANT MaxParts
VARIABLES sent, chain, step, readable, base64, parsed, outcome
VARIABLES parts, surplus, open, form, formPromise, parser
parsing == INSTANCE RequestBody WITH promise <- formPromise

\* The lists of a form hold parts that have come, and files that are open have not got there.
FormTyped ==
  /\ parts \in Seq(parsing!Parts) /\ surplus \in BOOLEAN /\ open \subseteq 1..Len(parts)
  /\ form \in [parsing!Keys -> Seq(1..Len(parts))]
  /\ formPromise \in {"pending", "resolved", "413", "422"}
  /\ parser \in {"writing", "ended", "failed", "finished"}
Listed(f, k, n) == \E m \in 1..Len(f[k]) : f[k][m] = n
\* No part is listed twice, none is that is to be refused or has not ended.
ListedOnce(k) ==
  /\ \A m, n \in 1..Len(form[k]) : form[k][m] = form[k][n] => m = n
  /\ \A m \in 1..Len(form[k]) : form[k][m] \notin open /\ parts[form[k][m]].flaw = "none"
\* Only a file comes before what came earlier.
FieldsInOrder(k) ==
  \A m, n \in 1..Len(form[k]) :
    m < n /\ form[k][m] > form[k][n] => "file" \in {parts[form[k][m]].kind, parts[form[k][n]].kind}
\* As long as the form has not been refused, each part is in it or will be when it ends.
NoneLost ==
  formPromise \in {"pending", "resolved"} =>
    /\ surplus = FALSE
    /\ \A n \in 1..Len(parts) : \/ n \in open /\ ~parsing!BadName(parts[n])
                                \/ Listed(form, parts[n].key, n)
FilesOpen == \A n \in open : parts[n].kind = "file"
\* The promise is resolved by the end of the parser only, which waits for every file.
Finishing ==
  /\ formPromise = "resolved" => parser = "finished"
  /\ parser = "finished" => open = {}
  /\ parser \in {"finished", "failed"} => formPromise # "pending"
FormInv ==
  /\ FormTyped /\ NoneLost /\ FilesOpen /\ Finishing
  /\ \A k \in parsing!Keys : ListedOnce(k) /\ FieldsInOrder(k)

\* A part has a key.
LEMMA PartsAre ==
  \A p \in parsing!Parts : /\ p.key \in parsing!Keys
                           /\ parsing!Unclipped(p) /\ ~parsing!BadName(p) <=> p.flaw = "none"
BY DEF parsing!Parts, parsing!Keys, parsing!Unclipped, parsing!BadName

\* A list of a form is a list of parts, however many come.
LEMMA ListsAre ==
  ASSUME NEW m \in Nat, NEW l \in Nat, m <= l, NEW f \in [parsing!Keys -> Seq(1..m)], NEW k \in parsing!Keys
  PROVE  /\ f[k] \in Seq(1..m) /\ f[k] \in Seq(1..l)
         /\ \A i \in 1..Len(f[k]) : f[k][i] \in 1..m
<1>1. f[k] \in Seq(1..m)
  OBVIOUS
<1>2. \A i \in 1..Len(f[k]) : f[k][i] \in 1..m
  BY <1>1
<1>3. f[k] \in Seq(1..l)
  BY <1>1, <1>2
<1> QED BY <1>1, <1>2, <1>3

\* Refusing a form leaves it as it is.
LEMMA Refused ==
  ASSUME FormInv, UNCHANGED <<parts, open, form>>, surplus' \in BOOLEAN, parser' \in {parser, "failed"},
         formPromise' \in {"413", "422"} \/ (formPromise' = formPromise /\ surplus' = surplus),
         parser' = parser \/ formPromise' # "pending",
         formPromise = "resolved" => parser' = "finished" /\ formPromise' = "resolved"
  PROVE  FormInv'
<1>1. FormTyped'
  BY DEF FormInv, FormTyped
<1>2. NoneLost'
  BY DEF FormInv, NoneLost, Listed
<1>3. FilesOpen' /\ Finishing'
  BY DEF FormInv, FilesOpen, Finishing
<1>4. ASSUME NEW k \in parsing!Keys PROVE ListedOnce(k)' /\ FieldsInOrder(k)'
  BY DEF FormInv, ListedOnce, FieldsInOrder
<1> QED BY <1>1, <1>2, <1>3, <1>4 DEF FormInv

\* A part comes, and its name or its value is refused, or it is a file that is open.
LEMMA PartComes ==
  ASSUME FormInv, NEW p \in parsing!Parts, parser = "writing", parts' = Append(parts, p), form' = form,
         UNCHANGED <<surplus, parser>>, open' \subseteq open \cup {Len(parts) + 1}, open \subseteq open',
         Len(parts) + 1 \in open' => p.kind = "file",
         formPromise' = formPromise \/ formPromise' \in {"413", "422"},
         formPromise' = "pending" => Len(parts) + 1 \in open' /\ ~parsing!BadName(p)
  PROVE  FormInv'
<1>0. /\ parts \in Seq(parsing!Parts) /\ form \in [parsing!Keys -> Seq(1..Len(parts))]
      /\ open \subseteq 1..Len(parts) /\ formPromise # "resolved"
  BY DEF FormInv, FormTyped, Finishing
<1>1. /\ parts' \in Seq(parsing!Parts) /\ Len(parts') = Len(parts) + 1 /\ parts'[Len(parts) + 1] = p
      /\ \A n \in 1..Len(parts) : parts'[n] = parts[n]
  BY <1>0
<1>2. \A k \in parsing!Keys : /\ form[k] \in Seq(1..Len(parts)) /\ form[k] \in Seq(1..Len(parts'))
                              /\ \A m \in 1..Len(form[k]) : form[k][m] \in 1..Len(parts)
  <2>1. Len(parts) \in Nat /\ Len(parts') \in Nat /\ Len(parts) <= Len(parts')
    BY <1>0, <1>1
  <2> QED BY <1>0, <2>1, ListsAre
<1>3. FormTyped'
  <2>1. form' \in [parsing!Keys -> Seq(1..Len(parts'))]
    BY <1>0, <1>2
  <2>2. open' \subseteq 1..Len(parts')
    BY <1>0, <1>1
  <2>3. surplus' \in BOOLEAN
    BY DEF FormInv, FormTyped
  <2> QED BY <1>1, <2>1, <2>2, <2>3 DEF FormInv, FormTyped
<1>4. NoneLost'
  <2> SUFFICES ASSUME formPromise' = "pending", NEW n \in 1..Len(parts'), n \notin open' \/ parsing!BadName(parts'[n])
               PROVE  surplus' = FALSE /\ Listed(form', parts'[n].key, n)
    <3>1. formPromise' # "resolved"
      BY <1>0
    <3>2. formPromise' \in {"pending", "resolved"} => surplus' = FALSE
      BY <3>1 DEF FormInv, NoneLost
    <3> QED BY <3>1, <3>2 DEF NoneLost
  <2>1. n \in 1..Len(parts) /\ formPromise = "pending"
    BY <1>1
  <2> QED BY <1>1, <2>1 DEF FormInv, NoneLost, Listed
<1>5. FilesOpen' /\ Finishing'
  BY <1>0, <1>1 DEF FormInv, FilesOpen, Finishing
<1>6. ASSUME NEW k \in parsing!Keys PROVE ListedOnce(k)' /\ FieldsInOrder(k)'
  <2>1. \A m \in 1..Len(form[k]) : form[k][m] \in 1..Len(parts) /\ parts'[form[k][m]] = parts[form[k][m]]
    BY <1>1, <1>2
  <2>2. ListedOnce(k) /\ FieldsInOrder(k)
    BY DEF FormInv
  <2>3. ListedOnce(k)'
    <3>1. \A m \in 1..Len(form[k]) : form[k][m] \notin open /\ form[k][m] # Len(parts) + 1
      BY <1>0, <2>1, <2>2 DEF ListedOnce
    <3>2. \A m \in 1..Len(form[k]) : form[k][m] \notin open'
      BY <3>1
    <3> QED BY <2>1, <2>2, <3>2 DEF ListedOnce
  <2>4. FieldsInOrder(k)'
    BY <2>1, <2>2 DEF FieldsInOrder
  <2> QED BY <2>3, <2>4
<1> QED BY <1>3, <1>4, <1>5, <1>6 DEF FormInv

\* A field comes, and is the last of its list.
LEMMA FieldListed ==
  ASSUME FormInv, NEW p \in parsing!Parts, parser = "writing", parts' = Append(parts, p), p.flaw = "none",
         form' = [form EXCEPT ![p.key] = Append(form[p.key], Len(parts) + 1)],
         UNCHANGED <<surplus, parser, open, formPromise>>
  PROVE  FormInv'
<1>0. /\ parts \in Seq(parsing!Parts) /\ form \in [parsing!Keys -> Seq(1..Len(parts))] /\ p.key \in parsing!Keys
      /\ open \subseteq 1..Len(parts) /\ formPromise # "resolved"
  BY PartsAre DEF FormInv, FormTyped, Finishing
<1>1. /\ parts' \in Seq(parsing!Parts) /\ Len(parts') = Len(parts) + 1 /\ parts'[Len(parts) + 1] = p
      /\ \A n \in 1..Len(parts) : parts'[n] = parts[n]
  BY <1>0
<1>2. \A k \in parsing!Keys : /\ form[k] \in Seq(1..Len(parts)) /\ form[k] \in Seq(1..Len(parts'))
                              /\ \A m \in 1..Len(form[k]) : form[k][m] \in 1..Len(parts)
  <2>1. Len(parts) \in Nat /\ Len(parts') \in Nat /\ Len(parts) <= Len(parts')
    BY <1>0, <1>1
  <2> QED BY <1>0, <2>1, ListsAre
<1>3. \A k \in parsing!Keys : k # p.key => form'[k] = form[k]
  BY <1>0
<1>4. /\ Len(form'[p.key]) = Len(form[p.key]) + 1 /\ form'[p.key][Len(form[p.key]) + 1] = Len(parts) + 1
      /\ \A m \in 1..Len(form[p.key]) : form'[p.key][m] = form[p.key][m]
      /\ form'[p.key] \in Seq(1..Len(parts'))
  <2>1. form'[p.key] = Append(form[p.key], Len(parts) + 1)
    BY <1>0
  <2>2. form[p.key] \in Seq(1..Len(parts')) /\ Len(parts) + 1 \in 1..Len(parts')
    BY <1>0, <1>1, <1>2
  <2> DEFINE old == form[p.key]
             e == Len(parts) + 1
             S == 1..Len(parts')
  <2>3. old \in Seq(S) /\ e \in S
    BY <2>2
  <2> HIDE DEF old, e, S
  <2>4. /\ Append(old, e) \in Seq(S) /\ Len(Append(old, e)) = Len(old) + 1 /\ Append(old, e)[Len(old) + 1] = e
        /\ \A m \in 1..Len(old) : Append(old, e)[m] = old[m]
    BY <2>3, AppendProperties
  <2> QED BY <2>1, <2>4 DEF old, e, S
<1>5. FormTyped'
  <2>1. form' \in [parsing!Keys -> Seq(1..Len(parts'))]
    BY <1>0, <1>2, <1>3, <1>4
  <2> QED BY <1>0, <1>1, <2>1 DEF FormInv, FormTyped
<1>6. NoneLost'
  <2> SUFFICES ASSUME formPromise' = "pending", NEW n \in 1..Len(parts'), n \notin open' \/ parsing!BadName(parts'[n])
               PROVE  surplus' = FALSE /\ Listed(form', parts'[n].key, n)
    <3>1. formPromise' # "resolved"
      BY <1>0
    <3>2. formPromise' \in {"pending", "resolved"} => surplus' = FALSE
      BY <3>1 DEF FormInv, NoneLost
    <3> QED BY <3>1, <3>2 DEF NoneLost
  <2>1. surplus' = FALSE
    BY DEF FormInv, NoneLost
  <2>2. CASE n = Len(parts) + 1
    <3>1. Len(form[p.key]) + 1 \in 1..Len(form'[p.key])
      BY <1>0, <1>2, <1>4
    <3> QED BY <1>1, <1>4, <2>1, <2>2, <3>1 DEF Listed
  <2>3. CASE n \in 1..Len(parts)
    <3>1. parts[n].key \in parsing!Keys
      BY <1>0, <2>3, PartsAre
    <3>2. PICK m \in 1..Len(form[parts[n].key]) : form[parts[n].key][m] = n
      BY <1>1, <2>3 DEF FormInv, NoneLost, Listed
    <3>3. m \in 1..Len(form'[parts[n].key]) /\ form'[parts[n].key][m] = n
      BY <1>2, <1>3, <1>4, <3>1, <3>2, SMTT(30)
    <3> QED BY <1>1, <2>1, <2>3, <3>3 DEF Listed
  <2>4. Len(parts) \in Nat
    BY <1>0
  <2>5. n = Len(parts) + 1 \/ n \in 1..Len(parts)
    BY <1>1, <2>4
  <2> QED BY <2>2, <2>3, <2>5
<1>7. FilesOpen' /\ Finishing'
  BY <1>0, <1>1 DEF FormInv, FilesOpen, Finishing
<1>8. ASSUME NEW k \in parsing!Keys PROVE ListedOnce(k)' /\ FieldsInOrder(k)'
  <2>1. \A m \in 1..Len(form[k]) : form[k][m] \in 1..Len(parts) /\ parts'[form[k][m]] = parts[form[k][m]]
    BY <1>1, <1>2
  <2>2. ListedOnce(k) /\ FieldsInOrder(k)
    BY DEF FormInv
  <2>3. CASE k # p.key
    <3>1. ListedOnce(k)'
      BY <1>3, <2>1, <2>2, <2>3 DEF ListedOnce
    <3>2. FieldsInOrder(k)'
      BY <1>3, <2>1, <2>2, <2>3 DEF FieldsInOrder
    <3> QED BY <3>1, <3>2
  <2>4. CASE k = p.key
    <3>1. Len(form[k]) \in Nat /\ Len(parts) \in Nat
      BY <1>0, <1>2
    <3>4. ASSUME NEW m \in 1..Len(form'[k])
          PROVE  \/ m \in 1..Len(form[k]) /\ form'[k][m] = form[k][m] /\ form[k][m] # Len(parts) + 1
                 \/ m = Len(form[k]) + 1 /\ form'[k][m] = Len(parts) + 1
      BY <1>4, <2>1, <2>4, <3>1
    <3>5. Len(parts) + 1 \notin open
      BY <1>0, <3>1
    <3>6. \A m, n \in 1..Len(form'[k]) : form'[k][m] = form'[k][n] => m = n
      BY <2>2, <3>4 DEF ListedOnce
    <3>7. \A m \in 1..Len(form'[k]) : form'[k][m] \notin open' /\ parts'[form'[k][m]].flaw = "none"
      <4> SUFFICES ASSUME NEW m \in 1..Len(form'[k])
                   PROVE  form'[k][m] \notin open' /\ parts'[form'[k][m]].flaw = "none"
        OBVIOUS
      <4>1. CASE m \in 1..Len(form[k]) /\ form'[k][m] = form[k][m]
        BY <2>1, <2>2, <4>1 DEF ListedOnce
      <4>2. CASE form'[k][m] = Len(parts) + 1
        BY <1>1, <3>5, <4>2
      <4> QED BY <3>4, <4>1, <4>2
    <3>2. ListedOnce(k)'
      BY <3>6, <3>7 DEF ListedOnce
    <3>3. FieldsInOrder(k)'
      BY <1>1, <1>4, <2>1, <2>2, <2>4, <3>1, SMTT(30) DEF FieldsInOrder
    <3> QED BY <3>2, <3>3
  <2> QED BY <2>3, <2>4
<1> QED BY <1>5, <1>6, <1>7, <1>8 DEF FormInv

\* A file ends, and is the first of its list.
LEMMA FileListed ==
  ASSUME FormInv, NEW n \in open, ~parsing!BadName(parts[n]), parsing!Unclipped(parts[n]), open' = open \ {n},
         form' = [form EXCEPT ![parts[n].key] = <<n>> \o form[parts[n].key]],
         UNCHANGED <<parts, surplus, parser, formPromise>>
  PROVE  FormInv'
<1> DEFINE key == parts[n].key
<1>0. /\ parts \in Seq(parsing!Parts) /\ form \in [parsing!Keys -> Seq(1..Len(parts))] /\ n \in 1..Len(parts)
      /\ open \subseteq 1..Len(parts) /\ formPromise # "resolved"
  BY DEF FormInv, FormTyped, Finishing
<1>1. key \in parsing!Keys /\ parts[n].flaw = "none" /\ parts[n].kind = "file"
  BY <1>0, PartsAre DEF FormInv, FilesOpen
<1>2. \A k \in parsing!Keys : /\ form[k] \in Seq(1..Len(parts)) /\ Len(form[k]) \in Nat
                              /\ \A m \in 1..Len(form[k]) : form[k][m] \in 1..Len(parts)
  BY <1>0
<1> HIDE DEF key
<1>3. \A k \in parsing!Keys : k # key => form'[k] = form[k]
  BY <1>0 DEF key
<1>4. /\ Len(form'[key]) = Len(form[key]) + 1 /\ form'[key][1] = n
      /\ \A m \in 2..Len(form[key]) + 1 : form'[key][m] = form[key][m - 1]
      /\ form'[key] \in Seq(1..Len(parts))
  <2>1. form'[key] = <<n>> \o form[key] /\ <<n>> \in Seq(1..Len(parts)) /\ form[key] \in Seq(1..Len(parts))
    BY <1>0, <1>1, <1>2 DEF key
  <2>2. Len(<<n>>) = 1 /\ <<n>>[1] = n
    OBVIOUS
  <2>3. /\ form'[key] \in Seq(1..Len(parts)) /\ Len(form'[key]) = 1 + Len(form[key])
        /\ \A m \in 1..1 + Len(form[key]) : form'[key][m] = IF m <= 1 THEN <<n>>[m] ELSE form[key][m - 1]
    <3> DEFINE old == form[key]
               S == 1..Len(parts)
    <3>1. old \in Seq(S) /\ <<n>> \in Seq(S)
      BY <2>1
    <3> HIDE DEF old, S
    <3>2. /\ <<n>> \o old \in Seq(S) /\ Len(<<n>> \o old) = 1 + Len(old)
          /\ \A m \in 1..1 + Len(old) : (<<n>> \o old)[m] = IF m <= 1 THEN <<n>>[m] ELSE old[m - 1]
      BY <2>2, <3>1, ConcatProperties
    <3> QED BY <2>1, <3>2 DEF old, S
  <2>4. Len(form[key]) \in Nat
    BY <1>1, <1>2
  <2>5. form'[key][1] = n /\ \A m \in 2..Len(form[key]) + 1 : form'[key][m] = form[key][m - 1]
    BY <2>2, <2>3, <2>4
  <2> QED BY <2>3, <2>4, <2>5
<1>5. FormTyped'
  <2>1. form' \in [parsing!Keys -> Seq(1..Len(parts))]
    BY <1>0, <1>2, <1>3, <1>4
  <2> QED BY <1>0, <2>1 DEF FormInv, FormTyped
<1>6. NoneLost'
  <2> SUFFICES ASSUME formPromise = "pending", NEW l \in 1..Len(parts), l \notin open' \/ parsing!BadName(parts[l])
               PROVE  surplus = FALSE /\ Listed(form', parts[l].key, l)
    <3>1. formPromise' # "resolved"
      BY <1>0
    <3>2. formPromise \in {"pending", "resolved"} => surplus = FALSE
      BY DEF FormInv, NoneLost
    <3> QED BY <3>1, <3>2 DEF NoneLost
  <2>1. surplus = FALSE
    BY DEF FormInv, NoneLost
  <2>2. CASE l = n
    <3>1. 1 \in 1..Len(form'[key])
      BY <1>1, <1>2, <1>4
    <3> QED BY <1>4, <2>1, <2>2, <3>1 DEF Listed, key
  <2>3. CASE l # n
    <3>1. parts[l].key \in parsing!Keys
      BY <1>0, PartsAre
    <3>2. PICK m \in 1..Len(form[parts[l].key]) : form[parts[l].key][m] = l
      BY <2>3 DEF FormInv, NoneLost, Listed
    <3>3. CASE parts[l].key # key
      BY <1>3, <2>1, <3>1, <3>2, <3>3 DEF Listed
    <3>4. CASE parts[l].key = key
      <4>1. m + 1 \in 1..Len(form'[key]) /\ form'[key][m + 1] = l
        <5>1. m \in 1..Len(form[key]) /\ form[key][m] = l /\ Len(form[key]) \in Nat
          BY <1>1, <1>2, <3>2, <3>4
        <5>2. m + 1 \in 2..Len(form[key]) + 1 /\ m + 1 - 1 = m
          BY <5>1
        <5> QED BY <1>4, <5>1, <5>2
      <4> QED BY <2>1, <3>4, <4>1 DEF Listed
    <3> QED BY <3>3, <3>4
  <2> QED BY <2>2, <2>3
<1>7. FilesOpen' /\ Finishing'
  BY <1>0 DEF FormInv, FilesOpen, Finishing
<1>8. ASSUME NEW k \in parsing!Keys PROVE ListedOnce(k)' /\ FieldsInOrder(k)'
  <2>2. ListedOnce(k) /\ FieldsInOrder(k)
    BY DEF FormInv
  <2>3. CASE k # key
    <3>1. ListedOnce(k)'
      <4>1. form'[k] = form[k] /\ \A x : x \in open' => x \in open
        BY <1>3, <2>3
      <4> QED BY <2>2, <4>1 DEF ListedOnce
    <3>2. FieldsInOrder(k)'
      BY <1>3, <2>2, <2>3 DEF FieldsInOrder
    <3> QED BY <3>1, <3>2
  <2>4. CASE k = key
    <3>1. \A m \in 1..Len(form'[k]) : \/ m = 1 /\ form'[k][m] = n
                                      \/ m - 1 \in 1..Len(form[k]) /\ form'[k][m] = form[k][m - 1]
      BY <1>2, <1>4, <2>4, SMTT(30)
    <3>4. \A m \in 1..Len(form[k]) : form[k][m] # n /\ form[k][m] \in Nat
      BY <1>2, <2>2 DEF ListedOnce
    <3>5. \A l, m \in 1..Len(form'[k]) : form'[k][l] = form'[k][m] => l = m
      <4> SUFFICES ASSUME NEW l \in 1..Len(form'[k]), NEW m \in 1..Len(form'[k]), form'[k][l] = form'[k][m]
                   PROVE  l = m
        OBVIOUS
      <4>1. l - 1 \in 1..Len(form[k]) /\ m - 1 \in 1..Len(form[k]) => l - 1 = m - 1
        BY <2>2, <3>1, <3>4 DEF ListedOnce
      <4>2. CASE l # 1 /\ m # 1
        BY <3>1, <4>1, <4>2
      <4>3. CASE l = 1 \/ m = 1
        BY <3>1, <3>4, <4>3, SMTT(30)
      <4> QED BY <4>2, <4>3
    <3>6. \A m \in 1..Len(form'[k]) : form'[k][m] \notin open' /\ parts[form'[k][m]].flaw = "none"
      <4> TAKE m \in 1..Len(form'[k])
      <4>1. CASE form'[k][m] = n
        BY <1>1, <4>1
      <4>2. CASE m - 1 \in 1..Len(form[k]) /\ form'[k][m] = form[k][m - 1]
        BY <2>2, <4>2 DEF ListedOnce
      <4> QED BY <3>1, <4>1, <4>2
    <3>2. ListedOnce(k)'
      BY <3>5, <3>6 DEF ListedOnce
    <3>3. FieldsInOrder(k)'
      <4> SUFFICES ASSUME NEW l \in 1..Len(form'[k]), NEW m \in 1..Len(form'[k]), l < m, form'[k][l] > form'[k][m]
                   PROVE  "file" \in {parts[form'[k][l]].kind, parts[form'[k][m]].kind}
        BY DEF FieldsInOrder
      <4>1. CASE l = 1
        BY <1>1, <3>1, <4>1
      <4>2. CASE l # 1
        <5>1. l - 1 \in 1..Len(form[k]) /\ m - 1 \in 1..Len(form[k]) /\ l - 1 < m - 1
          BY <3>1, <4>2
        <5>2. form'[k][l] = form[k][l - 1] /\ form'[k][m] = form[k][m - 1]
          BY <3>1, <4>2, <5>1
        <5>3. form[k][l - 1] > form[k][m - 1]
          BY <5>2
        <5> QED BY <2>2, <5>1, <5>2, <5>3 DEF FieldsInOrder
      <4> QED BY <4>1, <4>2
    <3> QED BY <3>2, <3>3
  <2> QED BY <2>3, <2>4
<1> QED BY <1>5, <1>6, <1>7, <1>8 DEF FormInv

\* Every step keeps the invariant.
LEMMA FormSteps == FormInv /\ [parsing!FormNext]_parsing!formVars => FormInv'
<1> SUFFICES ASSUME FormInv, [parsing!FormNext]_parsing!formVars PROVE FormInv'
  OBVIOUS
<1>0. /\ formPromise \in {"pending", "resolved", "413", "422"} /\ surplus \in BOOLEAN
      /\ parser \in {"writing", "ended", "failed", "finished"} /\ open \subseteq 1..Len(parts)
      /\ parts \in Seq(parsing!Parts) /\ (formPromise = "resolved" => parser = "finished")
      /\ (parser = "finished" => open = {} /\ formPromise # "pending")
  BY DEF FormInv, FormTyped, Finishing
<1>1. ASSUME NEW p \in parsing!Parts, parsing!Part(p), parsing!Field(p) PROVE FormInv'
  <2>1. CASE parsing!BadName(p) \/ ~parsing!Unclipped(p)
    BY <1>0, <1>1, <2>1, PartComes DEF parsing!Part, parsing!Field, parsing!NameRefused, parsing!Rejects
  <2>2. CASE ~parsing!BadName(p) /\ parsing!Unclipped(p)
    BY <1>0, <1>1, <2>2, PartsAre, FieldListed DEF parsing!Part, parsing!Field, parsing!Folded
  <2> QED BY <2>1, <2>2
<1>2. ASSUME NEW p \in parsing!Parts, parsing!Part(p), parsing!File(p) PROVE FormInv'
  BY <1>0, <1>2, PartComes DEF parsing!Part, parsing!File, parsing!NameRefused, parsing!Rejects
<1>3. CASE parsing!Surplus
  BY <1>0, <1>3, Refused DEF parsing!Surplus, parsing!TooMany, parsing!Rejects
<1>4. ASSUME NEW n \in open, parsing!FileEnds(n) PROVE FormInv'
  <2>1. CASE parsing!Unclipped(parts[n])
    BY <1>4, <2>1, FileListed DEF parsing!FileEnds, parsing!Unshifted
  <2>2. CASE ~parsing!Unclipped(parts[n])
    <3>1. /\ UNCHANGED <<parts, surplus, parser, form>> /\ open' = open \ {n}
          /\ formPromise' = (IF formPromise = "pending" THEN "413" ELSE formPromise) /\ formPromise # "resolved"
      BY <1>0, <1>4, <2>2 DEF parsing!FileEnds, parsing!Rejects
    <3>2. FormTyped'
      BY <1>0, <3>1 DEF FormInv, FormTyped
    <3>3. NoneLost' /\ FilesOpen' /\ Finishing'
      BY <1>0, <3>1 DEF FormInv, NoneLost, FilesOpen, Finishing
    <3>4. ASSUME NEW k \in parsing!Keys PROVE ListedOnce(k)' /\ FieldsInOrder(k)'
      BY <3>1 DEF FormInv, ListedOnce, FieldsInOrder
    <3> QED BY <3>2, <3>3, <3>4 DEF FormInv
  <2> QED BY <2>1, <2>2
<1>5. CASE parsing!BodyEnds \/ parsing!Finish
  <2>1. /\ UNCHANGED <<parts, surplus, open, form>>
        /\ \/ formPromise' = formPromise /\ parser' = "ended" /\ parser = "writing"
           \/ /\ parser' = "finished" /\ open = {} /\ parser = "ended"
              /\ formPromise' = (IF formPromise = "pending" THEN "resolved" ELSE formPromise)
    BY <1>5 DEF parsing!BodyEnds, parsing!Finish
  <2>2. FormTyped'
    BY <1>0, <2>1 DEF FormInv, FormTyped
  <2>3. NoneLost'
    BY <1>0, <2>1 DEF FormInv, NoneLost, Listed
  <2>4. FilesOpen' /\ Finishing'
    BY <1>0, <2>1 DEF FormInv, FilesOpen, Finishing
  <2>5. ASSUME NEW k \in parsing!Keys PROVE ListedOnce(k)' /\ FieldsInOrder(k)'
    BY <2>1 DEF FormInv, ListedOnce, FieldsInOrder
  <2> QED BY <2>2, <2>3, <2>4, <2>5 DEF FormInv
<1>6. CASE parsing!ParserFails
  BY <1>0, <1>6, Refused DEF parsing!ParserFails, parsing!Rejects
<1>7. CASE UNCHANGED parsing!formVars
  BY <1>0, <1>7, Refused DEF parsing!formVars
<1> QED BY <1>1, <1>2, <1>3, <1>4, <1>5, <1>6, <1>7 DEF parsing!FormNext, parsing!Goes, parsing!Part

\* The invariant says what the property does.
LEMMA FormHolds == FormInv => parsing!FormTypeOK /\ parsing!FormIsWhole
<1> SUFFICES ASSUME FormInv PROVE parsing!FormTypeOK /\ parsing!FormIsWhole
  OBVIOUS
<1>0. /\ parts \in Seq(parsing!Parts) /\ form \in [parsing!Keys -> Seq(1..Len(parts))]
      /\ DOMAIN parts = 1..Len(parts)
  BY DEF FormInv, FormTyped
<1>1. \A k \in parsing!Keys : /\ form[k] \in Seq(1..Len(parts)) /\ DOMAIN form[k] = 1..Len(form[k])
                              /\ \A m \in 1..Len(form[k]) : form[k][m] \in 1..Len(parts)
  BY <1>0
<1>2. parsing!FormTypeOK
  <2>1. \A k \in parsing!Keys : parsing!ToSet(form[k]) \subseteq DOMAIN parts
    BY <1>0, <1>1 DEF parsing!ToSet
  <2> QED BY <1>0, <2>1 DEF FormInv, FormTyped, parsing!FormTypeOK
<1>3. ASSUME formPromise = "resolved", NEW n \in 1..Len(parts)
      PROVE  /\ parts[n].flaw = "none"
             /\ parsing!Cardinality({m \in DOMAIN form[parts[n].key] : form[parts[n].key][m] = n}) = 1
  <2>0. parts[n].key \in parsing!Keys
    BY <1>0, PartsAre
  <2>1. PICK m \in 1..Len(form[parts[n].key]) : form[parts[n].key][m] = n
    BY <1>3 DEF FormInv, NoneLost, Finishing, Listed
  <2>2. parts[n].flaw = "none" /\ \A l \in 1..Len(form[parts[n].key]) : form[parts[n].key][l] = n => l = m
    BY <2>0, <2>1 DEF FormInv, ListedOnce
  <2>3. {l \in DOMAIN form[parts[n].key] : form[parts[n].key][l] = n} = {m}
    BY <1>1, <2>0, <2>1, <2>2
  <2>4. parsing!Cardinality({m}) = Cardinality({m})
    BY DEF parsing!Cardinality, Cardinality
  <2> QED BY <2>2, <2>3, <2>4, FS_Singleton
<1>4. ASSUME NEW k \in parsing!Keys, NEW m \in DOMAIN form[k], NEW n \in DOMAIN form[k], m < n, form[k][m] > form[k][n]
      PROVE  "file" \in {parts[form[k][m]].kind, parts[form[k][n]].kind}
  BY <1>1, <1>4 DEF FormInv, FieldsInOrder
<1>5. formPromise = "resolved" => surplus = FALSE
  BY DEF FormInv, NoneLost
<1>6. parser \in {"finished", "failed"} => formPromise # "pending"
  BY DEF FormInv, Finishing
<1> QED BY <1>0, <1>2, <1>3, <1>4, <1>5, <1>6 DEF parsing!FormIsWhole

\* http-multipart-body-parser: however many parts come and however long their files stay open, the
\* handler sees each part once, unclipped and in its order, or the form is refused.
THEOREM FormsAreWhole == parsing!FormSpec => [](parsing!FormTypeOK /\ parsing!FormIsWhole)
<1>1. parsing!FormInit => FormInv
  <2> SUFFICES ASSUME parsing!FormInit PROVE FormInv
    OBVIOUS
  <2>1. /\ parts = <<>> /\ surplus = FALSE /\ open = {} /\ form = [k \in parsing!Keys |-> <<>>]
        /\ formPromise = "pending" /\ parser = "writing" /\ Len(parts) = 0
    BY DEF parsing!FormInit
  <2>2. FormTyped
    <3>1. parts \in Seq(parsing!Parts)
      BY <2>1
    <3>2. form \in [parsing!Keys -> Seq(1..Len(parts))]
      BY <2>1
    <3> QED BY <2>1, <3>1, <3>2 DEF FormTyped
  <2>3. \A k \in parsing!Keys : Len(form[k]) = 0
    BY <2>1
  <2> QED BY <2>1, <2>2, <2>3 DEF FormInv, NoneLost, FilesOpen, Finishing, ListedOnce, FieldsInOrder
<1> QED BY <1>1, FormSteps, FormHolds, PTL DEF parsing!FormSpec

----------------------------------------------------------------------------
(* The tables of the routers.                                              *)
CONSTANT MaxRoutes
VARIABLES router, routes, statics, dynamics, keyed, refused
routing == INSTANCE HttpRouter

\* The segments of a path; the signature of a pattern has others.
Segments == {"", "a", "b", "Create", "Delete"} \cup routing!Params
Paths == Seq(Segments)
OfSegments(e, a, b, x, y, proxy) ==
  {<<e>>, <<a>>, <<a, e>>, <<a, b>>, <<x>>, <<proxy>>, <<a, x>>, <<a, y>>, <<a, x, e>>, <<x, b>>, <<a, proxy>>}
\* The sequences of some segments.
LEMMA Tuples ==
  ASSUME NEW S, NEW e \in S, NEW a \in S, NEW b \in S, NEW x \in S, NEW y \in S, NEW proxy \in S
  PROVE  OfSegments(e, a, b, x, y, proxy) \subseteq Seq(S)
<1>1. \A u \in S : <<u>> \in Seq(S)
  OBVIOUS
<1>2. \A u, v \in S : <<u, v>> \in Seq(S)
  OBVIOUS
<1>3. \A u, v, w \in S : <<u, v, w>> \in Seq(S)
  OBVIOUS
<1> QED BY <1>1, <1>2, <1>3, ZenonT(60) DEF OfSegments
LEMMA Single == ASSUME NEW S, NEW u \in S PROVE <<u>> \in Seq(S) /\ Len(<<u>>) = 1 /\ <<u>>[1] = u
OBVIOUS
LEMMA Within == ASSUME NEW S, NEW q \in Seq(S) PROVE \A n \in DOMAIN q : q[n] \in S
<1>1. DOMAIN q = 1..Len(q)
  OBVIOUS
<1>2. \A n \in 1..Len(q) : q[n] \in S
  OBVIOUS
<1> QED BY <1>1, <1>2, Zenon
LEMMA TrimmedIs == ASSUME NEW S, NEW path \in Seq(S), path # <<>> PROVE routing!Trimmed(path) \in Seq(S)
<1>1. Len(path) \in Nat /\ Len(path) # 0
  OBVIOUS
<1>2. SubSeq(path, 1, Len(path) - 1) \in Seq(S)
  BY <1>1
<1> QED BY <1>2, Zenon DEF routing!Trimmed, routing!Front
LEMMA NotEmpty ==
  ASSUME NEW e, NEW a, NEW b, NEW x, NEW y, NEW proxy
  PROVE  <<>> \notin OfSegments(e, a, b, x, y, proxy)
BY DEF OfSegments

\* What is registered is a path.
LEMMA PathsAre == \A written \in routing!RoutePaths : routing!Trimmed(written) \in Paths
<1>1. PICK e \in Segments, a \in Segments, b \in Segments, x \in Segments, y \in Segments, proxy \in Segments :
        routing!RoutePaths = OfSegments(e, a, b, x, y, proxy)
  <2>1. routing!RoutePaths = OfSegments("", "a", "b", "{x}", "{y}", "{proxy+}")
    BY Zenon DEF routing!RoutePaths, OfSegments
  <2>2. /\ "" \in Segments /\ "a" \in Segments /\ "b" \in Segments /\ "{x}" \in Segments
        /\ "{y}" \in Segments /\ "{proxy+}" \in Segments
    BY DEF Segments, routing!Params
  <2> QED BY <2>1, <2>2, Zenon
<1>2. routing!RoutePaths \subseteq Paths
  BY <1>1, Tuples DEF Paths
<1>3. <<>> \notin routing!RoutePaths
  BY <1>1, NotEmpty
<1> QED BY <1>2, <1>3, TrimmedIs DEF Paths

\* A static path is its own signature.
LEMMA SignatureOfStatic == ASSUME NEW q \in Paths, ~routing!Dynamic(q) PROVE routing!Signature(q) = q
<1>1. \A n \in DOMAIN q : q[n] \notin routing!Params
  BY DEF routing!Dynamic
<1>2. \A m \in DOMAIN q : routing!Signature(q)[m] = q[m]
  BY <1>1, Zenon DEF routing!Signature, routing!Params
<1>3. q = [m \in DOMAIN q |-> q[m]]
  BY DEF Paths
<1> QED BY <1>2, <1>3 DEF routing!Signature

\* A key is a path of one segment, which is no parameter.
LEMMA KeysAre ==
  \A key \in routing!RouteKeys :
    <<key>> \in Paths /\ ~routing!Dynamic(<<key>>) /\ routing!Signature(<<key>>) = <<key>>
<1> SUFFICES ASSUME NEW key \in routing!RouteKeys
             PROVE  <<key>> \in Paths /\ ~routing!Dynamic(<<key>>)
  BY SignatureOfStatic, Zenon
<1>1. key \in Segments /\ key \notin routing!Params
  BY DEF Segments, routing!RouteKeys, routing!Params
<1>2. <<key>> \in Paths
  BY <1>1, Single, Zenon DEF Paths
<1>3. DOMAIN <<key>> = {1} /\ <<key>>[1] = key
  OBVIOUS
<1>4. ~routing!Dynamic(<<key>>)
  BY <1>1, <1>3, Zenon DEF routing!Dynamic
<1> QED BY <1>2, <1>4

\* A pattern is not mistaken for a static path.
LEMMA SignaturesApart ==
  ASSUME NEW p \in Paths, NEW q \in Paths, routing!Dynamic(p), ~routing!Dynamic(q)
  PROVE  routing!Signature(p) # routing!Signature(q)
<1>0. \A s \in Segments : s # "{}"
  BY DEF Segments, routing!Params
<1>1. \A n \in DOMAIN q : q[n] \notin routing!Params /\ q[n] # "{}"
  BY <1>0, Within, Zenon DEF Paths, routing!Dynamic
<1>2. PICK n \in DOMAIN p : p[n] \in routing!Params
  BY DEF routing!Dynamic
<1>3. routing!Signature(q) = q
  BY SignatureOfStatic
<1>4. routing!Signature(p)[n] = "{}" \/ routing!Signature(p)[n] \in routing!Params
  BY <1>2 DEF routing!Signature
<1>5. DOMAIN routing!Signature(p) = DOMAIN p
  BY DEF routing!Signature
<1> QED BY <1>1, <1>2, <1>3, <1>4, <1>5

Route == [method : routing!Methods, path : Paths]
Named(key) == {r \in DOMAIN routes : routes[r].path = <<key>>}
Keys == routing!RouteKeys \cup {"Update"}

\* Every route is in the table of its method.
InTables ==
  router = "http" => \A r \in DOMAIN routes :
    IF routing!Dynamic(routes[r].path)
    THEN \E n \in DOMAIN dynamics[routes[r].method] : dynamics[routes[r].method][n] = r
    ELSE \E e \in statics[routes[r].method] : e[1] = routes[r].path
\* A key is looked up where its last route is.
LastNamed ==
  router # "http" => \A key \in Keys :
    /\ \A r \in routing!Routes(key) : r \in Named(key) /\ \A s \in Named(key) : s <= r
    /\ Named(key) # {} => routing!Routes(key) # {}
RouterTyped ==
  /\ router \in {"http", "ws", "cloudformation"} /\ refused \in BOOLEAN
  /\ routes \in Seq(Route) /\ Len(routes) <= MaxRoutes
TablesTyped ==
  /\ statics = [m \in routing!Methods |-> statics[m]] /\ dynamics \in [routing!Methods -> Seq(Nat)]
  /\ \A m \in routing!Methods : \A e \in statics[m] : e[2] \in 1..Len(routes)
  /\ \A m \in routing!Methods : \A n \in DOMAIN dynamics[m] : dynamics[m][n] \in 1..Len(routes)
Keyed == router # "http" => \A r \in DOMAIN routes : \E key \in routing!RouteKeys : routes[r].path = <<key>>
RouterInv ==
  /\ RouterTyped /\ TablesTyped /\ Keyed /\ routing!RoutesApart /\ (~refused => InTables /\ LastNamed)

\* Before a route is registered the tables are in order.
LEMMA RouterInit == ASSUME MaxRoutes \in Nat, routing!Init PROVE RouterInv
<1>1. routes = <<>> /\ DOMAIN routes = {} /\ Len(routes) = 0 /\ routes \in Seq(Route)
  <2>1. routes = <<>>
    BY DEF routing!Init
  <2> QED BY <2>1
<1>2. RouterTyped
  <2>1. router \in {"http", "ws", "cloudformation"} /\ refused = FALSE
    BY DEF routing!Init
  <2>2. refused \in BOOLEAN
    BY <2>1
  <2>3. Len(routes) <= MaxRoutes
    <3>1. 0 <= MaxRoutes
      OBVIOUS
    <3> QED BY <1>1, <3>1, Zenon
  <2> QED BY <1>1, <2>1, <2>2, <2>3, Zenon DEF RouterTyped
<1>3. TablesTyped
  <2>1. \A m \in routing!Methods : statics[m] = {} /\ dynamics[m] = <<>>
    BY DEF routing!Init
  <2>2. dynamics \in [routing!Methods -> Seq(Nat)]
    BY DEF routing!Init
  <2>3. statics = [m \in routing!Methods |-> statics[m]]
    BY DEF routing!Init
  <2>4. \A m \in routing!Methods : DOMAIN dynamics[m] = {}
    BY <2>1
  <2> QED BY <2>1, <2>2, <2>3, <2>4 DEF TablesTyped
<1>4. Keyed /\ routing!RoutesApart /\ InTables
  BY <1>1 DEF Keyed, routing!RoutesApart, InTables
<1>5. LastNamed
  BY <1>1 DEF LastNamed, Named, routing!Routes, routing!Init
<1> QED BY <1>2, <1>3, <1>4, <1>5 DEF RouterInv

\* What registering a route does to the list of them.
Added(route) ==
  /\ routes' \in Seq(Route) /\ Len(routes') = Len(routes) + 1 /\ Len(routes) + 1 <= MaxRoutes
  /\ DOMAIN routes' = DOMAIN routes \cup {Len(routes) + 1} /\ DOMAIN routes = 1..Len(routes)
  /\ \A r \in DOMAIN routes : routes'[r] = routes[r] /\ r # Len(routes) + 1
  /\ routes'[Len(routes) + 1] = route /\ routing!Id = Len(routes) + 1 /\ Len(routes) \in Nat
LEMMA Adding ==
  ASSUME MaxRoutes \in Nat, RouterTyped, NEW route \in Route, routes' = Append(routes, route), Len(routes) < MaxRoutes
  PROVE  Added(route)
<1>1. routes \in Seq(Route) /\ Len(routes) \in Nat
  BY DEF RouterTyped
<1>2. /\ routes' \in Seq(Route) /\ Len(routes') = Len(routes) + 1 /\ routes'[Len(routes) + 1] = route
      /\ \A r \in 1..Len(routes) : routes'[r] = routes[r]
  BY <1>1
<1>3. DOMAIN routes' = 1..(Len(routes) + 1) /\ DOMAIN routes = 1..Len(routes)
  BY <1>1, <1>2
<1> QED BY <1>1, <1>2, <1>3 DEF Added, routing!Id

\* One that is refused adds nothing that must be apart.
LEMMA ApartAs ==
  ASSUME RouterTyped, routing!RoutesApart, ~refused, router' = router, NEW route \in Route, Added(route),
         ~refused' /\ router # "cloudformation" =>
           \A r \in DOMAIN routes : routes[r].method = route.method
                                      => routing!Signature(routes[r].path) # routing!Signature(route.path)
  PROVE  routing!RoutesApart'
<1> SUFFICES ASSUME ~refused', router # "cloudformation", NEW r \in DOMAIN routes', NEW s \in DOMAIN routes', r < s,
                    routes'[r].method = routes'[s].method
             PROVE  routing!Signature(routes'[r].path) # routing!Signature(routes'[s].path)
  BY DEF routing!RoutesApart, routing!Signature
<1>1. r \in DOMAIN routes /\ routes'[r] = routes[r]
  BY DEF Added
<1>2. CASE s \in DOMAIN routes
  BY <1>1, <1>2 DEF Added, routing!RoutesApart
<1>3. CASE s \notin DOMAIN routes
  BY <1>1, <1>3 DEF Added
<1> QED BY <1>2, <1>3

\* A key is registered: once by ws-router, again by cloudformation-router.
LEMMA RouterKey ==
  ASSUME MaxRoutes \in Nat, RouterInv, NEW key \in routing!RouteKeys, routing!RegisterKey(key) PROVE RouterInv'
<1> DEFINE route == [method |-> "ANY", path |-> <<key>>]
<1>0. /\ router # "http" /\ ~refused /\ Len(routes) < MaxRoutes /\ UNCHANGED <<router, statics, dynamics>>
      /\ routes' = Append(routes, route)
  BY DEF routing!RegisterKey
<1>1. route \in Route
  BY KeysAre DEF Route, routing!Methods
<1>2. route.method = "ANY" /\ route.path = <<key>>
  OBVIOUS
<1> HIDE DEF route
<1>3. Added(route)
  BY <1>0, <1>1, Adding DEF RouterInv
<1>4. \/ router = "ws" /\ routing!Routes(key) # {} /\ refused' = TRUE /\ keyed' = keyed
      \/ /\ router = "ws" => routing!Routes(key) = {}
         /\ keyed' = {e \in keyed : e[1] # key} \cup {<<key, Len(routes) + 1>>} /\ refused' = refused
  BY <1>3 DEF routing!RegisterKey, routing!LastStays, Added
<1>5. RouterTyped' /\ TablesTyped'
  <2>1. RouterTyped'
    BY <1>0, <1>3, <1>4 DEF RouterInv, RouterTyped, Added
  <2>2. TablesTyped'
    BY <1>0, <1>3 DEF RouterInv, TablesTyped, Added
  <2> QED BY <2>1, <2>2
<1>6. Keyed'
  BY <1>0, <1>2, <1>3 DEF RouterInv, Keyed, Added
<1>7. routing!RoutesApart'
  <2> SUFFICES ASSUME ~refused', router # "cloudformation", NEW r \in DOMAIN routes, routes[r].method = route.method
               PROVE  routing!Signature(routes[r].path) # routing!Signature(route.path)
    BY <1>0, <1>1, <1>3, ApartAs DEF RouterInv
  <2>1. routing!Routes(key) = {} /\ router = "ws"
    BY <1>0, <1>4 DEF RouterInv, RouterTyped
  <2>2. r \notin Named(key)
    BY <1>0, <2>1 DEF RouterInv, LastNamed, Keys
  <2>3. PICK other \in routing!RouteKeys : routes[r].path = <<other>>
    BY <1>0 DEF RouterInv, Keyed
  <2>4. routing!Signature(routes[r].path) = routes[r].path /\ routing!Signature(route.path) = <<key>>
    BY <1>2, <2>3, KeysAre
  <2> QED BY <2>2, <2>4 DEF Named
<1>8. ASSUME ~refused' PROVE LastNamed'
  <2>1. keyed' = {e \in keyed : e[1] # key} \cup {<<key, Len(routes) + 1>>}
    BY <1>4, <1>8
  <2> SUFFICES ASSUME NEW k \in Keys
               PROVE  /\ \A r \in (routing!Routes(k))' : r \in Named(k)' /\ \A s \in Named(k)' : s <= r
                      /\ Named(k)' # {} => (routing!Routes(k))' # {}
    BY DEF LastNamed
  <2>2. CASE k = key
    <3>1. (routing!Routes(k))' = {Len(routes) + 1}
      <4> DEFINE pair == <<key, Len(routes) + 1>>
      <4>1. pair[1] = key /\ pair[2] = Len(routes) + 1
        OBVIOUS
      <4> HIDE DEF pair
      <4>2. keyed' = {e \in keyed : e[1] # key} \cup {pair}
        BY <2>1 DEF pair
      <4>3. {x \in keyed' : x[1] = key} = {pair}
        BY <4>1, <4>2
      <4>4. {e[2] : e \in {x \in keyed' : x[1] = key}} = {pair[2]}
        BY <4>3
      <4> QED BY <2>2, <4>1, <4>4 DEF routing!Routes
    <3>2. \A s \in Named(k)' : s <= Len(routes) + 1
      BY <1>3 DEF Named, Added
    <3>3. Len(routes) + 1 \in Named(k)'
      BY <1>2, <1>3, <2>2 DEF Named, Added
    <3> QED BY <3>1, <3>2, <3>3
  <2>3. CASE k # key
    <3>1. (routing!Routes(k))' = routing!Routes(k)
      BY <2>1, <2>3 DEF routing!Routes
    <3>2. <<k>> # <<key>>
      BY <2>3
    <3>3. Named(k)' = Named(k)
      BY <1>2, <1>3, <3>2 DEF Named, Added
    <3>4. /\ \A r \in routing!Routes(k) : r \in Named(k) /\ \A s \in Named(k) : s <= r
          /\ Named(k) # {} => routing!Routes(k) # {}
      BY <1>0 DEF RouterInv, LastNamed
    <3> QED BY <3>1, <3>3, <3>4
  <2> QED BY <2>2, <2>3
<1>9. InTables'
  BY <1>0 DEF InTables
<1> QED BY <1>5, <1>6, <1>7, <1>8, <1>9 DEF RouterInv

\* A path is registered, in the table of its method.
LEMMA RouterRegister ==
  ASSUME MaxRoutes \in Nat, RouterInv, NEW method \in routing!Methods, NEW written \in routing!RoutePaths,
         routing!Register(method, written)
  PROVE  RouterInv'
<1> DEFINE path == routing!Trimmed(written)
           route == [method |-> method, path |-> path]
<1>0. /\ router = "http" /\ ~refused /\ Len(routes) < MaxRoutes /\ UNCHANGED <<router, keyed>>
      /\ routes' = Append(routes, route)
      /\ routing!AttachStatic(method, path) \/ routing!AttachDynamic(method, path)
  BY DEF routing!Register
<1>1. path \in Paths /\ route \in Route
  BY PathsAre DEF Route
<1>2. route.method = method /\ route.path = path
  OBVIOUS
<1> HIDE DEF path, route
<1>3. Added(route)
  BY <1>0, <1>1, Adding DEF RouterInv
<1>4. \A r \in DOMAIN routes : routes[r].method \in routing!Methods /\ routes[r].path \in Paths
  <2>1. \A r \in DOMAIN routes : routes[r] \in Route
    BY Within DEF RouterInv, RouterTyped
  <2> QED BY <2>1 DEF Route
<1>5. Keyed' /\ LastNamed'
  BY <1>0 DEF Keyed, LastNamed
<1>6. refused' \in BOOLEAN => RouterTyped'
  BY <1>0, <1>3 DEF RouterInv, RouterTyped, Added
<1>7. CASE routing!AttachStatic(method, path)
  <2>1. /\ ~routing!Dynamic(path) /\ dynamics' = dynamics
        /\ \/ refused' = TRUE /\ statics' = statics
           \/ /\ ~\E e \in statics[method] : e[1] = path
              /\ statics' = [statics EXCEPT
                   ![method] = @ \cup {<<path, Len(routes) + 1>>, <<Append(path, ""), Len(routes) + 1>>}]
              /\ refused' = refused
    BY <1>3, <1>7 DEF routing!AttachStatic, Added
  <2>2. refused' \in BOOLEAN
    BY <1>0, <2>1 DEF RouterInv, RouterTyped
  <2> DEFINE new == {<<path, Len(routes) + 1>>, <<Append(path, ""), Len(routes) + 1>>}
  <2>3. /\ \A e \in new : e[2] = Len(routes) + 1
        /\ \E e \in new : e[1] = path
    OBVIOUS
  <2> HIDE DEF new
  <2>4. \/ refused' = TRUE /\ statics' = statics
        \/ /\ ~\E e \in statics[method] : e[1] = path
           /\ statics' = [statics EXCEPT ![method] = @ \cup new] /\ refused' = refused
    BY <2>1 DEF new
  <2>5. /\ statics' = [m \in routing!Methods |-> statics'[m]]
        /\ \A m \in routing!Methods \ {method} : statics'[m] = statics[m]
        /\ statics'[method] = statics[method] \/ statics'[method] = statics[method] \cup new
        /\ ~refused' => statics'[method] = statics[method] \cup new
    <3>1. statics = [m \in routing!Methods |-> statics[m]]
      BY DEF RouterInv, TablesTyped
    <3>2. CASE statics' = statics /\ refused' = TRUE
      BY <3>1, <3>2
    <3>3. CASE statics' = [statics EXCEPT ![method] = @ \cup new]
      <4>1. DOMAIN statics = routing!Methods
        BY <3>1
      <4>2. statics' = [m \in routing!Methods |-> IF m = method THEN statics[method] \cup new ELSE statics[m]]
        BY <3>3, <4>1
      <4> QED BY <4>2
    <3> QED BY <2>4, <3>2, <3>3
  <2>6. TablesTyped'
    <3>1. Len(routes) \in Nat /\ Len(routes') = Len(routes) + 1
      BY <1>3 DEF Added
    <3>2. /\ \A m \in routing!Methods : \A e \in statics[m] : e[2] \in 1..Len(routes)
          /\ dynamics \in [routing!Methods -> Seq(Nat)]
          /\ \A m \in routing!Methods : \A n \in DOMAIN dynamics[m] : dynamics[m][n] \in 1..Len(routes)
      BY DEF RouterInv, TablesTyped
    <3>3. \A m \in routing!Methods : \A e \in statics'[m] : e[2] \in 1..Len(routes')
      <4> SUFFICES ASSUME NEW m \in routing!Methods, NEW e \in statics'[m] PROVE e[2] \in 1..Len(routes')
        OBVIOUS
      <4>1. e \in statics[m] \/ e \in new
        BY <2>5
      <4>2. e \in statics[m] => e[2] \in 1..Len(routes)
        BY <3>2
      <4>3. e \in new => e[2] = Len(routes) + 1
        BY <2>3
      <4>4. \A n : n \in 1..Len(routes) \/ n = Len(routes) + 1 => n \in 1..Len(routes')
        BY <3>1
      <4> QED BY <4>1, <4>2, <4>3, <4>4, Zenon
    <3>4. \A m \in routing!Methods : \A n \in DOMAIN dynamics[m] : dynamics[m][n] \in 1..Len(routes')
      BY <3>1, <3>2
    <3> QED BY <2>1, <2>5, <3>2, <3>3, <3>4 DEF TablesTyped
  <2>7. routing!RoutesApart'
    <3> SUFFICES ASSUME ~refused', NEW r \in DOMAIN routes, routes[r].method = method
                 PROVE  routing!Signature(routes[r].path) # routing!Signature(path)
      BY <1>0, <1>1, <1>2, <1>3, ApartAs DEF RouterInv
    <3>1. CASE routing!Dynamic(routes[r].path)
      BY <1>1, <1>4, <2>1, <3>1, SignaturesApart
    <3>2. CASE ~routing!Dynamic(routes[r].path)
      <4>1. \E e \in statics[method] : e[1] = routes[r].path
        BY <1>0, <3>2 DEF RouterInv, InTables
      <4>2. routes[r].path # path
        BY <2>4, <4>1
      <4> QED BY <1>1, <1>4, <2>1, <3>2, <4>2, SignatureOfStatic
    <3> QED BY <3>1, <3>2
  <2>8. ASSUME ~refused' PROVE InTables'
    <3> SUFFICES ASSUME NEW r \in DOMAIN routes'
                 PROVE  IF routing!Dynamic(routes'[r].path)
                        THEN \E n \in DOMAIN dynamics'[routes'[r].method] : dynamics'[routes'[r].method][n] = r
                        ELSE \E e \in statics'[routes'[r].method] : e[1] = routes'[r].path
      BY DEF InTables, routing!Dynamic
    <3>1. CASE r \in DOMAIN routes
      <4>1. routes'[r] = routes[r] /\ routes[r].method \in routing!Methods
        BY <1>3, <1>4, <3>1 DEF Added
      <4>2. IF routing!Dynamic(routes[r].path)
            THEN \E n \in DOMAIN dynamics[routes[r].method] : dynamics[routes[r].method][n] = r
            ELSE \E e \in statics[routes[r].method] : e[1] = routes[r].path
        BY <1>0, <3>1 DEF RouterInv, InTables
      <4>3. \A e \in statics[routes[r].method] : e \in statics'[routes[r].method]
        BY <2>5, <4>1
      <4> QED BY <2>1, <4>1, <4>2, <4>3
    <3>2. CASE r \notin DOMAIN routes
      <4>1. routes'[r].path = path /\ routes'[r].method = method
        BY <1>2, <1>3, <3>2 DEF Added
      <4>2. \E e \in statics'[method] : e[1] = path
        BY <2>3, <2>5, <2>8
      <4> QED BY <2>1, <4>1, <4>2
    <3> QED BY <3>1, <3>2
  <2> QED BY <1>5, <1>6, <2>2, <2>6, <2>7, <2>8 DEF RouterInv
<1>8. CASE routing!AttachDynamic(method, path)
  <2>1. /\ routing!Dynamic(path) /\ statics' = statics
        /\ \/ refused' = TRUE /\ dynamics' = dynamics
           \/ /\ ~routing!Duplicate(method, path) /\ refused' = refused
              /\ dynamics' = [dynamics EXCEPT ![method] = Append(@, Len(routes) + 1)]
    BY <1>3, <1>8 DEF routing!AttachDynamic, Added
  <2>2. refused' \in BOOLEAN
    BY <1>0, <2>1 DEF RouterInv, RouterTyped
  <2>3. dynamics \in [routing!Methods -> Seq(Nat)] /\ dynamics[method] \in Seq(Nat)
    BY DEF RouterInv, TablesTyped
  <2> DEFINE longer == Append(dynamics[method], Len(routes) + 1)
  <2>4. /\ longer \in Seq(Nat) /\ longer[Len(dynamics[method]) + 1] = Len(routes) + 1
        /\ \A n \in DOMAIN dynamics[method] : n \in DOMAIN longer /\ longer[n] = dynamics[method][n]
        /\ Len(dynamics[method]) + 1 \in DOMAIN longer
        /\ \A n \in DOMAIN longer : n \in DOMAIN dynamics[method] \/ n = Len(dynamics[method]) + 1
    <3>1. Len(routes) + 1 \in Nat
      BY <1>3 DEF Added
    <3> QED BY <2>3, <3>1
  <2>5. dynamics' = dynamics \/ dynamics' = [dynamics EXCEPT ![method] = longer]
    BY <2>1
  <2>6. ~refused' => dynamics' = [dynamics EXCEPT ![method] = longer] /\ ~routing!Duplicate(method, path)
    BY <2>1
  <2> HIDE DEF longer
  <2>7. TablesTyped'
    <3>1. dynamics' \in [routing!Methods -> Seq(Nat)]
      BY <2>3, <2>4, <2>5
    <3>2. \A m \in routing!Methods : \A n \in DOMAIN dynamics'[m] : dynamics'[m][n] \in 1..(Len(routes) + 1)
      <4>1. Len(routes) \in Nat
        BY <1>3 DEF Added
      <4>2. \A m \in routing!Methods : \A n \in DOMAIN dynamics[m] : dynamics[m][n] \in 1..(Len(routes) + 1)
        BY <4>1 DEF RouterInv, TablesTyped
      <4>3. \A n \in DOMAIN longer : longer[n] \in 1..(Len(routes) + 1)
        BY <2>4, <4>1, <4>2
      <4> QED BY <2>3, <2>5, <4>2, <4>3
    <3>3. \A m \in routing!Methods : \A e \in statics'[m] : e[2] \in 1..(Len(routes) + 1)
      BY <1>3, <2>1 DEF RouterInv, TablesTyped, Added
    <3> QED BY <1>3, <2>1, <3>1, <3>2, <3>3 DEF RouterInv, TablesTyped, Added
  <2>8. routing!RoutesApart'
    <3> SUFFICES ASSUME ~refused', NEW r \in DOMAIN routes, routes[r].method = method
                 PROVE  routing!Signature(routes[r].path) # routing!Signature(path)
      BY <1>0, <1>1, <1>2, <1>3, ApartAs DEF RouterInv
    <3>1. CASE routing!Dynamic(routes[r].path)
      <4>1. \E n \in DOMAIN dynamics[method] : dynamics[method][n] = r
        BY <1>0, <3>1 DEF RouterInv, InTables
      <4> QED BY <2>6, <4>1 DEF routing!Duplicate
    <3>2. CASE ~routing!Dynamic(routes[r].path)
      BY <1>1, <1>4, <2>1, <3>2, SignaturesApart
    <3> QED BY <3>1, <3>2
  <2>9. ASSUME ~refused' PROVE InTables'
    <3> SUFFICES ASSUME NEW r \in DOMAIN routes'
                 PROVE  IF routing!Dynamic(routes'[r].path)
                        THEN \E n \in DOMAIN dynamics'[routes'[r].method] : dynamics'[routes'[r].method][n] = r
                        ELSE \E e \in statics'[routes'[r].method] : e[1] = routes'[r].path
      BY DEF InTables, routing!Dynamic
    <3>1. CASE r \in DOMAIN routes
      <4>1. routes'[r] = routes[r] /\ routes[r].method \in routing!Methods
        BY <1>3, <1>4, <3>1 DEF Added
      <4>2. IF routing!Dynamic(routes[r].path)
            THEN \E n \in DOMAIN dynamics[routes[r].method] : dynamics[routes[r].method][n] = r
            ELSE \E e \in statics[routes[r].method] : e[1] = routes[r].path
        BY <1>0, <3>1 DEF RouterInv, InTables
      <4>3. \A m \in routing!Methods : \A n \in DOMAIN dynamics[m] :
              n \in DOMAIN dynamics'[m] /\ dynamics'[m][n] = dynamics[m][n]
        BY <2>3, <2>4, <2>6, <2>9
      <4> QED BY <2>1, <4>1, <4>2, <4>3
    <3>2. CASE r \notin DOMAIN routes
      <4>1. routes'[r].path = path /\ routes'[r].method = method /\ r = Len(routes) + 1
        BY <1>2, <1>3, <3>2 DEF Added
      <4>2. dynamics'[method] = longer
        BY <2>3, <2>6, <2>9
      <4> QED BY <2>1, <2>4, <4>1, <4>2
    <3> QED BY <3>1, <3>2
  <2> QED BY <1>5, <1>6, <2>2, <2>7, <2>8, <2>9 DEF RouterInv
<1> QED BY <1>0, <1>7, <1>8

\* So every step keeps the tables in order.
LEMMA RouterNext == ASSUME MaxRoutes \in Nat, RouterInv, [routing!Next]_(routing!vars) PROVE RouterInv'
<1>1. CASE routing!Next
  BY <1>1, RouterKey, RouterRegister DEF routing!Next
<1>2. CASE UNCHANGED routing!vars
  <2>1. UNCHANGED <<router, routes, statics, dynamics, keyed, refused>>
    BY <1>2 DEF routing!vars
  <2>2. RouterTyped' /\ TablesTyped' /\ Keyed'
    BY <2>1 DEF RouterInv, RouterTyped, TablesTyped, Keyed
  <2>3. routing!RoutesApart' = routing!RoutesApart /\ InTables' = InTables /\ LastNamed' = LastNamed
    BY <2>1 DEF routing!RoutesApart, InTables, LastNamed, Named, routing!Routes
  <2> QED BY <2>1, <2>2, <2>3 DEF RouterInv
<1> QED BY <1>1, <1>2

\* A key that is looked up is found where it was last registered.
LEMMA KeyIsFound == RouterInv => routing!RoutedByKey
<1> SUFFICES ASSUME RouterInv, router # "http", ~refused, NEW key \in Keys
             PROVE  LET named == Named(key)
                        got == IF router = "ws" THEN routing!DispatchRouteKey(key)
                               ELSE routing!DispatchRequestType(key)
                    IN  IF named = {} THEN got = routing!NotRouted("notFound")
                        ELSE got.route \in named /\ \A r \in named : r <= got.route
  BY DEF routing!RoutedByKey, Keys, Named
<1>1. /\ \A r \in routing!Routes(key) : r \in Named(key) /\ \A s \in Named(key) : s <= r
      /\ Named(key) # {} => routing!Routes(key) # {}
  BY DEF RouterInv, LastNamed
<1>2. key # routing!None
  BY DEF Keys, routing!RouteKeys, routing!None
<1>3. \A unknown : routing!LookUp(key, unknown) =
        IF routing!Routes(key) = {} THEN routing!NotRouted("notFound")
        ELSE routing!Routed(CHOOSE r \in routing!Routes(key) : TRUE, <<>>)
  BY <1>2 DEF routing!LookUp
<1>4. \A r : routing!Routed(r, <<>>).route = r
  BY DEF routing!Routed
<1> DEFINE got == IF router = "ws" THEN routing!DispatchRouteKey(key) ELSE routing!DispatchRequestType(key)
<1>5. got = IF routing!Routes(key) = {} THEN routing!NotRouted("notFound")
            ELSE routing!Routed(CHOOSE r \in routing!Routes(key) : TRUE, <<>>)
  BY <1>3 DEF routing!DispatchRouteKey, routing!DispatchRequestType
<1> HIDE DEF got
<1>6. CASE Named(key) = {}
  <2>1. routing!Routes(key) = {}
    BY <1>1, <1>6
  <2>2. got = routing!NotRouted("notFound")
    BY <1>5, <2>1
  <2> QED BY <1>6, <2>2 DEF got
<1>7. CASE Named(key) # {}
  <2> DEFINE r == CHOOSE r \in routing!Routes(key) : TRUE
  <2>1. r \in routing!Routes(key)
    BY <1>1, <1>7
  <2>2. got = routing!Routed(r, <<>>)
    BY <1>5, <2>1
  <2> HIDE DEF r
  <2>3. got.route = r
    BY <1>4, <2>2
  <2> QED BY <1>1, <1>7, <2>1, <2>3 DEF got
<1> QED BY <1>6, <1>7

\* However many routes are registered, none that is accepted is hidden by one of its method with
\* the same pattern (attachStaticRoute and attachDynamicRoute, http-router/index.js; the route keys
\* of ws-router), and a key is dispatched to the last route registered for it, which ws-router
\* leaves the only one.
THEOREM RoutesAreKept ==
  ASSUME MaxRoutes \in Nat
  PROVE  routing!Spec => [](routing!TypeOK /\ routing!RoutesApart /\ routing!RoutedByKey)
<1>1. routing!Init => RouterInv
  BY RouterInit
<1>2. RouterInv /\ [routing!Next]_(routing!vars) => RouterInv'
  BY RouterNext
<1>3. RouterInv => routing!TypeOK /\ routing!RoutesApart /\ routing!RoutedByKey
  <2> SUFFICES ASSUME RouterInv PROVE routing!TypeOK
    BY KeyIsFound DEF RouterInv
  <2>1. \A m \in routing!Methods : \A i \in DOMAIN dynamics[m] : dynamics[m][i] \in 1..Len(routes)
    BY DEF RouterInv, TablesTyped
  <2>2. \A m \in routing!Methods : routing!ToSet(dynamics[m]) \subseteq 1..Len(routes)
    BY <2>1 DEF routing!ToSet
  <2> QED BY <2>2 DEF RouterInv, RouterTyped, TablesTyped, routing!TypeOK
<1> QED BY <1>1, <1>2, <1>3, PTL DEF routing!Spec
=============================================================================
