----------------------------- MODULE SqsPoller -----------------------------
(***************************************************************************)
(* pollSqs.js of @middy/ecs-batch: messages are received, hidden from other *)
(* receivers for their visibility timeout, and deleted in batches once the  *)
(* handler has succeeded with them.  Nothing bounds the handler, so a       *)
(* message may become visible again at any moment, be received again, and   *)
(* make the delete with its former receipt handle fail.                     *)
(***************************************************************************)
EXTENDS PollLoop

VARIABLES
  visible,  \* the messages a receive can return
  deleted,  \* the messages SQS has deleted
  toDelete  \* the messages acknowledge is deleting

queueVars == <<visible, deleted, toDelete>>
vars == <<loopVars, queueVars>>

Init == LoopInit /\ visible = Records /\ deleted = {} /\ toDelete = {}

\* ReceiveMessage answers.
Receive ==
  /\ \E B \in SUBSET visible : Yield(B) /\ visible' = visible \ B
  /\ UNCHANGED <<deleted, toDelete>>
ReceiveFails == loop = "polling" /\ Goes("failed") /\ UNCHANGED queueVars
\* The abort ends the receive, or is seen before the next one.
Aborted == loop = "polling" /\ aborted /\ Goes("ended") /\ UNCHANGED queueVars

\* Fault: a partial failure deletes the whole batch.
ResumeDeletesAll(F) ==
  /\ Handled(F) /\ UNCHANGED <<reported, batch, visible, deleted>>
  /\ toDelete' = batch /\ loop' = "acknowledging"
\* The handler ends with the records F failed: the others, if any, are to be deleted.
Resume(F) ==
  /\ Handled(F) /\ UNCHANGED reported
  /\ toDelete' = batch \ F
  /\ IF toDelete' = {} THEN loop' = "polling" /\ batch' = {}
                       ELSE loop' = "acknowledging" /\ UNCHANGED batch
  /\ UNCHANGED <<visible, deleted>>
Resumes == \E F \in SUBSET batch : Resume(F)

\* DeleteMessageBatch answers, the entries outside D as Failed; or it rejects (D is {}).
Delete ==
  /\ loop = "acknowledging"
  /\ \E D \in SUBSET toDelete : deleted' = deleted \cup D /\ visible' = visible \ D
  /\ toDelete' = {} /\ loop' = "polling" /\ batch' = {}
  /\ UNCHANGED <<aborted, handled, reported, limit, failures>>

VisibilityTimeout(m) ==
  /\ m \in Records \ (visible \cup deleted)
  /\ visible' = visible \cup {m} /\ UNCHANGED <<loopVars, deleted, toDelete>>

Sigterm == Abort /\ UNCHANGED <<loop, queueVars>>

Poll == Receive \/ Resumes \/ Delete \/ Aborted
Next == Poll \/ ReceiveFails \/ Sigterm \/ \E m \in Records : VisibilityTimeout(m)
Spec == Init /\ [][Next]_vars /\ WF_vars(Poll)

----------------------------------------------------------------------------
Gone == deleted

TypeOK ==
  /\ LoopTypeOK
  /\ visible \subseteq Records /\ deleted \subseteq Records \ visible
  /\ toDelete \subseteq batch
=============================================================================
