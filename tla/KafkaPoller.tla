---------------------------- MODULE KafkaPoller ----------------------------
(***************************************************************************)
(* pollKafka.js of @middy/ecs-batch: the poller that bridges the eachBatch  *)
(* callback of a kafkajs consumer to the runner's pull loop through one ack *)
(* gate.  eachBatch and the loop are two flows: handleBatch goes on         *)
(* retrying and committing once the gate is released, while the loop parks  *)
(* or shuts down.                                                           *)
(*                                                                         *)
(* The records of the topic are spread over two partitions by parity.       *)
(* kafkajs (external) calls eachBatch for one batch at a time, from the     *)
(* offset the partition has committed, and starts over from there when      *)
(* eachBatch rejects.                                                       *)
(***************************************************************************)
EXTENDS PollLoop

CONSTANT MaxRejections  \* bound: heartbeats and commits the broker rejects in all

VARIABLES
  each,         \* where handleBatch is: "none", "gated", "backoff" or "committing"
  inflightIds,  \* the records of the last batch handleBatch took
  unresolved,   \* failed, once handleBatch knows it
  rebalance,    \* rebalance.signal.aborted: a heartbeat of this batch was rejected
  retries,      \* retries[p]: where partition p last retried from, and its attempt
  rejections,   \* heartbeats and commits rejected so far
  crashed,      \* crashError: the consumer has stopped for good
  committed     \* committed[p]: the records of p up to this one are committed

pollerVars == <<each, inflightIds, unresolved, rebalance, rejections, retries, crashed, committed>>
vars == <<loopVars, pollerVars>>

Partitions == {0, 1}
Of(p) == {r \in Records : r % 2 = p}
PartitionOf(B) == Lowest(B) % 2

Init ==
  /\ LoopInit
  /\ each = "none" /\ inflightIds = {} /\ unresolved = {} /\ rebalance = FALSE /\ rejections = 0
  /\ retries = [p \in Partitions |-> NoRetry] /\ crashed = FALSE
  /\ committed = [p \in Partitions |-> 0]

\* kafkajs fetched records of p: handleBatch hands them to the parked loop and waits at
\* the gate.  Once the signal is aborted handleBatch returns at once, having done nothing.
EachBatch(p) ==
  /\ each = "none" /\ ~crashed /\ ~aborted
  /\ \E last \in Of(p) :
       LET B == {r \in Of(p) : committed[p] < r /\ r <= last}
       IN  Yield(B) /\ inflightIds' = B
  /\ each' = "gated" /\ unresolved' = {} /\ rebalance' = FALSE
  /\ UNCHANGED <<retries, rejections, crashed, committed>>

----------------------------------------------------------------------------
\* retryOrDiscard: what the release of the gate with the records F failed leads to.
RetryOrDiscard(F) ==
  LET p == PartitionOf(inflightIds)
      exhausted == Exhausted(retries[p], F)
  IN  \/ /\ F = {}
         /\ each' = "committing" /\ unresolved' = F /\ UNCHANGED reported
         /\ retries' = [retries EXCEPT ![p] = NoRetry]
      \/ /\ F # {} /\ (aborted \/ rebalance)
         /\ each' = "committing" /\ unresolved' = F /\ UNCHANGED <<reported, retries>>
      \/ /\ F # {} /\ ~aborted /\ ~rebalance /\ exhausted
         /\ each' = "committing" /\ unresolved' = {} /\ Report(F)
         /\ retries' = [retries EXCEPT ![p] = NoRetry]
      \/ /\ F # {} /\ ~aborted /\ ~rebalance /\ ~exhausted
         /\ each' = "backoff" /\ unresolved' = F /\ UNCHANGED reported
         /\ retries' = [retries EXCEPT ![p] = Retry(@, F)]

\* Where the generator goes from the end of a batch: it waits for the next event, which
\* rejects after a crash, or leaves the loop.
Onward == loop' = IF aborted THEN "returning" ELSE IF crashed THEN "throwing" ELSE "polling"

\* The handler ends with F failed.  acknowledge releases the gate with F; after a throw
\* the resumed generator does, with every record.
Resume(F) ==
  /\ Handled(F) /\ batch' = {}
  /\ RetryOrDiscard(F) /\ Onward
  /\ UNCHANGED <<inflightIds, rebalance, rejections, crashed, committed>>
Resumes == \E F \in SUBSET batch : Resume(F)

\* The backoff passes, or a shutdown or a rebalance cuts it short.
BackedOff ==
  /\ each = "backoff" /\ each' = "committing"
  /\ UNCHANGED <<loopVars, inflightIds, unresolved, rebalance, retries, rejections, crashed, committed>>

\* Fault: failed records are only left out.
ResolvedAround == inflightIds \ unresolved
\* Offsets are resolved up to the first failed record.
Resolved == {r \in inflightIds : \A f \in unresolved : r < f}

\* commitOffsetsIfNecessary and heartbeat settle, and eachBatch with them.  A member that
\* has to rejoin cannot commit.
Committed ==
  /\ each = "committing" /\ each' = "none"
  /\ ~rebalance
  /\ committed' = IF Resolved = {} THEN committed
                  ELSE [committed EXCEPT ![PartitionOf(Resolved)] =
                          CHOOSE r \in Resolved : \A q \in Resolved : q <= r]
  /\ UNCHANGED <<loopVars, inflightIds, unresolved, rebalance, retries, rejections, crashed>>
Rejection == rejections < MaxRejections /\ rejections' = rejections + 1
CommitRejected ==
  /\ each = "committing" /\ each' = "none"
  /\ IF rebalance THEN UNCHANGED rejections ELSE Rejection
  /\ UNCHANGED <<loopVars, inflightIds, unresolved, rebalance, retries, crashed, committed>>

HeartbeatRejected ==
  /\ each \in {"gated", "backoff"} /\ ~rebalance /\ rebalance' = TRUE /\ Rejection
  /\ UNCHANGED <<loopVars, each, inflightIds, unresolved, retries, crashed, committed>>

\* CRASH with restart: false.  A parked loop rejects at once.
Crash ==
  /\ ~crashed /\ ~Over /\ crashed' = TRUE
  /\ IF loop = "polling" THEN Goes("throwing") ELSE UNCHANGED loopVars
  /\ UNCHANGED <<each, inflightIds, unresolved, rebalance, retries, rejections, committed>>
\* Fault: nothing listens to the signal.
SigtermUnheard == Abort /\ UNCHANGED <<loop, pollerVars>>
\* The abort wakes a parked loop; a batch already handed over keeps its gate.
Sigterm ==
  /\ Abort /\ loop' = IF loop = "polling" THEN "returning" ELSE loop
  /\ UNCHANGED pollerVars
\* The finally block: await inflight, then consumer.disconnect.
InflightSettled == each = "none"
Disconnect ==
  /\ loop \in {"returning", "throwing"} /\ InflightSettled
  /\ Goes(IF loop = "returning" THEN "ended" ELSE "failed")
  /\ UNCHANGED pollerVars

Commit == Committed \/ CommitRejected
Poll == Resumes \/ BackedOff \/ Commit \/ Disconnect
Next == Poll \/ (\E p \in Partitions : EachBatch(p)) \/ HeartbeatRejected \/ Crash \/ Sigterm

Fairness ==
  /\ WF_vars(Resumes \/ Disconnect) /\ WF_vars(BackedOff \/ Commit)
  /\ \A p \in Partitions : WF_vars(EachBatch(p))
Spec == Init /\ [][Next]_vars /\ Fairness

----------------------------------------------------------------------------
Gone == {r \in Records : r <= committed[r % 2]}

TypeOK ==
  /\ LoopTypeOK
  /\ each \in {"none", "gated", "backoff", "committing"}
  /\ inflightIds \subseteq Records /\ unresolved \subseteq inflightIds
  /\ rebalance \in BOOLEAN /\ crashed \in BOOLEAN
  /\ rejections \in 0..MaxRejections
  /\ retries \in [Partitions -> [from : 0..MaxRecords, attempt : 0..limit + 1]]
  /\ committed \in [Partitions -> 0..MaxRecords]
=============================================================================
