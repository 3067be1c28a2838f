---------------------------- MODULE StreamPoller ----------------------------
(***************************************************************************)
(* The pollers of one shard of a stream, pollKinesis.js and                 *)
(* pollDynamoDBStreams.js of @middy/ecs-batch: the async generator, the     *)
(* iterator it reads through, the position it re-reads from, and the shard. *)
(* The two differ in that DynamoDB trims records a retry may outlive.       *)
(*                                                                         *)
(* A record's sequence number is its place in the shard; an iterator is the *)
(* sequence number it reads next, 0 the null iterator of a shard read to    *)
(* its end.  An iterator outlives a request and the default pollingDelay,   *)
(* and need not outlive a handler.                                          *)
(***************************************************************************)
EXTENDS PollLoop

CONSTANT Trims  \* whether the shard drops old records: DynamoDB's 24 hour retention

VARIABLES
  pc,        \* what the generator awaits while the loop polls, see PollStates
  position,  \* where the current iterator reads from, to ask for a new one there
  iterator,  \* shardIterator
  fresh,     \* the iterator was issued since the handler last ran
  next,      \* NextShardIterator of the response the batch came in
  retry,     \* the lowest failed record of the last retry, and its attempt
  begin,     \* history: what the first iterator read from
  arrived,   \* the records in the shard so far are 1..arrived
  trimmed,   \* and 1..trimmed are no longer there
  closed     \* the shard has been split or merged

pollerVars == <<pc, position, iterator, fresh, next, retry, begin>>
shardVars == <<arrived, trimmed, closed>>
vars == <<loopVars, pollerVars, shardVars>>

PollStates == {"seeking", "reading", "idle", "backoff"}
LATEST == [type |-> "LATEST", seq |-> 0]
TRIM_HORIZON == [type |-> "TRIM_HORIZON", seq |-> 0]
AtSequence(r) == [type |-> "AT_SEQUENCE_NUMBER", seq |-> r]
After(B) == [type |-> "AFTER_SEQUENCE_NUMBER", seq |-> CHOOSE r \in B : \A q \in B : q <= r]
Positions == {LATEST, TRIM_HORIZON} \cup {AtSequence(r) : r \in Records}
               \cup {After({r}) : r \in Records}

Init ==
  /\ LoopInit
  /\ arrived \in 0..1 /\ trimmed = 0 /\ closed = FALSE
  /\ pc = "seeking" /\ position \in {LATEST, TRIM_HORIZON}
  /\ iterator = 0 /\ fresh = TRUE /\ next = 0 /\ retry = NoRetry /\ begin = 0

\* The record an iterator asked for at position p reads next.
Where(p) ==
  CASE p.type = "LATEST" -> arrived + 1
    [] p.type = "TRIM_HORIZON" -> trimmed + 1
    [] p.type = "AT_SEQUENCE_NUMBER" -> p.seq
    [] p.type = "AFTER_SEQUENCE_NUMBER" -> p.seq + 1

Awaits(state) == loop = "polling" /\ pc = state
GoesTo(state) == pc' = state /\ UNCHANGED loopVars

----------------------------------------------------------------------------
\* GetShardIterator answers.
Seek ==
  /\ Awaits("seeking") /\ position.seq \notin 1..trimmed
  /\ iterator' = Where(position) /\ fresh' = TRUE
  /\ begin' = IF begin = 0 THEN Where(position) ELSE begin
  /\ Report(IF position = TRIM_HORIZON /\ begin # 0 THEN iterator..trimmed ELSE {})
  /\ pc' = "reading" /\ UNCHANGED <<loop, aborted, batch, handled, limit, failures>>
  /\ UNCHANGED <<position, next, retry, shardVars>>
\* What was being read has been trimmed: seek reports the loss of whatever precedes the
\* oldest record left, where it asks again (and so the history names it there).
SeekTrimmed ==
  /\ Awaits("seeking") /\ position.seq \in 1..trimmed
  /\ position' = TRIM_HORIZON
  /\ UNCHANGED <<loopVars, pc, iterator, fresh, next, retry, begin, shardVars>>

\* GetRecords answers, with some of the records or none of them (there were none).
Read ==
  /\ Awaits("reading") /\ iterator > trimmed
  /\ \E last \in iterator..arrived :
       /\ Yield(iterator..last)
       /\ next' = IF closed /\ last = arrived THEN 0 ELSE last + 1
  /\ fresh' = FALSE
  /\ UNCHANGED <<pc, position, iterator, retry, begin, shardVars>>
ReadNothing ==
  /\ Awaits("reading") /\ iterator > arrived
  /\ fresh' = TRUE
  /\ IF closed THEN Goes("failed") /\ UNCHANGED pc ELSE GoesTo("idle")
  /\ UNCHANGED <<position, iterator, next, retry, begin, shardVars>>
\* The next record was trimmed before it was read, which is no expired iterator.
ReadTrimmed ==
  /\ Awaits("reading") /\ iterator \in 1..trimmed
  /\ Goes("failed") /\ UNCHANGED <<pollerVars, shardVars>>
Expired ==
  /\ Awaits("reading") /\ ~fresh
  /\ GoesTo("seeking") /\ UNCHANGED <<position, iterator, fresh, next, retry, begin, shardVars>>
\* The delay of an empty read ignores the signal; the loop tests it afterwards.
Idled ==
  /\ Awaits("idle")
  /\ IF aborted THEN Goes("ended") /\ UNCHANGED pc ELSE GoesTo("reading")
  /\ UNCHANGED <<position, iterator, fresh, next, retry, begin, shardVars>>

\* Past the batch: everything in it is processed or discarded.
MovePast ==
  /\ position' = After(batch) /\ pc' = "reading"
  /\ IF next = 0 THEN loop' = "failed" /\ UNCHANGED iterator  \* SourceClosedError
                 ELSE loop' = "polling" /\ iterator' = next
  /\ UNCHANGED retry

\* The handler ends with F failed and the generator resumes.
Resume(F) ==
  /\ Handled(F)
  /\ IF aborted
     THEN loop' = "ended" /\ UNCHANGED <<batch, reported, pc, position, iterator, retry>>
     ELSE /\ batch' = {}
          /\ \/ F = {} /\ MovePast /\ UNCHANGED reported
             \/ F # {} /\ Exhausted(retry, F) /\ MovePast /\ Report(F)
             \/ /\ F # {} /\ ~Exhausted(retry, F)
                /\ retry' = Retry(retry, F)
                /\ loop' = "polling" /\ pc' = "backoff" /\ UNCHANGED <<reported, position, iterator>>
  /\ UNCHANGED <<fresh, next, begin, shardVars>>
Resumes == \E F \in SUBSET batch : Resume(F)

BackedOff ==
  /\ Awaits("backoff")
  /\ position' = AtSequence(retry.from)
  /\ GoesTo("seeking") /\ UNCHANGED <<iterator, fresh, next, retry, begin, shardVars>>

\* The aborted signal ends the request or the backoff the generator awaits.
Aborted ==
  /\ aborted /\ loop = "polling" /\ pc # "idle"
  /\ Goes("ended") /\ UNCHANGED <<pollerVars, shardVars>>
\* A request fails: an outage, throttling.
RequestFails ==
  /\ loop = "polling" /\ pc \in {"seeking", "reading"}
  /\ Goes("failed") /\ UNCHANGED <<pollerVars, shardVars>>

----------------------------------------------------------------------------
Arrive ==
  /\ arrived < MaxRecords /\ ~closed
  /\ arrived' = arrived + 1 /\ UNCHANGED <<loopVars, pollerVars, trimmed, closed>>
Close == ~closed /\ closed' = TRUE /\ UNCHANGED <<loopVars, pollerVars, arrived, trimmed>>
Trim ==
  /\ Trims /\ trimmed < arrived
  /\ trimmed' = trimmed + 1 /\ UNCHANGED <<loopVars, pollerVars, arrived, closed>>
Sigterm == Abort /\ UNCHANGED <<loop, pollerVars, shardVars>>

Poll == \/ Seek \/ SeekTrimmed \/ Read \/ ReadNothing \/ ReadTrimmed \/ Expired
        \/ Idled \/ Resumes \/ BackedOff \/ Aborted
Next == Poll \/ RequestFails \/ Arrive \/ Close \/ Trim \/ Sigterm
Spec == Init /\ [][Next]_vars /\ WF_vars(Poll)

----------------------------------------------------------------------------
\* Records the poller has read past.  The checkpoint lives in memory only: records
\* before the first iterator were never this poller's to read.
Gone == IF begin = 0 THEN {} ELSE begin..iterator - 1

TypeOK ==
  /\ LoopTypeOK
  /\ pc \in PollStates /\ position \in Positions /\ fresh \in BOOLEAN
  /\ {iterator, next, begin} \subseteq 0..MaxRecords + 1
  /\ retry \in [from : 0..MaxRecords, attempt : 0..limit + 1]
  /\ arrived \in 0..MaxRecords /\ trimmed \in 0..arrived /\ closed \in BOOLEAN
=============================================================================
