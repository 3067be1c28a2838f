---------------------------- MODULE RunnerProofs ----------------------------
(***************************************************************************)
(* Proofs about ecsBatchRunner with each of its six pollers, for any number *)
(* of records, any retry limit, window and batch size.  One inductive       *)
(* invariant per poller says where it stands between the source and the     *)
(* handler; each step keeps it and moves no record out of the source that   *)
(* is not accounted for.  The payloads of such records have a section of    *)
(* their own.                                                              *)
(***************************************************************************)
EXTENDS Runner, Sequences, WellFoundedInduction, FiniteSetTheorems, TLAPS

USE PollAssumption

\* Among natural numbers there is a least one.
LEMMA Least ==
  ASSUME NEW S, S \subseteq Nat, S # {}
  PROVE  \E m \in S : \A q \in S : m <= q
<1>1. PICK m \in S : \A q \in S : ~(<<q, m>> \in OpToRel(<, Nat))
  BY WFMin, NatLessThanWellFounded
<1>2. ASSUME NEW q \in S PROVE m <= q
  <2>1. q \in Nat /\ m \in Nat
    OBVIOUS
  <2>2. ~(q < m)
    BY <1>1, <2>1 DEF OpToRel
  <2> QED BY <2>1, <2>2
<1> QED BY <1>2

Highest(S) == CHOOSE r \in S : \A q \in S : q <= r

\* The lowest record of a batch is one of it, and so is the highest.
LEMMA LowestOf ==
  ASSUME NEW S, S \subseteq Records, S # {}
  PROVE  Lowest(S) \in S /\ \A q \in S : Lowest(S) <= q
<1>1. S \subseteq Nat
  BY DEF Records
<1>2. \E m \in S : \A q \in S : m <= q
  BY <1>1, Least
<1> QED BY <1>2 DEF Lowest

LEMMA HighestOf ==
  ASSUME NEW S, S \subseteq Records, S # {}
  PROVE  Highest(S) \in S /\ \A q \in S : q <= Highest(S)
<1> DEFINE T == {MaxRecords - r : r \in S}
<1>1. \A r \in S : r \in Nat /\ MaxRecords - r \in Nat
  BY DEF Records
<1>2. T \subseteq Nat /\ T # {}
  BY <1>1
<1>3. PICK m \in T : \A q \in T : m <= q
  <2> HIDE DEF T
  <2> QED BY <1>2, Least
<1>4. PICK r \in S : m = MaxRecords - r
  BY <1>3
<1>5. ASSUME NEW q \in S PROVE q <= r
  <2>1. m <= MaxRecords - q
    BY <1>3
  <2> QED BY <1>1, <1>4, <2>1
<1> QED BY <1>5 DEF Highest
\* The records the handler has succeeded with, or whose loss was reported.
Accounted == handled \cup reported
\* A counted attempt is a delivery that failed.
Counted(last) == limit # -1 /\ last.from \in Records => last.attempt <= failures[last.from]

\* Seeking again at this position skips no record that is not accounted for.
Resumable ==
  /\ position.type # "LATEST"
  /\ position.type = "TRIM_HORIZON" => iterator <= trimmed + 1
  /\ position.type = "AT_SEQUENCE_NUMBER" =>
       iterator <= position.seq /\ iterator..position.seq - 1 \subseteq Accounted
  /\ position.type = "AFTER_SEQUENCE_NUMBER" => position.seq + 1 = iterator

\* Everything from the first record read up to the iterator is accounted for; the
\* position to re-read from, the record to retry from and the batch all join on to it. An
\* iterator that may have expired was issued right behind the position.
StreamInv ==
  /\ IF begin = 0
     THEN pc = "seeking" /\ loop # "handling" /\ iterator = 0 /\ position.seq = 0
     ELSE begin <= iterator
  /\ begin # 0 => begin..iterator - 1 \subseteq Accounted
  /\ begin # 0 /\ loop = "polling" /\ pc = "seeking" => Resumable
  /\ loop = "polling" /\ pc = "idle" => fresh
  /\ loop = "polling" /\ pc = "reading" /\ ~fresh =>
       position.type = "AFTER_SEQUENCE_NUMBER" /\ position.seq + 1 = iterator
  /\ loop = "polling" /\ pc = "backoff" =>
       retry.from \in Records /\ iterator <= retry.from /\ iterator..retry.from - 1 \subseteq Accounted
  /\ loop = "handling" => \E last \in iterator..arrived : batch = iterator..last /\ next \in {0, last + 1}
  /\ Counted(retry)

\* The gate is closed for exactly as long as the handler runs, over one partition's
\* records behind its commit; once it is released, what was not left unresolved is
\* accounted for.
KafkaInv ==
  /\ loop = "handling" <=> each = "gated"
  /\ each = "gated" => batch = inflightIds
  /\ each # "none" => \E p \in {0, 1}, last \in Records :
       /\ inflightIds = {r \in Records : r % 2 = p /\ committed[p] < r /\ r <= last}
       /\ inflightIds # {}
  /\ each \in {"backoff", "committing"} => inflightIds \ unresolved \subseteq Accounted
  /\ pollKafka!Gone \subseteq Accounted
  /\ \A p \in {0, 1} : Counted(retries[p])

\* Each delivery the broker waits for is in one place of the poller's, and only a batch
\* being handled can be settled.
BrokerInv ==
  /\ loop = "polling" => batch = {}
  /\ channel # "refused"
  /\ channel = "open" => /\ reading \cup pending \cup batch \subseteq unsettled
                         /\ reading \cap (pending \cup batch) = {} /\ pending \cap batch = {}
  /\ pollRmq!DeliveriesHeld
  /\ pollRmq!Gone \subseteq Accounted

\* Only what the handler succeeded with is being deleted.
SqsInv ==
  /\ loop # "acknowledging" => toDelete = {}
  /\ deleted \cup toDelete \subseteq Accounted

RunnerInv ==
  /\ source \in Streams => StreamInv
  /\ source = "aws:kafka" => KafkaInv
  /\ source \in Brokers => BrokerInv
  /\ IF source = "aws:sqs" THEN SqsInv ELSE toDelete = {}

----------------------------------------------------------------------------

\* DynamoDB drops its oldest record.
TrimStep ==
  /\ trimmed < arrived /\ trimmed' = trimmed + 1
  /\ UNCHANGED <<loop, aborted, batch, handled, reported, limit, failures, pc, position, iterator,
                 fresh, next, retry, begin, arrived, closed>>

\* The two stream pollers take the same steps, but for the trimming.
LEMMA SameStream ==
  pollKinesis!Next \/ pollDynamoDBStreams!Next =>
    \/ pollKinesis!Poll \/ pollKinesis!RequestFails
    \/ pollKinesis!Arrive \/ pollKinesis!Close \/ pollKinesis!Sigterm \/ TrimStep
<1> USE DEF pollKinesis!loopVars, pollKinesis!pollerVars, pollKinesis!shardVars,
    pollKinesis!Records, pollKinesis!LATEST, pollKinesis!TRIM_HORIZON, pollKinesis!AtSequence,
    pollKinesis!After, pollKinesis!Where, pollKinesis!Awaits, pollKinesis!GoesTo,
    pollKinesis!Report, pollKinesis!Yield, pollKinesis!Goes, pollKinesis!Handled,
    pollKinesis!Lowest, pollKinesis!Attempt, pollKinesis!Exhausted, pollKinesis!Retry,
    pollKinesis!Abort, pollKinesis!Over, pollKinesis!MovePast, pollKinesis!Resume,
    pollDynamoDBStreams!loopVars, pollDynamoDBStreams!pollerVars, pollDynamoDBStreams!shardVars,
    pollDynamoDBStreams!Records, pollDynamoDBStreams!LATEST, pollDynamoDBStreams!TRIM_HORIZON,
    pollDynamoDBStreams!AtSequence, pollDynamoDBStreams!After, pollDynamoDBStreams!Where,
    pollDynamoDBStreams!Awaits, pollDynamoDBStreams!GoesTo, pollDynamoDBStreams!Report,
    pollDynamoDBStreams!Yield, pollDynamoDBStreams!Goes, pollDynamoDBStreams!Handled,
    pollDynamoDBStreams!Lowest, pollDynamoDBStreams!Attempt, pollDynamoDBStreams!Exhausted,
    pollDynamoDBStreams!Retry, pollDynamoDBStreams!Abort, pollDynamoDBStreams!Over,
    pollDynamoDBStreams!MovePast, pollDynamoDBStreams!Resume
<1>1. pollDynamoDBStreams!Seek => pollKinesis!Seek
  BY DEF pollDynamoDBStreams!Seek, pollKinesis!Seek
<1>2. pollDynamoDBStreams!SeekTrimmed => pollKinesis!SeekTrimmed
  BY DEF pollDynamoDBStreams!SeekTrimmed, pollKinesis!SeekTrimmed
<1>3. pollDynamoDBStreams!Read => pollKinesis!Read
  BY DEF pollDynamoDBStreams!Read, pollKinesis!Read
<1>4. pollDynamoDBStreams!ReadNothing => pollKinesis!ReadNothing
  BY DEF pollDynamoDBStreams!ReadNothing, pollKinesis!ReadNothing
<1>5. pollDynamoDBStreams!ReadTrimmed => pollKinesis!ReadTrimmed
  BY DEF pollDynamoDBStreams!ReadTrimmed, pollKinesis!ReadTrimmed
<1>6. pollDynamoDBStreams!Expired => pollKinesis!Expired
  BY DEF pollDynamoDBStreams!Expired, pollKinesis!Expired
<1>7. pollDynamoDBStreams!Idled => pollKinesis!Idled
  BY DEF pollDynamoDBStreams!Idled, pollKinesis!Idled
<1>8. pollDynamoDBStreams!Resumes => pollKinesis!Resumes
  BY DEF pollDynamoDBStreams!Resumes, pollKinesis!Resumes
<1>9. pollDynamoDBStreams!BackedOff => pollKinesis!BackedOff
  BY DEF pollDynamoDBStreams!BackedOff, pollKinesis!BackedOff
<1>10. pollDynamoDBStreams!Aborted => pollKinesis!Aborted
  BY DEF pollDynamoDBStreams!Aborted, pollKinesis!Aborted
<1>11. pollDynamoDBStreams!RequestFails => pollKinesis!RequestFails
  BY DEF pollDynamoDBStreams!RequestFails, pollKinesis!RequestFails
<1>12. pollDynamoDBStreams!Arrive => pollKinesis!Arrive
  BY DEF pollDynamoDBStreams!Arrive, pollKinesis!Arrive
<1>13. pollDynamoDBStreams!Close => pollKinesis!Close
  BY DEF pollDynamoDBStreams!Close, pollKinesis!Close
<1>14. pollDynamoDBStreams!Sigterm => pollKinesis!Sigterm
  BY DEF pollDynamoDBStreams!Sigterm, pollKinesis!Sigterm
<1>15. pollDynamoDBStreams!Trim => TrimStep
  BY DEF pollDynamoDBStreams!Trim, TrimStep
<1>16. ~pollKinesis!Trim
  BY DEF pollKinesis!Trim
<1> QED BY <1>1, <1>2, <1>3, <1>4, <1>5, <1>6, <1>7, <1>8, <1>9, <1>10, <1>11, <1>12, <1>13,
           <1>14, <1>15, <1>16
        DEF pollDynamoDBStreams!Next, pollKinesis!Next, pollDynamoDBStreams!Poll, pollKinesis!Poll

\* Positions as records of a place, without the CHOOSE of the highest record.
At(r) == [type |-> "AT_SEQUENCE_NUMBER", seq |-> r]
Behind(r) == [type |-> "AFTER_SEQUENCE_NUMBER", seq |-> r]

LEMMA AfterOf ==
  ASSUME NEW B, B \subseteq Records, NEW last \in B, \A q \in B : q <= last
  PROVE  pollKinesis!After(B) = Behind(last)
<1>1. Highest(B) \in B /\ last <= Highest(B)
  BY HighestOf
<1>2. \A q \in B : q <= last /\ q \in Nat
  BY DEF Records
<1>3. Highest(B) = last
  BY <1>1, <1>2
<1> QED BY <1>3 DEF pollKinesis!After, Behind, Highest

LEMMA PositionsAre ==
  pollKinesis!Positions = {pollKinesis!LATEST, pollKinesis!TRIM_HORIZON}
     \cup {At(r) : r \in Records} \cup {Behind(r) : r \in Records}
<1>1. ASSUME NEW r \in Records PROVE pollKinesis!After({r}) = Behind(r)
  BY AfterOf DEF Records
<1>2. pollKinesis!Records = Records
  BY DEF pollKinesis!Records, Records
<1>3. {pollKinesis!After({r}) : r \in Records} = {Behind(r) : r \in Records}
  BY <1>1
<1> QED BY <1>2, <1>3 DEF pollKinesis!Positions, pollKinesis!AtSequence, At

LEMMA Places ==
  ASSUME NEW p \in pollKinesis!Positions
  PROVE  /\ p.seq \in Nat /\ p.seq <= MaxRecords
         /\ \/ p = pollKinesis!LATEST /\ p.type = "LATEST" /\ p.seq = 0
            \/ p = pollKinesis!TRIM_HORIZON /\ p.type = "TRIM_HORIZON" /\ p.seq = 0
            \/ p = At(p.seq) /\ p.type = "AT_SEQUENCE_NUMBER" /\ p.seq \in Records
            \/ p = Behind(p.seq) /\ p.type = "AFTER_SEQUENCE_NUMBER" /\ p.seq \in Records
BY PositionsAre DEF pollKinesis!LATEST, pollKinesis!TRIM_HORIZON, At, Behind, Records

LEMMA PlacesAre ==
  /\ pollKinesis!TRIM_HORIZON \in pollKinesis!Positions
  /\ \A r \in Records : At(r) \in pollKinesis!Positions /\ Behind(r) \in pollKinesis!Positions
BY PositionsAre

\* The stream poller's part of the types.
StreamTyped ==
  /\ pc \in pollKinesis!PollStates /\ position \in pollKinesis!Positions /\ fresh \in BOOLEAN
  /\ iterator \in 0..MaxRecords + 1 /\ next \in 0..MaxRecords + 1 /\ begin \in 0..MaxRecords + 1
  /\ retry \in [from : 0..MaxRecords, attempt : 0..limit + 1]
  /\ arrived \in 0..MaxRecords /\ trimmed \in 0..arrived /\ closed \in BOOLEAN

LEMMA StreamTypes == pollKinesis!TypeOK <=> LoopTypeOK /\ StreamTyped
BY DEF pollKinesis!TypeOK, StreamTyped, LoopTypeOK, pollKinesis!LoopTypeOK, pollKinesis!Records,
       Records, pollKinesis!LoopStates, LoopStates

\* What a step of a stream has to keep: the invariant, and Delivery's promise.
StreamGoal ==
  /\ LoopTypeOK' /\ StreamTyped' /\ StreamInv' /\ limit' = limit
  /\ handled \subseteq handled' /\ reported \subseteq reported'
  /\ pollKinesis!Gone \subseteq pollKinesis!Gone'
\* The step that DiscardsExhausted allows.
Discards ==
  loop = "handling" /\ reported' # reported =>
       \E r \in batch \cap reported' :
          failures'[r] > limit /\ \A q \in reported' \ reported : r <= q

\* The end of the handler counts a failure of each failed record, up to limit + 1.
LEMMA HandledTypes ==
  ASSUME LoopTypeOK, NEW F \in SUBSET batch, Handled(F)
  PROVE  /\ loop = "handling" /\ UNCHANGED <<aborted, limit>>
         /\ handled \subseteq handled' /\ batch \ F \subseteq handled' /\ handled' \subseteq Records
         /\ failures' \in [Records -> 0..limit + 1]
         /\ \A r \in Records : failures[r] <= failures'[r]
         /\ \A r \in F : failures'[r] = IF failures[r] <= limit THEN failures[r] + 1 ELSE failures[r]
<1>1. /\ limit \in Int /\ batch \subseteq Records /\ handled \subseteq Records
      /\ failures \in [Records -> 0..limit + 1]
  BY DEF LoopTypeOK
<1>2. \A r \in Records :
        failures'[r] = IF r \in F /\ failures[r] <= limit THEN failures[r] + 1 ELSE failures[r]
  BY DEF Handled
<1>3. \A r \in Records : failures'[r] \in 0..limit + 1 /\ failures[r] <= failures'[r]
  BY <1>1, <1>2
<1>4. failures' = [r \in Records |-> failures'[r]]
  BY DEF Handled
<1>5. failures' \in [Records -> 0..limit + 1]
  BY <1>3, <1>4
<1> QED BY <1>1, <1>2, <1>3, <1>5 DEF Handled

\* The types of a retry.
Attempts == [from : 0..MaxRecords, attempt : 0..limit + 1]

\* The attempts of a retry never outrun the failed deliveries of its record, so a batch
\* whose attempts are exhausted holds a record that failed more often than the limit.
LEMMA AttemptsCount ==
  ASSUME LoopTypeOK, NEW F \in SUBSET batch, Handled(F), NEW last \in Attempts, Counted(last)
  PROVE  /\ Counted(last)'
         /\ F # {} => /\ Lowest(F) \in F /\ \A q \in F : Lowest(F) <= q
                      /\ Exhausted(last, F) => failures'[Lowest(F)] > limit
                      /\ ~Exhausted(last, F) => /\ Retry(last, F) \in Attempts
                                                /\ Retry(last, F).from = Lowest(F)
                                                /\ \A new : new = Retry(last, F) => Counted(new)'
<1>1. /\ limit \in -1..MaxRetries /\ batch \subseteq Records
      /\ failures \in [Records -> 0..limit + 1]
  BY DEF LoopTypeOK
<1>2. last.from \in 0..MaxRecords /\ last.attempt \in 0..limit + 1
  BY DEF Attempts
<1>3. Counted(last)'
  BY <1>1, <1>2, HandledTypes DEF Counted
<1>4. ASSUME F # {}
      PROVE  /\ Lowest(F) \in F /\ \A q \in F : Lowest(F) <= q
             /\ Exhausted(last, F) => failures'[Lowest(F)] > limit
             /\ ~Exhausted(last, F) => /\ Retry(last, F) \in Attempts
                                       /\ Retry(last, F).from = Lowest(F)
                                       /\ \A new : new = Retry(last, F) => Counted(new)'
  <2> DEFINE low == Lowest(F)
  <2>1. low \in F /\ low \in Records /\ \A q \in F : low <= q
    BY <1>1, <1>4, LowestOf
  <2>2. failures[low] \in 0..limit + 1
    BY <1>1, <2>1
  <2>3. failures'[low] = IF failures[low] <= limit THEN failures[low] + 1 ELSE failures[low]
    BY <2>1, HandledTypes
  <2>4. Attempt(last, F) = (IF last.from = low THEN last.attempt + 1 ELSE 1)
    BY DEF Attempt
  <2>5. limit # -1 /\ last.from = low => last.attempt <= failures[low]
    BY <2>1 DEF Counted
  <2> HIDE DEF low
  <2>6. ASSUME Exhausted(last, F) PROVE failures'[low] > limit
    BY <1>1, <1>2, <2>2, <2>3, <2>4, <2>5, <2>6 DEF Exhausted
  <2>7. ASSUME ~Exhausted(last, F)
        PROVE  /\ Retry(last, F) \in Attempts /\ Retry(last, F).from = low
               /\ \A new : new = Retry(last, F) => Counted(new)'
    <3> DEFINE a == IF limit = -1 THEN 0 ELSE Attempt(last, F)
    <3>1. Retry(last, F) = [from |-> low, attempt |-> a]
      BY DEF Retry, low
    <3>2. a \in 0..limit + 1 /\ (limit # -1 => a <= failures'[low])
      BY <1>1, <1>2, <2>2, <2>3, <2>4, <2>5, <2>7 DEF Exhausted
    <3>3. limit' = limit /\ low \in 0..MaxRecords
      BY <2>1, HandledTypes DEF Records
    <3> HIDE DEF a
    <3> QED BY <3>1, <3>2, <3>3 DEF Attempts, Counted
  <2> QED BY <2>1, <2>6, <2>7 DEF low
<1> QED BY <1>3, <1>4

\* The poll loop is the same for every instance of a poller.
LEMMA KinesisLoop ==
  ASSUME NEW F, NEW last
  PROVE  /\ pollKinesis!Yield(F) <=> Yield(F)
         /\ pollKinesis!Handled(F) <=> Handled(F)
         /\ pollKinesis!Exhausted(last, F) <=> Exhausted(last, F)
         /\ pollKinesis!Retry(last, F) = Retry(last, F)
BY DEF pollKinesis!Yield, pollKinesis!Handled, pollKinesis!Exhausted, pollKinesis!Retry,
   pollKinesis!Attempt, pollKinesis!Lowest, pollKinesis!Records,
   Yield, Handled, Exhausted, Retry, Attempt, Lowest, Records

\* The iterator is asked for where the reading left off, or its loss is reported.
LEMMA StreamSeek ==
  ASSUME LoopTypeOK, StreamTyped, StreamInv, pollKinesis!Seek
  PROVE  StreamGoal
<1> DEFINE w == pollKinesis!Where(position)
           lost == IF position = pollKinesis!TRIM_HORIZON /\ begin # 0 THEN iterator..trimmed ELSE {}
<1>1. /\ loop = "polling" /\ pc = "seeking" /\ position.seq \notin 1..trimmed
      /\ iterator' = w /\ fresh' = TRUE /\ pc' = "reading"
      /\ begin' = (IF begin = 0 THEN w ELSE begin)
      /\ reported' = reported \cup lost
      /\ UNCHANGED <<loop, aborted, batch, handled, limit, failures, position, next, retry,
                     arrived, trimmed, closed>>
  BY DEF pollKinesis!Seek, pollKinesis!Awaits, pollKinesis!Report, pollKinesis!shardVars
<1>2. /\ arrived \in Nat /\ arrived <= MaxRecords /\ trimmed \in Nat /\ trimmed <= arrived
      /\ iterator \in Nat /\ iterator <= MaxRecords + 1 /\ begin \in Nat
      /\ position \in pollKinesis!Positions
  BY DEF StreamTyped
<1>3. /\ position.seq \in Nat /\ position.seq <= MaxRecords
      /\ \/ position.type = "LATEST" /\ w = arrived + 1 /\ lost = {}
         \/ position.type = "TRIM_HORIZON" /\ w = trimmed + 1
            /\ lost = IF begin = 0 THEN {} ELSE iterator..trimmed
         \/ position.type = "AT_SEQUENCE_NUMBER" /\ w = position.seq /\ w # 0 /\ lost = {}
         \/ position.type = "AFTER_SEQUENCE_NUMBER" /\ w = position.seq + 1 /\ lost = {}
  BY <1>2, Places DEF pollKinesis!Where, pollKinesis!TRIM_HORIZON, Records
<1>4. w \in Nat /\ 1 <= w /\ w <= MaxRecords + 1
  BY <1>2, <1>3
<1>5. begin # 0 => /\ begin <= iterator /\ iterator <= w
                   /\ begin..iterator - 1 \subseteq Accounted
                   /\ iterator..w - 1 \subseteq Accounted'
  <2>1. begin # 0 => begin <= iterator /\ begin..iterator - 1 \subseteq Accounted /\ Resumable
    BY <1>1 DEF StreamInv
  <2>2. handled' = handled /\ reported' = reported \cup lost
    BY <1>1
  <2> HIDE DEF w, lost
  <2> QED BY <1>2, <1>3, <2>1, <2>2 DEF Resumable, Accounted
<1>6. lost \subseteq Records
  BY <1>2, <1>5 DEF Records
<1> HIDE DEF w, lost
<1>7. LoopTypeOK' /\ handled \subseteq handled' /\ reported \subseteq reported'
  BY <1>1, <1>6 DEF LoopTypeOK
<1>8. StreamTyped'
  BY <1>1, <1>2, <1>4 DEF StreamTyped, pollKinesis!PollStates
<1>9. /\ begin' # 0 /\ begin' <= iterator'
      /\ begin'..iterator' - 1 \subseteq Accounted'
      /\ pollKinesis!Gone \subseteq pollKinesis!Gone'
  <2>1. CASE begin = 0
    BY <1>1, <1>4, <2>1 DEF pollKinesis!Gone
  <2>2. CASE begin # 0
    <3>1. Accounted \subseteq Accounted'
      BY <1>1 DEF Accounted
    <3> QED BY <1>1, <1>2, <1>4, <1>5, <2>2, <3>1 DEF pollKinesis!Gone
  <2> QED BY <2>1, <2>2
<1>10. Counted(retry)'
  BY <1>1 DEF StreamInv, Counted
<1>11. StreamInv'
  BY <1>1, <1>9, <1>10 DEF StreamInv
<1> QED BY <1>1, <1>7, <1>8, <1>9, <1>11 DEF StreamGoal

LEMMA StreamSeekTrimmed ==
  ASSUME LoopTypeOK, StreamTyped, StreamInv, pollKinesis!SeekTrimmed
  PROVE  StreamGoal
<1>1. /\ loop = "polling" /\ pc = "seeking" /\ position.seq \in 1..trimmed
      /\ position' = pollKinesis!TRIM_HORIZON
      /\ UNCHANGED <<loop, aborted, batch, handled, reported, limit, failures, pc, iterator,
                     fresh, next, retry, begin, arrived, trimmed, closed>>
  BY DEF pollKinesis!SeekTrimmed, pollKinesis!Awaits, pollKinesis!shardVars, pollKinesis!loopVars
<1>2. LoopTypeOK' /\ handled \subseteq handled' /\ reported \subseteq reported'
  BY <1>1 DEF LoopTypeOK
<1>3. StreamTyped'
  BY <1>1, PlacesAre DEF StreamTyped
<1>4. begin # 0 /\ Resumable /\ trimmed \in Nat /\ iterator \in Nat
  BY <1>1 DEF StreamInv, StreamTyped
<1>5. iterator <= trimmed + 1
  BY <1>1, <1>4, Places DEF Resumable, StreamTyped
<1>6. Resumable'
  BY <1>1, <1>5 DEF Resumable, pollKinesis!TRIM_HORIZON
<1>7. StreamInv'
  BY <1>1, <1>4, <1>6 DEF StreamInv, Counted, Accounted
<1>8. pollKinesis!Gone' = pollKinesis!Gone
  BY <1>1 DEF pollKinesis!Gone
<1> QED BY <1>1, <1>2, <1>3, <1>7, <1>8 DEF StreamGoal

LEMMA StreamRead ==
  ASSUME LoopTypeOK, StreamTyped, StreamInv, pollKinesis!Read
  PROVE  StreamGoal
<1>1. PICK last \in iterator..arrived :
        /\ loop = "polling" /\ pc = "reading" /\ iterator > trimmed
        /\ Yield(iterator..last) /\ fresh' = FALSE
        /\ next' = IF closed /\ last = arrived THEN 0 ELSE last + 1
        /\ UNCHANGED <<pc, position, iterator, retry, begin, arrived, trimmed, closed>>
  BY KinesisLoop DEF pollKinesis!Read, pollKinesis!Awaits, pollKinesis!shardVars
<1>2. /\ UNCHANGED <<aborted, handled, reported, limit, failures>>
      /\ \/ loop' = "ended" /\ batch' = batch
         \/ loop' = "handling" /\ batch' = iterator..last
  BY <1>1 DEF Yield
<1>3. arrived \in Nat /\ arrived <= MaxRecords /\ trimmed \in Nat /\ iterator \in Nat
      /\ iterator # 0 /\ begin # 0
  BY <1>1 DEF StreamTyped, StreamInv
<1>4. iterator..last \subseteq Records /\ next' \in 0..MaxRecords + 1 /\ next' \in {0, last + 1}
  BY <1>1, <1>3 DEF Records
<1>5. LoopTypeOK' /\ handled \subseteq handled' /\ reported \subseteq reported'
  BY <1>2, <1>4 DEF LoopTypeOK, LoopStates
<1>6. StreamTyped'
  BY <1>1, <1>2, <1>4 DEF StreamTyped
<1>7. pollKinesis!Gone' = pollKinesis!Gone
  BY <1>1 DEF pollKinesis!Gone
<1>8. StreamInv'
  BY <1>1, <1>2, <1>3, <1>4 DEF StreamInv, Counted, Accounted
<1> QED BY <1>2, <1>5, <1>6, <1>7, <1>8 DEF StreamGoal

LEMMA Onwards ==
  ASSUME NEW a \in Nat, NEW b \in Nat, NEW c \in Int, b <= c, a <= b + 1
  PROVE  a <= c + 1
OBVIOUS

\* The poller goes its way: it reads nothing, is delayed or ends, or the shard changes.
LEMMA StreamGoesOn ==
  ASSUME LoopTypeOK, StreamTyped, StreamInv,
         UNCHANGED <<batch, handled, reported, limit, failures, position, iterator, next, retry, begin>>,
         aborted' \in BOOLEAN, closed' \in BOOLEAN, fresh' \in BOOLEAN,
         arrived' \in arrived..MaxRecords, trimmed' \in trimmed..arrived',
         loop' \in {loop, "ended", "failed"}, pc' \in pollKinesis!PollStates,
         pc = "seeking" => pc' = pc,
         \/ pc' = pc /\ fresh' \in {fresh, TRUE}
         \/ fresh' = TRUE /\ loop = "polling" /\ pc' \in {"idle", "reading"}
         \/ loop = "polling" /\ pc = "reading" /\ ~fresh /\ pc' = "seeking"
  PROVE  StreamGoal
<1>1. LoopTypeOK' /\ handled \subseteq handled' /\ reported \subseteq reported'
  BY DEF LoopTypeOK, LoopStates
<1>2. arrived \in Nat /\ trimmed \in Nat
  BY DEF StreamTyped
<1>3. StreamTyped'
  BY <1>2 DEF StreamTyped
<1>4. pollKinesis!Gone' = pollKinesis!Gone
  BY DEF pollKinesis!Gone
<1>5. /\ Accounted' = Accounted /\ Counted(retry)'
      /\ IF begin' = 0
         THEN pc' = "seeking" /\ loop' # "handling" /\ iterator' = 0 /\ position'.seq = 0
         ELSE begin' <= iterator'
      /\ begin' # 0 => begin'..iterator' - 1 \subseteq Accounted'
      /\ loop' = "polling" /\ pc' = "backoff" =>
           retry'.from \in Records /\ iterator' <= retry'.from
           /\ iterator'..retry'.from - 1 \subseteq Accounted'
      /\ loop' = "polling" /\ pc' = "idle" => fresh'
      /\ loop' = "polling" /\ pc' = "reading" /\ ~fresh' =>
           position'.type = "AFTER_SEQUENCE_NUMBER" /\ position'.seq + 1 = iterator'
  BY DEF StreamInv, Accounted, Counted
<1>6. loop' = "handling" =>
        \E last \in iterator'..arrived' : batch' = iterator'..last /\ next' \in {0, last + 1}
  BY <1>2 DEF StreamInv, StreamTyped
<1>7. begin' # 0 /\ loop' = "polling" /\ pc' = "seeking" => Resumable'
  <2> SUFFICES ASSUME begin # 0, loop = "polling", pc' = "seeking" PROVE Resumable'
    OBVIOUS
  <2>1. CASE pc = "seeking"
    <3>1. Resumable
      BY <2>1 DEF StreamInv
    <3>2. iterator \in Nat /\ trimmed' \in Int /\ trimmed <= trimmed'
      BY <1>2 DEF StreamTyped
    <3>3. iterator <= trimmed + 1 => iterator <= trimmed' + 1
      BY <1>2, <3>2, Onwards
    <3>4. /\ position' = position /\ iterator' = iterator
          /\ Accounted' = Accounted
      BY DEF Accounted
    <3> QED BY <3>1, <3>3, <3>4 DEF Resumable
  <2>2. CASE pc = "reading" /\ ~fresh
    BY <2>2 DEF StreamInv, Resumable
  <2> QED BY <2>1, <2>2
<1>8. StreamInv'
  BY <1>5, <1>6, <1>7 DEF StreamInv
<1> QED BY <1>1, <1>3, <1>4, <1>8 DEF StreamGoal

LEMMA StreamBackedOff ==
  ASSUME LoopTypeOK, StreamTyped, StreamInv, pollKinesis!BackedOff
  PROVE  StreamGoal
<1>1. /\ loop = "polling" /\ pc = "backoff" /\ position' = At(retry.from) /\ pc' = "seeking"
      /\ UNCHANGED <<loop, aborted, batch, handled, reported, limit, failures, iterator,
                     fresh, next, retry, begin, arrived, trimmed, closed>>
  BY DEF pollKinesis!BackedOff, pollKinesis!Awaits, pollKinesis!shardVars, pollKinesis!loopVars,
         pollKinesis!GoesTo, pollKinesis!AtSequence, At
<1>2. LoopTypeOK' /\ handled \subseteq handled' /\ reported \subseteq reported'
  BY <1>1 DEF LoopTypeOK
<1>3. /\ begin # 0 /\ retry.from \in Records /\ iterator <= retry.from
      /\ iterator..retry.from - 1 \subseteq Accounted
  BY <1>1 DEF StreamInv
<1>4. StreamTyped'
  BY <1>1, <1>3, PlacesAre DEF StreamTyped, pollKinesis!PollStates
<1>5. Resumable'
  BY <1>1, <1>3 DEF Resumable, At, Accounted
<1>6. StreamInv'
  BY <1>1, <1>3, <1>5 DEF StreamInv, Counted, Accounted
<1>7. pollKinesis!Gone' = pollKinesis!Gone
  BY <1>1 DEF pollKinesis!Gone
<1> QED BY <1>1, <1>2, <1>4, <1>6, <1>7 DEF StreamGoal

\* The iterator moves past a batch only once all of it is accounted for.
LEMMA StreamResumes ==
  ASSUME LoopTypeOK, StreamTyped, StreamInv, NEW F \in SUBSET batch, pollKinesis!Resume(F)
  PROVE  StreamGoal /\ Discards
<1>1. /\ Handled(F) /\ UNCHANGED <<fresh, next, begin, arrived, trimmed, closed>>
      /\ \/ aborted /\ loop' = "ended" /\ UNCHANGED <<batch, reported, pc, position, iterator, retry>>
         \/ /\ batch' = {} /\ pollKinesis!MovePast
            /\ \/ F = {} /\ reported' = reported
               \/ F # {} /\ Exhausted(retry, F) /\ reported' = reported \cup F
         \/ /\ batch' = {} /\ F # {} /\ ~Exhausted(retry, F) /\ retry' = Retry(retry, F)
            /\ loop' = "polling" /\ pc' = "backoff" /\ UNCHANGED <<reported, position, iterator>>
  <2>1. /\ pollKinesis!Handled(F) <=> Handled(F)
        /\ pollKinesis!Exhausted(retry, F) <=> Exhausted(retry, F)
        /\ pollKinesis!Retry(retry, F) = Retry(retry, F)
    BY KinesisLoop
  <2>2. pollKinesis!Resume(F)
    OBVIOUS
  <2>3. Handled(F) /\ UNCHANGED <<fresh, next, begin, arrived, trimmed, closed>>
    BY <2>1, <2>2 DEF pollKinesis!Resume, pollKinesis!shardVars
  <2>4. CASE aborted
    BY <2>2, <2>3, <2>4 DEF pollKinesis!Resume
  <2>5. CASE ~aborted
    <3>1. batch' = {}
      BY <2>2, <2>5 DEF pollKinesis!Resume
    <3>2. \/ pollKinesis!MovePast /\ F = {} /\ reported' = reported
          \/ pollKinesis!MovePast /\ F # {} /\ pollKinesis!Exhausted(retry, F) /\ reported' = reported \cup F
          \/ /\ F # {} /\ ~pollKinesis!Exhausted(retry, F) /\ retry' = pollKinesis!Retry(retry, F)
             /\ loop' = "polling" /\ pc' = "backoff" /\ UNCHANGED <<reported, position, iterator>>
      BY <2>2, <2>5 DEF pollKinesis!Resume, pollKinesis!Report
    <3> QED BY <2>1, <2>3, <3>1, <3>2
  <2> QED BY <2>4, <2>5
<1>2. /\ loop = "handling" /\ UNCHANGED <<aborted, limit>>
      /\ handled \subseteq handled' /\ batch \ F \subseteq handled' /\ handled' \subseteq Records
      /\ failures' \in [Records -> 0..limit + 1]
  BY <1>1, HandledTypes
<1>3. /\ Counted(retry) /\ retry \in Attempts
  BY DEF StreamInv, StreamTyped, Attempts
<1>4. /\ \A old : old = retry => Counted(old)'
      /\ F # {} => /\ Lowest(F) \in F /\ \A q \in F : Lowest(F) <= q
                   /\ Exhausted(retry, F) => failures'[Lowest(F)] > limit
                   /\ ~Exhausted(retry, F) => /\ Retry(retry, F) \in Attempts
                                             /\ Retry(retry, F).from = Lowest(F)
                                             /\ \A new : new = Retry(retry, F) => Counted(new)'
  BY <1>1, <1>3, AttemptsCount
<1>5. PICK last \in iterator..arrived : batch = iterator..last /\ next \in {0, last + 1}
  BY <1>2 DEF StreamInv
<1>6. /\ begin # 0 /\ begin <= iterator /\ begin \in Nat /\ iterator \in Nat /\ iterator # 0
      /\ arrived \in Nat /\ arrived <= MaxRecords /\ last \in Nat
      /\ begin..iterator - 1 \subseteq Accounted
  BY <1>2, <1>5 DEF StreamInv, StreamTyped
<1>7. iterator <= last /\ last \in batch /\ last \in Records /\ batch \subseteq Records
  BY <1>5, <1>6 DEF Records
<1>8. LoopTypeOK' /\ reported \subseteq reported'
  <2>1. batch' \subseteq Records /\ loop' \in LoopStates
    BY <1>1, <1>7 DEF pollKinesis!MovePast, LoopStates
  <2>2. reported \subseteq reported' /\ reported' \subseteq Records
    BY <1>1, <1>7 DEF LoopTypeOK
  <2> QED BY <1>2, <2>1, <2>2 DEF LoopTypeOK
<1>9. Accounted \subseteq Accounted'
  BY <1>2, <1>8 DEF Accounted
<1>10. Discards
  <2>1. CASE F # {} /\ Exhausted(retry, F) /\ reported' = reported \cup F
    BY <1>4, <2>1 DEF Discards
  <2>2. CASE reported' = reported
    BY <2>2 DEF Discards
  <2> QED BY <1>1, <2>1, <2>2
<1>11. CASE loop' = "ended" /\ UNCHANGED <<batch, reported, pc, position, iterator, retry>>
  <2>1. StreamTyped'
    BY <1>1, <1>2, <1>11 DEF StreamTyped
  <2>2. StreamInv'
    BY <1>1, <1>4, <1>6, <1>9, <1>11 DEF StreamInv
  <2>3. pollKinesis!Gone' = pollKinesis!Gone
    BY <1>1, <1>11 DEF pollKinesis!Gone
  <2> QED BY <1>2, <1>8, <1>10, <2>1, <2>2, <2>3 DEF StreamGoal
<1>12. CASE /\ pollKinesis!MovePast
            /\ (F = {} \/ reported' = reported \cup F)
  <2>1. /\ position' = Behind(last) /\ pc' = "reading" /\ retry' = retry
        /\ \/ next = 0 /\ loop' = "failed" /\ iterator' = iterator
           \/ next = last + 1 /\ loop' = "polling" /\ iterator' = last + 1
    <3>1. \A q \in batch : q <= last
      BY <1>5, <1>6
    <3>2. pollKinesis!After(batch) = Behind(last)
      BY <1>7, <3>1, AfterOf
    <3>3. last + 1 # 0
      BY <1>6
    <3>4. pollKinesis!MovePast /\ next \in {0, last + 1}
      BY <1>5, <1>12
    <3> QED BY <3>2, <3>3, <3>4 DEF pollKinesis!MovePast
  <2>2. iterator..last \subseteq Accounted'
    BY <1>2, <1>5, <1>12 DEF Accounted
  <2>3. last + 1 \in 0..MaxRecords + 1
    BY <1>7 DEF Records
  <2>4. StreamTyped'
    BY <1>1, <1>2, <1>7, <2>1, <2>3, PlacesAre DEF StreamTyped, pollKinesis!PollStates
  <2>5. begin' # 0 /\ begin' <= iterator' /\ begin'..iterator' - 1 \subseteq Accounted'
        /\ pollKinesis!Gone \subseteq pollKinesis!Gone'
    BY <1>1, <1>6, <1>7, <1>9, <2>1, <2>2 DEF pollKinesis!Gone
  <2>6. Counted(retry)'
    BY <1>4, <2>1
  <2>7. loop' = "polling" => position'.type = "AFTER_SEQUENCE_NUMBER" /\ position'.seq + 1 = iterator'
    BY <2>1 DEF Behind
  <2>8. StreamInv'
    BY <2>1, <2>5, <2>6, <2>7 DEF StreamInv
  <2> QED BY <1>2, <1>8, <1>10, <2>4, <2>5, <2>8 DEF StreamGoal
<1>13. CASE /\ F # {} /\ ~Exhausted(retry, F) /\ retry' = Retry(retry, F)
            /\ loop' = "polling" /\ pc' = "backoff" /\ UNCHANGED <<reported, position, iterator>>
  <2>1. /\ retry' \in Attempts /\ retry'.from = Lowest(F) /\ Counted(retry)'
        /\ Lowest(F) \in batch /\ \A q \in F : Lowest(F) <= q
    BY <1>4, <1>13
  <2>2. retry'.from \in Records /\ iterator <= retry'.from /\ retry'.from <= last
        /\ retry'.from \in Nat
    BY <1>5, <1>6, <1>7, <2>1
  <2>3. iterator..retry'.from - 1 \subseteq Accounted'
    <3>1. ASSUME NEW q \in iterator..retry'.from - 1 PROVE q \in handled'
      <4>1. q \in batch /\ ~(retry'.from <= q)
        BY <1>5, <1>6, <2>2
      <4>2. q \notin F
        BY <2>1, <4>1
      <4> QED BY <1>2, <4>1, <4>2
    <3> QED BY <3>1 DEF Accounted
  <2>4. StreamTyped'
    BY <1>1, <1>2, <1>13, <2>1 DEF StreamTyped, pollKinesis!PollStates, Attempts
  <2>5. StreamInv'
    BY <1>1, <1>6, <1>9, <1>13, <2>1, <2>2, <2>3 DEF StreamInv
  <2>6. pollKinesis!Gone' = pollKinesis!Gone
    BY <1>1, <1>13 DEF pollKinesis!Gone
  <2> QED BY <1>2, <1>8, <1>10, <2>4, <2>5, <2>6 DEF StreamGoal
<1> QED BY <1>1, <1>11, <1>12, <1>13

\* Every step of a stream's poller, or of its shard.
LEMMA StreamNext ==
  ASSUME LoopTypeOK, StreamTyped, StreamInv, pollKinesis!Next \/ pollDynamoDBStreams!Next
  PROVE  StreamGoal /\ Discards
<1> DEFINE Goal == StreamGoal /\ Discards
<1>0. StreamGoal /\ (loop # "handling" \/ reported' = reported) => Goal
  BY DEF Discards
<1> SUFFICES Goal
  OBVIOUS
<1> HIDE DEF Goal
<1>t. /\ aborted \in BOOLEAN /\ closed \in BOOLEAN /\ fresh \in BOOLEAN /\ pc \in pollKinesis!PollStates
      /\ arrived \in Nat /\ arrived <= MaxRecords /\ trimmed \in Nat /\ trimmed <= arrived
  BY DEF LoopTypeOK, StreamTyped
<1>1. CASE pollKinesis!Seek
  BY <1>0, <1>1, StreamSeek DEF pollKinesis!Seek, pollKinesis!Awaits
<1>2. CASE pollKinesis!SeekTrimmed
  BY <1>0, <1>2, StreamSeekTrimmed DEF pollKinesis!SeekTrimmed, pollKinesis!Awaits
<1>3. CASE pollKinesis!Read
  BY <1>0, <1>3, StreamRead DEF pollKinesis!Read, pollKinesis!Awaits
<1>4. CASE pollKinesis!BackedOff
  BY <1>0, <1>4, StreamBackedOff DEF pollKinesis!BackedOff, pollKinesis!Awaits
<1>5. CASE pollKinesis!Resumes
  <2>1. PICK F \in SUBSET batch : pollKinesis!Resume(F)
    BY <1>5 DEF pollKinesis!Resumes
  <2> QED BY <2>1, StreamResumes DEF Goal
<1> USE DEF pollKinesis!Awaits, pollKinesis!Goes, pollKinesis!GoesTo, pollKinesis!loopVars,
            pollKinesis!pollerVars, pollKinesis!shardVars, pollKinesis!PollStates
<1>6. CASE pollKinesis!ReadNothing
  <2>1. /\ UNCHANGED <<aborted, batch, handled, reported, limit, failures, position, iterator, next,
                       retry, begin, arrived, trimmed, closed>>
        /\ loop = "polling" /\ pc = "reading" /\ fresh' = TRUE
        /\ loop' \in {loop, "failed"} /\ pc' \in {"reading", "idle"}
    <3>1. CASE closed
      BY <1>6, <3>1 DEF pollKinesis!ReadNothing
    <3>2. CASE ~closed
      BY <1>6, <3>2 DEF pollKinesis!ReadNothing
    <3> QED BY <3>1, <3>2
  <2>2. arrived' \in arrived..MaxRecords /\ trimmed' \in trimmed..arrived'
    BY <1>t, <2>1
  <2>b. aborted' \in BOOLEAN /\ closed' \in BOOLEAN /\ fresh' \in BOOLEAN
    BY <1>t, <2>1
  <2>c. loop' \in {loop, "ended", "failed"} /\ pc' \in pollKinesis!PollStates /\ pc # "seeking"
    BY <2>1
  <2>d. UNCHANGED <<batch, handled, reported, limit, failures, position, iterator, next, retry, begin>>
    BY <2>1
  <2>e. fresh' = TRUE /\ loop = "polling" /\ pc' \in {"idle", "reading"}
    BY <2>1
  <2>3. StreamGoal
    BY <2>b, <2>c, <2>d, <2>e, <2>2, StreamGoesOn
  <2> QED BY <1>0, <2>1, <2>3
<1>7. CASE pollKinesis!ReadTrimmed \/ pollKinesis!RequestFails \/ pollKinesis!Aborted
  <2>1. /\ UNCHANGED <<aborted, batch, handled, reported, limit, failures, pc, position, iterator,
                       fresh, next, retry, begin, arrived, trimmed, closed>>
        /\ loop = "polling" /\ loop' \in {"ended", "failed"}
    BY <1>7 DEF pollKinesis!ReadTrimmed, pollKinesis!RequestFails, pollKinesis!Aborted
  <2>2. arrived' \in arrived..MaxRecords /\ trimmed' \in trimmed..arrived'
    BY <1>t, <2>1
  <2>3. aborted' \in BOOLEAN /\ closed' \in BOOLEAN /\ fresh' \in BOOLEAN
    BY <1>t, <2>1
  <2>4. StreamGoal
    BY <1>t, <2>1, <2>2, <2>3, StreamGoesOn
  <2> QED BY <1>0, <2>1, <2>4
<1>8. CASE pollKinesis!Expired
  <2>1. StreamGoal
    BY <1>t, <1>8, StreamGoesOn DEF pollKinesis!Expired
  <2> QED BY <1>0, <1>8, <2>1 DEF pollKinesis!Expired
<1>9. CASE pollKinesis!Idled
  <2>1. fresh
    BY <1>9 DEF pollKinesis!Idled, StreamInv
  <2>2. /\ UNCHANGED <<aborted, batch, handled, reported, limit, failures, position, iterator, fresh,
                       next, retry, begin, arrived, trimmed, closed>>
        /\ loop = "polling" /\ pc = "idle"
        /\ loop' \in {loop, "ended"} /\ pc' \in {"reading", "idle"}
    <3>1. CASE aborted
      BY <1>9, <3>1 DEF pollKinesis!Idled
    <3>2. CASE ~aborted
      BY <1>9, <3>2 DEF pollKinesis!Idled
    <3> QED BY <3>1, <3>2
  <2>3. arrived' \in arrived..MaxRecords /\ trimmed' \in trimmed..arrived'
    BY <1>t, <2>2
  <2>b. aborted' \in BOOLEAN /\ closed' \in BOOLEAN /\ fresh' \in BOOLEAN
    BY <1>t, <2>2
  <2>c. loop' \in {loop, "ended", "failed"} /\ pc' \in pollKinesis!PollStates /\ pc # "seeking"
    BY <2>2
  <2>d. UNCHANGED <<batch, handled, reported, limit, failures, position, iterator, next, retry, begin>>
    BY <2>2
  <2>e. fresh' = TRUE /\ loop = "polling" /\ pc' \in {"idle", "reading"}
    BY <1>t, <2>1, <2>2
  <2>4. StreamGoal
    BY <2>b, <2>c, <2>d, <2>e, <2>3, StreamGoesOn
  <2> QED BY <1>0, <2>2, <2>4
<1>10. CASE pollKinesis!Arrive \/ pollKinesis!Close \/ TrimStep
  <2>1. /\ UNCHANGED <<loop, aborted, batch, handled, reported, limit, failures, pc, position,
                       iterator, fresh, next, retry, begin>>
        /\ closed' \in {closed, TRUE}
        /\ \/ arrived < MaxRecords /\ arrived' = arrived + 1 /\ trimmed' = trimmed
           \/ arrived' = arrived /\ trimmed' = trimmed
           \/ arrived' = arrived /\ trimmed < arrived /\ trimmed' = trimmed + 1
    BY <1>10 DEF pollKinesis!Arrive, pollKinesis!Close, TrimStep
  <2>2. arrived' \in arrived..MaxRecords /\ trimmed' \in trimmed..arrived'
    BY <1>t, <2>1
  <2>3. aborted' \in BOOLEAN /\ closed' \in BOOLEAN /\ fresh' \in BOOLEAN
    BY <1>t, <2>1
  <2>4. StreamGoal
    BY <1>t, <2>1, <2>2, <2>3, StreamGoesOn
  <2> QED BY <1>0, <2>1, <2>4
<1>11. CASE pollKinesis!Sigterm
  <2>1. StreamGoal
    BY <1>t, <1>11, StreamGoesOn DEF pollKinesis!Sigterm, pollKinesis!Abort
  <2> QED BY <1>0, <1>11, <2>1 DEF pollKinesis!Sigterm, pollKinesis!Abort
<1> QED BY <1>1, <1>2, <1>3, <1>4, <1>5, <1>6, <1>7, <1>8, <1>9, <1>10, <1>11, SameStream
        DEF pollKinesis!Poll

----------------------------------------------------------------------------

\* Kafka's part of the types.
KafkaTyped ==
  /\ each \in {"none", "gated", "backoff", "committing"}
  /\ inflightIds \subseteq Records /\ unresolved \subseteq inflightIds
  /\ rebalance \in BOOLEAN /\ crashed \in BOOLEAN
  /\ rejections \in 0..MaxRejections
  /\ retries \in [{0, 1} -> Attempts]
  /\ committed \in [{0, 1} -> 0..MaxRecords]

LEMMA KafkaTypes == pollKafka!TypeOK <=> LoopTypeOK /\ KafkaTyped
BY DEF pollKafka!TypeOK, KafkaTyped, LoopTypeOK, pollKafka!LoopTypeOK, pollKafka!Records,
       Records, pollKafka!LoopStates, LoopStates, pollKafka!Partitions, Attempts

\* What a step of Kafka's poller has to keep.
KafkaGoal ==
  /\ LoopTypeOK' /\ KafkaTyped' /\ KafkaInv' /\ limit' = limit
  /\ handled \subseteq handled' /\ reported \subseteq reported'
  /\ pollKafka!Gone \subseteq pollKafka!Gone'

LEMMA KafkaLoop ==
  ASSUME NEW F, NEW last
  PROVE  /\ pollKafka!Yield(F) <=> Yield(F)
         /\ pollKafka!Handled(F) <=> Handled(F)
         /\ pollKafka!Exhausted(last, F) <=> Exhausted(last, F)
         /\ pollKafka!Retry(last, F) = Retry(last, F)
         /\ pollKafka!Lowest(F) = Lowest(F)
         /\ pollKafka!NoRetry = NoRetry
         /\ pollKafka!Gone = {r \in Records : r <= committed[r % 2]}
BY DEF pollKafka!Yield, pollKafka!Handled, pollKafka!Exhausted, pollKafka!Retry, pollKafka!NoRetry, NoRetry,
   pollKafka!Attempt, pollKafka!Lowest, pollKafka!Records, pollKafka!Gone,
   Yield, Handled, Exhausted, Retry, Attempt, Lowest, Records

\* A partition's part of the topic.
LEMMA Parity == \A r \in Records : r % 2 \in {0, 1} /\ r \in Nat
BY DEF Records

\* kafkajs hands over a partition's records behind its commit.
LEMMA KafkaEachBatch ==
  ASSUME LoopTypeOK, KafkaTyped, KafkaInv, NEW p \in {0, 1}, pollKafka!EachBatch(p)
  PROVE  KafkaGoal
<1>1. PICK last \in Records :
        /\ last % 2 = p /\ each = "none" /\ ~crashed /\ ~aborted
        /\ Yield({r \in Records : r % 2 = p /\ committed[p] < r /\ r <= last})
        /\ inflightIds' = {r \in Records : r % 2 = p /\ committed[p] < r /\ r <= last}
        /\ each' = "gated" /\ unresolved' = {} /\ rebalance' = FALSE
        /\ UNCHANGED <<retries, rejections, crashed, committed>>
  <2>1. PICK last \in pollKafka!Of(p) :
          /\ pollKafka!Yield({r \in pollKafka!Of(p) : committed[p] < r /\ r <= last})
          /\ inflightIds' = {r \in pollKafka!Of(p) : committed[p] < r /\ r <= last}
    BY DEF pollKafka!EachBatch
  <2>2. /\ pollKafka!Of(p) = {r \in Records : r % 2 = p}
        /\ {r \in pollKafka!Of(p) : committed[p] < r /\ r <= last}
             = {r \in Records : r % 2 = p /\ committed[p] < r /\ r <= last}
    BY DEF pollKafka!Of, pollKafka!Records, Records
  <2>3. /\ each = "none" /\ ~crashed /\ ~aborted
        /\ each' = "gated" /\ unresolved' = {} /\ rebalance' = FALSE
        /\ UNCHANGED <<retries, rejections, crashed, committed>>
    BY DEF pollKafka!EachBatch
  <2> QED BY <2>1, <2>2, <2>3, KafkaLoop
<1>2. /\ loop' = "handling" /\ batch' = inflightIds' /\ inflightIds' # {}
      /\ UNCHANGED <<aborted, handled, reported, limit, failures>>
  BY <1>1 DEF Yield
<1>3. inflightIds' \subseteq Records
  BY <1>1
<1>4. LoopTypeOK' /\ handled \subseteq handled' /\ reported \subseteq reported'
  BY <1>2, <1>3 DEF LoopTypeOK, LoopStates
<1>5. KafkaTyped'
  BY <1>1, <1>2, <1>3 DEF KafkaTyped, Attempts
<1>6. pollKafka!Gone' = pollKafka!Gone
  BY <1>1 DEF pollKafka!Gone, pollKafka!Records
<1>7. KafkaInv'
  <2>1. \A q \in {0, 1} : Counted(retries[q])'
    BY <1>1, <1>2 DEF KafkaInv, Counted
  <2>2. pollKafka!Gone' \subseteq Accounted'
    BY <1>2, <1>6 DEF KafkaInv, Accounted
  <2>3. \E q \in {0, 1}, l \in Records :
          inflightIds' = {r \in Records : r % 2 = q /\ committed'[q] < r /\ r <= l}
    BY <1>1
  <2>4. Counted(retries[0])' /\ Counted(retries[1])'
    BY <2>1
  <2> QED BY <1>1, <1>2, <2>1, <2>2, <2>3 DEF KafkaInv
<1> QED BY <1>2, <1>4, <1>5, <1>6, <1>7 DEF KafkaGoal

LEMMA Retried ==
  ASSUME LoopTypeOK, KafkaTyped, NEW p \in {0, 1}, NEW last \in Attempts,
         retries' = [retries EXCEPT ![p] = last], limit' = limit
  PROVE  /\ retries' \in [{0, 1} -> [from : 0..MaxRecords, attempt : 0..limit' + 1]]
         /\ \A q \in {0, 1} : retries'[q] \in {retries[q], last}
BY DEF KafkaTyped, Attempts

\* The released gate leaves unresolved whatever failed and was not discarded.
LEMMA KafkaResumes ==
  ASSUME LoopTypeOK, KafkaTyped, KafkaInv, NEW F \in SUBSET batch, pollKafka!Resume(F)
  PROVE  KafkaGoal /\ Discards
<1> DEFINE p == Lowest(inflightIds) % 2
           old == retries[p]
<1>1. /\ Handled(F) /\ batch' = {}
      /\ UNCHANGED <<inflightIds, rebalance, rejections, crashed, committed>>
      /\ loop' \in {"returning", "throwing", "polling"}
      /\ \/ /\ F = {} /\ each' = "committing" /\ unresolved' = F /\ reported' = reported
            /\ retries' = [retries EXCEPT ![p] = NoRetry]
         \/ /\ F # {} /\ each' = "committing" /\ unresolved' = F /\ UNCHANGED <<reported, retries>>
         \/ /\ F # {} /\ Exhausted(old, F)
            /\ each' = "committing" /\ unresolved' = {} /\ reported' = reported \cup F
            /\ retries' = [retries EXCEPT ![p] = NoRetry]
         \/ /\ F # {} /\ ~Exhausted(old, F)
            /\ each' = "backoff" /\ unresolved' = F /\ reported' = reported
            /\ retries' = [retries EXCEPT ![p] = Retry(old, F)]
  <2>1. pollKafka!PartitionOf(inflightIds) = p
    BY KafkaLoop DEF pollKafka!PartitionOf
  <2> HIDE DEF p
  <2>2. pollKafka!Resume(F)
    OBVIOUS
  <2>3. /\ Handled(F) /\ batch' = {} /\ pollKafka!RetryOrDiscard(F)
        /\ UNCHANGED <<inflightIds, rebalance, rejections, crashed, committed>>
        /\ loop' \in {"returning", "throwing", "polling"}
    BY <2>2, KafkaLoop DEF pollKafka!Resume, pollKafka!Onward
  <2> QED BY <2>1, <2>3, KafkaLoop DEF pollKafka!RetryOrDiscard, pollKafka!Report
<1>2. /\ loop = "handling" /\ UNCHANGED <<aborted, limit>>
      /\ handled \subseteq handled' /\ batch \ F \subseteq handled' /\ handled' \subseteq Records
      /\ failures' \in [Records -> 0..limit + 1]
  BY <1>1, HandledTypes
<1>3. /\ each = "gated" /\ batch = inflightIds /\ inflightIds # {} /\ inflightIds \subseteq Records
      /\ \E q \in {0, 1}, l \in Records :
            inflightIds = {r \in Records : r % 2 = q /\ committed[q] < r /\ r <= l}
  BY <1>2 DEF KafkaInv, KafkaTyped
<1>4. p \in {0, 1}
  BY <1>3, LowestOf, Parity
<1>5. \A q \in {0, 1} : retries[q] \in Attempts /\ Counted(retries[q])
  BY DEF KafkaInv, KafkaTyped
<1>6. /\ old \in Attempts
      /\ F # {} => /\ Lowest(F) \in F /\ \A q \in F : Lowest(F) <= q
                   /\ Exhausted(old, F) => failures'[Lowest(F)] > limit
                   /\ ~Exhausted(old, F) => /\ Retry(old, F) \in Attempts
                                             /\ \A new : new = Retry(old, F) => Counted(new)'
  BY <1>1, <1>4, <1>5, AttemptsCount
<1>7. \A q \in {0, 1} : \A new : new = retries[q] => Counted(new)'
  BY <1>1, <1>5, AttemptsCount
<1>8. NoRetry \in Attempts /\ \A new : new = NoRetry => Counted(new)'
  BY <1>1, <1>2 DEF NoRetry, Attempts, Counted, Records, LoopTypeOK
<1> HIDE DEF p, old
<1>9. /\ retries' \in [{0, 1} -> [from : 0..MaxRecords, attempt : 0..limit' + 1]]
      /\ Counted(retries[0])' /\ Counted(retries[1])'
  <2>1. CASE retries' = retries
    <3>1. retries' \in [{0, 1} -> [from : 0..MaxRecords, attempt : 0..limit' + 1]]
      BY <1>2, <2>1 DEF KafkaTyped, Attempts
    <3> QED BY <1>7, <2>1, <3>1
  <2>2. ASSUME NEW last \in Attempts, retries' = [retries EXCEPT ![p] = last],
               \A new : new = last => Counted(new)'
        PROVE  /\ retries' \in [{0, 1} -> [from : 0..MaxRecords, attempt : 0..limit' + 1]]
               /\ Counted(retries[0])' /\ Counted(retries[1])'
    <3>1. \A q \in {0, 1} : retries'[q] = retries[q] \/ retries'[q] = last
      BY <1>2, <1>4, <2>2, Retried
    <3>2. \A q \in {0, 1} : \A new : new = retries'[q] => Counted(new)'
      BY <1>7, <2>2, <3>1
    <3>3. Counted(retries[0])' /\ Counted(retries[1])'
      BY <3>2
    <3> QED BY <1>2, <1>4, <2>2, <3>3, Retried
  <2> QED BY <1>1, <1>6, <1>8, <2>1, <2>2
<1>10. LoopTypeOK' /\ reported \subseteq reported'
  <2>1. batch' \subseteq Records /\ loop' \in LoopStates
    BY <1>1 DEF LoopStates
  <2>2. reported \subseteq reported' /\ reported' \subseteq Records
    BY <1>1, <1>3 DEF LoopTypeOK
  <2> QED BY <1>2, <2>1, <2>2 DEF LoopTypeOK
<1>11. Accounted \subseteq Accounted' /\ inflightIds' \ unresolved' \subseteq Accounted'
  BY <1>1, <1>2, <1>3, <1>10 DEF Accounted
<1>12. KafkaTyped'
  BY <1>1, <1>3, <1>9 DEF KafkaTyped, Attempts
<1>13. pollKafka!Gone' = pollKafka!Gone
  BY <1>1 DEF pollKafka!Gone, pollKafka!Records
<1>14. KafkaInv'
  <2>1. pollKafka!Gone' \subseteq Accounted'
    BY <1>11, <1>13 DEF KafkaInv
  <2>2. \E q \in {0, 1}, l \in Records :
          inflightIds' = {r \in Records : r % 2 = q /\ committed'[q] < r /\ r <= l}
    BY <1>1, <1>3
  <2> QED BY <1>1, <1>3, <1>9, <1>11, <2>1, <2>2 DEF KafkaInv
<1>15. Discards
  <2>1. CASE F # {} /\ Exhausted(old, F) /\ reported' = reported \cup F
    BY <1>6, <2>1 DEF Discards
  <2>2. CASE reported' = reported
    BY <2>2 DEF Discards
  <2> QED BY <1>1, <2>1, <2>2
<1> QED BY <1>2, <1>10, <1>12, <1>13, <1>14, <1>15 DEF KafkaGoal

\* What is committed is accounted for: everything of the batch before its first failed
\* record.
LEMMA KafkaCommitted ==
  ASSUME LoopTypeOK, KafkaTyped, KafkaInv, pollKafka!Committed
  PROVE  KafkaGoal
<1> DEFINE R == pollKafka!Resolved
           h == Highest(R)
<1>1. /\ each = "committing" /\ each' = "none"
      /\ UNCHANGED <<loop, aborted, batch, handled, reported, limit, failures, inflightIds,
                     unresolved, rebalance, retries, rejections, crashed>>
      /\ committed' = IF R = {} THEN committed ELSE [committed EXCEPT ![Lowest(R) % 2] = h]
  <2>1. pollKafka!PartitionOf(R) = Lowest(R) % 2
    BY KafkaLoop DEF pollKafka!PartitionOf
  <2>2. h = CHOOSE r \in R : \A q \in R : q <= r
    BY DEF Highest
  <2>3. pollKafka!Committed
    OBVIOUS
  <2> HIDE DEF h
  <2> QED BY <2>1, <2>2, <2>3 DEF pollKafka!Committed, pollKafka!loopVars
<1>2. PICK p \in {0, 1}, last \in Records :
        inflightIds = {r \in Records : r % 2 = p /\ committed[p] < r /\ r <= last}
  BY <1>1 DEF KafkaInv
<1>3. R \subseteq inflightIds /\ R = {r \in inflightIds : \A f \in unresolved : r < f}
  BY DEF pollKafka!Resolved
<1> HIDE DEF R
<1>4. /\ inflightIds \subseteq Records /\ unresolved \subseteq Records
      /\ inflightIds \ unresolved \subseteq Accounted
      /\ \A q \in {0, 1} : committed[q] \in 0..MaxRecords
  BY <1>1 DEF KafkaTyped, KafkaInv
<1>5. \A q \in {0, 1} : committed'[q] \in 0..MaxRecords /\ committed[q] <= committed'[q]
      /\ \A r \in Records : r % 2 = q /\ r <= committed'[q] => r <= committed[q] \/ r \in Accounted
  <2>1. CASE R = {}
    BY <1>1, <1>4, <2>1
  <2>2. CASE R # {}
    <3>1. h \in R /\ Lowest(R) \in R /\ \A q \in R : q <= h
      BY <1>3, <1>4, <2>2, HighestOf, LowestOf
    <3>2. Lowest(R) % 2 = p /\ h \in Records /\ committed[p] < h /\ h <= last
      BY <1>2, <1>3, <3>1
    <3>3. committed' = [committed EXCEPT ![p] = h]
      BY <1>1, <2>2, <3>2
    <3> HIDE DEF h
    <3>4. committed'[p] = h /\ \A q \in {0, 1} : q # p => committed'[q] = committed[q]
      BY <1>2, <3>3 DEF KafkaTyped
    <3>5. h \in Nat /\ h <= MaxRecords /\ last \in Nat /\ committed[p] \in Nat
      BY <1>4, <3>2 DEF Records
    <3>6. ASSUME NEW r \in Records, r % 2 = p, r <= h, ~(r <= committed[p])
          PROVE  r \in Accounted
      <4>1. r \in Nat
        BY DEF Records
      <4>2. r \in inflightIds
        BY <1>2, <3>2, <3>5, <3>6, <4>1
      <4>3. \A f \in unresolved : h < f /\ f \in Nat
        BY <1>3, <1>4, <3>1 DEF Records
      <4>4. r \notin unresolved
        BY <3>5, <3>6, <4>1, <4>3
      <4> QED BY <1>4, <4>2, <4>4
    <3> QED BY <1>4, <3>2, <3>4, <3>5, <3>6
  <2> QED BY <2>1, <2>2
<1>6. LoopTypeOK' /\ handled \subseteq handled' /\ reported \subseteq reported'
  BY <1>1 DEF LoopTypeOK
<1>7. KafkaTyped'
  <2>1. committed' \in [{0, 1} -> 0..MaxRecords]
    <3>1. committed' = [q \in {0, 1} |-> committed'[q]]
      BY <1>1 DEF KafkaTyped
    <3> QED BY <1>5, <3>1
  <2> QED BY <1>1, <2>1 DEF KafkaTyped, Attempts
<1>8. pollKafka!Gone \subseteq pollKafka!Gone' /\ pollKafka!Gone' \subseteq Accounted
  <2>1. \A r \in Records : r <= committed'[r % 2] => r <= committed[r % 2] \/ r \in Accounted
    BY <1>5, Parity
  <2>2. \A r \in Records : r <= committed[r % 2] => r <= committed'[r % 2]
    <3>1. ASSUME NEW r \in Records, r <= committed[r % 2] PROVE r <= committed'[r % 2]
      <4>1. /\ r \in Nat /\ committed[r % 2] \in 0..MaxRecords /\ committed'[r % 2] \in 0..MaxRecords
            /\ committed[r % 2] <= committed'[r % 2]
        BY <1>4, <1>5, Parity
      <4> QED BY <3>1, <4>1
    <3> QED BY <3>1
  <2>3. \A r \in Records : r <= committed[r % 2] => r \in Accounted
    BY KafkaLoop DEF KafkaInv
  <2> QED BY <2>1, <2>2, <2>3 DEF pollKafka!Gone, pollKafka!Records, Records
<1>9. KafkaInv'
  <2>1. Counted(retries[0])' /\ Counted(retries[1])' /\ Accounted' = Accounted
    BY <1>1 DEF KafkaInv, Counted, Accounted
  <2>2. loop' # "handling"
    BY <1>1 DEF KafkaInv
  <2> QED BY <1>1, <1>8, <2>1, <2>2 DEF KafkaInv
<1> QED BY <1>1, <1>6, <1>7, <1>8, <1>9 DEF KafkaGoal

\* The flows go on: a commit is rejected, a heartbeat fails, the poll ends.
LEMMA KafkaGoesOn ==
  ASSUME LoopTypeOK, KafkaTyped, KafkaInv,
         UNCHANGED <<batch, handled, reported, limit, failures, inflightIds, unresolved, retries, committed>>,
         aborted' \in BOOLEAN, rebalance' \in BOOLEAN, crashed' \in BOOLEAN,
         rejections' \in 0..MaxRejections,
         \/ each' = each
         \/ each = "backoff" /\ each' = "committing"
         \/ each = "committing" /\ each' = "none",
         \/ loop' = loop
         \/ loop # "handling" /\ loop' \in {"returning", "throwing", "ended", "failed"}
  PROVE  KafkaGoal
<1>1. LoopTypeOK' /\ handled \subseteq handled' /\ reported \subseteq reported'
  BY DEF LoopTypeOK, LoopStates
<1>2. KafkaTyped'
  BY DEF KafkaTyped, Attempts
<1>3. pollKafka!Gone' = pollKafka!Gone
  BY DEF pollKafka!Gone, pollKafka!Records
<1>4. Counted(retries[0])' /\ Counted(retries[1])' /\ Accounted' = Accounted
  BY DEF KafkaInv, Counted, Accounted
<1>5. pollKafka!Gone' \subseteq Accounted'
  BY <1>3, <1>4 DEF KafkaInv
<1>6. each' # "none" => \E p \in {0, 1}, last \in Records :
       /\ inflightIds' = {r \in Records : r % 2 = p /\ committed'[p] < r /\ r <= last}
       /\ inflightIds' # {}
  BY DEF KafkaInv
<1>7. each' = "gated" => batch' = inflightIds'
  BY DEF KafkaInv
<1>8. each' \in {"backoff", "committing"} => inflightIds' \ unresolved' \subseteq Accounted'
  BY <1>4 DEF KafkaInv
<1>9. loop' = "handling" <=> each' = "gated"
  BY DEF KafkaInv
<1>10. KafkaInv'
  BY <1>4, <1>5, <1>6, <1>7, <1>8, <1>9 DEF KafkaInv
<1> QED BY <1>1, <1>2, <1>3, <1>10 DEF KafkaGoal

LEMMA KafkaNext ==
  ASSUME LoopTypeOK, KafkaTyped, KafkaInv, pollKafka!Next
  PROVE  KafkaGoal /\ Discards
<1> DEFINE Goal == KafkaGoal /\ Discards
<1>0. KafkaGoal /\ (loop # "handling" \/ reported' = reported) => Goal
  BY DEF Discards
<1> SUFFICES Goal
  OBVIOUS
<1> HIDE DEF Goal
<1>t. /\ aborted \in BOOLEAN /\ crashed \in BOOLEAN /\ rebalance \in BOOLEAN
      /\ rejections \in Nat /\ MaxRejections \in Nat /\ rejections <= MaxRejections
  BY SourcesAssumption DEF LoopTypeOK, KafkaTyped
<1>1. CASE \E p \in {0, 1} : pollKafka!EachBatch(p)
  <2>1. PICK p \in {0, 1} : pollKafka!EachBatch(p)
    BY <1>1
  <2>2. KafkaGoal
    BY <2>1, KafkaEachBatch
  <2>3. loop # "handling"
    BY <2>1 DEF KafkaInv, pollKafka!EachBatch
  <2> QED BY <1>0, <2>2, <2>3
<1>2. CASE pollKafka!Resumes
  <2>1. PICK F \in SUBSET batch : pollKafka!Resume(F)
    BY <1>2 DEF pollKafka!Resumes
  <2> QED BY <2>1, KafkaResumes DEF Goal
<1>3. CASE pollKafka!Committed
  <2>1. reported' = reported
    BY <1>3 DEF pollKafka!Committed, pollKafka!loopVars
  <2> QED BY <1>0, <1>3, <2>1, KafkaCommitted
<1> DEFINE GoesOn ==
  /\ UNCHANGED <<batch, handled, reported, limit, failures, inflightIds, unresolved, retries, committed>>
  /\ (aborted' = aborted \/ aborted' = TRUE) /\ (rebalance' = rebalance \/ rebalance' = TRUE)
  /\ (crashed' = crashed \/ crashed' = TRUE)
  /\ \/ rejections' = rejections
     \/ rejections < MaxRejections /\ rejections' = rejections + 1
  /\ \/ each' = each
     \/ each = "backoff" /\ each' = "committing"
     \/ each = "committing" /\ each' = "none"
  /\ \/ loop' = loop
     \/ loop # "handling" /\ loop' \in {"returning", "throwing", "ended", "failed"}
<1>4. ASSUME GoesOn PROVE Goal
  <2>1. aborted' \in BOOLEAN /\ rebalance' \in BOOLEAN /\ crashed' \in BOOLEAN
    BY <1>t, <1>4
  <2>2. rejections' \in 0..MaxRejections
    BY <1>t, <1>4
  <2>3. KafkaGoal
    BY <1>4, <2>1, <2>2, KafkaGoesOn
  <2> QED BY <1>0, <1>4, <2>3
<1> USE DEF pollKafka!loopVars, pollKafka!pollerVars, pollKafka!Rejection, pollKafka!Goes
<1>5. CASE pollKafka!BackedOff
  <2> GoesOn
    BY <1>5 DEF pollKafka!BackedOff
  <2> QED BY <1>4
<1>6. CASE pollKafka!CommitRejected
  <2> GoesOn
    BY <1>6 DEF pollKafka!CommitRejected
  <2> QED BY <1>4
<1>7. CASE pollKafka!HeartbeatRejected
  <2> GoesOn
    BY <1>7 DEF pollKafka!HeartbeatRejected
  <2> QED BY <1>4
<1>8. CASE pollKafka!Crash
  <2> GoesOn
    BY <1>8 DEF pollKafka!Crash
  <2> QED BY <1>4
<1>9. CASE pollKafka!Sigterm
  <2> GoesOn
    BY <1>9 DEF pollKafka!Sigterm, pollKafka!Abort
  <2> QED BY <1>4
<1>10. CASE pollKafka!Disconnect
  <2> GoesOn
    BY <1>10 DEF pollKafka!Disconnect
  <2> QED BY <1>4
<1> QED BY <1>1, <1>2, <1>3, <1>5, <1>6, <1>7, <1>8, <1>9, <1>10
        DEF pollKafka!Next, pollKafka!Poll, pollKafka!Commit, pollKafka!Partitions

----------------------------------------------------------------------------

\* The brokers' part of the types.
BrokerTyped ==
  /\ reader \in {"parked", "window"} /\ failure \in BOOLEAN /\ consuming \in BOOLEAN
  /\ channel \in {"open", "closed", "refused"}
  /\ reading \subseteq Records /\ pending \subseteq Records
  /\ queue \subseteq Records /\ unsettled \subseteq Records /\ queue \cap unsettled = {}

LEMMA BrokerTypes == pollRmq!TypeOK <=> LoopTypeOK /\ BrokerTyped
BY DEF pollRmq!TypeOK, BrokerTyped, LoopTypeOK, pollRmq!LoopTypeOK, pollRmq!Records,
       Records, pollRmq!LoopStates, LoopStates

\* What a step of a broker's poller has to keep.
BrokerGoal ==
  /\ LoopTypeOK' /\ BrokerTyped' /\ BrokerInv' /\ limit' = limit
  /\ handled \subseteq handled' /\ UNCHANGED reported
  /\ pollRmq!Gone \subseteq pollRmq!Gone'

LEMMA BrokerLoop ==
  ASSUME NEW F
  PROVE  /\ pollRmq!Yield(F) <=> Yield(F)
         /\ pollRmq!Handled(F) <=> Handled(F)
BY DEF pollRmq!Yield, pollRmq!Handled, pollRmq!Records, Yield, Handled, Records

\* ActiveMQ's poller delivers a message to the reading of its body.
DeliverBody(m) ==
  /\ channel = "open" /\ m \in queue
  /\ queue' = queue \ {m} /\ unsettled' = unsettled \cup {m} /\ reading' = reading \cup {m}
  /\ UNCHANGED <<loop, aborted, batch, handled, reported, limit, failures,
                 reader, pending, failure, consuming, channel>>

\* How many deliveries a batch takes does not matter below.
TakeSome ==
  /\ loop = "polling"
  /\ \/ loop' = "returning" /\ UNCHANGED <<batch, pending>>
     \/ \E B \in SUBSET pending : loop' = "handling" /\ batch' = B /\ pending' = pending \ B
  /\ UNCHANGED <<aborted, handled, reported, limit, failures, reader, reading, failure,
                 consuming, channel, queue, unsettled>>

LEMMA Takes == pollRmq!Take \/ pollAmq!Take => TakeSome
<1>1. ASSUME pollRmq!Take PROVE TakeSome
  <2>1. CASE aborted
    BY <1>1, <2>1 DEF pollRmq!Take, pollRmq!Goes, pollRmq!brokerVars, TakeSome
  <2>2. CASE ~aborted
    BY <1>1, <2>2 DEF pollRmq!Take, pollRmq!Yield, pollRmq!brokerVars, TakeSome
  <2> QED BY <2>1, <2>2
<1>2. ASSUME pollAmq!Take PROVE TakeSome
  <2>1. CASE aborted
    BY <1>2, <2>1 DEF pollAmq!Take, pollAmq!Goes, pollAmq!brokerVars, TakeSome
  <2>2. CASE ~aborted
    BY <1>2, <2>2 DEF pollAmq!Take, pollAmq!Yield, pollAmq!brokerVars, TakeSome
  <2> QED BY <2>1, <2>2
<1> QED BY <1>1, <1>2

\* ActiveMQ's poller takes RabbitMQ's steps, but for the reading of bodies.
LEMMA SameBroker ==
  ASSUME pollAmq!Next
  PROVE  \/ TakeSome \/ pollRmq!Resumes \/ pollRmq!Disconnect
         \/ pollRmq!ConsumerLost \/ pollRmq!ConnectionLost \/ pollRmq!Sigterm
         \/ \E m \in Records : pollRmq!BodyRead(m) \/ pollRmq!BodyUnreadable(m) \/ DeliverBody(m)
<1> USE DEF pollAmq!loopVars, pollAmq!pollerVars, pollAmq!brokerVars, pollAmq!Records,
    pollAmq!Yield, pollAmq!Goes, pollAmq!Handled, pollAmq!Abort, pollAmq!Over, pollAmq!Reads,
    pollAmq!WakeReader, pollAmq!Buffer, pollAmq!Settle, pollAmq!Inflight, pollAmq!Acked,
    pollAmq!Nacked, pollAmq!Fails, pollRmq!loopVars, pollRmq!pollerVars, pollRmq!brokerVars,
    pollRmq!Records, pollRmq!Yield, pollRmq!Goes, pollRmq!Handled, pollRmq!Abort, pollRmq!Over,
    pollRmq!Reads, pollRmq!WakeReader, pollRmq!Buffer, pollRmq!Settle, pollRmq!Inflight,
    pollRmq!Acked, pollRmq!Nacked, pollRmq!Fails, Records
<1>1. pollAmq!Take => TakeSome
  BY Takes
<1>2. pollAmq!Resumes => pollRmq!Resumes
  <2>1. ASSUME NEW answered \in BOOLEAN, NEW F \in SUBSET batch, pollAmq!Resume(answered, F)
        PROVE  pollRmq!Resume(answered, F)
    BY <2>1 DEF pollAmq!Resume, pollRmq!Resume
  <2> QED BY <2>1 DEF pollAmq!Resumes, pollRmq!Resumes
<1>3. pollAmq!Disconnect => pollRmq!Disconnect
  BY DEF pollAmq!Disconnect, pollRmq!Disconnect
<1>4. pollAmq!ConsumerLost => pollRmq!ConsumerLost
  BY DEF pollAmq!ConsumerLost, pollRmq!ConsumerLost
<1>5. pollAmq!ConnectionLost => pollRmq!ConnectionLost
  BY DEF pollAmq!ConnectionLost, pollRmq!ConnectionLost
<1>6. pollAmq!Sigterm => pollRmq!Sigterm
  BY DEF pollAmq!Sigterm, pollRmq!Sigterm
<1>7. ~pollAmq!Cancel
  BY DEF pollAmq!Cancel
<1>8. ASSUME NEW m \in Records
      PROVE  /\ pollAmq!BodyRead(m) => pollRmq!BodyRead(m)
             /\ pollAmq!BodyUnreadable(m) => pollRmq!BodyUnreadable(m)
             /\ pollAmq!Deliver(m) => DeliverBody(m)
  <2>1. pollAmq!BodyRead(m) => pollRmq!BodyRead(m)
    BY DEF pollAmq!BodyRead, pollRmq!BodyRead
  <2>2. pollAmq!BodyUnreadable(m) => pollRmq!BodyUnreadable(m)
    BY DEF pollAmq!BodyUnreadable, pollRmq!BodyUnreadable
  <2>3. pollAmq!Deliver(m) => DeliverBody(m)
    BY DEF pollAmq!Deliver, DeliverBody
  <2> QED BY <2>1, <2>2, <2>3
<1> QED BY <1>1, <1>2, <1>3, <1>4, <1>5, <1>6, <1>7, <1>8
        DEF pollAmq!Next, pollAmq!Poll, pollAmq!Push, pollRmq!Poll

\* Waking the generator takes it nowhere with a batch in its hands.
LEMMA Woken ==
  ASSUME LoopTypeOK, BrokerTyped, BrokerInv, NEW P, NEW failed, pollRmq!WakeReader(P, failed)
  PROVE  /\ loop' \in LoopStates /\ reader' \in {"parked", "window"}
         /\ loop' = "polling" => batch = {}
BY DEF pollRmq!WakeReader, pollRmq!Reads, LoopTypeOK, LoopStates, BrokerTyped, BrokerInv

\* Deliveries move between the broker, the reading of bodies, the buffer and the batch.
LEMMA BrokerMoves ==
  ASSUME LoopTypeOK, BrokerTyped, BrokerInv,
         UNCHANGED <<handled, reported, limit, failures>>,
         loop' \in LoopStates, loop' = "polling" => batch' = {}, reader' \in {"parked", "window"},
         aborted' \in BOOLEAN, failure' \in BOOLEAN, consuming' \in BOOLEAN,
         channel' \in {"open", "closed"},
         reading' \cup pending' \cup batch' \subseteq Records,
         queue' \cup unsettled' = queue \cup unsettled, queue' \cap unsettled' = {},
         channel' = "open" => /\ reading' \cup pending' \cup batch' \subseteq unsettled'
                              /\ reading' \cap (pending' \cup batch') = {} /\ pending' \cap batch' = {},
         channel' = "open" /\ ~aborted' /\ ~failure' => unsettled' = reading' \cup pending' \cup batch'
  PROVE  BrokerGoal
<1>1. LoopTypeOK'
  BY DEF LoopTypeOK
<1>2. BrokerTyped'
  BY DEF BrokerTyped
<1>3. pollRmq!Gone' = pollRmq!Gone
  BY DEF pollRmq!Gone, pollRmq!Records
<1>4. BrokerInv'
  BY <1>3 DEF BrokerInv, pollRmq!DeliveriesHeld, Accounted
<1> QED BY <1>1, <1>2, <1>3, <1>4 DEF BrokerGoal

\* The end of a batch settles each of its deliveries once, whatever the answer.
LEMMA BrokerResumes ==
  ASSUME LoopTypeOK, BrokerTyped, BrokerInv, NEW answered \in BOOLEAN, NEW F \in SUBSET batch,
         pollRmq!Resume(answered, F)
  PROVE  BrokerGoal
<1> DEFINE A == pollRmq!Acked(answered, F)
           N == pollRmq!Nacked(answered, F)
<1>1. /\ Handled(F) /\ batch' = {} /\ (~answered => F = batch)
      /\ pollRmq!Settle(A, N) /\ loop' \in {"returning", "throwing", "polling"}
      /\ reader' \in {"parked", "window"}
      /\ UNCHANGED <<reported, reading, pending, failure, consuming>>
  BY BrokerLoop DEF pollRmq!Resume, pollRmq!Reads
<1>2. /\ loop = "handling" /\ UNCHANGED <<aborted, limit>>
      /\ handled \subseteq handled' /\ batch \ F \subseteq handled' /\ handled' \subseteq Records
      /\ failures' \in [Records -> 0..limit + 1]
  BY <1>1, HandledTypes
<1>3. /\ A \cup N \subseteq batch /\ A \cap N = {} /\ A \subseteq handled'
      /\ ~aborted /\ ~failure => A \cup N = batch
  BY <1>1, <1>2 DEF pollRmq!Acked, pollRmq!Nacked, pollRmq!Inflight
<1> HIDE DEF A, N
<1>4. \/ channel # "open" /\ UNCHANGED <<channel, queue, unsettled>>
      \/ channel = "open" /\ queue' = queue \cup N /\ unsettled' = unsettled \ (A \cup N) /\ channel' = channel
  <2>1. CASE channel # "open"
    BY <1>1, <2>1 DEF pollRmq!Settle
  <2>2. CASE channel = "open"
    <3>1. A \cup N \subseteq unsettled
      BY <1>3, <2>2 DEF BrokerInv
    <3> QED BY <1>1, <1>3, <2>2, <3>1 DEF pollRmq!Settle
  <2> QED BY <2>1, <2>2
<1>5. LoopTypeOK'
  BY <1>1, <1>2 DEF LoopTypeOK, LoopStates
<1>6. batch \subseteq Records
  BY DEF LoopTypeOK
<1>7. BrokerTyped'
  BY <1>1, <1>3, <1>4, <1>6 DEF BrokerTyped, BrokerInv
<1>8. pollRmq!Gone \subseteq pollRmq!Gone' /\ pollRmq!Gone' \subseteq pollRmq!Gone \cup A
  BY <1>3, <1>4 DEF pollRmq!Gone, pollRmq!Records, BrokerInv
<1>9. pollRmq!Gone' \subseteq Accounted'
  BY <1>1, <1>2, <1>3, <1>8 DEF BrokerInv, Accounted
<1>10. channel' # "refused" /\ pollRmq!DeliveriesHeld'
  BY <1>1, <1>2, <1>3, <1>4 DEF BrokerInv, pollRmq!DeliveriesHeld
<1>11. channel' = "open" => /\ reading' \cup pending' \cup batch' \subseteq unsettled'
                            /\ reading' \cap (pending' \cup batch') = {} /\ pending' \cap batch' = {}
  BY <1>1, <1>3, <1>4 DEF BrokerInv
<1>12. BrokerInv'
  BY <1>1, <1>9, <1>10, <1>11 DEF BrokerInv
<1> QED BY <1>1, <1>2, <1>5, <1>7, <1>8, <1>12 DEF BrokerGoal

\* A new delivery is in no other place of the poller's.
LEMMA BrokerDeliver ==
  ASSUME LoopTypeOK, BrokerTyped, BrokerInv, NEW m \in Records, pollRmq!Deliver(m) \/ DeliverBody(m)
  PROVE  BrokerGoal
<1>1. /\ channel = "open" /\ m \in queue
      /\ queue' = queue \ {m} /\ unsettled' = unsettled \cup {m}
      /\ UNCHANGED <<aborted, batch, handled, reported, limit, failures, failure, consuming, channel>>
      /\ \/ reading' = reading \cup {m} /\ UNCHANGED <<pending, loop, reader>>
         \/ pending' = pending \cup {m} /\ reading' = reading /\ pollRmq!WakeReader(pending', failure)
  <2>1. CASE pollRmq!Deliver(m)
    BY <2>1 DEF pollRmq!Deliver, pollRmq!Buffer
  <2>2. CASE DeliverBody(m)
    BY <2>2 DEF DeliverBody
  <2> QED BY <2>1, <2>2
<1>2. /\ loop' \in LoopStates /\ reader' \in {"parked", "window"}
      /\ loop' = "polling" => batch' = {}
  <2>1. CASE UNCHANGED <<loop, reader>>
    BY <1>1, <2>1 DEF LoopTypeOK, BrokerTyped, BrokerInv
  <2>2. CASE pollRmq!WakeReader(pending', failure)
    BY <1>1, <2>2, Woken
  <2> QED BY <1>1, <2>1, <2>2
<1>3. aborted' \in BOOLEAN /\ failure' \in BOOLEAN /\ consuming' \in BOOLEAN /\ batch \subseteq Records
  BY <1>1 DEF LoopTypeOK, BrokerTyped
<1>4. /\ m \notin unsettled /\ m \notin reading \cup pending \cup batch
      /\ reading \cup pending \cup batch \subseteq unsettled
      /\ reading \cap (pending \cup batch) = {} /\ pending \cap batch = {}
      /\ ~aborted /\ ~failure => unsettled = reading \cup pending \cup batch
  BY <1>1 DEF BrokerTyped, BrokerInv, pollRmq!DeliveriesHeld
<1>5. /\ reading' \cup pending' \cup batch' \subseteq Records
      /\ queue' \cup unsettled' = queue \cup unsettled /\ queue' \cap unsettled' = {}
      /\ reading' \cup pending' \cup batch' \subseteq unsettled'
  BY <1>1, <1>3, <1>4 DEF BrokerTyped
<1>6. reading' \cap (pending' \cup batch') = {} /\ pending' \cap batch' = {}
  BY <1>1, <1>4
<1>7. ~aborted' /\ ~failure' => unsettled' = reading' \cup pending' \cup batch'
  BY <1>1, <1>4
<1> QED BY <1>1, <1>2, <1>3, <1>5, <1>6, <1>7, BrokerMoves

LEMMA BrokerBody ==
  ASSUME LoopTypeOK, BrokerTyped, BrokerInv, NEW m \in Records,
         pollRmq!BodyRead(m) \/ pollRmq!BodyUnreadable(m)
  PROVE  BrokerGoal
<1>1. batch \subseteq Records /\ aborted \in BOOLEAN
      /\ failure \in BOOLEAN /\ consuming \in BOOLEAN /\ channel \in {"open", "closed"}
  BY DEF LoopTypeOK, BrokerTyped, BrokerInv
<1>2. channel = "open" =>
        /\ reading \cup pending \cup batch \subseteq unsettled
        /\ reading \cap (pending \cup batch) = {} /\ pending \cap batch = {}
        /\ ~aborted /\ ~failure => unsettled = reading \cup pending \cup batch
  BY DEF BrokerInv, pollRmq!DeliveriesHeld
<1>3. CASE pollRmq!BodyRead(m)
  <2>1. /\ m \in reading /\ reading' = reading \ {m} /\ pending' = pending \cup {m}
        /\ pollRmq!WakeReader(pending', failure)
        /\ UNCHANGED <<aborted, batch, handled, reported, limit, failures, failure,
                       consuming, channel, queue, unsettled>>
    BY <1>3 DEF pollRmq!BodyRead, pollRmq!Buffer, pollRmq!brokerVars
  <2>2. /\ loop' \in LoopStates /\ reader' \in {"parked", "window"}
        /\ loop' = "polling" => batch' = {}
    BY <2>1, Woken
  <2>3. /\ aborted' \in BOOLEAN /\ failure' \in BOOLEAN /\ consuming' \in BOOLEAN
        /\ channel' \in {"open", "closed"}
    BY <1>1, <2>1
  <2>4. /\ reading' \cup pending' \cup batch' \subseteq Records
        /\ queue' \cup unsettled' = queue \cup unsettled /\ queue' \cap unsettled' = {}
    BY <1>1, <2>1 DEF BrokerTyped
  <2>5. reading' \cup pending' \cup batch' = reading \cup pending \cup batch
    BY <2>1
  <2>6. channel' = "open" => /\ reading' \cup pending' \cup batch' \subseteq unsettled'
                             /\ reading' \cap (pending' \cup batch') = {} /\ pending' \cap batch' = {}
    BY <1>2, <2>1
  <2>7. channel' = "open" /\ ~aborted' /\ ~failure' => unsettled' = reading' \cup pending' \cup batch'
    BY <1>2, <2>1, <2>5
  <2> QED BY <2>1, <2>2, <2>3, <2>4, <2>6, <2>7, BrokerMoves
<1>4. CASE pollRmq!BodyUnreadable(m)
  <2>1. /\ m \in reading /\ reading' = reading \ {m}
        /\ pollRmq!Settle({}, {m})
        /\ UNCHANGED <<loop, aborted, batch, handled, reported, limit, failures, reader, pending,
                       failure, consuming>>
    BY <1>4 DEF pollRmq!BodyUnreadable, pollRmq!loopVars
  <2>2. \/ channel # "open" /\ UNCHANGED <<channel, queue, unsettled>>
        \/ channel = "open" /\ queue' = queue \cup {m} /\ unsettled' = unsettled \ {m} /\ channel' = channel
    BY <1>2, <2>1 DEF pollRmq!Settle
  <2>3. /\ aborted' \in BOOLEAN /\ failure' \in BOOLEAN /\ consuming' \in BOOLEAN
        /\ channel' \in {"open", "closed"}
    BY <1>1, <2>1, <2>2
  <2>4. /\ loop' \in LoopStates /\ reader' \in {"parked", "window"}
        /\ loop' = "polling" => batch' = {}
    BY <2>1 DEF LoopTypeOK, BrokerTyped, BrokerInv
  <2>5. reading' \cup pending' \cup batch' \subseteq Records
    BY <1>1, <2>1 DEF BrokerTyped
  <2>6. queue' \cup unsettled' = queue \cup unsettled /\ queue' \cap unsettled' = {}
    BY <1>2, <2>1, <2>2 DEF BrokerTyped
  <2>7. channel' = "open" => /\ reading' \cup pending' \cup batch' \subseteq unsettled'
                             /\ reading' \cap (pending' \cup batch') = {} /\ pending' \cap batch' = {}
    BY <1>2, <2>1, <2>2
  <2>8. channel' = "open" /\ ~aborted' /\ ~failure' => unsettled' = reading' \cup pending' \cup batch'
    BY <1>2, <2>1, <2>2
  <2> QED BY <2>1, <2>3, <2>4, <2>5, <2>6, <2>7, <2>8, BrokerMoves
<1> QED BY <1>3, <1>4

LEMMA BrokerTakes ==
  ASSUME LoopTypeOK, BrokerTyped, BrokerInv, TakeSome
  PROVE  BrokerGoal
<1>1. /\ loop = "polling" /\ batch = {} /\ loop' \in {"returning", "handling"}
      /\ UNCHANGED <<aborted, handled, reported, limit, failures, reader, reading, failure,
                     consuming, channel, queue, unsettled>>
      /\ pending' \cup batch' = pending /\ pending' \cap batch' = {}
  <2>1. loop = "polling" /\ batch = {}
    BY DEF TakeSome, BrokerInv
  <2> QED BY <2>1 DEF TakeSome
<1>2. aborted' \in BOOLEAN /\ failure' \in BOOLEAN /\ consuming' \in BOOLEAN /\ channel' \in {"open", "closed"}
      /\ reader' \in {"parked", "window"} /\ loop' \in LoopStates
  BY <1>1 DEF LoopTypeOK, BrokerTyped, BrokerInv, LoopStates
<1>3. /\ reading' \cup pending' \cup batch' = reading \cup pending \cup batch
      /\ reading' \cup pending' \cup batch' \subseteq Records
      /\ queue' \cup unsettled' = queue \cup unsettled /\ queue' \cap unsettled' = {}
  BY <1>1 DEF BrokerTyped
<1>4. channel' = "open" => /\ reading' \cup pending' \cup batch' \subseteq unsettled'
                           /\ reading' \cap (pending' \cup batch') = {} /\ pending' \cap batch' = {}
  BY <1>1, <1>3 DEF BrokerInv
<1>5. channel' = "open" /\ ~aborted' /\ ~failure' => unsettled' = reading' \cup pending' \cup batch'
  BY <1>1, <1>3 DEF BrokerInv, pollRmq!DeliveriesHeld
<1> QED BY <1>1, <1>2, <1>3, <1>4, <1>5, BrokerMoves

\* The consumer or the connection is lost, the signal aborts, or the poller leaves.
LEMMA BrokerEnds ==
  ASSUME LoopTypeOK, BrokerTyped, BrokerInv,
         \/ pollRmq!ConsumerLost \/ pollRmq!ConnectionLost \/ pollRmq!Sigterm
         \/ pollRmq!Cancel \/ pollRmq!Disconnect
  PROVE  BrokerGoal
<1>1. aborted \in BOOLEAN /\ failure \in BOOLEAN /\ consuming \in BOOLEAN /\ channel \in {"open", "closed"}
      /\ batch \subseteq Records
  BY DEF LoopTypeOK, BrokerTyped, BrokerInv
<1>2. /\ UNCHANGED <<batch, handled, reported, limit, failures, reading, pending>>
      /\ loop' \in LoopStates /\ reader' \in {"parked", "window"}
      /\ loop' = "polling" => batch = {}
  <2>1. CASE pollRmq!ConsumerLost \/ pollRmq!ConnectionLost
    <3>1. /\ UNCHANGED <<batch, handled, reported, limit, failures, reading, pending>>
          /\ pollRmq!WakeReader(pending, TRUE)
      BY <2>1 DEF pollRmq!ConsumerLost, pollRmq!ConnectionLost, pollRmq!Fails
    <3> QED BY <3>1, Woken
  <2>2. CASE pollRmq!Sigterm
    BY <2>2 DEF pollRmq!Sigterm, pollRmq!Abort, pollRmq!pollerVars,
           LoopTypeOK, LoopStates, BrokerTyped, BrokerInv
  <2>3. CASE pollRmq!Cancel
    BY <2>3 DEF pollRmq!Cancel, pollRmq!loopVars, pollRmq!pollerVars, LoopTypeOK, BrokerTyped, BrokerInv
  <2>4. CASE pollRmq!Disconnect
    BY <2>4 DEF pollRmq!Disconnect, pollRmq!Goes, pollRmq!pollerVars,
           LoopTypeOK, LoopStates, BrokerTyped, BrokerInv
  <2> QED BY <2>1, <2>2, <2>3, <2>4
<1>3. /\ \/ aborted' = aborted
         \/ aborted' = TRUE
      /\ \/ failure' = failure
         \/ failure' = TRUE
      /\ \/ consuming' = consuming
         \/ consuming' = FALSE
      /\ \/ UNCHANGED <<channel, queue, unsettled>>
         \/ /\ channel' \in {channel, "closed"} /\ channel' # "open"
            /\ queue' = queue \cup unsettled /\ unsettled' = {}
  <2>1. CASE pollRmq!ConsumerLost
    BY <2>1 DEF pollRmq!ConsumerLost, pollRmq!Fails
  <2>2. CASE pollRmq!ConnectionLost
    BY <2>2 DEF pollRmq!ConnectionLost, pollRmq!Fails
  <2>3. CASE pollRmq!Sigterm
    BY <2>3 DEF pollRmq!Sigterm, pollRmq!Abort, pollRmq!pollerVars, pollRmq!brokerVars
  <2>4. CASE pollRmq!Cancel
    BY <2>4 DEF pollRmq!Cancel, pollRmq!loopVars, pollRmq!pollerVars
  <2>5. CASE pollRmq!Disconnect
    BY <2>5 DEF pollRmq!Disconnect, pollRmq!Goes, pollRmq!pollerVars
  <2> QED BY <2>1, <2>2, <2>3, <2>4, <2>5
<1>4. aborted' \in BOOLEAN /\ failure' \in BOOLEAN /\ consuming' \in BOOLEAN /\ channel' \in {"open", "closed"}
  BY <1>1, <1>3
<1>5. /\ reading' \cup pending' \cup batch' \subseteq Records
      /\ queue' \cup unsettled' = queue \cup unsettled /\ queue' \cap unsettled' = {}
  BY <1>1, <1>2, <1>3 DEF BrokerTyped
<1>6. channel' = "open" => UNCHANGED <<channel, unsettled>>
  BY <1>3
<1>7. ~aborted' /\ ~failure' => ~aborted /\ ~failure
  BY <1>1, <1>3
<1>8. channel' = "open" => /\ reading' \cup pending' \cup batch' \subseteq unsettled'
                           /\ reading' \cap (pending' \cup batch') = {} /\ pending' \cap batch' = {}
  BY <1>2, <1>6 DEF BrokerInv
<1>9. channel' = "open" /\ ~aborted' /\ ~failure' => unsettled' = reading' \cup pending' \cup batch'
  BY <1>2, <1>6, <1>7 DEF BrokerInv, pollRmq!DeliveriesHeld
<1> QED BY <1>2, <1>4, <1>5, <1>8, <1>9, BrokerMoves

LEMMA BrokerNext ==
  ASSUME LoopTypeOK, BrokerTyped, BrokerInv, pollRmq!Next \/ pollAmq!Next
  PROVE  BrokerGoal
<1>1. \/ TakeSome \/ pollRmq!Resumes
      \/ pollRmq!ConsumerLost \/ pollRmq!ConnectionLost \/ pollRmq!Sigterm
      \/ pollRmq!Cancel \/ pollRmq!Disconnect
      \/ \E m \in Records : \/ pollRmq!Deliver(m) \/ DeliverBody(m)
                            \/ pollRmq!BodyRead(m) \/ pollRmq!BodyUnreadable(m)
  <2>1. CASE pollRmq!Next
    <3>1. pollRmq!Records = Records
      BY DEF pollRmq!Records, Records
    <3> QED BY <2>1, <3>1, Takes DEF pollRmq!Next, pollRmq!Poll, pollRmq!Push
  <2>2. CASE pollAmq!Next
    BY <2>2, SameBroker
  <2> QED BY <2>1, <2>2
<1>2. CASE pollRmq!Resumes
  <2>1. PICK answered \in BOOLEAN, F \in SUBSET batch : pollRmq!Resume(answered, F)
    BY <1>2 DEF pollRmq!Resumes
  <2> QED BY <2>1, BrokerResumes
<1>3. ASSUME NEW m \in Records, pollRmq!Deliver(m) \/ DeliverBody(m) PROVE BrokerGoal
  BY <1>3, BrokerDeliver
<1>4. ASSUME NEW m \in Records, pollRmq!BodyRead(m) \/ pollRmq!BodyUnreadable(m) PROVE BrokerGoal
  BY <1>4, BrokerBody
<1> QED BY <1>1, <1>2, <1>3, <1>4, BrokerTakes, BrokerEnds

----------------------------------------------------------------------------

\* SQS's part of the types.
SqsTyped == visible \subseteq Records /\ deleted \subseteq Records \ visible /\ toDelete \subseteq batch

LEMMA SqsTypes == pollSqs!TypeOK <=> LoopTypeOK /\ SqsTyped
BY DEF pollSqs!TypeOK, SqsTyped, LoopTypeOK, pollSqs!LoopTypeOK, pollSqs!Records,
       Records, pollSqs!LoopStates, LoopStates

SqsGoal ==
  /\ LoopTypeOK' /\ SqsTyped' /\ SqsInv' /\ limit' = limit
  /\ handled \subseteq handled' /\ UNCHANGED reported
  /\ pollSqs!Gone \subseteq pollSqs!Gone'

LEMMA SqsNext ==
  ASSUME LoopTypeOK, SqsTyped, SqsInv, pollSqs!Next
  PROVE  SqsGoal
<1> DEFINE Kept == UNCHANGED <<handled, reported, limit, failures>>
<1>1. ASSUME NEW F
      PROVE  (pollSqs!Yield(F) => Yield(F)) /\ (pollSqs!Handled(F) => Handled(F))
  BY DEF pollSqs!Yield, pollSqs!Handled, pollSqs!Records, Yield, Handled, Records
<1>2. batch \subseteq Records /\ visible \subseteq Records /\ toDelete \subseteq batch /\ aborted \in BOOLEAN
  BY DEF LoopTypeOK, SqsTyped
<1>3. CASE pollSqs!Receive
  <2>1. PICK B \in SUBSET visible : Yield(B) /\ visible' = visible \ B /\ UNCHANGED <<deleted, toDelete>>
    BY <1>1, <1>3 DEF pollSqs!Receive
  <2>2. /\ loop = "polling" /\ Kept /\ aborted' = aborted
        /\ loop' \in {"ended", "handling"} /\ batch' \in {batch, B} /\ B \subseteq Records
    BY <1>2, <2>1 DEF Yield
  <2>3. toDelete' = {}
    BY <2>1, <2>2 DEF SqsInv
  <2>4. LoopTypeOK'
    BY <1>2, <2>2 DEF LoopTypeOK, LoopStates
  <2>5. SqsTyped' /\ SqsInv'
    BY <2>1, <2>2, <2>3 DEF SqsTyped, SqsInv, Accounted
  <2> QED BY <2>1, <2>2, <2>4, <2>5 DEF SqsGoal, pollSqs!Gone
<1>4. CASE pollSqs!Resumes
  <2>1. PICK F \in SUBSET batch :
          /\ Handled(F) /\ UNCHANGED <<reported, visible, deleted>>
          /\ toDelete' = batch \ F
          /\ \/ toDelete' = {} /\ loop' = "polling" /\ batch' = {}
             \/ loop' = "acknowledging" /\ batch' = batch
    <3>1. PICK F \in SUBSET batch : pollSqs!Resume(F)
      BY <1>4 DEF pollSqs!Resumes
    <3>2. Handled(F)
      BY <1>1, <3>1 DEF pollSqs!Resume
    <3> QED BY <3>1, <3>2 DEF pollSqs!Resume
  <2>2. /\ UNCHANGED <<aborted, limit>>
        /\ handled \subseteq handled' /\ batch \ F \subseteq handled' /\ handled' \subseteq Records
        /\ failures' \in [Records -> 0..limit + 1]
    BY <2>1, HandledTypes
  <2>3. LoopTypeOK'
    BY <2>1, <2>2 DEF LoopTypeOK, LoopStates
  <2>4. SqsTyped' /\ SqsInv'
    BY <2>1, <2>2 DEF SqsTyped, SqsInv, Accounted
  <2> QED BY <2>1, <2>2, <2>3, <2>4 DEF SqsGoal, pollSqs!Gone
<1>5. CASE pollSqs!Delete
  <2>1. PICK D \in SUBSET toDelete : deleted' = deleted \cup D /\ visible' = visible \ D
    BY <1>5 DEF pollSqs!Delete
  <2>2. /\ toDelete' = {} /\ loop' = "polling" /\ batch' = {} /\ Kept /\ aborted' = aborted
    BY <1>5 DEF pollSqs!Delete
  <2>3. LoopTypeOK'
    BY <2>2 DEF LoopTypeOK, LoopStates
  <2>4. SqsTyped' /\ SqsInv'
    BY <1>2, <2>1, <2>2 DEF SqsTyped, SqsInv, Accounted
  <2> QED BY <2>1, <2>2, <2>3, <2>4 DEF SqsGoal, pollSqs!Gone
<1> DEFINE GoesOn ==
  /\ Kept /\ UNCHANGED <<batch, deleted, toDelete>>
  /\ (aborted' = aborted \/ aborted' = TRUE)
  /\ \/ loop' = loop
     \/ loop = "polling" /\ loop' \in {"ended", "failed"}
  /\ (visible' = visible \/ \E m \in Records \ deleted : visible' = visible \cup {m})
<1>6. ASSUME GoesOn PROVE SqsGoal
  <2>1. aborted' \in BOOLEAN
    BY <1>2, <1>6
  <2>2. LoopTypeOK'
    BY <1>6, <2>1 DEF LoopTypeOK, LoopStates
  <2>3. SqsTyped' /\ SqsInv'
    BY <1>6 DEF SqsTyped, SqsInv, Accounted
  <2> QED BY <1>6, <2>2, <2>3 DEF SqsGoal, pollSqs!Gone
<1>7. CASE pollSqs!ReceiveFails \/ pollSqs!Aborted
  <2> GoesOn
    BY <1>7 DEF pollSqs!ReceiveFails, pollSqs!Aborted, pollSqs!Goes, pollSqs!queueVars
  <2> QED BY <1>6
<1>8. CASE pollSqs!Sigterm
  <2> GoesOn
    BY <1>8 DEF pollSqs!Sigterm, pollSqs!Abort, pollSqs!queueVars
  <2> QED BY <1>6
<1>9. ASSUME NEW m \in Records, pollSqs!VisibilityTimeout(m) PROVE SqsGoal
  <2>1. m \in Records \ deleted /\ visible' = visible \cup {m}
    BY <1>9 DEF pollSqs!VisibilityTimeout, pollSqs!Records, Records
  <2>2. Kept /\ UNCHANGED <<batch, deleted, toDelete, aborted, loop>>
    BY <1>9 DEF pollSqs!VisibilityTimeout, pollSqs!loopVars
  <2> QED BY <1>6, <2>1, <2>2
<1> QED
  <2>1. pollSqs!Records = Records
    BY DEF pollSqs!Records, Records
  <2> QED BY <1>3, <1>4, <1>5, <1>7, <1>8, <1>9, <2>1 DEF pollSqs!Next, pollSqs!Poll

----------------------------------------------------------------------------

\* The types of the whole, part by part.
RunnerTyped ==
  source \in Sources /\ LoopTypeOK /\ StreamTyped /\ KafkaTyped /\ BrokerTyped /\ SqsTyped

LEMMA RunnerTypes == TypeOK <=> RunnerTyped
BY StreamTypes, KafkaTypes, BrokerTypes, SqsTypes DEF TypeOK, RunnerTyped

LEMMA RunnerInit == Init => RunnerTyped /\ RunnerInv
<1> SUFFICES ASSUME Init PROVE RunnerTyped /\ RunnerInv
  OBVIOUS
<1>1. /\ source \in Sources /\ pollKinesis!LoopInit
      /\ arrived \in 0..1 /\ trimmed = 0 /\ closed = FALSE
      /\ pc = "seeking" /\ position \in {pollKinesis!LATEST, pollKinesis!TRIM_HORIZON}
      /\ iterator = 0 /\ fresh = TRUE /\ next = 0 /\ retry = NoRetry /\ begin = 0
  BY DEF Init, pollKinesis!Init, pollKinesis!NoRetry, NoRetry
<1>2. /\ each = "none" /\ inflightIds = {} /\ unresolved = {} /\ rebalance = FALSE /\ rejections = 0
      /\ retries = [p \in {0, 1} |-> NoRetry] /\ crashed = FALSE
      /\ committed = [p \in {0, 1} |-> 0]
  BY DEF Init, pollKafka!Init, pollKafka!NoRetry, NoRetry, pollKafka!Partitions
<1>3. /\ reader = "parked" /\ reading = {} /\ pending = {} /\ failure = FALSE
      /\ consuming = TRUE /\ channel = "open" /\ queue = Records /\ unsettled = {}
      /\ visible = Records /\ deleted = {} /\ toDelete = {}
  BY DEF Init, pollRmq!Init, pollSqs!Init, pollRmq!Records, pollSqs!Records, Records
<1>4. /\ loop = "polling" /\ aborted = FALSE /\ batch = {}
      /\ handled = {} /\ reported = {}
      /\ limit \in -1..MaxRetries /\ failures = [r \in Records |-> 0]
  BY <1>1 DEF pollKinesis!LoopInit, pollKinesis!Records, Records
<1>5. limit \in Int /\ 0 \in 0..limit + 1 /\ 0 \in 0..MaxRecords
  BY <1>4
<1>6. LoopTypeOK
  BY <1>4, <1>5 DEF LoopTypeOK, LoopStates
<1>7. NoRetry \in Attempts /\ Counted(NoRetry)
  BY <1>5 DEF NoRetry, Attempts, Counted, Records
<1>8. StreamTyped
  <2>1. arrived \in 0..MaxRecords /\ trimmed \in 0..arrived
    BY <1>1
  <2>2. position \in pollKinesis!Positions
    BY <1>1, PositionsAre
  <2>3. 0 \in 0..MaxRecords + 1
    OBVIOUS
  <2>4. retry \in [from : 0..MaxRecords, attempt : 0..limit + 1]
    BY <1>1, <1>7 DEF Attempts
  <2> QED BY <1>1, <2>1, <2>2, <2>3, <2>4 DEF StreamTyped, pollKinesis!PollStates
<1>9. StreamInv
  <2>1. position.seq = 0
    BY <1>1 DEF pollKinesis!LATEST, pollKinesis!TRIM_HORIZON
  <2> QED BY <1>1, <1>4, <1>7, <2>1 DEF StreamInv
<1>10. KafkaTyped
  <2>1. rejections \in 0..MaxRejections
    BY <1>2, SourcesAssumption
  <2>2. retries \in [{0, 1} -> Attempts] /\ committed \in [{0, 1} -> 0..MaxRecords]
    BY <1>2, <1>5, <1>7
  <2> QED BY <1>2, <2>1, <2>2 DEF KafkaTyped
<1>11. KafkaInv
  <2>1. \A r \in Records : ~(r <= committed[r % 2])
    <3>1. ASSUME NEW r \in Records PROVE committed[r % 2] = 0 /\ r \in Nat /\ r # 0
      BY <1>2, Parity DEF Records
    <3> QED BY <3>1
  <2>2. Counted(retries[0]) /\ Counted(retries[1])
    BY <1>2, <1>7
  <2>3. pollKafka!Gone = {}
    BY <2>1, KafkaLoop
  <2> QED BY <1>2, <1>4, <2>2, <2>3 DEF KafkaInv
<1>12. BrokerTyped
  BY <1>3 DEF BrokerTyped
<1>13. BrokerInv
  BY <1>3, <1>4 DEF BrokerInv, pollRmq!DeliveriesHeld, pollRmq!Gone, pollRmq!Records, Records
<1>14. SqsTyped /\ SqsInv
  BY <1>3, <1>4 DEF SqsTyped, SqsInv
<1> QED BY <1>1, <1>3, <1>6, <1>8, <1>9, <1>10, <1>11, <1>12, <1>13, <1>14 DEF RunnerTyped, RunnerInv

\* A step of Delivery, but for what Gone is accounted for by.
Delivers ==
  /\ handled \subseteq handled' /\ reported \subseteq reported' /\ Gone \subseteq Gone'

\* Each source's own notion of what is gone.
LEMMA WhatIsGone ==
  /\ source \in Streams => Gone = pollKinesis!Gone
  /\ source = "aws:kafka" => Gone = pollKafka!Gone
  /\ source \in Brokers => Gone = pollRmq!Gone
  /\ source = "aws:sqs" => Gone = pollSqs!Gone
<1>1. ~("aws:kafka" \in Streams) /\ ~("aws:kafka" \in Brokers)
      /\ ~("aws:sqs" \in Streams) /\ ~("aws:sqs" \in Brokers)
      /\ (source \in Brokers => ~(source \in Streams) /\ ~(source = "aws:kafka"))
      /\ ~("aws:sqs" = "aws:kafka")
  BY DEF Streams, Brokers
<1> QED BY <1>1, Zenon DEF Gone

LEMMA GoneIsAccounted ==
  ASSUME RunnerTyped, RunnerInv
  PROVE  Gone \subseteq Accounted
<1>1. /\ source \in Streams => pollKinesis!Gone \subseteq Accounted
      /\ source = "aws:kafka" => pollKafka!Gone \subseteq Accounted
      /\ source \in Brokers => pollRmq!Gone \subseteq Accounted
      /\ source = "aws:sqs" => pollSqs!Gone \subseteq Accounted
  BY DEF pollKinesis!Gone, pollSqs!Gone, RunnerInv, StreamInv, KafkaInv, BrokerInv, SqsInv
<1> QED BY <1>1, WhatIsGone DEF RunnerTyped, Sources

LEMMA WhatIsGoneNext ==
  /\ source' \in Streams => Gone' = pollKinesis!Gone'
  /\ source' = "aws:kafka" => Gone' = pollKafka!Gone'
  /\ source' \in Brokers => Gone' = pollRmq!Gone'
  /\ source' = "aws:sqs" => Gone' = pollSqs!Gone'
<1>1. (/\ source \in Streams => Gone = pollKinesis!Gone
       /\ source = "aws:kafka" => Gone = pollKafka!Gone
       /\ source \in Brokers => Gone = pollRmq!Gone
       /\ source = "aws:sqs" => Gone = pollSqs!Gone)'
  BY WhatIsGone, PTL
<1> QED BY <1>1

LEMMA GoneIsAccountedNext ==
  ASSUME RunnerTyped', RunnerInv'
  PROVE  Gone' \subseteq Accounted'
<1>1. (RunnerTyped /\ RunnerInv => Gone \subseteq Accounted)'
  BY GoneIsAccounted, PTL
<1> QED BY <1>1

\* Every step of every poller, the others' variables unchanged.
LEMMA RunnerStep ==
  ASSUME RunnerTyped, RunnerInv, [Next]_vars
  PROVE  RunnerTyped' /\ RunnerInv' /\ Delivers /\ Discards
<1> DEFINE Goal == RunnerTyped' /\ RunnerInv' /\ Delivers /\ Discards
<1> SUFFICES Goal
  OBVIOUS
<1>s. "aws:kafka" \notin Streams \cup Brokers /\ "aws:sqs" \notin Streams \cup Brokers
      /\ Streams \cap Brokers = {}
  BY DEF Streams, Brokers
<1>t. source \in Sources /\ LoopTypeOK /\ StreamTyped /\ KafkaTyped /\ BrokerTyped /\ SqsTyped
  BY DEF RunnerTyped
<1>1. ASSUME source \in Streams, source' = source, pollKinesis!Next \/ pollDynamoDBStreams!Next,
             UNCHANGED <<kafkaVars, brokerVars, sqsVars>>
      PROVE  Goal
  <2>1. StreamGoal /\ Discards
    BY <1>1, <1>t, StreamNext DEF RunnerInv
  <2>2. limit' = limit /\ UNCHANGED <<kafkaVars, brokerVars, sqsVars>>
    BY <1>1, <2>1 DEF StreamGoal
  <2>3. KafkaTyped' /\ BrokerTyped'
    BY <1>t, <2>2 DEF KafkaTyped, BrokerTyped, Attempts, kafkaVars, brokerVars
  <2>4. toDelete' = {} /\ SqsTyped'
    BY <1>1, <1>s, <1>t, <2>2 DEF RunnerInv, SqsTyped, sqsVars
  <2>5. RunnerTyped'
    BY <1>1, <1>t, <2>1, <2>3, <2>4 DEF RunnerTyped, StreamGoal
  <2>6. RunnerInv'
    BY <1>1, <1>s, <2>1, <2>4 DEF RunnerInv, StreamGoal
  <2>7. Delivers
    BY <1>1, <2>1, WhatIsGone, WhatIsGoneNext DEF Delivers, StreamGoal
  <2> QED BY <2>1, <2>5, <2>6, <2>7
<1>2. ASSUME source = "aws:kafka", source' = source, pollKafka!Next,
             UNCHANGED <<streamVars, brokerVars, sqsVars>>
      PROVE  Goal
  <2>1. KafkaGoal /\ Discards
    BY <1>2, <1>t, KafkaNext DEF RunnerInv
  <2>2. limit' = limit /\ UNCHANGED <<streamVars, brokerVars, sqsVars>>
    BY <1>2, <2>1 DEF KafkaGoal
  <2>3. StreamTyped' /\ BrokerTyped'
    BY <1>t, <2>2 DEF StreamTyped, BrokerTyped, streamVars, brokerVars
  <2>4. toDelete' = {} /\ SqsTyped'
    BY <1>2, <1>s, <1>t, <2>2 DEF RunnerInv, SqsTyped, sqsVars
  <2>5. RunnerTyped'
    BY <1>2, <1>t, <2>1, <2>3, <2>4 DEF RunnerTyped, KafkaGoal
  <2>6. RunnerInv'
    BY <1>2, <1>s, <2>1, <2>4 DEF RunnerInv, KafkaGoal
  <2>7. Delivers
    BY <1>2, <1>s, <2>1, WhatIsGone, WhatIsGoneNext DEF Delivers, KafkaGoal
  <2> QED BY <2>1, <2>5, <2>6, <2>7
<1>3. ASSUME source \in Brokers, source' = source, pollRmq!Next \/ pollAmq!Next,
             UNCHANGED <<streamVars, kafkaVars, sqsVars>>
      PROVE  Goal
  <2>1. BrokerGoal
    BY <1>3, <1>t, BrokerNext DEF RunnerInv
  <2>2. limit' = limit /\ UNCHANGED <<streamVars, kafkaVars, sqsVars>>
    BY <1>3, <2>1 DEF BrokerGoal
  <2>3. StreamTyped' /\ KafkaTyped'
    BY <1>t, <2>2 DEF StreamTyped, KafkaTyped, Attempts, streamVars, kafkaVars
  <2>4. toDelete' = {} /\ SqsTyped'
    BY <1>3, <1>s, <1>t, <2>2 DEF RunnerInv, SqsTyped, sqsVars
  <2>5. RunnerTyped'
    BY <1>3, <1>t, <2>1, <2>3, <2>4 DEF RunnerTyped, BrokerGoal
  <2>6. RunnerInv'
    BY <1>3, <1>s, <2>1, <2>4 DEF RunnerInv, BrokerGoal
  <2>7. Delivers /\ Discards
    BY <1>3, <1>s, <2>1, WhatIsGone, WhatIsGoneNext DEF Delivers, BrokerGoal, Discards
  <2> QED BY <2>5, <2>6, <2>7
<1>4. ASSUME source = "aws:sqs", source' = source, pollSqs!Next,
             UNCHANGED <<streamVars, kafkaVars, brokerVars>>
      PROVE  Goal
  <2>1. SqsGoal
    BY <1>4, <1>t, SqsNext DEF RunnerInv
  <2>2. limit' = limit /\ UNCHANGED <<streamVars, kafkaVars, brokerVars>>
    BY <1>4, <2>1 DEF SqsGoal
  <2>3. StreamTyped' /\ KafkaTyped' /\ BrokerTyped'
    BY <1>t, <2>2 DEF StreamTyped, KafkaTyped, BrokerTyped, Attempts, streamVars, kafkaVars, brokerVars
  <2>5. RunnerTyped'
    BY <1>4, <1>t, <2>1, <2>3 DEF RunnerTyped, SqsGoal
  <2>6. RunnerInv'
    BY <1>4, <1>s, <2>1 DEF RunnerInv, SqsGoal
  <2>7. Delivers /\ Discards
    BY <1>4, <1>s, <2>1, WhatIsGone, WhatIsGoneNext DEF Delivers, SqsGoal, Discards
  <2> QED BY <2>5, <2>6, <2>7
<1>5. CASE UNCHANGED vars
  <2> USE DEF vars, loopVars, streamVars, kafkaVars, brokerVars, sqsVars
  <2>1. LoopTypeOK' /\ StreamTyped'
    BY <1>5, <1>t DEF LoopTypeOK, StreamTyped
  <2>2. KafkaTyped' /\ BrokerTyped' /\ SqsTyped'
    BY <1>5, <1>t DEF KafkaTyped, BrokerTyped, SqsTyped, Attempts
  <2>3. RunnerTyped'
    BY <1>5, <1>t, <2>1, <2>2 DEF RunnerTyped
  <2>4. Accounted' = Accounted /\ Counted(retry)' = Counted(retry) /\ Counted(retries[0])' = Counted(retries[0])
        /\ Counted(retries[1])' = Counted(retries[1]) /\ Resumable' = Resumable
    BY <1>5 DEF Accounted, Counted, Resumable
  <2>5. /\ pollKafka!Gone' = pollKafka!Gone /\ pollKinesis!Gone' = pollKinesis!Gone
        /\ pollRmq!Gone' = pollRmq!Gone /\ pollSqs!Gone' = pollSqs!Gone
    BY <1>5 DEF pollKafka!Gone, pollKinesis!Gone, pollRmq!Gone, pollSqs!Gone, pollKafka!Records, pollRmq!Records
  <2>6. source \in Streams => StreamInv'
    BY <1>5, <2>4 DEF StreamInv, RunnerInv, Accounted, Counted, Resumable
  <2>7. source = "aws:kafka" => KafkaInv'
    BY <1>5, <2>4, <2>5 DEF KafkaInv, RunnerInv
  <2>8. source \in Brokers => BrokerInv'
    BY <1>5, <2>4, <2>5 DEF BrokerInv, RunnerInv, pollRmq!DeliveriesHeld
  <2>9. RunnerInv'
    BY <1>5, <2>4, <2>6, <2>7, <2>8 DEF RunnerInv, SqsInv
  <2>10. Delivers /\ Discards
    BY <1>5, <2>5 DEF Delivers, Discards, Gone
  <2> QED BY <2>3, <2>9, <2>10
<1> QED BY <1>1, <1>2, <1>3, <1>4, <1>5 DEF Next, Polls, Streams, Brokers

\* The inductive invariant: every reachable state of the runner is well typed, and the
\* poller of its source stands as its invariant says.
THEOREM RunnerCorrect == Spec => [](RunnerTyped /\ RunnerInv)
<1>1. Init => RunnerTyped /\ RunnerInv
  BY RunnerInit
<1>2. RunnerTyped /\ RunnerInv /\ [Next]_vars => (RunnerTyped /\ RunnerInv)'
  BY RunnerStep
<1> QED BY <1>1, <1>2, PTL DEF Spec

\* Every variable of the poll loop and of the six pollers keeps to its type.
THEOREM RunnerTypeCorrect == Spec => []TypeOK
BY RunnerCorrect, RunnerTypes, PTL

\* No delivery of a broker is acked or nacked twice, or after it was requeued: the broker
\* never closes the channel on a protocol error of the poller's.
THEOREM DeliveriesAreSettledOnce == Spec => []SettledOnce
<1>1. RunnerTyped /\ RunnerInv => SettledOnce
  BY DEF RunnerInv, BrokerInv, SettledOnce, pollRmq!SettledOnce
<1> QED BY <1>1, RunnerCorrect, PTL

\* While a broker's poller is in order, every unsettled delivery is being read, buffered
\* or in the handler's batch: none of the prefetch window leaks.
THEOREM DeliveriesAreHeld == Spec => []DeliveriesHeld
<1>1. RunnerTyped /\ RunnerInv => DeliveriesHeld
  BY DEF RunnerInv, BrokerInv, DeliveriesHeld
<1> QED BY <1>1, RunnerCorrect, PTL

\* The runner implements Delivery: with every source, a record leaves it for good only
\* once the handler has succeeded with it or its loss was reported.
THEOREM RunnerImplementsDelivery == Spec => ImplementsDelivery
<1>1. Init => Promise!Init
  <2> SUFFICES ASSUME Init PROVE Promise!Init
    OBVIOUS
  <2>1. handled = {} /\ reported = {}
    BY DEF Init, pollKinesis!Init, pollKinesis!LoopInit
  <2>2. Gone \subseteq Accounted
    BY RunnerInit, GoneIsAccounted
  <2> QED BY <2>1, <2>2 DEF Promise!Init, Accounted
<1>2. ASSUME RunnerTyped, RunnerInv, [Next]_vars
      PROVE  [Promise!Progress]_<<handled, reported, Gone>>
  <2>1. RunnerTyped' /\ RunnerInv' /\ Delivers
    BY <1>2, RunnerStep
  <2>2. Gone' \subseteq Accounted'
    BY <2>1, GoneIsAccountedNext
  <2>3. handled' \subseteq Records /\ reported' \subseteq Records
    BY <2>1 DEF RunnerTyped, LoopTypeOK
  <2> QED BY <2>1, <2>2, <2>3 DEF Promise!Progress, Delivers, Accounted
<1> QED BY <1>1, <1>2, RunnerCorrect, PTL DEF Spec, ImplementsDelivery, Promise!Spec

\* Records are given up on only after their batch's lowest failed record failed more
\* often than maxRetryAttempts allows.
THEOREM RecordsAreDiscardedExhausted == Spec => DiscardsExhausted
<1>1. ASSUME RunnerTyped, RunnerInv, [Next]_vars
      PROVE  [loop = "handling" /\ reported' # reported =>
                \E r \in batch \cap reported' :
                   failures'[r] > limit /\ \A q \in reported' \ reported : r <= q]_vars
  BY <1>1, RunnerStep DEF Discards
<1> QED BY <1>1, RunnerCorrect, PTL DEF Spec, DiscardsExhausted

----------------------------------------------------------------------------
(* The payloads of the records: @middy/event-normalizer, event-batch-parser *)
(* and event-batch-response.                                               *)
CONSTANT Received
VARIABLES delivery, middlewares, called, turn, items, snapshot, settled, result
records == INSTANCE RecordPayloads WITH chain <- middlewares, at <- called

Hooks == {"event-normalizer", "event-batch-parser", "event-batch-response"}
PayloadsSent == {"json", "text", "broken", "forbidden", "framed", "oversized", "absent"}
FieldValues == [is : {"absent", "delivered", "text", "value"}, of : PayloadsSent \cup {"junk"}]
Item == [fields : [records!Fields(records!Source) -> FieldValues], kept : FieldValues \cup {records!Unkept},
         failed : BOOLEAN]
Named(n) == \E k \in 1..Len(middlewares) : middlewares[k] = n
RecordsTyped ==
  /\ records!Source \in {"kafka", "firehose", "sqs"}
  /\ delivery.payload \in [1..Received -> [records!Fields(records!Source) -> records!Payloads(records!Source)]]
  /\ middlewares \in Seq(Hooks) /\ called \in 0..Len(middlewares) /\ turn \in 1..Received
  /\ items \in [1..Received -> Item] /\ settled \in [1..Received -> {"none", "fulfilled", "rejected"}]
  /\ result \in {"pending", "reported", "refused"}
\* No middleware is registered twice, and event-batch-response is.
ChainOnce ==
  /\ \A k, l \in 1..Len(middlewares) : middlewares[k] = middlewares[l] => k = l
  /\ Named("event-batch-response")
\* The middleware n has handled the record r.
Ran(n, r) ==
  \/ \E k \in 1..called : middlewares[k] = n
  \/ called < Len(middlewares) /\ middlewares[called + 1] = n /\ r < turn
AtFirst == called < Len(middlewares) /\ middlewares[called + 1] = "event-batch-response" => turn = 1
\* What is kept of a record is what was delivered, and so is what is not replaced.
KeptAs(item, payload) ==
  IF item.kept = records!Unkept THEN item.fields["value"] = records!Delivered(payload)
  ELSE item.kept = records!Delivered(payload)
Untouched(r) == items[r].kept = records!Unkept
Kept(r) ==
  /\ KeptAs(items[r], delivery.payload[r]["value"])
  /\ snapshot # <<>> /\ Untouched(r) => snapshot[r] = records!Delivered(delivery.payload[r]["value"])
Snapped == (\E k \in 1..called : middlewares[k] = "event-batch-response") => snapshot # <<>>
IsParsed(item) == \A f \in records!Fields(records!Source) : item.fields[f].is \in {"absent", "value"}
\* A parsed record that has not failed is parsed for good, and one that no normalizer has
\* changed fails for what it is.
Fares(r) ==
  /\ Ran("event-batch-parser", r) /\ items[r].failed = FALSE => IsParsed(items[r])
  /\ ~Named("event-normalizer") /\ ~Ran("event-batch-parser", r) =>
       /\ items[r].failed = FALSE
       /\ \A f \in records!Fields(records!Source) : items[r].fields[f] = records!Delivered(delivery.payload[r][f])
  /\ items[r].failed => Named("event-normalizer") \/ ~records!Good(r)
  /\ settled[r] = "fulfilled" => called = Len(middlewares) /\ items[r].failed = FALSE
Refusal ==
  /\ result = "refused" \/ (result = "reported" /\ called < Len(middlewares)) =>
       \E q \in 1..Received : \E f \in records!Fields(records!Source) : records!Undecodable(items[q].fields[f])
  /\ result = "reported" => snapshot # <<>>
RecordsInv ==
  /\ RecordsTyped /\ ChainOnce /\ AtFirst /\ Snapped /\ Refusal
  /\ \A r \in 1..Received : Kept(r) /\ Fares(r)

\* Every record has a value, one of kafka has a key too.
LEMMA FieldsAre ==
  /\ "value" \in records!Fields(records!Source)
  /\ records!Fields(records!Source) \subseteq {"key", "value"}
BY DEF records!Fields

\* What a producer writes.
LEMMA PayloadsAre ==
  ASSUME records!Source \in {"kafka", "firehose", "sqs"} PROVE records!Payloads(records!Source) \subseteq PayloadsSent
BY DEF records!Payloads, PayloadsSent

\* A payload as it was delivered tells which it was.
LEMMA DeliveredIs ==
  ASSUME NEW p \in PayloadsSent
  PROVE  /\ records!Delivered(p) \in FieldValues /\ records!Delivered(p) # records!Unkept
         /\ records!Delivered(p).of = p /\ records!Delivered(p).is = IF p = "absent" THEN "absent" ELSE "delivered"
BY DEF records!Delivered, FieldValues, PayloadsSent, records!Unkept

\* Replacing a field keeps what was delivered.
LEMMA Replaced ==
  ASSUME NEW item \in Item, NEW f \in records!Fields(records!Source), NEW v \in FieldValues
  PROVE  LET new == records!ReplaceField(item, f, v)
         IN  /\ new \in Item /\ new.failed = item.failed /\ new.fields = [item.fields EXCEPT ![f] = v]
             /\ \A p \in PayloadsSent : KeptAs(item, p) => KeptAs(new, p)
             /\ new.kept = records!Unkept => item.kept = records!Unkept
<1> DEFINE new == records!ReplaceField(item, f, v)
<1>1. /\ item.fields \in [records!Fields(records!Source) -> FieldValues] /\ item.failed \in BOOLEAN
      /\ item.kept \in FieldValues \cup {records!Unkept}
  BY DEF Item
<1>2. item.fields["value"] \in FieldValues
  BY <1>1, FieldsAre
<1>3. new = [item EXCEPT !.fields[f] = v,
                         !.kept = IF f = "value" /\ @ = records!Unkept THEN item.fields["value"] ELSE @]
  BY <1>1 DEF records!ReplaceField
<1> DEFINE kept == IF f = "value" /\ item.kept = records!Unkept THEN item.fields["value"] ELSE item.kept
<1>4. new \in Item /\ new.fields = [item.fields EXCEPT ![f] = v] /\ new.kept = kept
  <2>1. kept \in FieldValues \cup {records!Unkept}
    BY <1>1, <1>2
  <2>2. new = [item EXCEPT !.fields[f] = v, !.kept = kept]
    BY <1>1, <1>3 DEF Item
  <2> HIDE DEF new, kept
  <2>3. new.fields = [item.fields EXCEPT ![f] = v] /\ new.kept = kept
    BY <2>2 DEF Item
  <2>4. new \in Item
    BY <2>1, <2>2 DEF Item
  <2> QED BY <2>3, <2>4
<1>5. new.failed = item.failed
  BY <1>3, Zenon DEF Item
<1> HIDE DEF new
<1>6. ASSUME NEW p \in PayloadsSent, KeptAs(item, p) PROVE KeptAs(new, p)
  <2>1. CASE item.kept # records!Unkept
    BY <1>4, <1>6, <2>1 DEF KeptAs
  <2>2. CASE item.kept = records!Unkept /\ f = "value"
    BY <1>4, <1>6, <2>2, DeliveredIs DEF KeptAs
  <2>3. CASE item.kept = records!Unkept /\ f # "value"
    <3>1. new.fields["value"] = item.fields["value"]
      BY <1>1, <1>4, <2>3, FieldsAre
    <3> QED BY <1>4, <1>6, <2>3, <3>1 DEF KeptAs
  <2> QED BY <2>1, <2>2, <2>3
<1>7. new.kept = records!Unkept => item.kept = records!Unkept
  <2>1. records!Unkept \notin FieldValues
    BY DEF records!Unkept, FieldValues
  <2> QED BY <1>2, <1>4, <2>1
<1> QED BY <1>4, <1>5, <1>6, <1>7 DEF new

\* What a step of a middleware does to a record: it stays one, and what was delivered is kept.
Succeeds(old, new) ==
  /\ new \in Item
  /\ \A p \in PayloadsSent : KeptAs(old, p) => KeptAs(new, p)
  /\ new.kept = records!Unkept => old.kept = records!Unkept

\* What is parsed already stays as it is.
LEMMA NormalizedIs ==
  ASSUME NEW v \in FieldValues
  PROVE  /\ records!Normalized(v) \in FieldValues
         /\ v.is \in {"absent", "value"} => records!Normalized(v) = v
<1>1. v.is \in {"absent", "delivered", "text", "value"} /\ v.of \in PayloadsSent \cup {"junk"}
  BY DEF FieldValues
<1>2. records!Value("json") \in FieldValues /\ records!Text(v.of) \in FieldValues
  BY <1>1 DEF FieldValues, records!Value, records!Text, PayloadsSent
<1>3. CASE v.is \in {"absent", "value"} \/ v.of = "forbidden"
  <2>1. records!Normalized(v) = v
    BY <1>3 DEF records!Normalized
  <2> QED BY <2>1
<1>4. CASE ~(v.is \in {"absent", "value"} \/ v.of = "forbidden")
  <2>1. records!Normalized(v) = IF v.of = "json" THEN records!Value("json") ELSE records!Text(v.of)
    BY <1>4 DEF records!Normalized
  <2> QED BY <1>2, <1>4, <2>1
<1> QED BY <1>3, <1>4

\* event-normalizer keeps what was delivered, and undoes nothing the parser did.
LEMMA RecordNormalized ==
  ASSUME NEW item \in Item
  PROVE  LET new == records!NormalizeFields(item)
         IN  Succeeds(item, new) /\ new.failed = item.failed /\ (IsParsed(item) => IsParsed(new))
<1> DEFINE first == IF "key" \in DOMAIN item.fields /\ item.fields.key.is # "absent"
                    THEN records!ReplaceField(item, "key", records!Normalized(item.fields.key)) ELSE item
           new == records!NormalizeFields(item)
<1>1. item.fields \in [records!Fields(records!Source) -> FieldValues]
  BY DEF Item
<1>2. Succeeds(item, first) /\ first.failed = item.failed /\ (IsParsed(item) => IsParsed(first))
  <2>1. CASE "key" \in DOMAIN item.fields /\ item.fields["key"].is # "absent"
    <3>1. /\ "key" \in records!Fields(records!Source) /\ item.fields["key"] \in FieldValues
          /\ records!Normalized(item.fields["key"]) \in FieldValues
          /\ item.fields["key"].is = "value" => records!Normalized(item.fields["key"]) = item.fields["key"]
      BY <1>1, <2>1, NormalizedIs
    <3>2. first = records!ReplaceField(item, "key", records!Normalized(item.fields["key"]))
      BY <2>1
    <3>3. Succeeds(item, first) /\ first.failed = item.failed
          /\ first.fields = [item.fields EXCEPT !["key"] = records!Normalized(item.fields["key"])]
      BY <3>1, <3>2, Replaced DEF Succeeds
    <3>4. IsParsed(item) => IsParsed(first)
      BY <1>1, <3>1, <3>3, <2>1 DEF IsParsed
    <3> QED BY <3>3, <3>4
  <2>2. CASE ~("key" \in DOMAIN item.fields /\ item.fields["key"].is # "absent")
    BY <2>2 DEF Succeeds
  <2> QED BY <2>1, <2>2
<1> DEFINE second == records!ReplaceField(first, "value", records!Normalized(item.fields["value"]))
<1>3. new \in {first, second}
  BY DEF records!NormalizeFields
<1>4. Succeeds(first, second) /\ second.failed = first.failed /\ (IsParsed(item) => IsParsed(second))
  <2>1. first \in Item /\ "value" \in records!Fields(records!Source)
        /\ records!Normalized(item.fields["value"]) \in FieldValues
    BY <1>1, <1>2, FieldsAre, NormalizedIs DEF Succeeds
  <2> HIDE DEF first
  <2>2. Succeeds(first, second) /\ second.failed = first.failed
        /\ second.fields = [first.fields EXCEPT !["value"] = records!Normalized(item.fields["value"])]
    BY <2>1, Replaced DEF Succeeds
  <2> HIDE DEF second
  <2>3. ASSUME IsParsed(item) PROVE IsParsed(second)
    <3>1. /\ records!Normalized(item.fields["value"]) = item.fields["value"]
          /\ item.fields["value"].is \in {"absent", "value"}
      BY <1>1, <2>1, <2>3, NormalizedIs DEF IsParsed
    <3>2. first.fields \in [records!Fields(records!Source) -> FieldValues] /\ IsParsed(first)
      BY <1>2, <2>1, <2>3 DEF Item
    <3> QED BY <2>2, <3>1, <3>2 DEF IsParsed
  <2> QED BY <2>2, <2>3
<1> HIDE DEF first, second, new
<1>5. Succeeds(item, second)
  BY <1>2, <1>4 DEF Succeeds
<1>6. first.failed = item.failed /\ second.failed = item.failed
  BY <1>2, <1>4
<1>7. Succeeds(item, new)
  BY <1>2, <1>3, <1>5
<1>8. new.failed = item.failed
  BY <1>3, <1>6
<1>9. IsParsed(item) => IsParsed(new)
  BY <1>2, <1>3, <1>4
<1> QED BY <1>7, <1>8, <1>9 DEF new

Failed == records!Unparsable

\* A failure is not a field.
LEMMA FailedIs ==
  Failed \notin FieldValues
BY DEF Failed, records!Unparsable, FieldValues

\* What parsing a field comes to: a value, nothing for nothing, or a failure, of what was
\* delivered as it is only when it cannot be parsed.
LEMMA ParsesToIs ==
  ASSUME NEW v \in FieldValues, NEW w \in records!ParsesTo(v)
  PROVE  /\ w = Failed \/ (w \in FieldValues /\ w.is \in {"absent", "value"})
         /\ w # Failed /\ w.is = "absent" => w = v
         /\ \A p \in PayloadsSent :
              v = records!Delivered(p) /\ w = Failed => p \notin {"json", "framed", "absent"}
<1>1. /\ v.is \in {"absent", "delivered", "text", "value"} /\ v.of \in PayloadsSent \cup {"junk"}
      /\ v = [is |-> v.is, of |-> v.of]
  BY DEF FieldValues
<1>2. /\ records!Value("json") \in FieldValues /\ records!Value("json").is = "value"
      /\ records!Value("junk") \in FieldValues /\ records!Value("junk").is = "value"
  BY DEF records!Value, FieldValues, PayloadsSent
<1>3. \A p \in PayloadsSent : v = records!Delivered(p) =>
        v.of = p /\ v.is = IF p = "absent" THEN "absent" ELSE "delivered"
  BY DeliveredIs
<1>4. CASE v.is = "absent"
  <2>1. records!ParsesTo(v) = {v}
    BY <1>4 DEF records!ParsesTo
  <2> QED BY <1>4, <2>1, FailedIs
<1>5. CASE v.is = "value" \/ (v.is = "text" /\ records!Source # "sqs")
  <2>1. w \in {records!Unparsable, records!Value("junk")}
    BY <1>5 DEF records!ParsesTo
  <2>2. \A p \in PayloadsSent : v # records!Delivered(p)
    BY <1>3, <1>5
  <2> QED BY <1>2, <2>1, <2>2 DEF Failed
<1>6. CASE v.is \notin {"absent", "value"} /\ ~(v.is = "text" /\ records!Source # "sqs")
  <2>1. records!ParsesTo(v) = IF v.of \in {"json", "framed"} THEN {records!Value("json")} ELSE {records!Unparsable}
    BY <1>6 DEF records!ParsesTo
  <2>2. CASE v.of \in {"json", "framed"}
    <3>1. w = records!Value("json")
      BY <2>1, <2>2
    <3> QED BY <1>2, <3>1, FailedIs
  <2>3. CASE v.of \notin {"json", "framed"}
    <3>1. w = Failed
      BY <2>1, <2>3 DEF Failed
    <3> QED BY <1>3, <1>6, <2>3, <3>1
  <2> QED BY <2>2, <2>3
<1> QED BY <1>1, <1>4, <1>5, <1>6

\* What parsing the field f makes of a record.
ParsedOf(item, f, new) ==
  /\ Succeeds(item, new)
  /\ item.failed => new = item
  /\ \A g \in records!Fields(records!Source) : g # f => new.fields[g] = item.fields[g]
  /\ new.failed = FALSE /\ f \in records!Fields(records!Source) => new.fields[f].is \in {"absent", "value"}
  /\ new.failed /\ item.failed = FALSE =>
       /\ f \in records!Fields(records!Source)
       /\ \A p \in PayloadsSent : item.fields[f] = records!Delivered(p) => p \notin {"json", "framed", "absent"}

\* What parseField makes of a field, for the parser that it is.
LEMMA FieldParsed ==
  ASSUME NEW item \in Item, NEW f, NEW new \in records!ParseField(item, f) PROVE ParsedOf(item, f, new)
<1> USE DEF ParsedOf
<1>1. item.fields \in [records!Fields(records!Source) -> FieldValues] /\ item.failed \in BOOLEAN
  BY DEF Item
<1>2. CASE item.failed \/ f \notin DOMAIN item.fields
  <2>1. new = item
    BY <1>2 DEF records!ParseField
  <2> QED BY <1>1, <1>2, <2>1 DEF Succeeds
<1>3. CASE ~(item.failed \/ f \notin DOMAIN item.fields)
  <2>1. f \in records!Fields(records!Source) /\ item.failed = FALSE /\ item.fields[f] \in FieldValues
    BY <1>1, <1>3
  <2>2. PICK v \in records!ParsesTo(item.fields[f]) :
          new = CASE v = records!Unparsable -> [item EXCEPT !.failed = TRUE]
                  [] v.is = "absent" -> item
                  [] OTHER -> records!ReplaceField(item, f, v)
    BY <1>3 DEF records!ParseField
  <2>3. CASE v = Failed
    <3>6. Failed.is = "error"
      BY DEF Failed, records!Unparsable
    <3>1. new = [item EXCEPT !.failed = TRUE]
      BY <2>2, <2>3, <3>6 DEF Failed
    <3>2. new \in Item /\ new.fields = item.fields /\ new.kept = item.kept
      BY <3>1 DEF Item
    <3>3. new.failed = TRUE
      BY <3>1, Zenon DEF Item
    <3>4. Succeeds(item, new)
      BY <3>2 DEF Succeeds, KeptAs
    <3>5. \A p \in PayloadsSent : item.fields[f] = records!Delivered(p) => p \notin {"json", "framed", "absent"}
      BY <2>1, <2>3, ParsesToIs
    <3> QED BY <2>1, <3>2, <3>3, <3>4, <3>5
  <2>4. CASE v # Failed /\ v.is = "absent"
    <3>1. new = item /\ v = item.fields[f]
      BY <2>1, <2>2, <2>4, ParsesToIs DEF Failed
    <3> QED BY <2>1, <2>4, <3>1 DEF Succeeds
  <2>5. CASE v # Failed /\ v.is # "absent"
    <3>1. new = records!ReplaceField(item, f, v)
      BY <2>2, <2>5 DEF Failed
    <3>2. v \in FieldValues /\ v.is = "value"
      BY <2>1, <2>5, ParsesToIs
    <3>3. Succeeds(item, new) /\ new.failed = item.failed /\ new.fields = [item.fields EXCEPT ![f] = v]
      BY <2>1, <3>1, <3>2, Replaced DEF Succeeds
    <3> QED BY <1>1, <2>1, <3>2, <3>3
  <2> QED BY <2>3, <2>4, <2>5
<1> QED BY <1>2, <1>3

\* Parsing the two fields of a record, one after the other.
LEMMA RecordParsed ==
  ASSUME NEW item \in Item, NEW new \in records!ParseFields(item)
  PROVE  /\ Succeeds(item, new)
         /\ new.failed = FALSE => IsParsed(new)
         /\ item.failed => new = item
         /\ new.failed /\ item.failed = FALSE =>
              \E f \in records!Fields(records!Source) :
                \A p \in PayloadsSent : item.fields[f] = records!Delivered(p) => p \notin {"json", "framed", "absent"}
<1>1. PICK first \in records!ParseField(item, "key") : new \in records!ParseField(first, "value")
  BY DEF records!ParseFields
<1>2. /\ Succeeds(item, first) /\ first \in Item /\ (item.failed => first = item)
      /\ \A g \in records!Fields(records!Source) : g # "key" => first.fields[g] = item.fields[g]
      /\ first.failed = FALSE /\ "key" \in records!Fields(records!Source) =>
           first.fields["key"].is \in {"absent", "value"}
      /\ first.failed /\ item.failed = FALSE => "key" \in records!Fields(records!Source)
           /\ \A p \in PayloadsSent : item.fields["key"] = records!Delivered(p) => p \notin {"json", "framed", "absent"}
  <2>1. ParsedOf(item, "key", first)
    BY <1>1, FieldParsed
  <2> QED BY <2>1 DEF ParsedOf, Succeeds
<1>3. /\ Succeeds(first, new) /\ new \in Item /\ (first.failed => new = first)
      /\ \A g \in records!Fields(records!Source) : g # "value" => new.fields[g] = first.fields[g]
      /\ new.failed = FALSE => new.fields["value"].is \in {"absent", "value"}
      /\ new.failed /\ first.failed = FALSE =>
           \A p \in PayloadsSent : first.fields["value"] = records!Delivered(p) => p \notin {"json", "framed", "absent"}
  <2>1. ParsedOf(first, "value", new)
    BY <1>1, <1>2, FieldParsed
  <2> QED BY <2>1, FieldsAre DEF ParsedOf, Succeeds
<1>4. item.failed \in BOOLEAN /\ first.failed \in BOOLEAN /\ new.failed \in BOOLEAN
      /\ item.fields \in [records!Fields(records!Source) -> FieldValues]
  BY <1>2, <1>3 DEF Item
<1>5. Succeeds(item, new)
  BY <1>2, <1>3 DEF Succeeds
<1>6. ASSUME item.failed PROVE new = item
  BY <1>2, <1>3, <1>6
<1>7. ASSUME new.failed = FALSE PROVE IsParsed(new)
  <2>1. first.failed = FALSE
    BY <1>3, <1>4, <1>7
  <2> QED BY <1>2, <1>3, <1>7, <2>1, FieldsAre DEF IsParsed
<1>8. ASSUME new.failed, item.failed = FALSE
      PROVE  \E f \in records!Fields(records!Source) :
               \A p \in PayloadsSent : item.fields[f] = records!Delivered(p) => p \notin {"json", "framed", "absent"}
  <2>1. CASE first.failed
    BY <1>2, <1>8, <2>1
  <2>2. CASE first.failed = FALSE
    BY <1>2, <1>3, <1>8, <2>2, FieldsAre
  <2> QED BY <1>4, <2>1, <2>2
<1> QED BY <1>5, <1>6, <1>7, <1>8

\* Who has run, once a record has been handled.
LEMMA RanOn ==
  ASSUME RecordsTyped, Received \in Nat \ {0}, ChainOnce, NEW n, records!Calls(n), records!Advance,
         middlewares' = middlewares
  PROVE  /\ called' \in 0..Len(middlewares) /\ turn' \in 1..Received
         /\ \A m, r : r \in 1..Received => (Ran(m, r)' <=> Ran(m, r) \/ (m = n /\ r = turn))
         /\ ~Ran(n, turn)
<1>1. /\ called \in Nat /\ called < Len(middlewares) /\ middlewares[called + 1] = n /\ turn \in 1..Received
      /\ Len(middlewares) \in Nat
  BY DEF records!Calls, RecordsTyped
<1>2. IF turn = Received THEN called' = called + 1 /\ turn' = 1 ELSE turn' = turn + 1 /\ called' = called
  BY DEF records!Advance
<1>3. called' \in 0..Len(middlewares) /\ turn' \in 1..Received
  BY <1>1, <1>2
<1>4. ~Ran(n, turn)
  BY <1>1 DEF Ran, ChainOnce
<1>5. ASSUME NEW m, NEW r \in 1..Received PROVE Ran(m, r)' <=> Ran(m, r) \/ (m = n /\ r = turn)
  <2>1. CASE turn = Received
    <3>1. r < turn \/ r = turn
      BY <1>1, <2>1
    <3>2. ~(r < turn')
      BY <1>2, <2>1
    <3>3. 1..called' = (1..called) \cup {called + 1}
      BY <1>1, <1>2, <2>1
    <3>4. Ran(m, r)' <=> \E k \in (1..called) \cup {called + 1} : middlewares[k] = m
      BY <3>2, <3>3 DEF Ran
    <3> QED BY <1>1, <3>1, <3>4 DEF Ran
  <2>2. CASE turn # Received
    <3>1. r < turn' <=> r < turn \/ r = turn
      BY <1>1, <1>2, <2>2
    <3>2. called' = called
      BY <1>2, <2>2
    <3>3. Ran(m, r)' <=> (\E k \in 1..called : middlewares[k] = m) \/ (middlewares[called + 1] = m /\ r < turn')
      BY <1>1, <3>2 DEF Ran
    <3> QED BY <1>1, <3>1, <3>3 DEF Ran
  <2> QED BY <2>1, <2>2
<1> QED BY <1>3, <1>4, <1>5

\* What is there of a delivery does not change.
LEMMA SameDelivery ==
  ASSUME delivery' = delivery
  PROVE  /\ records!Source' = records!Source /\ Item' = Item
         /\ \A r : records!Good(r)' = records!Good(r)
BY DEF records!Source, Item, records!Fields, records!Good

\* What event-normalizer and event-batch-parser have in common.
LEMMA RecordStep ==
  ASSUME Received \in Nat \ {0}, RecordsInv, NEW n \in {"event-normalizer", "event-batch-parser"},
         records!Calls(n), records!Advance, NEW new, items' = [items EXCEPT ![turn] = new], Succeeds(items[turn], new),
         UNCHANGED <<delivery, middlewares, snapshot, settled, result>>,
         NEW t \in 1..Received, t = turn, Fares(t)'
  PROVE  RecordsInv'
<1>1. RecordsTyped /\ ChainOnce /\ AtFirst /\ Snapped /\ Refusal /\ \A r \in 1..Received : Kept(r) /\ Fares(r)
  BY DEF RecordsInv
<1>2. /\ called \in Nat /\ called < Len(middlewares) /\ middlewares[called + 1] = n /\ turn \in 1..Received
      /\ Len(middlewares) \in Nat /\ result = "pending"
  BY <1>1 DEF records!Calls, RecordsTyped
<1>3. /\ called' \in 0..Len(middlewares) /\ turn' \in 1..Received
      /\ \A m, r : r \in 1..Received => (Ran(m, r)' <=> Ran(m, r) \/ (m = n /\ r = turn))
      /\ ~Ran(n, turn)
  BY <1>1, RanOn
<1>4. IF turn = Received THEN called' = called + 1 /\ turn' = 1 ELSE turn' = turn + 1 /\ called' = called
  BY DEF records!Advance
<1>5. records!Source' = records!Source /\ Item' = Item /\ \A r : records!Good(r)' = records!Good(r)
  BY SameDelivery
<1>6. /\ items \in [1..Received -> Item] /\ new \in Item /\ items'[turn] = new
      /\ \A r \in 1..Received : r # turn => items'[r] = items[r]
  BY <1>1, <1>2 DEF RecordsTyped, Succeeds
<1>7. RecordsTyped'
  BY <1>1, <1>3, <1>5, <1>6 DEF RecordsTyped
<1>8. ChainOnce'
  BY <1>1 DEF ChainOnce, Named
<1>9. AtFirst'
  BY <1>2, <1>4 DEF AtFirst
<1>10. Snapped'
  <2>1. ASSUME NEW k \in 1..called', middlewares[k] = "event-batch-response" PROVE k \in 1..called
    BY <1>2, <1>4, <2>1
  <2> QED BY <1>1, <2>1 DEF Snapped
<1>11. Refusal'
  BY <1>2 DEF Refusal
<1>12. ASSUME NEW r \in 1..Received PROVE Kept(r)'
  <2>1. delivery.payload[r]["value"] \in PayloadsSent
    BY <1>1, FieldsAre, PayloadsAre DEF RecordsTyped
  <2>2. CASE r = turn
    <3>1. KeptAs(items[r], delivery.payload[r]["value"])
      BY <1>1 DEF Kept
    <3>2. KeptAs(new, delivery.payload[r]["value"])
      BY <2>1, <2>2, <3>1 DEF Succeeds
    <3>3. Untouched(r)' => Untouched(r)
      BY <1>6, <2>2 DEF Succeeds, Untouched
    <3> QED BY <1>1, <1>6, <2>2, <3>2, <3>3 DEF Kept, KeptAs
  <2>3. CASE r # turn
    BY <1>1, <1>6, <2>3 DEF Kept, KeptAs, Untouched
  <2> QED BY <2>2, <2>3
<1>13. ASSUME NEW r \in 1..Received, r # turn PROVE Fares(r)'
  <2>1. Ran("event-batch-parser", r)' <=> Ran("event-batch-parser", r)
    BY <1>3, <1>13
  <2>2. /\ items'[r] = items[r] /\ IsParsed(items[r])' = IsParsed(items[r])
        /\ Named("event-normalizer")' = Named("event-normalizer")
    BY <1>5, <1>6, <1>13 DEF IsParsed, Named
  <2>3. settled[r] # "fulfilled"
    BY <1>1, <1>2 DEF Fares
  <2> QED BY <1>1, <1>5, <2>1, <2>2, <2>3 DEF Fares
<1>14. ASSUME NEW r \in 1..Received PROVE Fares(r)'
  <2>1. CASE r = t
    BY <2>1
  <2>2. CASE r # t
    BY <1>13, <2>2
  <2> QED BY <2>1, <2>2
<1> QED BY <1>7, <1>8, <1>9, <1>10, <1>11, <1>12, <1>14 DEF RecordsInv

\* A record normalized fares as before, and as event-normalizer is registered it may fail.
LEMMA NormalizerKeeps == ASSUME Received \in Nat \ {0}, RecordsInv, records!EventNormalizer PROVE RecordsInv'
<1> DEFINE n == "event-normalizer"
<1> PICK t \in 1..Received : t = turn
  BY DEF RecordsInv, RecordsTyped
<1> DEFINE new == records!NormalizeFields(items[t])
<1>1. RecordsTyped /\ ChainOnce /\ Fares(t)
  BY DEF RecordsInv
<1>2. records!Calls(n) /\ records!Advance /\ UNCHANGED <<delivery, middlewares, snapshot, settled, result>>
  BY DEF records!EventNormalizer
<1>3. items \in [1..Received -> Item] /\ items[t] \in Item
  BY <1>1 DEF RecordsTyped
<1>4. items' = [items EXCEPT ![t] = new] /\ items'[t] = new
  BY <1>3 DEF records!EventNormalizer
<1>5. Succeeds(items[t], new) /\ new.failed = items[t].failed /\ (IsParsed(items[t]) => IsParsed(new))
  BY <1>3, RecordNormalized
<1> HIDE DEF new
<1>6. Named(n)'
  <2>1. called + 1 \in 1..Len(middlewares) /\ middlewares[called + 1] = n
    BY <1>1, <1>2 DEF records!Calls, RecordsTyped
  <2> QED BY <2>1, <1>2 DEF Named
<1>7. Ran("event-batch-parser", t)' <=> Ran("event-batch-parser", t)
  BY <1>1, <1>2, RanOn
<1>8. IsParsed(items[t])' = IsParsed(new)
  BY <1>2, <1>4, SameDelivery DEF IsParsed
<1>9. settled[t] # "fulfilled"
  BY <1>1, <1>2 DEF Fares, records!Calls, RecordsTyped
<1>10. Fares(t)'
  <2>1. Ran("event-batch-parser", t)' /\ items'[t].failed = FALSE => IsParsed(items[t])'
    BY <1>1, <1>4, <1>5, <1>7, <1>8 DEF Fares
  <2>2. settled' = settled
    BY <1>2
  <2> QED BY <1>6, <1>9, <2>1, <2>2 DEF Fares
<1> QED BY <1>2, <1>4, <1>5, <1>10, RecordStep

\* A record parsed fails, without event-normalizer, for what was delivered only.
LEMMA ParserKeeps == ASSUME Received \in Nat \ {0}, RecordsInv, records!EventBatchParser PROVE RecordsInv'
<1> DEFINE n == "event-batch-parser"
<1> PICK t \in 1..Received : t = turn
  BY DEF RecordsInv, RecordsTyped
<1>1. RecordsTyped /\ ChainOnce /\ Fares(t)
  BY DEF RecordsInv
<1>2. records!Calls(n) /\ records!Advance /\ UNCHANGED <<delivery, middlewares, snapshot, settled, result>>
  BY DEF records!EventBatchParser
<1>3. items \in [1..Received -> Item] /\ items[t] \in Item /\ delivery.payload[t] \in
        [records!Fields(records!Source) -> records!Payloads(records!Source)]
  BY <1>1 DEF RecordsTyped
<1>4. PICK new \in records!ParseFields(items[t]) : items' = [items EXCEPT ![t] = new]
  BY DEF records!EventBatchParser
<1>5. items'[t] = new
  BY <1>3, <1>4
<1>6. /\ Succeeds(items[t], new) /\ (new.failed = FALSE => IsParsed(new)) /\ (items[t].failed => new = items[t])
      /\ new.failed /\ items[t].failed = FALSE =>
           \E f \in records!Fields(records!Source) :
             \A p \in PayloadsSent : items[t].fields[f] = records!Delivered(p) => p \notin {"json", "framed", "absent"}
  BY <1>3, RecordParsed
<1>7. /\ ~Ran(n, t)
      /\ Ran(n, t)'
  BY <1>1, <1>2, RanOn
<1>8. IsParsed(items[t])' = IsParsed(new)
  BY <1>2, <1>5, SameDelivery DEF IsParsed
<1>9. settled'[t] # "fulfilled"
  BY <1>1, <1>2 DEF Fares, records!Calls, RecordsTyped
<1>10. Named("event-normalizer")' = Named("event-normalizer") /\ records!Good(t)' = records!Good(t)
  BY <1>2, SameDelivery DEF Named
<1>11. ASSUME new.failed, ~Named("event-normalizer") PROVE ~records!Good(t)
  <2>1. CASE items[t].failed
    BY <1>1, <1>6, <1>11, <2>1 DEF Fares
  <2>2. CASE items[t].failed = FALSE
    <3>1. PICK f \in records!Fields(records!Source) :
            \A p \in PayloadsSent : items[t].fields[f] = records!Delivered(p) => p \notin {"json", "framed", "absent"}
      BY <1>6, <1>11, <2>2
    <3>2. items[t].fields[f] = records!Delivered(delivery.payload[t][f])
      BY <1>1, <1>7, <1>11, <3>1 DEF Fares
    <3>3. delivery.payload[t][f] \in PayloadsSent
      BY <1>1, <1>3, <3>1, PayloadsAre DEF RecordsTyped
    <3>4. delivery.payload[t][f] \notin {"json", "framed", "absent"}
      BY <3>1, <3>2, <3>3
    <3>5. f \in DOMAIN delivery.payload[t]
      BY <1>3, <3>1
    <3> QED BY <3>4, <3>5 DEF records!Good
  <2>3. items[t].failed \in BOOLEAN
    BY <1>3 DEF Item
  <2> QED BY <2>1, <2>2, <2>3
<1>12. Fares(t)'
  <2>1. Ran(n, t)' /\ items'[t].failed = FALSE => IsParsed(items[t])'
    BY <1>5, <1>6, <1>8
  <2>2. items'[t].failed => Named("event-normalizer")' \/ ~records!Good(t)'
    BY <1>5, <1>10, <1>11
  <2> QED BY <1>7, <1>9, <2>1, <2>2 DEF Fares
<1> QED BY <1>2, <1>4, <1>6, <1>12, RecordStep

\* A batch that is refused is left as it is.
LEMMA MalformedKeeps == ASSUME Received \in Nat \ {0}, RecordsInv, records!MalformedRecord PROVE RecordsInv'
<1>1. /\ RecordsTyped /\ ChainOnce /\ AtFirst /\ Snapped /\ \A r \in 1..Received : Kept(r) /\ Fares(r)
      /\ turn \in 1..Received /\ items \in [1..Received -> Item] /\ called \in Nat /\ Len(middlewares) \in Nat
  <2>1. RecordsTyped /\ ChainOnce /\ AtFirst /\ Snapped /\ \A r \in 1..Received : Kept(r) /\ Fares(r)
    BY DEF RecordsInv
  <2>2. /\ turn \in 1..Received /\ items \in [1..Received -> Item] /\ called \in Nat /\ Len(middlewares) \in Nat
    BY <2>1 DEF RecordsTyped
  <2> QED BY <2>1, <2>2
<1>2. /\ UNCHANGED <<delivery, middlewares, called, turn, items, snapshot>> /\ called < Len(middlewares)
      /\ \E f \in DOMAIN items[turn].fields : records!Undecodable(items[turn].fields[f])
  BY DEF records!MalformedRecord, records!Calls
<1>3. \/ result' = "refused" /\ settled' = settled
      \/ snapshot # <<>> /\ result' = "reported" /\ settled' = [r \in 1..Received |-> "rejected"]
  BY DEF records!MalformedRecord
<1>4. records!Source' = records!Source /\ Item' = Item /\ \A r : records!Good(r)' = records!Good(r)
  BY <1>2, SameDelivery
<1>5. RecordsTyped'
  BY <1>1, <1>2, <1>3, <1>4 DEF RecordsTyped
<1>6. ChainOnce' /\ AtFirst' /\ Snapped'
  BY <1>1, <1>2 DEF ChainOnce, Named, AtFirst, Snapped
<1>7. Refusal'
  <2>1. DOMAIN items[turn].fields = records!Fields(records!Source)
    BY <1>1 DEF Item
  <2>2. \E q \in 1..Received : \E f \in records!Fields(records!Source) : records!Undecodable(items[q].fields[f])
    BY <1>1, <1>2, <2>1
  <2>3. (\E q \in 1..Received : \E f \in records!Fields(records!Source) : records!Undecodable(items[q].fields[f]))'
    BY <1>2, <1>4, <2>2 DEF records!Undecodable
  <2> QED BY <1>2, <1>3, <2>3 DEF Refusal
<1>8. ASSUME NEW r \in 1..Received PROVE Kept(r)' /\ Fares(r)'
  <2>1. Kept(r)'
    BY <1>1, <1>2 DEF Kept, KeptAs, Untouched
  <2>2. settled'[r] # "fulfilled"
    BY <1>1, <1>2, <1>3 DEF Fares
  <2>3. /\ Ran("event-batch-parser", r)' = Ran("event-batch-parser", r)
        /\ Named("event-normalizer")' = Named("event-normalizer") /\ IsParsed(items[r])' = IsParsed(items[r])
    BY <1>2, <1>4 DEF Ran, Named, IsParsed
  <2> QED BY <1>1, <1>2, <1>4, <2>1, <2>2, <2>3 DEF Fares
<1> QED BY <1>5, <1>6, <1>7, <1>8 DEF RecordsInv

\* event-batch-response keeps the fields as they are: what was delivered, if nothing has been kept.
LEMMA SnapshotKeeps == ASSUME Received \in Nat \ {0}, RecordsInv, records!EventBatchResponse PROVE RecordsInv'
<1>1. /\ RecordsTyped /\ ChainOnce /\ AtFirst /\ Snapped /\ Refusal /\ \A r \in 1..Received : Kept(r) /\ Fares(r)
      /\ items \in [1..Received -> Item] /\ called \in Nat /\ Len(middlewares) \in Nat
  <2>1. RecordsTyped /\ ChainOnce /\ AtFirst /\ Snapped /\ Refusal /\ \A r \in 1..Received : Kept(r) /\ Fares(r)
    BY DEF RecordsInv
  <2>2. /\ items \in [1..Received -> Item] /\ called \in Nat /\ Len(middlewares) \in Nat
    BY <2>1 DEF RecordsTyped
  <2> QED BY <2>1, <2>2
<1>2. /\ UNCHANGED <<delivery, middlewares, turn, items, settled, result>>
      /\ called < Len(middlewares) /\ middlewares[called + 1] = "event-batch-response" /\ result = "pending"
      /\ called' = called + 1 /\ turn = 1
  BY <1>1 DEF records!EventBatchResponse, records!Calls, AtFirst
<1>3. snapshot' = [r \in 1..Received |-> items[r].fields["value"]]
  BY DEF records!EventBatchResponse
<1>4. records!Source' = records!Source /\ Item' = Item /\ \A r : records!Good(r)' = records!Good(r)
  BY <1>2, SameDelivery
<1>5. RecordsTyped'
  BY <1>1, <1>2, <1>4 DEF RecordsTyped
<1>6. ChainOnce' /\ AtFirst' /\ Refusal'
  BY <1>1, <1>2 DEF ChainOnce, Named, AtFirst, Refusal
<1>7. snapshot' # <<>>
  BY <1>3
<1>8. ASSUME NEW r \in 1..Received PROVE Kept(r)' /\ Fares(r)'
  <2>1. KeptAs(items[r], delivery.payload[r]["value"])
    BY <1>1 DEF Kept
  <2>2. Kept(r)'
    BY <1>2, <1>3, <2>1 DEF Kept, KeptAs, Untouched
  <2>3. settled'[r] # "fulfilled"
    BY <1>1, <1>2 DEF Fares
  <2>4. /\ Named("event-normalizer")' = Named("event-normalizer") /\ IsParsed(items[r])' = IsParsed(items[r])
    BY <1>2, <1>4 DEF Named, IsParsed
  <2>5. Ran("event-batch-parser", r)' <=> Ran("event-batch-parser", r)
    <3>1. 1..called' = (1..called) \cup {called + 1}
      BY <1>1, <1>2
    <3>2. ~(r < turn)
      BY <1>2
    <3>3. Ran("event-batch-parser", r) <=> \E k \in 1..called : middlewares[k] = "event-batch-parser"
      BY <3>2 DEF Ran
    <3>4. Ran("event-batch-parser", r)' <=>
            \E k \in (1..called) \cup {called + 1} : middlewares[k] = "event-batch-parser"
      BY <1>2, <3>1, <3>2 DEF Ran
    <3> QED BY <1>2, <3>3, <3>4
  <2>6. Fares(r)'
    <3>1. Ran("event-batch-parser", r)' /\ items'[r].failed = FALSE => IsParsed(items[r])'
      BY <1>1, <1>2, <2>4, <2>5 DEF Fares
    <3>2. ~Named("event-normalizer")' /\ ~Ran("event-batch-parser", r)' =>
            /\ items'[r].failed = FALSE
            /\ \A f \in records!Fields(records!Source)' :
                 items'[r].fields[f] = records!Delivered(delivery'.payload[r][f])
      BY <1>1, <1>2, <1>4, <2>4, <2>5 DEF Fares
    <3>3. items'[r].failed => Named("event-normalizer")' \/ ~records!Good(r)'
      BY <1>1, <1>2, <1>4, <2>4 DEF Fares
    <3> QED BY <2>3, <3>1, <3>2, <3>3 DEF Fares
  <2> QED BY <2>2, <2>6
<1> QED BY <1>5, <1>6, <1>7, <1>8 DEF RecordsInv, Snapped

\* A record is handled once every middleware has run.
LEMMA HandlerKeeps == ASSUME Received \in Nat \ {0}, RecordsInv, records!RecordHandler PROVE RecordsInv'
<1>1. /\ RecordsTyped /\ ChainOnce /\ AtFirst /\ Snapped /\ Refusal /\ \A r \in 1..Received : Kept(r) /\ Fares(r)
      /\ items \in [1..Received -> Item] /\ called \in Nat /\ Len(middlewares) \in Nat
      /\ settled \in [1..Received -> {"none", "fulfilled", "rejected"}]
  <2>1. RecordsTyped /\ ChainOnce /\ AtFirst /\ Snapped /\ Refusal /\ \A r \in 1..Received : Kept(r) /\ Fares(r)
    BY DEF RecordsInv
  <2>2. /\ items \in [1..Received -> Item] /\ called \in Nat /\ Len(middlewares) \in Nat
        /\ settled \in [1..Received -> {"none", "fulfilled", "rejected"}]
    BY <2>1 DEF RecordsTyped
  <2> QED BY <2>1, <2>2
<1> PICK t \in 1..Received : t = turn
  BY <1>1 DEF RecordsTyped
<1>2. /\ UNCHANGED <<delivery, middlewares, called, items, snapshot>> /\ called = Len(middlewares)
      /\ result = "pending"
      /\ IF t = Received THEN result' = "reported" /\ turn' = turn ELSE turn' = turn + 1 /\ result' = result
  BY DEF records!RecordHandler
<1>3. PICK status \in {"fulfilled", "rejected"} :
        settled' = [settled EXCEPT ![t] = status] /\ (items[t].failed => status = "rejected")
  BY DEF records!RecordHandler, records!Handled
<1>4. records!Source' = records!Source /\ Item' = Item /\ \A r : records!Good(r)' = records!Good(r)
  BY <1>2, SameDelivery
<1>5. RecordsTyped'
  <2>1. turn' \in 1..Received /\ result' \in {"pending", "reported", "refused"}
    BY <1>2
  <2>2. settled' \in [1..Received -> {"none", "fulfilled", "rejected"}]
    BY <1>1, <1>3
  <2> QED BY <1>1, <1>2, <1>4, <2>1, <2>2 DEF RecordsTyped
<1>6. ChainOnce' /\ AtFirst' /\ Snapped'
  BY <1>1, <1>2 DEF ChainOnce, Named, AtFirst, Snapped
<1>7. Refusal'
  <2>1. snapshot # <<>>
    BY <1>1, <1>2 DEF ChainOnce, Named, Snapped
  <2> QED BY <1>1, <1>2, <2>1 DEF Refusal
<1>8. ASSUME NEW r \in 1..Received PROVE Kept(r)' /\ Fares(r)'
  <2>1. Kept(r)'
    BY <1>1, <1>2 DEF Kept, KeptAs, Untouched
  <2>2. /\ Named("event-normalizer")' = Named("event-normalizer") /\ IsParsed(items[r])' = IsParsed(items[r])
        /\ Ran("event-batch-parser", r)' <=> Ran("event-batch-parser", r)
    BY <1>1, <1>2, <1>4 DEF Named, IsParsed, Ran
  <2>3. settled'[r] = "fulfilled" => items[r].failed = FALSE
    <3>1. CASE r = t
      <4>1. items[r].failed \in BOOLEAN
        BY <1>1 DEF Item
      <4> QED BY <1>1, <1>3, <3>1, <4>1
    <3>2. CASE r # t
      BY <1>1, <1>3, <3>2 DEF Fares
    <3> QED BY <3>1, <3>2
  <2> QED BY <1>1, <1>2, <1>4, <2>1, <2>2, <2>3 DEF Fares
<1> QED BY <1>5, <1>6, <1>7, <1>8 DEF RecordsInv

\* Each step keeps the invariant.
LEMMA RecordsNext == ASSUME Received \in Nat \ {0}, RecordsInv, [records!Next]_records!vars PROVE RecordsInv'
<1>1. CASE UNCHANGED records!vars
  <2>1. UNCHANGED <<delivery, middlewares, called, turn, items, snapshot, settled, result>>
    BY <1>1 DEF records!vars
  <2>2. /\ records!Source' = records!Source /\ Item' = Item /\ \A r : records!Good(r)' = records!Good(r)
    BY <2>1, SameDelivery
  <2>3. RecordsTyped'
    BY <2>1, <2>2 DEF RecordsInv, RecordsTyped
  <2>4. ChainOnce' /\ AtFirst' /\ Snapped'
    BY <2>1 DEF RecordsInv, ChainOnce, Named, AtFirst, Snapped
  <2>5. Refusal'
    BY <2>1, <2>2 DEF RecordsInv, Refusal, records!Undecodable
  <2>6. ASSUME NEW r \in 1..Received PROVE Kept(r)' /\ Fares(r)'
    <3>1. Kept(r)'
      BY <2>1 DEF RecordsInv, Kept, KeptAs, Untouched
    <3>2. /\ Named("event-normalizer")' = Named("event-normalizer") /\ IsParsed(items[r])' = IsParsed(items[r])
          /\ Ran("event-batch-parser", r)' = Ran("event-batch-parser", r)
      BY <2>1, <2>2 DEF Named, IsParsed, Ran
    <3> QED BY <2>1, <2>2, <3>1, <3>2 DEF RecordsInv, Fares
  <2> QED BY <2>3, <2>4, <2>5, <2>6 DEF RecordsInv
<1> QED BY <1>1, NormalizerKeeps, ParserKeeps, MalformedKeeps, SnapshotKeeps, HandlerKeeps DEF records!Next

\* What the invariant says of every record.
LEMMA RecordsHold == ASSUME Received \in Nat \ {0}, RecordsInv PROVE records!PayloadsHandled
<1>1. /\ RecordsTyped /\ ChainOnce /\ Refusal /\ \A r \in 1..Received : Kept(r) /\ Fares(r)
      /\ items \in [1..Received -> Item] /\ called \in Nat /\ Len(middlewares) \in Nat
  <2>1. RecordsTyped /\ ChainOnce /\ Refusal /\ \A r \in 1..Received : Kept(r) /\ Fares(r)
    BY DEF RecordsInv
  <2>2. /\ items \in [1..Received -> Item] /\ called \in Nat /\ Len(middlewares) \in Nat
    BY <2>1 DEF RecordsTyped
  <2> QED BY <2>1, <2>2
<1>2. \A r \in 1..Received : DOMAIN items[r].fields = records!Fields(records!Source)
  BY <1>1 DEF Item
<1>3. \A n : records!Registered(n) <=> Named(n)
  BY <1>1 DEF records!Registered, records!Contains, Named, RecordsTyped
<1>4. ASSUME NEW r \in 1..Received
      PROVE  /\ settled[r] = "fulfilled" /\ records!Registered("event-batch-parser") =>
                  \A f \in records!Present(r) : items[r].fields[f].is = "value"
             /\ items[r].failed => ~records!Good(r) \/ records!Registered("event-normalizer")
  <2>1. ASSUME settled[r] = "fulfilled", Named("event-batch-parser") PROVE IsParsed(items[r])
    BY <1>1, <2>1 DEF Fares, Ran, Named
  <2> QED BY <1>1, <1>2, <1>3, <2>1 DEF records!Present, IsParsed, Fares
<1>5. result = "refused" \/ (result = "reported" /\ called < Len(middlewares)) =>
        \E q \in 1..Received : \E f \in DOMAIN items[q].fields : records!Undecodable(items[q].fields[f])
  BY <1>1, <1>2 DEF Refusal
<1>6. ASSUME result = "reported", NEW r \in 1..Received
      PROVE  records!Echo(r) = records!Delivered(delivery.payload[r]["value"])
  <2>1. delivery.payload[r]["value"] \in PayloadsSent
    BY <1>1, FieldsAre, PayloadsAre DEF RecordsTyped
  <2>2. records!Delivered(delivery.payload[r]["value"]).is # "value"
    BY <2>1, DeliveredIs
  <2>3. items[r].kept # records!Unkept => items[r].kept = records!Delivered(delivery.payload[r]["value"])
    BY <1>1 DEF Kept, KeptAs
  <2>4. items[r].kept = records!Unkept => snapshot[r] = records!Delivered(delivery.payload[r]["value"])
    BY <1>1, <1>6 DEF Kept, Untouched, Refusal
  <2> QED BY <2>2, <2>3, <2>4 DEF records!Echo
<1>7. records!HandledParsed
  BY <1>1, <1>4, <1>5 DEF records!HandledParsed
<1>8. records!EchoIsOriginal
  BY <1>6 DEF records!EchoIsOriginal
<1> QED BY <1>7, <1>8 DEF records!PayloadsHandled

\* An injection from 1..n is a sequence of n.
LEMMA Injections ==
  ASSUME NEW S, NEW n \in Nat, NEW f \in [1..n -> S] PROVE f \in Seq(S) /\ Len(f) = n
OBVIOUS

\* There are two of two, and three of three.
LEMMA TwoOf == ASSUME NEW a, NEW b, a # b PROVE IsFiniteSet({a, b}) /\ Cardinality({a, b}) = 2
<1>1. IsFiniteSet({a}) /\ Cardinality({a}) = 1
  BY FS_Singleton
<1>2. IsFiniteSet({a} \cup {b}) /\ Cardinality({a} \cup {b}) = 2
  BY <1>1, FS_AddElement
<1>3. {a} \cup {b} = {a, b}
  OBVIOUS
<1> QED BY <1>2, <1>3

LEMMA ThreeOf == ASSUME NEW a, NEW b, NEW c, a # b, a # c, b # c PROVE Cardinality({a, b, c}) = 3
<1>1. IsFiniteSet({a, b}) /\ Cardinality({a, b}) = 2
  BY TwoOf
<1>2. Cardinality({a, b} \cup {c}) = 3
  BY <1>1, FS_AddElement
<1>3. {a, b} \cup {c} = {a, b, c}
  OBVIOUS
<1> QED BY <1>2, <1>3

\* A chain has each of its middlewares once, event-batch-response among them.
LEMMA ChainsAre ==
  ASSUME NEW chain \in records!Chains
  PROVE  /\ chain \in Seq(Hooks) /\ \A k, l \in 1..Len(chain) : chain[k] = chain[l] => k = l
         /\ \E k \in 1..Len(chain) : chain[k] = "event-batch-response"
<1> DEFINE last == "event-batch-response"
           pre == {"event-normalizer", "event-batch-parser"}
<1>1. PICK names \in SUBSET pre : chain \in records!SetToSeqs(names \cup {last})
  BY DEF records!Chains
<1> DEFINE S == names \cup {last}
           n == Cardinality(S)
<1>2. records!Cardinality(S) = n
  BY DEF records!Cardinality, Cardinality
<1>3. chain \in [1..n -> S] /\ \A i, j \in 1..n : i # j => chain[i] # chain[j]
  BY <1>1, <1>2 DEF records!SetToSeqs
<1>4. S \in {{last}, {"event-normalizer", last}, {"event-batch-parser", last},
             {"event-normalizer", "event-batch-parser", last}}
  OBVIOUS
<1>5. S \subseteq Hooks
  BY DEF Hooks
<1>6. CASE S = {last}
  <2>1. n = 1
    BY <1>6, FS_Singleton
  <2> HIDE DEF n, S
  <2>2. chain \in Seq(S) /\ Len(chain) = 1
    BY <1>3, <2>1, Injections
  <2>3. chain[1] = last
    BY <1>3, <1>6, <2>1
  <2> QED BY <1>3, <1>5, <2>1, <2>2, <2>3
<1>7. ASSUME NEW a, a # last, S = {a, last}
      PROVE  /\ chain \in Seq(Hooks) /\ \A k, l \in 1..Len(chain) : chain[k] = chain[l] => k = l
             /\ \E k \in 1..Len(chain) : chain[k] = last
  <2>1. n = 2
    BY <1>7, TwoOf
  <2> HIDE DEF n, S
  <2>2. chain \in Seq(S) /\ Len(chain) = 2
    BY <1>3, <2>1, Injections
  <2>3. chain[1] = last \/ chain[2] = last
    BY <1>3, <1>7, <2>1
  <2> QED BY <1>3, <1>5, <2>1, <2>2, <2>3
<1>8. CASE S = {"event-normalizer", "event-batch-parser", last}
  <2>1. n = 3
    <3>1. \A a, b, c : a # b /\ a # c /\ b # c => Cardinality({a, b, c}) = 3
      BY ThreeOf
    <3>2. n = Cardinality({"event-normalizer", "event-batch-parser", last})
      BY <1>8
    <3> HIDE DEF n, S
    <3> QED BY <3>1, <3>2
  <2> HIDE DEF n, S
  <2>2. chain \in Seq(S) /\ Len(chain) = 3
    BY <1>3, <2>1, Injections
  <2>3. chain[1] = last \/ chain[2] = last \/ chain[3] = last
    <3>1. /\ chain[1] \in S /\ chain[2] \in S /\ chain[3] \in S
          /\ chain[1] # chain[2] /\ chain[1] # chain[3] /\ chain[2] # chain[3]
      BY <1>3, <2>1
    <3> QED BY <1>8, <3>1
  <2> QED BY <1>3, <1>5, <2>1, <2>2, <2>3
<1> QED BY <1>4, <1>6, <1>7, <1>8

\* Before any middleware everything is as it was delivered.
LEMMA RecordsInit == ASSUME Received \in Nat \ {0}, records!Init PROVE RecordsInv
<1>1. /\ middlewares \in Seq(Hooks) /\ called = 0 /\ turn = 1 /\ result = "pending" /\ snapshot = <<>>
      /\ settled = [r \in 1..Received |-> "none"] /\ Len(middlewares) \in Nat
      /\ items = [r \in 1..Received |->
                    [fields |-> [f \in DOMAIN delivery.payload[r] |-> records!Delivered(delivery.payload[r][f])],
                     kept |-> records!Unkept, failed |-> FALSE]]
  <2>1. middlewares \in records!Chains
    BY DEF records!Init
  <2>2. middlewares \in Seq(Hooks)
    BY <2>1, ChainsAre
  <2> QED BY <2>2 DEF records!Init
<1>2. /\ records!Source \in {"kafka", "firehose", "sqs"}
      /\ delivery.payload \in [1..Received -> [records!Fields(records!Source) -> records!Payloads(records!Source)]]
  <2>1. PICK s \in {"kafka", "firehose", "sqs"} :
          delivery \in [source : {s}, payload : [1..Received -> [records!Fields(s) -> records!Payloads(s)]]]
    BY DEF records!Init, records!Deliveries
  <2>2. delivery.source = s
    BY <2>1
  <2> QED BY <2>1, <2>2 DEF records!Source
<1>3. ASSUME NEW r \in 1..Received
      PROVE  /\ items[r] \in Item /\ items[r].failed = FALSE /\ items[r].kept = records!Unkept
             /\ \A f \in records!Fields(records!Source) : items[r].fields[f] = records!Delivered(delivery.payload[r][f])
  <2>1. delivery.payload[r] \in [records!Fields(records!Source) -> records!Payloads(records!Source)]
    BY <1>2
  <2>2. \A f \in records!Fields(records!Source) : records!Delivered(delivery.payload[r][f]) \in FieldValues
    BY <1>2, <2>1, PayloadsAre, DeliveredIs
  <2> DEFINE fields == [f \in records!Fields(records!Source) |-> records!Delivered(delivery.payload[r][f])]
  <2>3. items[r] = [fields |-> fields, kept |-> records!Unkept, failed |-> FALSE]
    BY <1>1, <2>1
  <2>4. fields \in [records!Fields(records!Source) -> FieldValues]
    BY <2>2
  <2>5. \A f \in records!Fields(records!Source) : fields[f] = records!Delivered(delivery.payload[r][f])
    OBVIOUS
  <2> HIDE DEF fields
  <2>6. items[r] \in Item
    BY <2>3, <2>4 DEF Item
  <2>7. items[r].fields = fields /\ items[r].kept = records!Unkept
    BY <2>3
  <2>8. items[r].failed = FALSE
    <3>1. [fields |-> fields, kept |-> records!Unkept, failed |-> FALSE].failed = FALSE
      OBVIOUS
    <3> QED BY <2>3, <3>1, Zenon
  <2> QED BY <2>5, <2>6, <2>7, <2>8
<1>4. items \in [1..Received -> Item]
  BY <1>1, <1>3
<1>5. RecordsTyped
  BY <1>1, <1>2, <1>4 DEF RecordsTyped
<1>6. ChainOnce
  <2>1. middlewares \in records!Chains
    BY DEF records!Init
  <2> QED BY <2>1, ChainsAre DEF ChainOnce, Named
<1>7. AtFirst /\ Snapped /\ Refusal
  BY <1>1 DEF AtFirst, Snapped, Refusal
<1>8. ASSUME NEW r \in 1..Received PROVE Kept(r) /\ Fares(r)
  <2>1. ~Ran("event-batch-parser", r)
    BY <1>1, <1>8 DEF Ran
  <2>2. "value" \in records!Fields(records!Source)
    BY FieldsAre
  <2>3. Kept(r)
    BY <1>1, <1>3, <2>2 DEF Kept, KeptAs
  <2>4. settled[r] # "fulfilled"
    BY <1>1
  <2> QED BY <1>3, <2>1, <2>3, <2>4 DEF Fares
<1> QED BY <1>5, <1>6, <1>7, <1>8 DEF RecordsInv

\* The batch and the middlewares are what they were.
AllRecords == RecordsInv /\ delivery \in records!Deliveries /\ middlewares \in records!Chains
\* A record is processed only with each of its fields parsed, none is failed for another but for a
\* batch that cannot be normalized, and Firehose is told of each record what it delivered, in
\* whatever order the middlewares are registered and however many records a batch has.
THEOREM PayloadsAreHandled ==
  ASSUME Received \in Nat \ {0} PROVE records!Spec => [](records!TypeOK /\ records!PayloadsHandled)
<1>1. records!Init => AllRecords
  BY RecordsInit DEF records!Init, AllRecords
<1>2. AllRecords /\ [records!Next]_records!vars => AllRecords'
  <2> SUFFICES ASSUME AllRecords, [records!Next]_records!vars PROVE AllRecords'
    OBVIOUS
  <2>1. RecordsInv'
    BY RecordsNext DEF AllRecords
  <2>2. UNCHANGED <<delivery, middlewares>>
    BY DEF records!Next, records!vars, records!EventNormalizer, records!EventBatchParser, records!MalformedRecord,
           records!EventBatchResponse, records!RecordHandler
  <2> QED BY <2>1, <2>2 DEF AllRecords
<1>3. AllRecords => records!TypeOK /\ records!PayloadsHandled
  <2> SUFFICES ASSUME AllRecords PROVE records!TypeOK /\ records!PayloadsHandled
    OBVIOUS
  <2>1. /\ called \in 0..Len(middlewares) /\ turn \in 1..Received /\ result \in {"pending", "reported", "refused"}
        /\ items \in [1..Received -> Item]
    BY DEF AllRecords, RecordsInv, RecordsTyped
  <2>2. \A r \in 1..Received : \A f \in DOMAIN items[r].fields :
          items[r].fields[f].is \in {"absent", "delivered", "text", "value"}
    BY <2>1 DEF Item, FieldValues
  <2> QED BY <2>1, <2>2, RecordsHold DEF AllRecords, records!TypeOK
<1> QED BY <1>1, <1>2, <1>3, PTL DEF records!Spec
=============================================================================
