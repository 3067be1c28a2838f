----------------------------- MODULE BatchReport -----------------------------
(***************************************************************************)
(* A batch of records and the middlewares that answer for it: which records *)
(* are reported, and how each service is told.                             *)
(***************************************************************************)
EXTENDS Naturals, SequencesExt, FiniteSetTheorems, TLAPS

----------------------------------------------------------------------------
(***************************************************************************)
(* A batch of records: the handler of @middy/event-batch-handler, or one of *)
(* the user's that settles every record itself, and the middleware that     *)
(* reports the failures, @middy/event-batch-response or                     *)
(* @middy/sqs-partial-batch-failure.  The event source (external) delivers  *)
(* the reported records again, and no other.                                *)
(***************************************************************************)

CONSTANT BatchLength

VARIABLES
  stage,     \* "new", "running", "settled", "failed" (the handler threw) or "reported"
  mode,      \* how the batch is handled
  record,    \* what has become of each record
  failures   \* batchItemFailures

batchVars == <<stage, mode, record, failures>>

Records == 1..BatchLength
Modes ==
  { m \in [fifo : BOOLEAN, durable : BOOLEAN, concurrency : Records, unparsable : SUBSET Records,
           handler : {"event-batch-handler", "own"},
           reporter : {"event-batch-response", "sqs-partial-batch-failure"}] :
      /\ m.handler = "own" => ~m.durable /\ m.unparsable = {} /\ m.concurrency = BatchLength
      /\ m.reporter = "sqs-partial-batch-failure" => m.unparsable = {} }
Unbatched == [fifo |-> FALSE, durable |-> FALSE, concurrency |-> BatchLength, unparsable |-> {},
              handler |-> "own", reporter |-> "sqs-partial-batch-failure"]

In(status) == {r \in Records : record[r] = status}
Earlier(r) == {q \in Records : q < r}
Sequential == mode.fifo /\ mode.handler = "event-batch-handler"
Workers == IF Sequential THEN 1 ELSE mode.concurrency

BatchInit ==
  /\ stage = "new" /\ mode = Unbatched /\ failures = {}
  /\ record = [r \in Records |-> "waiting"]
Receive ==
  /\ stage = "new" /\ stage' = "running" /\ mode' \in Modes
  /\ UNCHANGED <<record, failures>>

----------------------------------------------------------------------------
\* Fault: a failure does not stop the others.
NeverStops == FALSE
Stopped == Sequential /\ In("rejected") # {}
\* A worker takes the next record; one that failed to parse settles without the handler.
Take(r) ==
  /\ stage = "running" /\ ~Stopped
  /\ record[r] = "waiting" /\ Earlier(r) \cap In("waiting") = {}
  /\ Cardinality(In("running")) < Workers
  /\ record' = [record EXCEPT ![r] = IF r \in mode.unparsable THEN "rejected" ELSE "running"]
  /\ UNCHANGED <<stage, mode, failures>>
Settle(r) ==
  /\ stage = "running" /\ record[r] = "running"
  /\ \E status \in {"fulfilled", "rejected"} : record' = [record EXCEPT ![r] = status]
  /\ UNCHANGED <<stage, mode, failures>>

\* The first rejected record of a durable batch that is looked at, and had its step.
StepFailed ==
  /\ mode.durable
  /\ \E r \in In("rejected") \ mode.unparsable : mode.fifo => Earlier(r) \subseteq In("fulfilled")
\* What a failure kept from running settles as rejected too.
UnprocessedRejected == [r \in Records |-> IF record[r] = "waiting" THEN "unprocessed" ELSE record[r]]
HandlerEnds ==
  /\ stage = "running" /\ In("running") = {} /\ (In("waiting") = {} \/ Stopped)
  /\ record' = UnprocessedRejected
  /\ stage' = IF StepFailed THEN "failed" ELSE "settled"
  /\ UNCHANGED <<mode, failures>>
\* The user's handler throws, or one before or after it.
HandlerThrows ==
  /\ stage \in {"running", "settled"} /\ stage' = "failed"
  /\ UNCHANGED <<mode, record, failures>>

\* Fault: sqs-partial-batch-failure reports what was rejected.
RejectedOnly == Records \ In("fulfilled")
\* The after hooks.
Unfulfilled ==
  {r \in Records : \/ record[r] # "fulfilled"
                   \/ /\ mode.reporter = "sqs-partial-batch-failure" /\ mode.fifo
                      /\ ~(Earlier(r) \subseteq In("fulfilled"))}
Report ==
  /\ \/ stage = "settled" /\ failures' = Unfulfilled
     \/ stage = "failed" /\ failures' = Records  \* the onError hooks
  /\ stage' = "reported" /\ UNCHANGED <<mode, record>>

Goes == (\E r \in Records : Take(r) \/ Settle(r)) \/ HandlerEnds \/ Report
BatchNext == Receive \/ Goes \/ HandlerThrows
BatchSpec == BatchInit /\ [][BatchNext]_batchVars

----------------------------------------------------------------------------
BatchTypeOK ==
  /\ stage \in {"new", "running", "settled", "failed", "reported"} /\ mode \in Modes
  /\ record \in [Records -> {"waiting", "running", "fulfilled", "rejected", "unprocessed"}]
  /\ failures \subseteq Records

\* A record that is not reported has been processed and, in a FIFO queue, every record
\* before it; event-batch-handler does not process one after a failure.
SuccessIsWhole ==
  /\ stage = "reported" =>
       \A r \in Records \ failures :
         /\ record[r] = "fulfilled"
         /\ mode.fifo /\ (Sequential \/ mode.reporter = "sqs-partial-batch-failure") =>
              Earlier(r) \subseteq In("fulfilled")
  /\ Sequential => \A r \in In("running") \cup In("fulfilled") : Earlier(r) \subseteq In("fulfilled")

----------------------------------------------------------------------------
(***************************************************************************)
(* What each batch service is told by @middy/event-batch-response: a list   *)
(* of failed items (SQS, Kinesis, DynamoDB), the same by partition (Kafka), *)
(* or a result for every record (S3 Batch Operations, a Firehose            *)
(* transform).  The handler returns an array, as Promise.allSettled makes   *)
(* one or not, and of any length.                                           *)
(***************************************************************************)

CONSTANT Tasks  \* records of a batch

VARIABLES
  event,    \* who sent it
  cached,   \* the source the before hook found, "none" or "unsupported"
  settled,  \* what the handler returned: its array
  reply     \* what the after hook made of it, once it has

replyVars == <<event, cached, settled, reply>>

\* The marks detectEventSource looks for in what each service sends.
Unmarked == [named |-> "none", stream |-> FALSE, schema |-> FALSE, first |-> "none"]
Sent == [
  sqs |-> [Unmarked EXCEPT !.first = "aws:sqs"],
  kafka |-> [Unmarked EXCEPT !.named = "aws:kafka"],
  s3batch |-> [Unmarked EXCEPT !.schema = TRUE],
  firehose |-> [Unmarked EXCEPT !.stream = TRUE],
  mq |-> [Unmarked EXCEPT !.named = "aws:mq"],
  api |-> Unmarked]
DetectEventSource(e) ==
  CASE e.named # "none" -> e.named
    [] e.named = "none" /\ e.stream -> "aws:lambda:events"
    [] e.named = "none" /\ ~e.stream /\ e.schema -> "aws:s3:batch"
    [] OTHER -> e.first
\* resolveBatchSource; the registry has the sources with a partial batch response.
Sources == {"aws:sqs", "aws:kafka", "aws:s3:batch", "aws:lambda:events"}
ResolveBatchSource(e) ==
  LET source == DetectEventSource(e)
  IN  IF source \in Sources \cup {"none"} THEN source ELSE "unsupported"

\* The partition and offset of a Kafka message; two partitions have the same offsets.
Identify(i) == IF cached = "aws:kafka" THEN [partition |-> i % 2, offset |-> i \div 2] ELSE [id |-> i]

\* What a record's promise comes to.  A verdict is an object with the service's own result in
\* it, for Firehose with data or without.
Plain == {[is |-> "nothing"], [is |-> "text"], [is |-> "object"]}
Verdicts == [is : {"verdict"}, says : {"succeeded", "failed"}, data : BOOLEAN]
Entries ==
  [status : {"fulfilled"}, value : Plain \cup Verdicts]
  \cup [status : {"rejected"}, value : {[is |-> "nothing"], [is |-> "verdict", says |-> "succeeded", data |-> TRUE]}]
  \cup [status : {"none"}, value : {[is |-> "text"]}]  \* an array of something else
Missing == [status |-> "missing", value |-> [is |-> "nothing"]]
Entry(i) == IF i <= Len(settled) THEN settled[i] ELSE Missing
Fulfilled(i) == Entry(i).status = "fulfilled"
Says(i) == IF Entry(i).value.is = "verdict" THEN Entry(i).value.says ELSE "nothing"

ReplyInit == event \in DOMAIN Sent /\ cached = "unread" /\ settled = <<>> /\ reply = {}
Before ==
  /\ cached = "unread" /\ cached' = ResolveBatchSource(Sent[event]) /\ UNCHANGED <<event, settled, reply>>

----------------------------------------------------------------------------
\* Fault: the array is gone through, not the records.
EntryRejected == {i \in 1..Len(settled) : ~Fulfilled(i)}
NotFulfilled == {i \in 1..Tasks : ~Fulfilled(i)}
\* buildBatchItemFailures and buildKafkaBatchItemFailures; their order says nothing.
BuildBatchItemFailures == {Identify(i) : i \in NotFulfilled}

\* toS3BatchResult: the handler's own code, or the default one.
ToS3BatchResult(i, default) ==
  [taskId |-> Identify(i), resultCode |-> IF Says(i) = "nothing" THEN default ELSE Says(i)]
\* Fault: what did not reject is done.
UnlessRejected(i) == IF Entry(i).status # "rejected" THEN "succeeded" ELSE "failed"
DefaultCode(i) == IF Fulfilled(i) THEN "succeeded" ELSE "failed"
BuildS3BatchResponse == [i \in 1..Tasks |-> ToS3BatchResult(i, DefaultCode(i))]

\* encodeFirehoseData: no data of its own leaves the record as it came.
HasData(i) == CASE Entry(i).value.is = "nothing" -> FALSE
                [] Entry(i).value.is = "verdict" -> Entry(i).value.data
                [] OTHER -> TRUE
\* Fault: it is encoded all the same.
EncodesAnything(i) == "encoded"
Data(i) == IF HasData(i) THEN "encoded" ELSE "delivered"
\* toFirehoseRecord; a failed record comes back as it was delivered.
ToFirehoseRecord(i) ==
  IF Fulfilled(i)
  THEN [recordId |-> Identify(i), result |-> IF Says(i) = "nothing" THEN "succeeded" ELSE Says(i), data |-> Data(i)]
  ELSE [recordId |-> Identify(i), result |-> "failed", data |-> "delivered"]
BuildFirehoseResponse == [i \in 1..Tasks |-> ToFirehoseRecord(i)]

BuildResponse ==
  CASE cached = "aws:s3:batch" -> BuildS3BatchResponse
    [] cached = "aws:lambda:events" -> BuildFirehoseResponse
    [] OTHER -> BuildBatchItemFailures
\* The handler's array has one more entry.
HandlerReturns ==
  /\ cached \in Sources /\ reply = {} /\ Len(settled) <= Tasks
  /\ \E entry \in Entries : settled' = Append(settled, entry)
  /\ UNCHANGED <<event, cached, reply>>
After == reply = {} /\ cached \in Sources /\ reply' = {BuildResponse} /\ UNCHANGED <<event, cached, settled>>

ReplyNext == Before \/ HandlerReturns \/ After
ReplySpec == ReplyInit /\ [][ReplyNext]_replyVars

----------------------------------------------------------------------------
ReplyTypeOK ==
  /\ event \in DOMAIN Sent /\ cached \in Sources \cup {"unread", "none", "unsupported"}
  /\ settled \in Seq(Entries) /\ Cardinality(reply) <= 1

\* What the service takes for done.
Whole == cached \in {"aws:s3:batch", "aws:lambda:events"}
Result(items, i) == IF cached = "aws:s3:batch" THEN items[i].resultCode ELSE items[i].result
Done(items, i) == IF Whole THEN Result(items, i) = "succeeded" ELSE Identify(i) \notin items
\* A service takes a record for done just when its promise was fulfilled, or the handler said so
\* in the service's own words, however long the array; it has a result of every record it
\* asks one for, and data never made of nothing.  A service that has no reply to read, or reads
\* another, is never given one.
ToldAsSettled ==
  \A items \in reply :
    /\ event \in {"sqs", "kafka", "s3batch", "firehose"}
    /\ Whole => Len(items) = Tasks
    /\ \A i \in 1..Tasks :
         /\ Done(items, i) => Fulfilled(i) \/ (Whole /\ Says(i) = "succeeded")
         /\ Fulfilled(i) /\ Says(i) # "failed" => Done(items, i)
         /\ cached = "aws:lambda:events" =>
              (items[i].data = "encoded" => Fulfilled(i) /\ Entry(i).value.is # "nothing")

----------------------------------------------------------------------------
(***************************************************************************)
(* Both are proved for batches of any length.                              *)
(***************************************************************************)

\* Nothing has happened to a new batch, and records go unprocessed when the handler ends.
Untouched ==
  /\ stage = "new" => \A r \in Records : record[r] = "waiting"
  /\ stage = "running" => \A r \in Records : record[r] # "unprocessed"
\* event-batch-handler has come to a record of a FIFO queue only after those before it.
InOrder ==
  Sequential => \A r \in Records : record[r] \in {"running", "fulfilled"} =>
                  \A q \in Earlier(r) : record[q] = "fulfilled"
\* What is not reported is processed, and in a FIFO queue all before it.
ReportWhole ==
  stage = "reported" => \A r \in Records \ failures :
    /\ record[r] = "fulfilled"
    /\ mode.fifo /\ mode.reporter = "sqs-partial-batch-failure" => \A q \in Earlier(r) : record[q] = "fulfilled"
BatchInv == BatchTypeOK /\ Untouched /\ InOrder /\ ReportWhole

\* The invariant holds before a batch has come.
LEMMA BatchStarts == ASSUME BatchLength \in Nat \ {0} PROVE BatchInit => BatchInv
<1> SUFFICES ASSUME BatchInit PROVE BatchInv
  OBVIOUS
<1>1. Unbatched \in Modes
  BY DEF Unbatched, Modes, Records
<1>2. BatchTypeOK
  BY <1>1 DEF BatchInit, BatchTypeOK
<1> QED BY <1>2 DEF BatchInit, BatchInv, Untouched, InOrder, ReportWhole, Earlier

\* No record is being processed while one worker, the only one, takes the next.
LEMMA OneWorker ==
  ASSUME BatchLength \in Nat \ {0}, Sequential, Cardinality(In("running")) < Workers
  PROVE  \A r \in Records : record[r] # "running"
<1>1. IsFiniteSet(Records)
  BY FS_Interval DEF Records
<1>2. IsFiniteSet(In("running"))
  BY <1>1, FS_Subset DEF In
<1>3. Cardinality(In("running")) \in Nat
  BY <1>2, FS_CardinalityType
<1>4. Cardinality(In("running")) = 0
  BY <1>3 DEF Workers
<1> QED BY <1>2, <1>4, FS_EmptySet DEF In

\* A record is taken once, in its turn where the mode has one.
LEMMA TakeKeeps ==
  ASSUME BatchLength \in Nat \ {0}, BatchInv, NEW r \in Records, Take(r) PROVE BatchInv'
<1> USE DEF BatchInv
<1>1. record' = [record EXCEPT ![r] = IF r \in mode.unparsable THEN "rejected" ELSE "running"]
  BY DEF Take
<1>2. /\ stage = "running" /\ record[r] = "waiting" /\ UNCHANGED <<stage, mode, failures>>
      /\ \A q \in Earlier(r) : record[q] # "waiting"
  BY DEF Take, In, Earlier
<1>3. BatchTypeOK'
  BY <1>1, <1>2 DEF BatchTypeOK
<1>4. InOrder'
  <2> SUFFICES ASSUME Sequential, NEW n \in Records, record'[n] \in {"running", "fulfilled"},
                      NEW q \in Earlier(n)
               PROVE  record'[q] = "fulfilled"
    BY <1>2 DEF InOrder, Sequential, Earlier
  <2>1. q \in Records /\ q < n
    BY DEF Earlier
  <2>2. CASE n = r
    <3>1. record[q] # "running"
      BY <2>1, OneWorker DEF Take
    <3>2. record[q] # "rejected"
      BY <2>1 DEF Take, Stopped, In
    <3>3. record[q] = "fulfilled"
      BY <1>2, <2>1, <2>2, <3>1, <3>2 DEF BatchTypeOK, Untouched
    <3> QED BY <1>1, <2>1, <2>2, <3>3 DEF BatchTypeOK, Records
  <2>3. CASE n # r
    <3>1. record[q] = "fulfilled"
      BY <1>1, <2>3 DEF InOrder, BatchTypeOK
    <3> QED BY <1>1, <1>2, <2>1, <3>1 DEF BatchTypeOK
  <2> QED BY <2>2, <2>3
<1> QED BY <1>1, <1>2, <1>3, <1>4 DEF Untouched, ReportWhole, BatchTypeOK

\* A record that is being handled settles once.
LEMMA SettleKeeps ==
  ASSUME BatchLength \in Nat \ {0}, BatchInv, NEW r \in Records, Settle(r) PROVE BatchInv'
<1> USE DEF BatchInv
<1>1. PICK status \in {"fulfilled", "rejected"} : record' = [record EXCEPT ![r] = status]
  BY DEF Settle
<1>2. stage = "running" /\ record[r] = "running" /\ UNCHANGED <<stage, mode, failures>>
  BY DEF Settle
<1>3. BatchTypeOK'
  BY <1>1, <1>2 DEF BatchTypeOK
<1>4. InOrder'
  <2> SUFFICES ASSUME Sequential, NEW n \in Records, record'[n] \in {"running", "fulfilled"},
                      NEW q \in Earlier(n)
               PROVE  record'[q] = "fulfilled"
    BY <1>2 DEF InOrder, Sequential, Earlier
  <2>1. record[n] \in {"running", "fulfilled"} /\ q \in Records
    BY <1>1, <1>2 DEF BatchTypeOK, Earlier
  <2>2. record[q] = "fulfilled"
    BY <2>1 DEF InOrder
  <2> QED BY <1>1, <1>2, <2>1, <2>2 DEF BatchTypeOK
<1> QED BY <1>1, <1>2, <1>3, <1>4 DEF Untouched, ReportWhole, BatchTypeOK

\* The handler has returned or thrown: the records that are under way stay so.
LEMMA HandlerEndsKeeps == ASSUME BatchInv, HandlerEnds PROVE BatchInv'
<1> USE DEF BatchInv
<1>1. /\ stage' \in {"failed", "settled"} /\ UNCHANGED <<mode, failures>>
      /\ record' = [r \in Records |-> IF record[r] = "waiting" THEN "unprocessed" ELSE record[r]]
  BY DEF HandlerEnds, UnprocessedRejected
<1>2. BatchTypeOK'
  BY <1>1 DEF BatchTypeOK
<1>3. InOrder'
  <2> SUFFICES ASSUME Sequential, NEW n \in Records, record'[n] \in {"running", "fulfilled"},
                      NEW q \in Earlier(n)
               PROVE  record'[q] = "fulfilled"
    BY <1>1 DEF InOrder, Sequential, Earlier
  <2>1. record[n] \in {"running", "fulfilled"} /\ q \in Records
    BY <1>1 DEF Earlier
  <2> QED BY <1>1, <2>1 DEF InOrder
<1> QED BY <1>1, <1>2, <1>3 DEF Untouched, ReportWhole

\* What is reported as failed is what has not succeeded.
LEMMA ReportKeeps == ASSUME BatchInv, Report PROVE BatchInv'
<1> USE DEF BatchInv
<1>1. stage' = "reported" /\ UNCHANGED <<mode, record>>
  BY DEF Report
<1>2. failures' \subseteq Records /\ \A r \in Records \ failures' : failures' = Unfulfilled
  BY DEF Report, Unfulfilled
<1>3. BatchTypeOK'
  BY <1>1, <1>2 DEF BatchTypeOK
<1>4. ReportWhole'
  <2> SUFFICES ASSUME NEW r \in Records \ failures'
               PROVE  /\ record[r] = "fulfilled"
                      /\ mode.fifo /\ mode.reporter = "sqs-partial-batch-failure" =>
                           \A q \in Earlier(r) : record[q] = "fulfilled"
    BY <1>1 DEF ReportWhole, Earlier
  <2>1. r \notin Unfulfilled
    BY <1>2
  <2> QED BY <2>1 DEF Unfulfilled, In
<1> QED BY <1>1, <1>3, <1>4 DEF Untouched, InOrder, Sequential, Earlier

\* Every step keeps the invariant.
LEMMA BatchSteps == ASSUME BatchLength \in Nat \ {0}, BatchInv, [BatchNext]_batchVars PROVE BatchInv'
<1>1. CASE Receive
  BY <1>1 DEF Receive, BatchInv, BatchTypeOK, Untouched, InOrder, ReportWhole, Sequential, Earlier
<1>2. CASE HandlerThrows
  BY <1>2 DEF HandlerThrows, BatchInv, BatchTypeOK, Untouched, InOrder, ReportWhole, Sequential, Earlier
<1>3. CASE UNCHANGED batchVars
  BY <1>3 DEF batchVars, BatchInv, BatchTypeOK, Untouched, InOrder, ReportWhole, Sequential, Earlier
<1> QED
  BY <1>1, <1>2, <1>3, TakeKeeps, SettleKeeps, HandlerEndsKeeps, ReportKeeps DEF BatchNext, Goes

\* The invariant says what is claimed of a report.
LEMMA BatchHolds == BatchInv => BatchTypeOK /\ SuccessIsWhole
<1> SUFFICES ASSUME BatchInv PROVE SuccessIsWhole
  BY DEF BatchInv
<1> USE DEF BatchInv
<1>1. Sequential => \A r \in In("running") \cup In("fulfilled") : Earlier(r) \subseteq In("fulfilled")
  BY DEF InOrder, In, Earlier
<1>2. ASSUME stage = "reported", NEW r \in Records \ failures
      PROVE  /\ record[r] = "fulfilled"
             /\ mode.fifo /\ (Sequential \/ mode.reporter = "sqs-partial-batch-failure") =>
                  Earlier(r) \subseteq In("fulfilled")
  <2>1. record[r] = "fulfilled"
    BY <1>2 DEF ReportWhole
  <2>2. Sequential => Earlier(r) \subseteq In("fulfilled")
    BY <1>1, <2>1 DEF In
  <2>3. mode.fifo /\ mode.reporter = "sqs-partial-batch-failure" => Earlier(r) \subseteq In("fulfilled")
    BY <1>2 DEF ReportWhole, In, Earlier
  <2> QED BY <2>1, <2>2, <2>3
<1> QED BY <1>1, <1>2 DEF SuccessIsWhole

\* A record left out of a report, so that its source never delivers it again, has been
\* processed, and in a FIFO queue every record before it, whatever the length of the batch, the
\* concurrency, the handler and the middleware that reports.
THEOREM ReportsAreWhole ==
  ASSUME BatchLength \in Nat \ {0} PROVE BatchSpec => [](BatchTypeOK /\ SuccessIsWhole)
<1>1. BatchInit => BatchInv
  BY BatchStarts
<1>2. BatchInv /\ [BatchNext]_batchVars => BatchInv'
  BY BatchSteps
<1>3. BatchInv => BatchTypeOK /\ SuccessIsWhole
  BY BatchHolds
<1> QED BY <1>1, <1>2, <1>3, PTL DEF BatchSpec

----------------------------------------------------------------------------
\* The source is the one the event is from, and the reply is built of what the handler returned.
ReplyInv ==
  /\ event \in DOMAIN Sent /\ settled \in Seq(Entries)
  /\ cached \in {"unread", ResolveBatchSource(Sent[event])}
  /\ reply # {} => cached \in Sources /\ reply = {BuildResponse}

\* Each event is told by its own mark.
LEMMA SourceIsSenders ==
  ASSUME NEW e \in DOMAIN Sent
  PROVE  /\ ResolveBatchSource(Sent[e]) \in Sources \cup {"none", "unsupported"}
         /\ ResolveBatchSource(Sent[e]) \in Sources => e \in {"sqs", "kafka", "s3batch", "firehose"}
<1>1. e \in {"sqs", "kafka", "s3batch", "firehose", "mq", "api"}
  BY DEF Sent
<1>2. CASE e = "mq"
  BY <1>2 DEF Sent, Unmarked, ResolveBatchSource, DetectEventSource, Sources
<1>3. CASE e = "api"
  BY <1>3 DEF Sent, Unmarked, ResolveBatchSource, DetectEventSource, Sources
<1>4. CASE e \in {"sqs", "kafka", "s3batch", "firehose"}
  BY <1>4 DEF ResolveBatchSource
<1> QED BY <1>1, <1>2, <1>3, <1>4

\* Two records of a batch have different identifiers.
LEMMA IdentifiersDiffer ==
  ASSUME Tasks \in Nat, NEW i \in 1..Tasks, NEW j \in 1..Tasks, Identify(i) = Identify(j) PROVE i = j
<1>1. CASE cached = "aws:kafka"
  <2>1. i % 2 = j % 2 /\ i \div 2 = j \div 2
    BY <1>1 DEF Identify
  <2>2. i = 2 * (i \div 2) + (i % 2) /\ j = 2 * (j \div 2) + (j % 2)
    OBVIOUS
  <2> QED BY <2>1, <2>2
<1>2. CASE cached # "aws:kafka"
  BY <1>2 DEF Identify
<1> QED BY <1>1, <1>2

\* What each service reads in the reply it is given.
LEMMA ListRead ==
  ASSUME Tasks \in Nat, ~Whole, NEW i \in 1..Tasks PROVE Done(BuildResponse, i) <=> Fulfilled(i)
<1>1. BuildResponse = {Identify(j) : j \in {k \in 1..Tasks : ~Fulfilled(k)}}
  BY DEF BuildResponse, Whole, BuildBatchItemFailures, NotFulfilled
<1>2. Done(BuildResponse, i) <=> \A j \in {k \in 1..Tasks : ~Fulfilled(k)} : Identify(j) # Identify(i)
  BY <1>1 DEF Done
<1> QED BY <1>2, IdentifiersDiffer

\* S3 Batch Operations is told of each task what came of it.
LEMMA S3Read ==
  ASSUME Tasks \in Nat, cached = "aws:s3:batch", NEW i \in 1..Tasks
  PROVE  /\ Len(BuildResponse) = Tasks
         /\ Done(BuildResponse, i) <=> (IF Says(i) = "nothing" THEN Fulfilled(i) ELSE Says(i) = "succeeded")
<1>1. BuildResponse = [j \in 1..Tasks |-> ToS3BatchResult(j, DefaultCode(j))]
  BY DEF BuildResponse, BuildS3BatchResponse
<1>2. BuildResponse[i].resultCode = IF Says(i) = "nothing" THEN DefaultCode(i) ELSE Says(i)
  BY <1>1 DEF ToS3BatchResult
<1> QED BY <1>1, <1>2 DEF Done, Whole, Result, DefaultCode

\* Firehose is told of each record what came of it.
LEMMA FirehoseRead ==
  ASSUME Tasks \in Nat, cached = "aws:lambda:events", NEW i \in 1..Tasks
  PROVE  /\ Len(BuildResponse) = Tasks
         /\ Done(BuildResponse, i) <=> Fulfilled(i) /\ Says(i) \in {"nothing", "succeeded"}
         /\ BuildResponse[i].data = "encoded" => Fulfilled(i) /\ HasData(i)
<1>1. BuildResponse = [j \in 1..Tasks |-> ToFirehoseRecord(j)]
  BY DEF BuildResponse, BuildFirehoseResponse
<1>2. CASE Fulfilled(i)
  <2>1. /\ BuildResponse[i].result = IF Says(i) = "nothing" THEN "succeeded" ELSE Says(i)
        /\ BuildResponse[i].data = Data(i)
    BY <1>1, <1>2 DEF ToFirehoseRecord
  <2> QED BY <1>1, <1>2, <2>1 DEF Done, Whole, Result, Data
<1>3. CASE ~Fulfilled(i)
  <2>1. BuildResponse[i].result = "failed" /\ BuildResponse[i].data = "delivered"
    BY <1>1, <1>3 DEF ToFirehoseRecord
  <2> QED BY <1>1, <1>3, <2>1 DEF Done, Whole, Result
<1> QED BY <1>2, <1>3

\* What came of a record is one of three things.
LEMMA SaysWell == ASSUME ReplyInv, NEW i \in Nat \ {0} PROVE Says(i) \in {"nothing", "succeeded", "failed"}
<1>1. Entry(i) \in Entries \cup {Missing}
  BY DEF ReplyInv, Entry
<1> QED BY <1>1 DEF Says, Entries, Missing, Plain, Verdicts

\* The invariant says what is claimed of a reply.
LEMMA ReplyHolds == ASSUME Tasks \in Nat, ReplyInv PROVE ReplyTypeOK /\ ToldAsSettled
<1>1. ReplyTypeOK
  <2>1. Cardinality(reply) <= 1
    <3>1. reply = {} => Cardinality(reply) = 0
      BY FS_EmptySet
    <3>2. reply # {} => Cardinality(reply) = 1
      BY FS_Singleton DEF ReplyInv
    <3> QED BY <3>1, <3>2
  <2> QED BY <2>1, SourceIsSenders DEF ReplyInv, ReplyTypeOK
<1>2. ToldAsSettled
  <2> SUFFICES ASSUME NEW items \in reply
               PROVE  /\ event \in {"sqs", "kafka", "s3batch", "firehose"}
                      /\ Whole => Len(items) = Tasks
                      /\ \A i \in 1..Tasks :
                           /\ Done(items, i) => Fulfilled(i) \/ (Whole /\ Says(i) = "succeeded")
                           /\ Fulfilled(i) /\ Says(i) # "failed" => Done(items, i)
                           /\ cached = "aws:lambda:events" =>
                                (items[i].data = "encoded" => Fulfilled(i) /\ Entry(i).value.is # "nothing")
    BY DEF ToldAsSettled
  <2>1. items = BuildResponse /\ cached \in Sources /\ cached = ResolveBatchSource(Sent[event])
    BY DEF ReplyInv, Sources
  <2>2. event \in {"sqs", "kafka", "s3batch", "firehose"}
    BY <2>1, SourceIsSenders DEF ReplyInv
  <2>3. Whole => Len(items) = Tasks
    BY <2>1 DEF Whole, BuildResponse, BuildS3BatchResponse, BuildFirehoseResponse
  <2>4. ASSUME NEW i \in 1..Tasks
        PROVE  /\ Done(items, i) => Fulfilled(i) \/ (Whole /\ Says(i) = "succeeded")
               /\ Fulfilled(i) /\ Says(i) # "failed" => Done(items, i)
               /\ cached = "aws:lambda:events" =>
                    (items[i].data = "encoded" => Fulfilled(i) /\ Entry(i).value.is # "nothing")
    <3>1. Says(i) \in {"nothing", "succeeded", "failed"}
      BY SaysWell
    <3>2. CASE ~Whole
      BY <2>1, <3>2, ListRead DEF Whole
    <3>3. CASE cached = "aws:s3:batch"
      BY <2>1, <3>1, <3>3, S3Read DEF Whole
    <3>4. CASE cached = "aws:lambda:events"
      BY <2>1, <3>1, <3>4, FirehoseRead DEF Whole, HasData
    <3> QED BY <3>2, <3>3, <3>4 DEF Whole
  <2> QED BY <2>2, <2>3, <2>4
<1> QED BY <1>1, <1>2

\* A reply says the same as long as the handler's array does.
LEMMA ReplyStays == ASSUME UNCHANGED <<cached, settled>> PROVE BuildResponse' = BuildResponse
BY DEF BuildResponse, BuildS3BatchResponse, BuildFirehoseResponse, BuildBatchItemFailures, NotFulfilled, Fulfilled,
       Entry, Identify, ToS3BatchResult, ToFirehoseRecord, DefaultCode, Says, Data, HasData

\* Every step keeps the invariant.
LEMMA ReplySteps == ASSUME ReplyInv, [ReplyNext]_replyVars PROVE ReplyInv'
<1>1. CASE Before
  BY <1>1, SourceIsSenders DEF Before, ReplyInv, Sources
<1>2. CASE HandlerReturns
  BY <1>2 DEF HandlerReturns, ReplyInv
<1>3. CASE After
  BY <1>3, ReplyStays DEF After, ReplyInv
<1>4. CASE UNCHANGED replyVars
  BY <1>4, ReplyStays DEF replyVars, ReplyInv
<1> QED BY <1>1, <1>2, <1>3, <1>4 DEF ReplyNext

\* Whatever the handler returns, and however many entries there are, a service of a batch takes
\* for done those records that were fulfilled or that the handler said were, and no others.
THEOREM ServicesAreTold == ASSUME Tasks \in Nat PROVE ReplySpec => [](ReplyTypeOK /\ ToldAsSettled)
<1>1. ReplyInit => ReplyInv
  BY DEF ReplyInit, ReplyInv
<1>2. ReplyInv /\ [ReplyNext]_replyVars => ReplyInv'
  BY ReplySteps
<1>3. ReplyInv => ReplyTypeOK /\ ToldAsSettled
  BY ReplyHolds
<1> QED BY <1>1, <1>2, <1>3, PTL DEF ReplySpec
=============================================================================
