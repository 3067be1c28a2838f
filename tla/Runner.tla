------------------------------- MODULE Runner -------------------------------
(***************************************************************************)
(* ecsBatchRunner of @middy/ecs-batch: the poll loop with the poller of the *)
(* one source it was configured with.  The other pollers' variables keep    *)
(* their initial values.                                                    *)
(***************************************************************************)
EXTENDS PollLoop

CONSTANTS MaxRejections, BatchSize, Prefetch  \* see KafkaPoller and BrokerPoller
ASSUME SourcesAssumption ==
  MaxRejections \in Nat /\ BatchSize \in Nat \ {0} /\ Prefetch \in Nat \ {0}

VARIABLE source  \* poller.source

VARIABLES pc, position, iterator, fresh, next, retry, begin, arrived, trimmed, closed
VARIABLES each, inflightIds, unresolved, rebalance, rejections, retries, crashed, committed
VARIABLES reader, reading, pending, failure, consuming, channel, queue, unsettled
VARIABLES visible, deleted, toDelete

pollKinesis == INSTANCE StreamPoller WITH Trims <- FALSE
pollDynamoDBStreams == INSTANCE StreamPoller WITH Trims <- TRUE
pollKafka == INSTANCE KafkaPoller
pollRmq == INSTANCE BrokerPoller WITH ReadsBody <- FALSE
pollAmq == INSTANCE BrokerPoller WITH ReadsBody <- TRUE
pollSqs == INSTANCE SqsPoller

streamVars == <<pc, position, iterator, fresh, next, retry, begin, arrived, trimmed, closed>>
kafkaVars == <<each, inflightIds, unresolved, rebalance, rejections, retries, crashed, committed>>
brokerVars == <<reader, reading, pending, failure, consuming, channel, queue, unsettled>>
sqsVars == <<visible, deleted, toDelete>>
vars == <<source, loopVars, streamVars, kafkaVars, brokerVars, sqsVars>>

Streams == {"aws:kinesis", "aws:dynamodb"}
Brokers == {"aws:rmq", "aws:amq"}
Sources == Streams \cup Brokers \cup {"aws:kafka", "aws:sqs"}

\* Only streams and Kafka retry by themselves; where a stream's poller starts is of no
\* interest to the other sources.
Init ==
  /\ source \in Sources
  /\ pollKinesis!Init /\ pollKafka!Init /\ pollRmq!Init /\ pollSqs!Init
  /\ source \notin Streams => arrived = 0 /\ position = pollKinesis!LATEST
  /\ source \in Brokers \cup {"aws:sqs"} => limit = -1

Polls(s) == source = s /\ UNCHANGED source

Next ==
  \/ Polls("aws:kinesis") /\ pollKinesis!Next /\ UNCHANGED <<kafkaVars, brokerVars, sqsVars>>
  \/ Polls("aws:dynamodb") /\ pollDynamoDBStreams!Next /\ UNCHANGED <<kafkaVars, brokerVars, sqsVars>>
  \/ Polls("aws:kafka") /\ pollKafka!Next /\ UNCHANGED <<streamVars, brokerVars, sqsVars>>
  \/ Polls("aws:rmq") /\ pollRmq!Next /\ UNCHANGED <<streamVars, kafkaVars, sqsVars>>
  \/ Polls("aws:amq") /\ pollAmq!Next /\ UNCHANGED <<streamVars, kafkaVars, sqsVars>>
  \/ Polls("aws:sqs") /\ pollSqs!Next /\ UNCHANGED <<streamVars, kafkaVars, brokerVars>>

\* The poller goes on when a request or a timer lets it, the handler ends, and kafkajs
\* goes on fetching.
Fairness ==
  /\ WF_pollKinesis!vars(source \in Streams /\ pollKinesis!Poll)
  /\ WF_pollKafka!vars(source = "aws:kafka" /\ (pollKafka!Resumes \/ pollKafka!Disconnect))
  /\ WF_pollKafka!vars(source = "aws:kafka" /\ (pollKafka!BackedOff \/ pollKafka!Commit))
  /\ \A p \in {0, 1} : WF_pollKafka!vars(source = "aws:kafka" /\ pollKafka!EachBatch(p))
  /\ WF_pollRmq!vars(source \in Brokers /\ pollRmq!Poll)
  /\ WF_pollSqs!vars(source = "aws:sqs" /\ pollSqs!Poll)

Spec == Init /\ [][Next]_vars /\ Fairness

----------------------------------------------------------------------------
\* The records the source will not deliver again.
Gone ==
  CASE source \in Streams -> pollKinesis!Gone
    [] source = "aws:kafka" -> pollKafka!Gone
    [] source \in Brokers -> pollRmq!Gone
    [] source = "aws:sqs" -> pollSqs!Gone

TypeOK ==
  /\ source \in Sources
  /\ pollKinesis!TypeOK /\ pollKafka!TypeOK /\ pollRmq!TypeOK /\ pollSqs!TypeOK

Promise == INSTANCE Delivery WITH gone <- Gone

\* The runner implements Delivery: whatever the source, and however batches fail,
\* iterators expire, records are trimmed, commits are rejected or channels close, a record
\* is checkpointed, committed, acked or deleted only once the handler has succeeded with it
\* or its loss has been reported.
ImplementsDelivery == Promise!Spec

\* Records are given up on only after the batch has been delivered for its lowest failed
\* record as often as maxRetryAttempts allows, whatever else was read with it each time.
DiscardsExhausted ==
  [][loop = "handling" /\ reported' # reported =>
       \E r \in batch \cap reported' :
          failures'[r] > limit /\ \A q \in reported' \ reported : r <= q]_vars

\* What the documentation says of a limit: the failed records are discarded after that
\* many retries, each of them.  Only the lowest failed record is counted, so a record that
\* arrived during its retries is discarded with it, having failed once.
DiscardedWereRetried ==
  [][loop = "handling" => \A r \in reported' \ reported : failures'[r] > limit]_vars

\* No delivery of a broker is acked or nacked twice, or after it was requeued, over all
\* the ways a batch can end: the broker would close the channel under the poller.
SettledOnce == source \in Brokers => pollRmq!SettledOnce

\* The broker's window never leaks: while the poller is in order, each delivery it has not
\* settled is buffered or in the batch the handler holds.
DeliveriesHeld == source \in Brokers => pollRmq!DeliveriesHeld

\* With a retry limit no record blocks its shard or partition: a record that reaches the
\* handler leaves the source in the end, unless the poll ends first.  And a generator that
\* parks on an empty buffer is woken: deliveries reach the handler.
MovesOn ==
  /\ \A r \in Records : limit # -1 /\ r \in batch ~> r \in Gone \/ Over
  /\ pending # {} ~> batch # {} \/ Over

\* A poll that is aborted, or that has lost its consumer for good, ends by itself, given
\* that the handler does: whichever moment it comes at, a parked generator is woken, no
\* gate stays closed, and no request, backoff or window outlasts it.
EndsOnAbortOrFailure == aborted \/ failure \/ crashed ~> Over
=============================================================================
