---------------------------- MODULE BrokerPoller ----------------------------
(***************************************************************************)
(* pollRmq.js and pollAmq.js of @middy/ecs-batch: the pollers a broker      *)
(* pushes deliveries to.  A callback buffers them and wakes the generator,  *)
(* which collects a batch for a while, yields it, and settles every         *)
(* delivery once, by an ack or by a nack that requeues it.                  *)
(*                                                                         *)
(* The broker (external) pushes no more than a window of unsettled          *)
(* deliveries, requeues them when the channel closes, and closes the        *)
(* channel on one that settles a delivery it does not hold.  The two        *)
(* pollers differ in that ActiveMQ's reads a message's body after it has    *)
(* been delivered, and only RabbitMQ's cancels its consumer on an abort.    *)
(* A record is a message; deliveries are buffered in no particular order.   *)
(* ActiveMQ's default ackMode, client-individual, is the one modelled.      *)
(***************************************************************************)
EXTENDS PollLoop

CONSTANTS
  ReadsBody,  \* ActiveMQ's poller, not RabbitMQ's
  BatchSize,  \* batchSize
  Prefetch    \* prefetch

VARIABLES
  reader,     \* while the loop polls: "parked" at resolveNext, or in the batch "window"
  reading,    \* delivered messages whose body is being read
  pending,    \* pending, pendingMessages
  failure,    \* failure is set
  consuming,  \* the consumer is subscribed
  channel,    \* "open", "closed" or "refused", by the broker for a protocol error
  queue,      \* the messages the broker may deliver
  unsettled   \* the messages it has delivered and waits to see settled

pollerVars == <<reader, reading, pending, failure>>
brokerVars == <<consuming, channel, queue, unsettled>>
vars == <<loopVars, pollerVars, brokerVars>>

Init ==
  /\ LoopInit
  /\ reader = "parked" /\ reading = {} /\ pending = {} /\ failure = FALSE
  /\ consuming = TRUE /\ channel = "open" /\ queue = Records /\ unsettled = {}

\* The top of the generator's loop, with P buffered and failed the failure flag.
Reads(P, failed) ==
  /\ reader' = IF P = {} THEN "parked" ELSE "window"
  /\ loop' = IF aborted THEN "returning" ELSE IF failed THEN "throwing" ELSE "polling"

\* wakeReader: a parked generator goes on from the top of its loop.
WakeReader(P, failed) ==
  IF loop = "polling" /\ reader = "parked" THEN Reads(P, failed) ELSE UNCHANGED <<loop, reader>>

Buffer(m) == pending' = pending \cup {m} /\ WakeReader(pending', failure)

----------------------------------------------------------------------------
Deliver(m) ==
  /\ channel = "open" /\ consuming /\ m \in queue /\ Cardinality(unsettled) < Prefetch
  /\ queue' = queue \ {m} /\ unsettled' = unsettled \cup {m}
  /\ IF ReadsBody THEN reading' = reading \cup {m} /\ UNCHANGED <<pending, loop, reader>>
                  ELSE Buffer(m) /\ UNCHANGED reading
  /\ UNCHANGED <<aborted, batch, handled, reported, limit, failures, failure, consuming, channel>>

\* The broker acks the messages A and requeues the messages N.
Settle(A, N) ==
  IF channel # "open" THEN UNCHANGED <<channel, queue, unsettled>>
  ELSE IF A \cup N \subseteq unsettled /\ A \cap N = {}
  THEN queue' = queue \cup N /\ unsettled' = unsettled \ (A \cup N) /\ UNCHANGED channel
  ELSE channel' = "refused" /\ queue' = queue \cup unsettled /\ unsettled' = {}

BodyRead(m) ==
  /\ m \in reading /\ reading' = reading \ {m} /\ ~Over
  /\ Buffer(m)
  /\ UNCHANGED <<aborted, batch, handled, reported, limit, failures, failure, brokerVars>>
BodyUnreadable(m) ==
  /\ m \in reading /\ reading' = reading \ {m} /\ ~Over
  /\ Settle({}, {m})
  /\ UNCHANGED <<loopVars, reader, pending, failure, consuming>>

\* The window closes, full or at its deadline, and the generator takes a batch.  Only the
\* abort is looked at: a failure meanwhile shows after the batch.
Take ==
  /\ loop = "polling" /\ reader = "window"
  /\ IF aborted
     THEN Goes("returning") /\ UNCHANGED pending
     ELSE \E B \in SUBSET pending :
            /\ \/ Cardinality(B) = BatchSize
               \/ B = pending /\ Cardinality(B) < BatchSize
            /\ Yield(B) /\ pending' = pending \ B
  /\ UNCHANGED <<reader, reading, failure, brokerVars>>

\* Fault: acknowledge leaves the entry in the map.
InflightKept(answered) == batch
\* The entry of the batch in the inflight map, once the handler has ended.
Inflight(answered) == IF answered THEN {} ELSE batch
\* What acknowledge settles, and then the generator as it resumes: nothing on its way out.
Acked(answered, F) == IF answered THEN batch \ F ELSE {}
\* Fault: the resumed generator does not settle an unacknowledged batch.
NackedByAnswer(answered, F) == IF answered THEN F ELSE {}
Nacked(answered, F) ==
  (IF answered THEN F ELSE {}) \cup (IF aborted \/ failure THEN {} ELSE Inflight(answered))

Resume(answered, F) ==
  /\ (~answered => F = batch) /\ Handled(F) /\ batch' = {} /\ UNCHANGED reported
  /\ Settle(Acked(answered, F), Nacked(answered, F))
  /\ UNCHANGED failure /\ Reads(pending, failure)
  /\ UNCHANGED <<reading, pending, consuming>>
Resumes == \E answered \in BOOLEAN : \E F \in SUBSET batch : Resume(answered, F)

----------------------------------------------------------------------------
\* Fault: the failure is set and the reader not woken.
FailsUnheard ==
  /\ failure' = TRUE
  /\ UNCHANGED <<loopVars, reader, reading, pending>>
Fails ==
  /\ failure' = TRUE /\ WakeReader(pending, TRUE)
  /\ UNCHANGED <<aborted, batch, handled, reported, limit, failures, reading, pending>>
\* A queue was deleted, a node failed over, a subscription was refused.
ConsumerLost ==
  /\ channel = "open" /\ consuming /\ consuming' = FALSE
  /\ Fails /\ UNCHANGED <<channel, queue, unsettled>>
ConnectionLost ==
  /\ channel = "open" /\ channel' = "closed"
  /\ queue' = queue \cup unsettled /\ unsettled' = {}
  /\ Fails /\ UNCHANGED consuming

Sigterm ==
  /\ Abort
  /\ loop' = IF loop = "polling" /\ reader = "parked" THEN "returning" ELSE loop
  /\ UNCHANGED <<pollerVars, brokerVars>>
Cancel ==
  /\ aborted /\ ~ReadsBody /\ channel = "open" /\ consuming /\ consuming' = FALSE
  /\ UNCHANGED <<loopVars, pollerVars, channel, queue, unsettled>>

\* The finally block closes the channel, and the broker requeues what is unsettled.
Disconnect ==
  /\ loop \in {"returning", "throwing"}
  /\ Goes(IF loop = "returning" THEN "ended" ELSE "failed")
  /\ channel' = (IF channel = "open" THEN "closed" ELSE channel)
  /\ queue' = queue \cup unsettled /\ unsettled' = {}
  /\ UNCHANGED <<pollerVars, consuming>>

Poll == Take \/ Resumes \/ Disconnect
Push == \E m \in Records : Deliver(m) \/ BodyRead(m) \/ BodyUnreadable(m)
Next == Poll \/ Push \/ ConsumerLost \/ ConnectionLost \/ Sigterm \/ Cancel
Spec == Init /\ [][Next]_vars /\ WF_vars(Poll)

----------------------------------------------------------------------------
Gone == Records \ (queue \cup unsettled)

TypeOK ==
  /\ LoopTypeOK
  /\ reader \in {"parked", "window"} /\ failure \in BOOLEAN /\ consuming \in BOOLEAN
  /\ channel \in {"open", "closed", "refused"}
  /\ reading \cup pending \subseteq Records
  /\ queue \subseteq Records /\ unsettled \subseteq Records /\ queue \cap unsettled = {}

\* No delivery is acked or nacked twice, or after the broker requeued it.
SettledOnce == channel # "refused"
\* The broker holds for unsettled what the poller still has, and nothing else.
DeliveriesHeld ==
  channel = "open" /\ ~aborted /\ ~failure => unsettled = reading \cup pending \cup batch
=============================================================================
