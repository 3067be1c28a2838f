------------------------------ MODULE PollLoop ------------------------------
(***************************************************************************)
(* runPollLoop of @middy/ecs-batch (packages/ecs-batch/index.js): it pulls  *)
(* events out of a poller's async generator, hands each to the handler and  *)
(* lets the poller acknowledge what the handler answered.  Each poller's    *)
(* module EXTENDS this one and drives it.                                   *)
(*                                                                         *)
(* Between the end of the handler and the poller's next network call there  *)
(* are only microtasks, which neither a SIGTERM nor a broker can interrupt: *)
(* that is one step, the poller's.                                          *)
(***************************************************************************)
EXTENDS Integers, FiniteSets

CONSTANTS
  MaxRecords,  \* bound: the records the source will ever hold
  MaxRetries   \* bound: the largest maxRetryAttempts; -1 retries forever

ASSUME PollAssumption == MaxRecords \in Nat \ {0} /\ MaxRetries \in Nat

VARIABLES
  loop,      \* where runPollLoop is, see LoopStates
  aborted,   \* signal.aborted
  batch,     \* the records of the event the runner holds
  handled,   \* history: the records the handler succeeded with
  reported,  \* history: the records whose loss onError was told of
  limit,     \* maxRetryAttempts
  failures   \* history: failed deliveries of each record, counted up to limit + 1

loopVars == <<loop, aborted, batch, handled, reported, limit, failures>>

\* A stream, a topic and a queue are all numbered in the order of arrival.
Records == 1..MaxRecords

\* "polling": the poller's next() is pending; "handling": the handler is;
\* "acknowledging": poller.acknowledge is; "returning", "throwing": the poller is
\* in its finally block, on its way to "ended" or "failed".
LoopStates == {"polling", "handling", "acknowledging", "returning", "throwing", "ended", "failed"}
Over == loop \in {"ended", "failed"}

LoopInit ==
  /\ loop = "polling" /\ aborted = FALSE /\ batch = {}
  /\ handled = {} /\ reported = {}
  /\ limit \in -1..MaxRetries /\ failures = [r \in Records |-> 0]

LoopTypeOK ==
  /\ loop \in LoopStates /\ aborted \in BOOLEAN /\ batch \subseteq Records
  /\ handled \subseteq Records /\ reported \subseteq Records
  /\ limit \in -1..MaxRetries /\ failures \in [Records -> 0..limit + 1]

Lowest(S) == CHOOSE r \in S : \A q \in S : r <= q

\* The generator yields an event of the records B.  An abort that raced the
\* response breaks out of the loop instead of starting the handler.
Yield(B) ==
  /\ loop = "polling" /\ B # {}
  /\ IF aborted THEN loop' = "ended" /\ UNCHANGED batch
                ELSE loop' = "handling" /\ batch' = B
  /\ UNCHANGED <<aborted, handled, reported, limit, failures>>

\* The handler ends with the records F failed: it threw or answered with an invalid
\* entry (every record), or listed F in batchItemFailures.
Handled(F) ==
  /\ loop = "handling" /\ F \subseteq batch
  /\ handled' = handled \cup (batch \ F)
  /\ failures' = [r \in Records |-> IF r \in F /\ failures[r] <= limit
                                    THEN failures[r] + 1 ELSE failures[r]]
  /\ UNCHANGED <<aborted, limit>>

\* Fault: records are dropped in silence.
DropSilently(R) == UNCHANGED reported
\* The poller gives up on the records R and says so through onError.
Report(R) == reported' = reported \cup R

\* The generator throws or returns, or asks for more.
Goes(state) == loop' = state /\ UNCHANGED <<aborted, batch, handled, reported, limit, failures>>

\* The runner's SIGTERM handler aborts the signal.
Abort ==
  /\ ~aborted /\ ~Over
  /\ aborted' = TRUE
  /\ UNCHANGED <<batch, handled, reported, limit, failures>>

----------------------------------------------------------------------------
\* attempt of a failed batch: consecutive failures at its lowest failed record.
\* retry holds the record and the attempt it last retried from.

\* Fault: attempts are counted per poller, not per record.
AttemptOfAny(retry, F) == retry.attempt + 1
\* Fault: the record of the last retry is not remembered.
AttemptAfresh(retry, F) == 1
Attempt(retry, F) == IF retry.from = Lowest(F) THEN retry.attempt + 1 ELSE 1

\* Fault: the limit is not looked at.
NeverExhausted(retry, F) == FALSE
Exhausted(retry, F) == limit # -1 /\ Attempt(retry, F) > limit
NoRetry == [from |-> 0, attempt |-> 0]
\* With no limit the count of attempts only sets the backoff: it stays at 0 here.
Retry(retry, F) == [from |-> Lowest(F), attempt |-> IF limit = -1 THEN 0 ELSE Attempt(retry, F)]
=============================================================================
