---------------------------- MODULE RecordPayloads ----------------------------
(***************************************************************************)
(* The payloads of a batch of records: @middy/event-normalizer and          *)
(* @middy/event-batch-parser, which replace them in place, the handler of   *)
(* @middy/event-batch-handler, and @middy/event-batch-response, which tells *)
(* Firehose what became of each.  The middlewares are registered in any     *)
(* order; the parser is parseJson.                                          *)
(*                                                                         *)
(* "kafka" stands for the sources that come in groups and whose fields may  *)
(* be missing, "firehose" for those with one encoded field, "sqs" for plain *)
(* text.  Events nested in a payload are left out.                          *)
(***************************************************************************)
EXTENDS Naturals, SequencesExt

CONSTANT Received  \* records of a batch

VARIABLES
  delivery,  \* the source, and the payloads as they were delivered
  chain,     \* the middlewares, as they were registered
  at,        \* how many of them have been called
  turn,      \* the record the current one is at
  items,     \* the records: their fields, the field kept, and whether parsing failed
  snapshot,  \* what event-batch-response has kept of each, or nothing
  settled,   \* what became of each: "none", "fulfilled" or "rejected"
  result     \* "pending", "reported" or "refused"

vars == <<delivery, chain, at, turn, items, snapshot, settled, result>>

Fields(source) == IF source = "kafka" THEN {"key", "value"} ELSE {"value"}
\* What a producer writes: JSON, other text, text that only begins like JSON, JSON with a
\* forbidden key, JSON in a Glue frame, a frame of more than maxDecompressedBytes, or nothing.
Payloads(source) ==
  CASE source = "kafka" -> {"json", "broken", "oversized", "absent"}
    [] source = "firehose" -> {"json", "text", "broken", "forbidden", "framed", "oversized", "absent"}
    [] source = "sqs" -> {"json", "text", "broken", "forbidden"}
\* A field holds a payload as it was delivered, as text, or as the value it stands for; "junk" is
\* what comes of decoding text that is not encoded.
Delivered(payload) == [is |-> IF payload = "absent" THEN "absent" ELSE "delivered", of |-> payload]
Text(payload) == [is |-> "text", of |-> payload]
Value(payload) == [is |-> "value", of |-> payload]
Unkept == [is |-> "unkept", of |-> "absent"]

Chains ==
  UNION {SetToSeqs(names \cup {"event-batch-response"}) : names \in SUBSET {"event-normalizer", "event-batch-parser"}}
Deliveries ==
  UNION {[source : {s}, payload : [1..Received -> [Fields(s) -> Payloads(s)]]] : s \in {"kafka", "firehose", "sqs"}}

Init ==
  /\ delivery \in Deliveries /\ chain \in Chains /\ at = 0 /\ turn = 1
  /\ items = [r \in 1..Received |->
                [fields |-> [f \in DOMAIN delivery.payload[r] |-> Delivered(delivery.payload[r][f])],
                 kept |-> Unkept, failed |-> FALSE]]
  /\ snapshot = <<>> /\ settled = [r \in 1..Received |-> "none"] /\ result = "pending"

----------------------------------------------------------------------------
Source == delivery.source
Calls(name) == result = "pending" /\ at < Len(chain) /\ chain[at + 1] = name
\* On to the next record, or the next middleware.
Advance ==
  IF turn = Received THEN at' = at + 1 /\ turn' = 1 ELSE turn' = turn + 1 /\ UNCHANGED at
\* Fault: the last writer's original is kept.
KeepLast(item, field, value) ==
  [item EXCEPT !.fields[field] = value, !.kept = IF field = "value" THEN item.fields[field] ELSE @]
ReplaceField(item, field, value) ==
  [item EXCEPT !.fields[field] = value,
               !.kept = IF field = "value" /\ @ = Unkept THEN item.fields[field] ELSE @]

\* event-normalizer.  A field is decoded and, if it is JSON, parsed; what is forbidden stays as
\* it is.  Something already parsed cannot be decoded, nor can nothing.
Undecodable(value) ==
  \/ Source # "sqs" /\ value.is = "value"
  \/ Source = "firehose" /\ value.is = "absent"
Normalized(value) ==
  IF value.is \in {"absent", "value"} \/ value.of = "forbidden" THEN value
  ELSE IF value.of = "json" THEN Value("json") ELSE Text(value.of)
NormalizeFields(item) ==
  LET first == IF "key" \in DOMAIN item.fields /\ item.fields.key.is # "absent"
               THEN ReplaceField(item, "key", Normalized(item.fields.key)) ELSE item
  IN  IF Source = "kafka" /\ item.fields.value.is = "absent" THEN first
      ELSE ReplaceField(first, "value", Normalized(item.fields.value))
EventNormalizer ==
  /\ Calls("event-normalizer")
  /\ \A f \in DOMAIN items[turn].fields : ~Undecodable(items[turn].fields[f])
  /\ items' = [items EXCEPT ![turn] = NormalizeFields(@)]
  /\ Advance /\ UNCHANGED <<delivery, chain, snapshot, settled, result>>
\* One record fails the whole batch; event-batch-response reports all of it, if it was called.
MalformedRecord ==
  /\ Calls("event-normalizer")
  /\ \E f \in DOMAIN items[turn].fields : Undecodable(items[turn].fields[f])
  /\ IF snapshot = <<>> THEN result' = "refused" /\ UNCHANGED settled
     ELSE result' = "reported" /\ settled' = [r \in 1..Received |-> "rejected"]
  /\ UNCHANGED <<delivery, chain, at, turn, items, snapshot>>

\* event-batch-parser: what parsing a field can come to.
Unparsable == [is |-> "error", of |-> "junk"]
ParsesTo(value) ==
  CASE value.is = "absent" -> {value}
    [] value.is = "value" -> {Unparsable}
    [] value.is = "text" /\ Source # "sqs" -> {Unparsable, Value("junk")}
    [] OTHER -> IF value.of \in {"json", "framed"} THEN {Value("json")} ELSE {Unparsable}
\* Fault: what cannot be parsed is left for the handler.
ParseQuietly(item, field) ==
  IF field \notin DOMAIN item.fields THEN {item}
  ELSE {IF v.is = "value" THEN ReplaceField(item, field, v) ELSE item : v \in ParsesTo(item.fields[field])}
\* A field that fails keeps its payload, and those after it are skipped.
ParseField(item, field) ==
  IF item.failed \/ field \notin DOMAIN item.fields THEN {item}
  ELSE {CASE v = Unparsable -> [item EXCEPT !.failed = TRUE]
          [] v.is = "absent" -> item
          [] OTHER -> ReplaceField(item, field, v) : v \in ParsesTo(item.fields[field])}
ParseFields(item) == UNION {ParseField(parsed, "value") : parsed \in ParseField(item, "key")}
EventBatchParser ==
  /\ Calls("event-batch-parser")
  /\ \E parsed \in ParseFields(items[turn]) : items' = [items EXCEPT ![turn] = parsed]
  /\ Advance /\ UNCHANGED <<delivery, chain, snapshot, settled, result>>

EventBatchResponse ==
  /\ Calls("event-batch-response") /\ at' = at + 1
  /\ snapshot' = [r \in 1..Received |-> items[r].fields.value]
  /\ UNCHANGED <<delivery, chain, turn, items, settled, result>>

\* Fault: parsing is the handler's concern.
HandledAnyway(r) == \E status \in {"fulfilled", "rejected"} : settled' = [settled EXCEPT ![r] = status]
\* event-batch-handler, and the report.
Handled(r) ==
  IF items[r].failed THEN settled' = [settled EXCEPT ![r] = "rejected"]
  ELSE \E status \in {"fulfilled", "rejected"} : settled' = [settled EXCEPT ![r] = status]
RecordHandler ==
  /\ result = "pending" /\ at = Len(chain)
  /\ Handled(turn)
  /\ IF turn = Received THEN result' = "reported" /\ UNCHANGED turn ELSE turn' = turn + 1 /\ UNCHANGED result
  /\ UNCHANGED <<delivery, chain, at, items, snapshot>>

\* Fault: the middleware's own snapshot is what was delivered.
EchoSnapshot(r) == snapshot[r]
\* The data Firehose is told of a record that failed or was left as it is.
Echo(r) ==
  LET data == IF items[r].kept # Unkept THEN items[r].kept ELSE snapshot[r]
  IN  IF data.is = "value" THEN [is |-> "reencoded", of |-> data.of] ELSE data

Next == EventNormalizer \/ MalformedRecord \/ EventBatchParser \/ EventBatchResponse \/ RecordHandler
Spec == Init /\ [][Next]_vars

----------------------------------------------------------------------------
TypeOK ==
  /\ delivery \in Deliveries /\ chain \in Chains /\ at \in 0..Len(chain) /\ turn \in 1..Received
  /\ \A r \in 1..Received : \A f \in DOMAIN items[r].fields :
       items[r].fields[f].is \in {"absent", "delivered", "text", "value"}
  /\ result \in {"pending", "reported", "refused"}

Registered(name) == Contains(chain, name)
Present(r) == {f \in DOMAIN items[r].fields : items[r].fields[f].is # "absent"}
Good(r) == \A f \in DOMAIN delivery.payload[r] : delivery.payload[r][f] \in {"json", "framed", "absent"}
\* A record is processed only with each of its fields parsed, and a good one is not failed for
\* another, but for a batch that cannot be normalized: one payload is missing, or parsed before.
HandledParsed ==
  \A r \in 1..Received :
    /\ settled[r] = "fulfilled" /\ Registered("event-batch-parser") =>
         \A f \in Present(r) : items[r].fields[f].is = "value"
    /\ items[r].failed => ~Good(r) \/ Registered("event-normalizer")
    /\ result = "refused" \/ (result = "reported" /\ at < Len(chain)) =>
         \E q \in 1..Received : \E f \in DOMAIN items[q].fields : Undecodable(items[q].fields[f])
\* Firehose is told of every record what it delivered, whatever the order of the middlewares.
EchoIsOriginal ==
  Source = "firehose" /\ result = "reported" =>
    \A r \in 1..Received : Echo(r) = Delivered(delivery.payload[r].value)
PayloadsHandled == HandledParsed /\ EchoIsOriginal
=============================================================================
