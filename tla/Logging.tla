----------------------------- MODULE Logging -----------------------------
(***************************************************************************)
(* What the logging middlewares leave out, and how a streamed body is logged.*)
(***************************************************************************)
EXTENDS Naturals, SequencesExt, FiniteSets

----------------------------------------------------------------------------
(***************************************************************************)
(* What event-logger, error-logger and response-logger leave out of a log:  *)
(* the paths of omitPaths, of which buildPathTree of @middy/util makes a    *)
(* tree, along which omit walks the request.  One value somewhere in the    *)
(* request is followed; a mask takes its place or nothing does.             *)
(*                                                                         *)
(* A path is a sequence of keys; "a" and "A" differ in case only, and "[]"  *)
(* stands for any element of an array.  Forbidden segments are left out.    *)
(***************************************************************************)

VARIABLES
  omitPaths,  \* the option
  payload,    \* the path of the value, and what its containers within the request are
  tree,       \* the paths that lead to true in the tree
  outcome     \* "none", "built", "refused", then "logged", "omitted" or "failed"

redactionVars == <<omitPaths, payload, tree, outcome>>

Names == {"a", "A"}
Paths == {<<k>> : k \in Names} \cup {<<k, l>> : k \in Names, l \in Names \cup {"[]"}}
         \cup {<<"a", l, m>> : l \in {"a", "[]"}, m \in {"a", "[]"}}
\* An object is a record, an instance of a class, an Error, or a built-in such as a Date or a stream.
Kinds(path, d) == IF path[d + 1] = "[]" THEN {"array"} ELSE {"record", "instance", "error", "opaque"}
Payloads ==
  UNION {[path : {p}, kinds : {<<>>}] : p \in {q \in Paths : Len(q) = 1}}
    \cup UNION {[path : {p}, kinds : {<<k>> : k \in Kinds(p, 1)}] : p \in {q \in Paths : Len(q) = 2}}
    \cup UNION {[path : {p}, kinds : {<<k, l>> : k \in Kinds(p, 1), l \in Kinds(p, 2)}] :
                  p \in {q \in Paths : Len(q) = 3}}
RedactionInit ==
  /\ omitPaths \in {{p, q} : p \in Paths, q \in Paths} /\ payload \in Payloads
  /\ tree = {} /\ outcome = "none"

----------------------------------------------------------------------------
(* buildPathTree                                                           *)

\* Fault: a key is looked for as it is written.
AsWritten(path) == path
Lower(path) == [n \in DOMAIN path |-> IF path[n] = "A" THEN "a" ELSE path[n]]
Rank(key) == CHOOSE n \in 1..3 : key = <<"A", "[]", "a">>[n]
\* The order of strings: "A" before "[]" before "a", and "." before all of them.
Before(p, q) ==
  \/ IsStrictPrefix(p, q)
  \/ \E n \in DOMAIN p \cap DOMAIN q :
       Rank(p[n]) < Rank(q[n]) /\ \A m \in 1 .. n - 1 : p[m] = q[m]
\* Fault: the paths are taken in their order.
Ascending(paths) == SetToSortSeq(paths, Before)
Descending(paths) == SetToSortSeq(paths, LAMBDA p, q : Before(q, p))
\* A path below one that is true cannot be added: there is no Map to add it to.
Refused == {<<>>}
AddPath(path, nodes) ==
  IF nodes = Refused \/ \E leaf \in nodes : IsStrictPrefix(leaf, Lower(path)) THEN Refused
  ELSE {leaf \in nodes : ~IsStrictPrefix(Lower(path), leaf)} \cup {Lower(path)}
BuildPathTree ==
  /\ outcome = "none"
  /\ LET nodes == FoldRight(AddPath, Reverse(Descending(omitPaths)), {})
     IN  IF nodes = Refused THEN outcome' = "refused" /\ UNCHANGED tree
         ELSE outcome' = "built" /\ tree' = nodes
  /\ UNCHANGED <<omitPaths, payload>>

----------------------------------------------------------------------------
(* omit                                                                    *)

Kind(d) == IF d = 0 THEN "record" ELSE payload.kinds[d]
Top == Len(payload.path)
Towards(d) == SubSeq(Lower(payload.path), 1, d)
IsMap(d) == \E leaf \in tree : IsStrictPrefix(Towards(d), leaf)
\* Fault: only plain objects are walked.
NotRecord(d) == Kind(d) # "record" /\ Kind(d) # "array"
IsOpaque(d) == Kind(d) = "opaque"
\* Fault: an error is walked like any instance, which has none of its keys.
NothingEnumerable(d) == Kind(d) # "error" /\ Towards(d + 1) \in tree
Matched(d) == Towards(d + 1) \in tree
\* What becomes of the value in the container d keys down, whose node is a Map of the tree.
Omit ==
  LET walk[d \in 0..Top] ==
        IF d = Top \/ ~IsMap(d) \/ IsOpaque(d) THEN "logged"
        ELSE IF ~Matched(d) THEN walk[d + 1]
        ELSE IF Kind(d) # "array" THEN "omitted"
        ELSE IF d + 1 = Top \/ IsOpaque(d + 1) THEN "logged"
        ELSE "failed"  \* true is not a tree to walk along
  IN  walk[0]
\* The hook of the logger, which reports what is thrown.
Log ==
  /\ outcome = "built" /\ outcome' = Omit
  /\ UNCHANGED <<omitPaths, payload, tree>>

RedactionNext == BuildPathTree \/ Log
RedactionSpec == RedactionInit /\ [][RedactionNext]_redactionVars

----------------------------------------------------------------------------
RedactionTypeOK ==
  /\ omitPaths \subseteq Paths /\ payload \in Payloads
  /\ outcome \in {"none", "built", "refused", "logged", "omitted", "failed"}

\* The value is at a path to omit or below one, in whatever case it is written, and not within
\* a built-in.  A path names a key: what ends in "[]" names none.
SameKeys(p, q) == {p, q} \subseteq {"a", "A"} \/ p = q
Covers(path) ==
  /\ Len(path) <= Top /\ Last(path) # "[]"
  /\ \A n \in DOMAIN path : SameKeys(path[n], payload.path[n]) /\ Kind(n - 1) # "opaque"
\* A path that another one extends, in another case.
Ambiguous ==
  \E p, q \in omitPaths :
    Len(p) < Len(q) /\ ~IsPrefix(p, q) /\ \A n \in DOMAIN p : SameKeys(p[n], q[n])
\* A value to omit is never logged; all others are, with one exception: an element of an array
\* cannot be omitted.  And a set of paths is taken but for two that differ in case.
Redacted ==
  /\ outcome = "logged" => ~\E path \in omitPaths : Covers(path)
  /\ outcome = "omitted" => \E path \in omitPaths : Covers(path)
  /\ outcome = "failed" => \E path \in omitPaths : Last(path) = "[]"
  /\ outcome = "refused" => Ambiguous

----------------------------------------------------------------------------
(***************************************************************************)
(* @middy/response-logger: a streamed response is teed, so that its body    *)
(* can be logged once it has passed, at most maxBodyBytes of it.            *)
(*                                                                         *)
(* Streams (external) are Node's or the web's.  The tee takes a chunk when  *)
(* there is room in its buffer; it is flushed when the source has ended and *)
(* every chunk has passed.  Whoever consumes it, the streaming mode of core *)
(* or an encoder, may destroy it at any time.  A body is a sequence of      *)
(* chunks of bytes; "lead" and "tail" are the bytes of one character.       *)
(***************************************************************************)

CONSTANTS
  MaxBodyBytes,  \* options.maxBodyBytes
  HighWaterMark  \* chunks a tee buffers

VARIABLES
  streams,  \* "node" or "web"
  content,  \* the chunks of the source
  source,   \* "open", "ended", "errored" or "destroyed"
  passed,   \* chunks that have passed the tee
  tee,      \* "open", "ended", "errored" or "destroyed"
  consumed, \* chunks the consumer has had
  capture,  \* the bytes counted, and those decoded
  log       \* what the logger was called with

teeVars == <<streams, content, source, passed, tee, consumed, capture, log>>

Contents ==
  {<<>>, <<<<"a">>, <<"lead", "tail">>>>, <<<<"a", "lead">>, <<"tail">>, <<"b">>>>, <<<<"lead">>, <<"tail", "b">>>>,
   <<<<"a">>, <<"lead">>>>, <<<<"a", "b", "c">>>>, <<<<"a">>, <<"b">>, <<"c">>>>}
Bytes(n) == FlattenSeq(SubSeq(content, 1, n))
NoLog == <<>>

TeeInit ==
  /\ streams \in {"node", "web"} /\ content \in Contents
  /\ source = "open" /\ passed = 0 /\ tee = "open" /\ consumed = 0
  /\ capture = [bytes |-> 0, body |-> <<>>] /\ log = NoLog

----------------------------------------------------------------------------
(* makeBodyCapture                                                         *)

\* Fault: the last chunk that is kept is kept whole.
WholeChunk(chunk, remaining) == chunk
Cut(chunk, remaining) == SubSeq(chunk, 1, IF remaining < Len(chunk) THEN remaining ELSE Len(chunk))
Add(chunk) ==
  LET remaining == IF capture.bytes < MaxBodyBytes THEN MaxBodyBytes - capture.bytes ELSE 0
  IN  [bytes |-> capture.bytes + Len(chunk),
       body |-> IF remaining = 0 THEN capture.body ELSE capture.body \o Cut(chunk, remaining)]
\* Fault: the decoder is drained whether or not the body was cut.
DrainAnyway(bytes) == bytes
\* A character the cap cuts in two is dropped; one the source has cut shows as replaced.
Decoded(bytes) ==
  IF capture.bytes > MaxBodyBytes /\ bytes # <<>> /\ Last(bytes) = "lead" THEN Front(bytes) ELSE bytes

----------------------------------------------------------------------------
(* The tee                                                                 *)

Transform ==
  /\ source = "open" /\ tee = "open" /\ passed < Len(content) /\ passed - consumed < HighWaterMark
  /\ passed' = passed + 1 /\ capture' = Add(content[passed + 1])
  /\ UNCHANGED <<streams, content, source, tee, consumed, log>>
SourceEnds ==
  /\ source = "open" /\ passed = Len(content) /\ source' = "ended"
  /\ UNCHANGED <<streams, content, passed, tee, consumed, capture, log>>
\* Fault: what the logger throws fails the stream.
Unguarded(throws) == IF throws THEN "errored" ELSE "ended"
\* logSafely
Guarded(throws) == "ended"
Flush ==
  /\ source = "ended" /\ tee = "open"
  /\ log' = Append(log, [body |-> Decoded(capture.body), cut |-> capture.bytes > MaxBodyBytes])
  /\ \E throws \in BOOLEAN : tee' = Guarded(throws)
  /\ UNCHANGED <<streams, content, source, passed, consumed, capture>>
SourceFails ==
  /\ source = "open" /\ source' = "errored"
  /\ UNCHANGED <<streams, content, passed, tee, consumed, capture, log>>
\* Fault: pipe() is left to it.
NotTold == FALSE
\* source.on("error"), which pipe() does not do; pipeThrough does.
ErrorPropagates == source = "errored" /\ tee = "open"
TeeFails ==
  /\ ErrorPropagates /\ tee' = "errored"
  /\ UNCHANGED <<streams, content, source, passed, consumed, capture, log>>
\* Fault: a Node source is not told.
WebOnly == streams = "web" /\ source = "open" /\ tee \in {"destroyed", "errored"}
\* transform.once("close"), which pipe() does not do; pipeThrough cancels.
ClosePropagates == source = "open" /\ tee \in {"destroyed", "errored"}
SourceDestroyed ==
  /\ ClosePropagates /\ source' = "destroyed"
  /\ UNCHANGED <<streams, content, passed, tee, consumed, capture, log>>

----------------------------------------------------------------------------
Consume ==
  /\ tee \in {"open", "ended"} /\ consumed < passed /\ consumed' = consumed + 1
  /\ UNCHANGED <<streams, content, source, passed, tee, capture, log>>
ConsumerGone ==
  /\ tee = "open" \/ (tee = "ended" /\ consumed < passed)
  /\ tee' = "destroyed"
  /\ UNCHANGED <<streams, content, source, passed, consumed, capture, log>>

\* What the streams and the tee do of themselves.
Goes == Flush \/ TeeFails \/ SourceDestroyed
TeeNext == Goes \/ Transform \/ SourceEnds \/ SourceFails \/ Consume \/ ConsumerGone
TeeSpec == TeeInit /\ [][TeeNext]_teeVars /\ WF_teeVars(Goes)

----------------------------------------------------------------------------
TeeTypeOK ==
  /\ streams \in {"node", "web"} /\ content \in Contents
  /\ source \in {"open", "ended", "errored", "destroyed"} /\ tee \in {"open", "ended", "errored", "destroyed"}
  /\ passed \in 0..Len(content) /\ consumed \in 0..passed /\ Len(log) <= 1

\* Logging changes nothing for the consumer: the tee fails only when the source has, and when
\* it has ended, with or without a log, nothing is missing.  A body is logged once, when all of
\* it has passed, and what is logged is the longest prefix of whole characters within the cap.
LoggedAsSent ==
  /\ tee = "errored" => source = "errored"
  /\ tee = "ended" => passed = Len(content) /\ source = "ended"
  /\ log # NoLog =>
       LET bytes == Bytes(Len(content))
           kept == log[1].body
       IN  /\ Len(log) = 1 /\ source = "ended" /\ IsPrefix(kept, bytes)
           /\ log[1].cut <=> Len(bytes) > MaxBodyBytes
           /\ IF log[1].cut
              THEN /\ Len(kept) <= MaxBodyBytes /\ (kept # <<>> => Last(kept) # "lead")
                   /\ Len(kept) >= MaxBodyBytes - 1
              ELSE kept = bytes
\* A source that failed has not ended the tee, or a consumer that went has not ended the source.
Unsettled == (source = "errored" /\ tee = "open") \/ (source = "open" /\ tee \in {"destroyed", "errored"})
=============================================================================
