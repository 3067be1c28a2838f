--------------------------- MODULE StreamResponse ---------------------------
(***************************************************************************)
(* executionModeStreamifyResponse.js: one call that writes its response to  *)
(* the Lambda response stream, and requestEnd after it.                     *)
(*                                                                         *)
(* The stream (external) is a Node Writable.  It takes writes into a buffer *)
(* and answers whether there is room; it emits 'drain' when a full buffer   *)
(* is empty again and 'finish' when it was ended and everything is flushed. *)
(* The client may go away at any time, which destroys it.  runRequest is    *)
(* the subject of MiddyRequest.                                             *)
(***************************************************************************)
EXTENDS Naturals, FiniteSets

CONSTANTS
  Chunks,        \* how many chunks the body has (one, for a binary one)
  HighWaterMark  \* chunks the stream buffers before it answers "full"

VARIABLES
  call,      \* where the call is
  body,      \* the kind of body the handler has answered with
  position,  \* chunks written
  stream,    \* "open", "ended" or "destroyed"
  buffer,    \* chunks written and not flushed
  needDrain, \* 'drain' is due
  flushed,   \* chunks that have reached the client
  committed, \* the prelude, and with it the status, is on the wire
  errors,    \* history: what has failed
  thrown     \* what the promise of the call rejects with

callVars == <<call, body, position, committed, errors, thrown>>
streamVars == <<stream, buffer, needDrain, flushed>>
vars == <<callVars, streamVars>>

Bodies == {"string", "binary", "Readable", "other"}
Length == IF body = "binary" THEN 1 ELSE Chunks
Finished == stream = "ended" /\ buffer = 0

Init ==
  /\ call = "runRequest" /\ body = "other" /\ position = 0 /\ committed = FALSE
  /\ errors = {} /\ thrown = {}
  /\ stream = "open" /\ buffer = 0 /\ needDrain = FALSE /\ flushed = 0

Rejects(error) == call' = "requestEnd" /\ errors' = errors \cup {error}

\* runRequest settles.  The body is classified before the prelude is written.
RunRequest(b, prelude) ==
  /\ call = "runRequest" /\ body' = b
  /\ IF b = "other" THEN Rejects("response") /\ UNCHANGED committed
     ELSE call' = "write" /\ committed' = prelude /\ UNCHANGED errors
  /\ UNCHANGED <<position, thrown, streamVars>>
RunRequestFails ==
  /\ call = "runRequest" /\ Rejects("request")
  /\ UNCHANGED <<body, position, committed, thrown, streamVars>>

----------------------------------------------------------------------------
\* stream.write: a destroyed stream drops the chunk, and answers "full".
Full == stream = "destroyed" \/ buffer + 1 >= HighWaterMark
Push ==
  IF stream = "destroyed" THEN UNCHANGED streamVars
  ELSE buffer' = buffer + 1 /\ needDrain' = Full /\ UNCHANGED <<stream, flushed>>
\* writeString, writeBinary and the pipeline of writeStream: after the last chunk the
\* stream is ended, before it a full one is waited for.
Write ==
  /\ call = "write" /\ position < Length
  /\ position' = position + 1 /\ Push
  /\ call' = IF position' = Length THEN "end" ELSE IF Full THEN "drain" ELSE "write"
  /\ UNCHANGED <<body, committed, errors, thrown>>
\* Fault: only 'drain' ends the wait.
OnlyDrained == stream = "open" /\ ~needDrain
Drained == stream = "destroyed" \/ ~needDrain
\* waitForDrain: once() and finished() race.
WaitForDrain ==
  /\ call = "drain" /\ Drained
  /\ IF stream = "destroyed" THEN Rejects("write") ELSE call' = "write" /\ UNCHANGED errors
  /\ UNCHANGED <<body, position, committed, thrown, streamVars>>
\* Fault: end() whatever became of the stream, which then counts as ended.
EndAnyway == stream' = "ended" /\ buffer' = 0 /\ UNCHANGED <<needDrain, flushed>>
End == stream' = (IF stream = "destroyed" THEN stream ELSE "ended") /\ UNCHANGED <<buffer, needDrain, flushed>>
EndStream ==
  /\ call = "end" /\ End /\ call' = "finished"
  /\ UNCHANGED <<body, position, committed, errors, thrown>>
\* finished()
WaitForFinish ==
  /\ call = "finished"
  /\ \/ stream = "destroyed" /\ Rejects("write")
     \/ Finished /\ call' = "requestEnd" /\ UNCHANGED errors
  /\ UNCHANGED <<body, position, committed, thrown, streamVars>>
\* The Readable fails, and the pipeline destroys the stream.
SourceFails ==
  /\ body = "Readable" /\ call \in {"write", "drain"} /\ Rejects("source")
  /\ stream' = "destroyed"
  /\ UNCHANGED <<body, position, committed, thrown, buffer, needDrain, flushed>>

\* Fault: the error of the hook takes the place of the one before.
HookErrorOnly == IF "hook" \in errors' THEN {"hook"} ELSE errors'
\* The request error, the error of the hook, or an AggregateError of both.
Reported == errors'
RequestEnd ==
  /\ call = "requestEnd" /\ call' = "settled"
  /\ errors' \in {errors, errors \cup {"hook"}} /\ thrown' = Reported
  /\ UNCHANGED <<body, position, committed, streamVars>>

----------------------------------------------------------------------------
Flush ==
  /\ stream # "destroyed" /\ buffer > 0 /\ buffer' = buffer - 1 /\ flushed' = flushed + 1
  /\ needDrain' = (needDrain /\ buffer' > 0)
  /\ UNCHANGED <<callVars, stream>>
ClientGone ==
  /\ stream # "destroyed" /\ ~Finished /\ stream' = "destroyed"
  /\ UNCHANGED <<callVars, buffer, needDrain, flushed>>

Goes ==
  \/ RunRequestFails \/ (\E b \in Bodies, prelude \in BOOLEAN : RunRequest(b, prelude))
  \/ Write \/ WaitForDrain \/ EndStream \/ WaitForFinish \/ RequestEnd
Next == Goes \/ SourceFails \/ Flush \/ ClientGone
Spec == Init /\ [][Next]_vars

----------------------------------------------------------------------------
TypeOK ==
  /\ call \in {"runRequest", "write", "drain", "end", "finished", "requestEnd", "settled"}
  /\ body \in Bodies /\ position \in 0..Chunks /\ committed \in BOOLEAN
  /\ stream \in {"open", "ended", "destroyed"} /\ needDrain \in BOOLEAN
  /\ buffer \in 0..Chunks /\ flushed \in 0..Chunks
  /\ errors \subseteq {"request", "response", "write", "source", "hook"} /\ thrown \subseteq errors

\* A call that fulfils has flushed every chunk, one that rejects reports every failure, and
\* a response that cannot be written has not committed its status.
SuccessIsWhole ==
  /\ call = "settled" => thrown = errors /\ (thrown = {} => flushed = Length)
  /\ "response" \in errors => ~committed
=============================================================================
