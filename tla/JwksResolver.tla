---------------------------- MODULE JwksResolver ----------------------------
(***************************************************************************)
(* The JWKS of one issuer in @middy/http-jwt: createJwksResolver and the    *)
(* httpJwtMiddlewareBefore that asks it for the key of a token.             *)
(*                                                                         *)
(* The identity provider (external) publishes one key after the other, each *)
(* in the place of the one before; a keyset is named by the number of its   *)
(* key, and a token by the key that signed it.  The provider answers a      *)
(* fetch with a keyset published while the fetch was under way, answers     *)
(* with an error, or does not answer.  Time is discrete; the abort signal   *)
(* of a fetch is on time.                                                   *)
(***************************************************************************)
EXTENDS Integers, Sequences, FiniteSets

CONSTANTS
  Tokens,       \* requests in flight at a time
  MaxKeys,      \* bound: the keys that are published
  KeptKids,     \* the keys published under the key id of the one before
  CacheMaxAge, Cooldown, Timeout,  \* cacheMaxAge, cooldownDuration, timeoutMs
  Horizon       \* bound: the last time of a run

VARIABLES
  now,
  rotatedAt,      \* when each key that was ever published was published
  cache,          \* the cached keyset, or None
  cacheTime, lastFetchTime,
  lastError,      \* how the last failed fetch failed, or None
  inflight,       \* inflight: when the fetch began, and the key then published
  verify,         \* the requests
  lastFetchFailed \* history: the last fetch to settle failed

vars == <<now, rotatedAt, cache, cacheTime, lastFetchTime, lastError, inflight, verify, lastFetchFailed>>
resolverVars == <<cache, cacheTime, lastFetchTime, lastError, inflight, lastFetchFailed>>

Keys == 1..MaxKeys
\* The key id of each key.
KidOf == [v \in Keys |-> Cardinality((1..v) \ KeptKids)]
None == 0
Failed == -1     \* what a promise of fetchJwks rejects with
TimedOut == -2
Published == Len(rotatedAt)
NoFetch == [since |-> 0, from |-> 0]
Idle == [pc |-> "idle", signer |-> 0, doc |-> None]
Answers == {"verified", "401", "502", "504"}

Init ==
  /\ now = 0 /\ rotatedAt = <<0>>
  /\ cache = None /\ cacheTime = 0 /\ lastFetchTime = -Cooldown /\ lastError = None
  /\ inflight = NoFetch /\ lastFetchFailed = FALSE
  /\ verify = [t \in Tokens |-> Idle]

\* The continuations of a settled promise run before the next event or timer.  An answer is
\* returned before the next event; none has to be for a timer to fire.
Continued == \A t \in Tokens : verify[t].doc = None
Quiet == Continued /\ \A t \in Tokens : verify[t].pc \notin Answers
Returned(t) == IF verify[t].pc \in Answers THEN Idle ELSE verify[t]

----------------------------------------------------------------------------
\* A fetch begins, unless one is in flight or was within the cooldown.
Fetches ==
  IF inflight = NoFetch /\ now - lastFetchTime >= Cooldown
  THEN lastFetchTime' = now /\ inflight' = [since |-> now, from |-> Published]
  ELSE UNCHANGED <<lastFetchTime, inflight>>
\* What the promise of fetchJwks has settled with when it is handed out.
Settled ==
  IF inflight # NoFetch \/ now - lastFetchTime >= Cooldown THEN None
  ELSE IF cache # None THEN cache ELSE lastError
FetchJwks(t, signer, await) ==
  /\ Fetches
  /\ verify' = [verify EXCEPT ![t] = [pc |-> await, signer |-> signer, doc |-> Settled]]
  /\ UNCHANGED <<cache, cacheTime, lastError, lastFetchFailed>>

Answer(t, answer) ==
  verify' = [verify EXCEPT ![t].pc = answer, ![t].doc = None] /\ UNCHANGED resolverVars

\* Fault: a keyset that lacks the key is not fetched again.
FindOnce(t, signer, doc, refetched) ==
  /\ verify' = [verify EXCEPT ![t] = [pc |-> IF doc = signer THEN "verified" ELSE "401",
                                      signer |-> signer, doc |-> None]]
  /\ UNCHANGED resolverVars
\* findJwk, a refetch when the key id is unknown, and jwtVerify with the key found.
Find(t, signer, doc, refetched) ==
  IF KidOf[doc] # KidOf[signer] /\ ~refetched
  THEN FetchJwks(t, signer, "again")
  ELSE /\ verify' = [verify EXCEPT ![t] = [pc |-> IF doc = signer THEN "verified" ELSE "401",
                                           signer |-> signer, doc |-> None]]
       /\ UNCHANGED resolverVars

\* Fault: a cached keyset never grows old.
CachedForever == cache # None
Fresh == cache # None /\ now - cacheTime <= CacheMaxAge

\* The keys that were ever published, and one that is not yet.
Known == {v \in Keys : v <= Published + 1}
\* A request waits for a fetch, and for a second one if the cooldown is over by then.
Wait == IF Timeout < Cooldown THEN Timeout ELSE 2 * Timeout
\* A request with a token of this issuer.  Bound: there is time for what it waits for.
GetJwk(t) ==
  /\ verify[t].pc = "idle" /\ Quiet /\ now + Wait <= Horizon
  /\ \E signer \in Known : IF Fresh THEN Find(t, signer, cache, FALSE) ELSE FetchJwks(t, signer, "first")
  /\ UNCHANGED <<now, rotatedAt>>
Resume(t) ==
  LET doc == verify[t].doc
  IN  /\ verify[t].pc \in {"first", "again"} /\ doc # None
      /\ CASE doc = Failed   -> Answer(t, "502")
           [] doc = TimedOut -> Answer(t, "504")
           [] OTHER          -> Find(t, verify[t].signer, doc, verify[t].pc = "again")
      /\ UNCHANGED <<now, rotatedAt>>
Return(t) ==
  /\ verify[t].pc \in Answers /\ verify' = [verify EXCEPT ![t] = Idle]
  /\ UNCHANGED <<now, rotatedAt, resolverVars>>
\* The prefetch, before there was any other fetch.
Warm ==
  /\ now = 0 /\ Quiet /\ inflight = NoFetch /\ cache = None /\ lastError = None /\ Fetches
  /\ UNCHANGED <<now, rotatedAt, cache, cacheTime, lastError, verify, lastFetchFailed>>

\* Whoever awaits the fetch in flight is handed the outcome.
Wake(outcome) ==
  verify' = [t \in Tokens |->
               IF verify[t].pc \in {"first", "again"} /\ verify[t].doc = None
               THEN [verify[t] EXCEPT !.doc = outcome] ELSE Returned(t)]
FetchAnswered ==
  /\ inflight # NoFetch /\ Continued /\ inflight' = NoFetch
  /\ \E doc \in inflight.from .. Published : cache' = doc /\ Wake(doc)
  /\ cacheTime' = now /\ lastFetchFailed' = FALSE
  /\ UNCHANGED <<now, rotatedAt, lastFetchTime, lastError>>
FetchFails(error) ==
  /\ inflight # NoFetch /\ Continued /\ inflight' = NoFetch
  /\ lastError' = error /\ Wake(error) /\ lastFetchFailed' = TRUE
  /\ UNCHANGED <<now, rotatedAt, cache, cacheTime, lastFetchTime>>

\* Fault: the fetch has no deadline.
NoDeadline == FALSE
Overdue == now = inflight.since + Timeout
TimesOut == Overdue /\ FetchFails(TimedOut)

----------------------------------------------------------------------------
\* Bound: between two events, where a request or a fetch sees it as well.
Rotate ==
  /\ Published < MaxKeys /\ Quiet /\ rotatedAt' = Append(rotatedAt, now)
  /\ UNCHANGED <<now, resolverVars, verify>>
Tick ==
  /\ now < Horizon /\ Continued /\ (inflight # NoFetch => now < inflight.since + Timeout)
  /\ now' = now + 1 /\ verify' = [t \in Tokens |-> Returned(t)]
  /\ UNCHANGED <<rotatedAt, resolverVars>>

Next ==
  \/ \E t \in Tokens : GetJwk(t) \/ Resume(t) \/ Return(t)
  \/ Warm \/ FetchAnswered \/ FetchFails(Failed) \/ TimesOut \/ Rotate \/ Tick
Runs == \E t \in Tokens : Resume(t) \/ Return(t)
TimePasses == TimesOut \/ Tick
Spec == Init /\ [][Next]_vars

----------------------------------------------------------------------------
TypeOK ==
  /\ now \in 0..Horizon /\ rotatedAt \in Seq(0..Horizon) /\ Published \in 1..MaxKeys
  /\ cache \in 0..Published /\ cacheTime \in 0..Horizon
  /\ lastFetchTime \in -Cooldown..Horizon /\ lastError \in {None, Failed, TimedOut}
  /\ inflight \in [since : 0..Horizon, from : 0..Published] /\ lastFetchFailed \in BOOLEAN
  /\ verify \in [Tokens -> [pc : {"idle", "first", "again"} \cup Answers,
                            signer : 0..MaxKeys, doc : -2..Published]]

\* Since when a keyset fetched within the cooldown, or just now, may be out of date.
Recent(time) == now - time < Cooldown \/ now - time <= Timeout
\* As long as a cached keyset is used.
Cached(time) == now - time <= CacheMaxAge + Timeout \/ Recent(time)
KeepsKid(v) == v \in KeptKids

\* A token gets the answer the keys published now call for, but for a key published within
\* the cooldown, or the time of a fetch, or withdrawn within the life of the cache (published,
\* when it took over the key id of the one before), or shortly after the provider failed.
AnswersByPublishedKeys(t) ==
  LET v == verify'[t].signer
      answer == verify'[t].pc
  IN  \/ lastFetchFailed /\ Recent(lastFetchTime)
      \/ answer = "verified" /\ v <= Published /\ (v = Published \/ Cached(rotatedAt[v + 1]))
      \/ answer = "401" /\ \/ v # Published
                           \/ Recent(rotatedAt[v])
                           \/ KeepsKid(v) /\ Cached(rotatedAt[v])
Answered(t) == verify'[t].pc \in Answers /\ verify[t].pc \notin Answers
KeysRefetched == [][\A t \in Tokens : Answered(t) => AnswersByPublishedKeys(t)]_vars
=============================================================================
