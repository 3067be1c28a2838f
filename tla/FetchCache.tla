----------------------------- MODULE FetchCache -----------------------------
(***************************************************************************)
(* The fetch cache of @middy/util (packages/util/index.js: processCache,   *)
(* setCacheKeyExpiry, evictCacheOnFailure, clearCache) under one cacheKey,  *)
(* as the fetch middlewares drive it (packages/sts/index.js and the others *)
(* that learn an expiry from what they fetched).                           *)
(*                                                                         *)
(* Several middleware instances may share the entry: they fetch the same    *)
(* data, and each has its own options, so its own cacheExpiry and its own   *)
(* learned expiry.  One call of a middleware's fetch makes a promise per    *)
(* key; calls are numbered, and the promise of call n for key k is <<n, k>>.*)
(* In an entry's value, 0 stands for undefined.                             *)
(*                                                                         *)
(* A warm hit returns the entry as it is: it changes nothing, so it has no  *)
(* action, and what it would serve is what the invariants talk about.       *)
(***************************************************************************)
EXTENDS Integers

CONSTANTS
  Instances,   \* middleware instances sharing the cacheKey
  Keys,        \* the keys of fetchData
  CacheExpiry, \* each instance's cacheExpiry, see Expiries
  AssumeRole,  \* whether they are configured with awsClientAssumeRole
  Lifetimes,   \* how long what is fetched can be valid, once it has arrived
  MaxDelay,    \* the longest delay setTimeout takes (2^31-1 ms)
  Early,       \* how much before its time a timer may fire
  Infinity,    \* Number.POSITIVE_INFINITY
  MaxTime,     \* bound: the clock stops here
  MaxCalls     \* bound: calls of middlewareFetch

\* 0 is "off"; a duration is "for" n; a unix timestamp is "until" n; -1 is "forever".
Expiries == [kind : {"off", "for", "until", "forever"}, n : Nat]

ASSUME TimeAssumption ==
  /\ MaxTime \in Nat \ {0} /\ MaxDelay \in Nat /\ Early \in Nat /\ MaxCalls \in Nat
  /\ Infinity \in Nat /\ MaxTime + MaxDelay < Infinity
ASSUME FetchAssumption ==
  /\ Instances # {}
  /\ AssumeRole \in BOOLEAN
  /\ CacheExpiry \in [Instances -> Expiries]
  /\ \A i \in Instances : CacheExpiry[i].n > 0
  /\ Lifetimes \subseteq Nat \ {0}
  /\ \A life \in Lifetimes : MaxTime + life < Infinity

VARIABLES
  now,      \* Date.now()
  entry,    \* cache.get(cacheKey); its refresh timer is a set of at most one
  orphans,  \* armed refresh timers no entry refers to
  learned,  \* options.cacheLearnedExpiry[cacheKey] of each instance
  calls,    \* calls of middlewareFetch so far
  by,       \* by[n]: the instance whose fetch call n is
  state,    \* state[n][k]: the promise <<n, k>>
  expires   \* expires[n][k]: when what it resolved to expires

promiseVars == <<calls, by, state, expires>>
vars == <<now, entry, orphans, learned, promiseVars>>

Calls == 1..MaxCalls
Values == [Keys -> 0..MaxCalls]
Timers == [at : Nat, options : Instances, fetch : Instances]
Entries == [value : Values, expiry : Nat, refresh : SUBSET Timers,
            modified : BOOLEAN, fetch : Instances]

\* No entry reads as an expired one that holds nothing.
NoEntry == [value |-> [k \in Keys |-> 0], expiry |-> 0, refresh |-> {},
            modified |-> FALSE, fetch |-> CHOOSE i \in Instances : TRUE]

Init ==
  /\ now = 1
  /\ entry = NoEntry
  /\ orphans = {}
  /\ learned = [i \in Instances |-> Infinity]
  /\ calls = 0
  /\ by = [n \in Calls |-> CHOOSE i \in Instances : TRUE]
  /\ state = [n \in Calls |-> [k \in Keys |-> "none"]]
  /\ expires = [n \in Calls |-> [k \in Keys |-> Infinity]]

Earlier(a, b) == IF a < b THEN a ELSE b

----------------------------------------------------------------------------
(* Reading the entry                                                       *)

Caches(i) == CacheExpiry[i].kind # "off"

\* A timestamp is re-read from the options, a duration is what was stored.
EffectiveExpiry(i) ==
  Earlier(IF CacheExpiry[i].kind = "until" THEN CacheExpiry[i].n ELSE entry.expiry,
          learned[i])

Unexpired(i) == Caches(i) /\ entry.expiry # 0 /\ EffectiveExpiry(i) > now

\* scheduleRefresh: no timer for a past or an unschedulable expiry, nor under
\* awsClientAssumeRole.
ScheduleRefresh(expiry, i, f) ==
  IF now < expiry /\ expiry - now <= MaxDelay /\ ~AssumeRole
  THEN {[at |-> expiry, options |-> i, fetch |-> f]}
  ELSE {}

----------------------------------------------------------------------------
(* processCache                                                            *)

\* Instance f fetches the keys that have no value.
MiddlewareFetch(f, missing) ==
  /\ calls < MaxCalls
  /\ calls' = calls + 1
  /\ by' = [by EXCEPT ![calls'] = f]
  /\ state' = [state EXCEPT ![calls'] =
                 [k \in Keys |-> IF k \in missing THEN "pending" ELSE "none"]]
  /\ UNCHANGED expires

\* The lifetime instance i's cacheExpiry gives an entry stored now.
ConfiguredExpiry(i) ==
  CASE CacheExpiry[i].kind = "forever" -> Infinity
    [] CacheExpiry[i].kind = "until" -> CacheExpiry[i].n
    [] OTHER -> now + CacheExpiry[i].n

\* A miss, or a refresh: drop what i had learned, fetch every key with f's
\* fetch and, unless i does not cache, replace the entry and its timer.
Refetch(i, f) ==
  /\ MiddlewareFetch(f, Keys)
  /\ learned' = [learned EXCEPT ![i] = Infinity]
  /\ entry' = IF Caches(i)
              THEN [value |-> [k \in Keys |-> calls'],
                    expiry |-> ConfiguredExpiry(i),
                    refresh |-> ScheduleRefresh(ConfiguredExpiry(i), i, f),
                    modified |-> FALSE,
                    fetch |-> f]
              ELSE entry

\* A hit on an entry flagged modified refetches the missing keys into it.  The
\* new entry's timer takes the place of the old one's, which is not cleared.
RefetchMissing(i) ==
  LET missing == {k \in Keys : entry.value[k] = 0}
      expiry == EffectiveExpiry(i)
  IN
  /\ MiddlewareFetch(i, missing)
  /\ entry' = [value |-> [k \in Keys |-> IF k \in missing THEN calls' ELSE entry.value[k]],
               expiry |-> expiry,
               refresh |-> ScheduleRefresh(expiry, i, i),
               modified |-> FALSE,
               fetch |-> i]
  /\ orphans' = orphans \cup entry.refresh
  /\ UNCHANGED learned

\* The before middleware of instance i, when it is not a plain hit.
Invoke(i) ==
  /\ IF Unexpired(i)
     THEN entry.modified /\ RefetchMissing(i)
     ELSE Refetch(i, i) /\ UNCHANGED orphans
  /\ UNCHANGED now

\* Fault: the refresh returns an entry that is still unexpired, and ends the chain.
RefreshFiresWhenExpired(t) ==
  /\ t \in entry.refresh \cup orphans
  /\ t.at <= now + Early
  /\ IF Unexpired(t.options)
     THEN /\ entry' = [entry EXCEPT !.refresh = @ \ {t}]
          /\ UNCHANGED <<learned, promiseVars>>
     ELSE Refetch(t.options, t.fetch)
  /\ orphans' = orphans \ {t}
  /\ UNCHANGED now

\* A refresh timer refetches whatever the entry says; the timer is spent, and
\* the refetch clears the one the entry has by then.
RefreshFires(t) ==
  /\ t \in entry.refresh \cup orphans
  /\ t.at <= now + Early
  /\ orphans' = IF t \in entry.refresh THEN orphans ELSE orphans \ {t}
  /\ Refetch(t.options, t.fetch)
  /\ UNCHANGED now

----------------------------------------------------------------------------
(* The promises settle                                                     *)

\* Fault: the refresh is moved up and the one it replaces stays armed.
SetCacheKeyExpiryArmsTwo(i, expiry) ==
  LET clamp == Earlier(expiry, IF learned[i] > now THEN learned[i] ELSE Infinity) IN
  /\ learned' = [learned EXCEPT ![i] = clamp]
  /\ entry' = IF clamp < entry.expiry /\ Caches(i)
              THEN [entry EXCEPT !.expiry = clamp,
                                 !.refresh = @ \cup ScheduleRefresh(clamp, i, entry.fetch)]
              ELSE entry

\* Fault: the instance records what it learned and leaves the shared entry alone.
SetCacheKeyExpiryPrivately(i, expiry) ==
  /\ learned' = [learned EXCEPT ![i] =
                   Earlier(expiry, IF @ > now THEN @ ELSE Infinity)]
  /\ UNCHANGED entry

\* setCacheKeyExpiry: the expiry instance i learns floors at one it has learned
\* that is still ahead, and shortens the entry and its refresh.
SetCacheKeyExpiry(i, expiry) ==
  LET clamp == Earlier(expiry, IF learned[i] > now THEN learned[i] ELSE Infinity) IN
  /\ learned' = [learned EXCEPT ![i] = clamp]
  /\ entry' = IF clamp < entry.expiry /\ Caches(i)
              THEN [entry EXCEPT !.expiry = clamp,
                                 !.refresh = ScheduleRefresh(clamp, i, entry.fetch)]
              ELSE entry

\* What was fetched arrives; it may carry no expiry.
FetchSucceeds(n, k) ==
  /\ state[n][k] = "pending"
  /\ state' = [state EXCEPT ![n][k] = "ok"]
  /\ \E expiry \in {now + life : life \in Lifetimes} \cup {Infinity} :
       /\ expires' = [expires EXCEPT ![n][k] = expiry]
       /\ SetCacheKeyExpiry(by[n], expiry)
  /\ UNCHANGED <<now, orphans, calls, by>>

\* Fault: any failure of a key drops it.
FetchFailsEvictingAny(n, k) ==
  /\ state[n][k] = "pending"
  /\ state' = [state EXCEPT ![n][k] = "failed"]
  /\ entry' = IF entry.value[k] # 0
              THEN [entry EXCEPT !.value[k] = 0, !.refresh = {}, !.modified = TRUE]
              ELSE entry
  /\ UNCHANGED <<now, orphans, learned, calls, by, expires>>

\* Fault: objects are compared, not promises; a refetch merged into the entry
\* is then not recognised.
FetchFailsComparingObjects(n, k) ==
  /\ state[n][k] = "pending"
  /\ state' = [state EXCEPT ![n][k] = "failed"]
  /\ entry' = IF \A j \in Keys : entry.value[j] \in {0, n}
              THEN [entry EXCEPT !.value[k] = 0, !.refresh = {}, !.modified = TRUE]
              ELSE entry
  /\ UNCHANGED <<now, orphans, learned, calls, by, expires>>

\* evictCacheOnFailure: the key is dropped if the entry still holds this promise.
FetchFails(n, k) ==
  /\ state[n][k] = "pending"
  /\ state' = [state EXCEPT ![n][k] = "failed"]
  /\ entry' = IF entry.value[k] = n
              THEN [entry EXCEPT !.value[k] = 0, !.refresh = {}, !.modified = TRUE]
              ELSE entry
  /\ UNCHANGED <<now, orphans, learned, calls, by, expires>>

----------------------------------------------------------------------------
\* clearCache, or evictCache making room for another middleware's entry.
Drop ==
  /\ entry # NoEntry
  /\ entry' = NoEntry
  /\ UNCHANGED <<now, orphans, learned, promiseVars>>

Tick ==
  /\ now < MaxTime
  /\ now' = now + 1
  /\ UNCHANGED <<entry, orphans, learned, promiseVars>>

Next ==
  \/ \E i \in Instances : Invoke(i)
  \/ \E t \in entry.refresh \cup orphans : RefreshFires(t)
  \/ \E n \in Calls, k \in Keys : FetchSucceeds(n, k) \/ FetchFails(n, k)
  \/ Drop
  \/ Tick

Spec == Init /\ [][Next]_vars

----------------------------------------------------------------------------
(* Properties                                                              *)

\* Every variable stays in its type, and an entry has at most one timer.
TypeOK ==
  /\ now \in 1..MaxTime
  /\ entry \in Entries /\ \A t, u \in entry.refresh : t = u
  /\ orphans \subseteq Timers
  /\ learned \in [Instances -> Nat]
  /\ calls \in 0..MaxCalls
  /\ by \in [Calls -> Instances]
  /\ state \in [Calls -> [Keys -> {"none", "pending", "ok", "failed"}]]
  /\ expires \in [Calls -> [Keys -> Nat]]

\* "The entry then expires at the sooner of it and cacheExpiry" (docs/intro/
\* utilities, setCacheKeyExpiry): no hit, by any instance, serves a fetched value
\* after the moment it expires.
NeverServesExpired ==
  \A i \in Instances, k \in Keys :
    LET n == entry.value[k] IN
    Unexpired(i) /\ n # 0 /\ state[n][k] = "ok" => now < expires[n][k]

\* No hit serves a promise that has failed: its failure is raised once, to those
\* that were waiting, and the next invocation fetches the key again.
NeverServesFailure ==
  \A k \in Keys : LET n == entry.value[k] IN n # 0 => state[n][k] # "failed"

\* Every lifetime is one setTimeout takes, or endless.
Schedulable ==
  /\ ~AssumeRole
  /\ \A i \in Instances : /\ CacheExpiry[i].kind # "until"
                          /\ CacheExpiry[i].kind = "for" => CacheExpiry[i].n <= MaxDelay
  /\ \A life \in Lifetimes : life <= MaxDelay

\* The values of an unmodified entry are all there, and one that expires has a
\* refresh armed no later: the chain of background refreshes never ends by
\* itself, be it that a timer fires before its time, that an expiry is learned
\* late, from another instance or for an older fetch, or that a key had to be
\* refetched.
RefreshNeverLost ==
  entry # NoEntry /\ ~entry.modified =>
    /\ \A k \in Keys : entry.value[k] # 0
    /\ Schedulable /\ now < entry.expiry /\ entry.expiry < Infinity =>
         \E t \in entry.refresh : t.at <= entry.expiry

\* A key is dropped only for the failure of the very promise the entry holds: a
\* fetch of an earlier cycle that fails late evicts nothing of a newer one.
OnlyOwnFailureEvicts ==
  [][\A k \in Keys :
       LET n == entry.value[k] IN
       n # 0 /\ entry'.value[k] = 0 /\ entry' # NoEntry => state'[n][k] = "failed"]_vars
============================================================================
