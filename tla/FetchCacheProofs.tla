-------------------------- MODULE FetchCacheProofs --------------------------
(***************************************************************************)
(* Proofs about the fetch cache, for any number of instances, keys, calls   *)
(* and any expiries.                                                       *)
(***************************************************************************)
EXTENDS FetchCache, TLAPS

LEMMA Constants ==
  /\ MaxTime \in Nat \ {0} /\ MaxDelay \in Nat /\ Early \in Nat /\ MaxCalls \in Nat
  /\ Infinity \in Nat
  /\ \A i \in Instances : CacheExpiry[i].n \in Nat /\ CacheExpiry[i].n > 0
  /\ \A life \in Lifetimes : life \in Nat /\ life > 0
BY TimeAssumption, FetchAssumption DEF Expiries

LEMMA EarlierOf ==
  ASSUME NEW x \in Nat, NEW y \in Nat
  PROVE  /\ Earlier(x, y) \in Nat /\ Earlier(x, y) <= x /\ Earlier(x, y) <= y
         /\ Earlier(x, y) = x \/ Earlier(x, y) = y
BY DEF Earlier

(* What scheduleRefresh returns: at most one timer, for the moment asked for, *)
(* and one whenever that moment is ahead and setTimeout takes the delay.     *)
LEMMA Scheduled ==
  ASSUME now \in Nat, NEW expiry \in Nat, NEW i \in Instances, NEW f \in Instances
  PROVE  /\ ScheduleRefresh(expiry, i, f) \subseteq Timers
         /\ \A t, u \in ScheduleRefresh(expiry, i, f) : t = u
         /\ \A t \in ScheduleRefresh(expiry, i, f) :
              t.at = expiry /\ t.options = i /\ t.fetch = f
         /\ now < expiry /\ expiry <= now + MaxDelay /\ ~AssumeRole =>
              \E t \in ScheduleRefresh(expiry, i, f) : t.at <= expiry
<1> DEFINE timer == [at |-> expiry, options |-> i, fetch |-> f]
<1>1. timer \in Timers /\ timer.at = expiry /\ timer.options = i /\ timer.fetch = f
  BY DEF Timers
<1>2. ScheduleRefresh(expiry, i, f) = {timer} \/ ScheduleRefresh(expiry, i, f) = {}
  BY DEF ScheduleRefresh
<1>3. now < expiry /\ expiry <= now + MaxDelay /\ ~AssumeRole =>
        ScheduleRefresh(expiry, i, f) = {timer}
  BY Constants DEF ScheduleRefresh
<1>4. timer.at <= expiry
  BY <1>1
<1> HIDE DEF timer
<1> QED BY <1>1, <1>2, <1>3, <1>4

----------------------------------------------------------------------------
(* Types                                                                   *)

LEMMA NoEntryType == NoEntry \in Entries /\ NoEntry.refresh = {}
<1>1. (CHOOSE i \in Instances : TRUE) \in Instances
  BY FetchAssumption
<1>2. [k \in Keys |-> 0] \in Values
  BY Constants DEF Values
<1> QED BY <1>1, <1>2 DEF NoEntry, Entries

LEMMA TypeInit == Init => TypeOK
<1> SUFFICES ASSUME Init PROVE TypeOK
  OBVIOUS
<1>1. (CHOOSE i \in Instances : TRUE) \in Instances
  BY FetchAssumption
<1>2. by \in [Calls -> Instances]
  BY <1>1 DEF Init
<1>3. entry \in Entries /\ \A t, u \in entry.refresh : t = u
  BY NoEntryType DEF Init
<1>4. /\ now \in 1..MaxTime /\ orphans \subseteq Timers /\ calls \in 0..MaxCalls
      /\ learned \in [Instances -> Nat]
  BY Constants DEF Init
<1>5. state \in [Calls -> [Keys -> {"none", "pending", "ok", "failed"}]]
  BY DEF Init
<1>6. expires \in [Calls -> [Keys -> Nat]]
  BY Constants DEF Init
<1> QED BY <1>2, <1>3, <1>4, <1>5, <1>6 DEF TypeOK

LEMMA FetchTypes ==
  ASSUME TypeOK, NEW f \in Instances, NEW missing \in SUBSET Keys,
         MiddlewareFetch(f, missing)
  PROVE  /\ calls' = calls + 1 /\ calls' \in 1..MaxCalls
         /\ by' \in [Calls -> Instances]
         /\ state' \in [Calls -> [Keys -> {"none", "pending", "ok", "failed"}]]
         /\ expires' = expires
BY Constants DEF MiddlewareFetch, TypeOK, Calls

LEMMA RefetchTypes ==
  ASSUME TypeOK, NEW i \in Instances, NEW f \in Instances, Refetch(i, f),
         orphans' \subseteq orphans, now' = now
  PROVE  TypeOK'
<1>1. ConfiguredExpiry(i) \in Nat
  BY Constants DEF ConfiguredExpiry, TypeOK
<1>2. /\ calls' \in 1..MaxCalls /\ by' \in [Calls -> Instances] /\ expires' = expires
      /\ state' \in [Calls -> [Keys -> {"none", "pending", "ok", "failed"}]]
  BY FetchTypes DEF Refetch
<1>3. learned' \in [Instances -> Nat]
  BY Constants DEF Refetch, TypeOK
<1>4. entry' \in Entries /\ \A t, u \in entry'.refresh : t = u
  <2>1. now \in Nat
    BY Constants DEF TypeOK
  <2>2. /\ ScheduleRefresh(ConfiguredExpiry(i), i, f) \subseteq Timers
        /\ \A t, u \in ScheduleRefresh(ConfiguredExpiry(i), i, f) : t = u
    BY <1>1, <2>1, Scheduled
  <2>3. [k \in Keys |-> calls'] \in Values
    BY <1>2 DEF Values
  <2> QED BY <1>1, <2>2, <2>3 DEF Refetch, TypeOK, Entries
<1> QED BY <1>2, <1>3, <1>4, Constants DEF TypeOK

LEMMA EffectiveTypes ==
  ASSUME TypeOK, NEW i \in Instances
  PROVE  /\ EffectiveExpiry(i) \in Nat
         /\ EffectiveExpiry(i) <= learned[i]
         /\ CacheExpiry[i].kind # "until" =>
              /\ EffectiveExpiry(i) <= entry.expiry
              /\ EffectiveExpiry(i) = entry.expiry \/ EffectiveExpiry(i) = learned[i]
BY Constants, EarlierOf DEF EffectiveExpiry, TypeOK, Entries

LEMMA MissingTypes ==
  ASSUME TypeOK, NEW i \in Instances, RefetchMissing(i), now' = now
  PROVE  TypeOK'
<1> DEFINE missing == {k \in Keys : entry.value[k] = 0}
           expiry == EffectiveExpiry(i)
           value == [k \in Keys |-> IF k \in missing THEN calls' ELSE entry.value[k]]
<1>1. expiry \in Nat /\ now \in Nat
  BY EffectiveTypes, Constants DEF TypeOK
<1>2. /\ calls' \in 1..MaxCalls /\ by' \in [Calls -> Instances] /\ expires' = expires
      /\ state' \in [Calls -> [Keys -> {"none", "pending", "ok", "failed"}]]
  BY FetchTypes DEF RefetchMissing
<1>3. value \in Values
  BY <1>2 DEF Values, TypeOK, Entries
<1>4. /\ ScheduleRefresh(expiry, i, i) \subseteq Timers
      /\ \A t, u \in ScheduleRefresh(expiry, i, i) : t = u
  BY <1>1, Scheduled
<1>5. entry' = [value |-> value, expiry |-> expiry,
                refresh |-> ScheduleRefresh(expiry, i, i),
                modified |-> FALSE, fetch |-> i]
  BY DEF RefetchMissing
<1>6. entry' \in Entries /\ \A t, u \in entry'.refresh : t = u
  BY <1>1, <1>3, <1>4, <1>5 DEF Entries
<1>7. orphans' \subseteq Timers /\ learned' = learned
  BY DEF RefetchMissing, TypeOK, Entries
<1> QED BY <1>2, <1>6, <1>7, Constants DEF TypeOK

LEMMA LearnTypes ==
  ASSUME TypeOK, NEW i \in Instances, NEW expiry \in Nat, SetCacheKeyExpiry(i, expiry)
  PROVE  /\ learned' \in [Instances -> Nat]
         /\ entry' \in Entries /\ \A t, u \in entry'.refresh : t = u
<1> DEFINE ahead == IF learned[i] > now THEN learned[i] ELSE Infinity
           clamp == Earlier(expiry, ahead)
<1>1. ahead \in Nat /\ now \in Nat
  BY Constants DEF TypeOK
<1>2. clamp \in Nat
  BY <1>1, EarlierOf
<1>3. learned' = [learned EXCEPT ![i] = clamp]
  BY DEF SetCacheKeyExpiry
<1>4. CASE clamp < entry.expiry /\ Caches(i)
  <2>1. entry' = [entry EXCEPT !.expiry = clamp,
                               !.refresh = ScheduleRefresh(clamp, i, entry.fetch)]
    BY <1>4 DEF SetCacheKeyExpiry
  <2>2. entry.fetch \in Instances
    BY DEF TypeOK, Entries
  <2>3. /\ ScheduleRefresh(clamp, i, entry.fetch) \subseteq Timers
        /\ \A t, u \in ScheduleRefresh(clamp, i, entry.fetch) : t = u
    BY <1>1, <1>2, <2>2, Scheduled
  <2> QED BY <1>2, <1>3, <2>1, <2>3 DEF TypeOK, Entries
<1>5. CASE ~(clamp < entry.expiry /\ Caches(i))
  BY <1>2, <1>3, <1>5 DEF SetCacheKeyExpiry, TypeOK
<1> QED BY <1>4, <1>5

LEMMA TypeNext == TypeOK /\ [Next]_vars => TypeOK'
<1> SUFFICES ASSUME TypeOK, [Next]_vars PROVE TypeOK'
  OBVIOUS
<1>1. ASSUME NEW i \in Instances, Invoke(i) PROVE TypeOK'
  <2>1. CASE Unexpired(i)
    BY <1>1, <2>1, MissingTypes DEF Invoke
  <2>2. CASE ~Unexpired(i)
    BY <1>1, <2>2, RefetchTypes DEF Invoke
  <2> QED BY <2>1, <2>2
<1>2. ASSUME NEW t \in entry.refresh \cup orphans, RefreshFires(t) PROVE TypeOK'
  <2>1. t.options \in Instances /\ t.fetch \in Instances
    BY DEF TypeOK, Entries, Timers
  <2> QED BY <1>2, <2>1, RefetchTypes DEF RefreshFires
<1>3. ASSUME NEW n \in Calls, NEW k \in Keys, FetchSucceeds(n, k) PROVE TypeOK'
  <2>1. PICK expiry \in {now + life : life \in Lifetimes} \cup {Infinity} :
          /\ expires' = [expires EXCEPT ![n][k] = expiry]
          /\ SetCacheKeyExpiry(by[n], expiry)
    BY <1>3 DEF FetchSucceeds
  <2>2. expiry \in Nat /\ by[n] \in Instances
    BY Constants DEF TypeOK
  <2>3. /\ learned' \in [Instances -> Nat]
        /\ entry' \in Entries /\ \A t, u \in entry'.refresh : t = u
    BY <2>1, <2>2, LearnTypes
  <2>4. expires' \in [Calls -> [Keys -> Nat]]
    BY <2>1, <2>2 DEF TypeOK
  <2> QED BY <1>3, <2>3, <2>4 DEF FetchSucceeds, TypeOK
<1>4. ASSUME NEW n \in Calls, NEW k \in Keys, FetchFails(n, k) PROVE TypeOK'
  <2>1. [entry.value EXCEPT ![k] = 0] \in Values
    BY Constants DEF TypeOK, Entries, Values
  <2>2. entry' = [entry EXCEPT !.value = [entry.value EXCEPT ![k] = 0],
                               !.refresh = {}, !.modified = TRUE]
        \/ entry' = entry
    BY <1>4 DEF FetchFails
  <2>3. entry' \in Entries /\ \A t, u \in entry'.refresh : t = u
    BY <2>1, <2>2 DEF TypeOK, Entries
  <2> QED BY <1>4, <2>3 DEF FetchFails, TypeOK
<1>5. CASE Drop
  BY <1>5, NoEntryType DEF Drop, TypeOK, promiseVars
<1>6. CASE Tick
  BY <1>6, Constants DEF Tick, TypeOK, promiseVars
<1>7. CASE UNCHANGED vars
  BY <1>7 DEF vars, promiseVars, TypeOK
<1> QED BY <1>1, <1>2, <1>3, <1>4, <1>5, <1>6, <1>7 DEF Next

THEOREM CacheTypeCorrect == Spec => []TypeOK
BY TypeInit, TypeNext, PTL DEF Spec

----------------------------------------------------------------------------
(* What an entry holds                                                     *)

NoTimestamp == \A i \in Instances : CacheExpiry[i].kind # "until"

\* A value is a live promise of an instance that caches; the entry expires no
\* later than anything it holds.
HeldOf(n, k) ==
  /\ n <= calls
  /\ state[n][k] \in {"pending", "ok"}
  /\ Caches(by[n])
  /\ NoTimestamp /\ state[n][k] = "ok" => entry.expiry <= expires[n][k]

HeldInv ==
  /\ \A k \in Keys : entry.value[k] # 0 => HeldOf(entry.value[k], k)
  /\ entry.expiry # 0 => Caches(entry.fetch)
  /\ \A t \in entry.refresh \cup orphans : Caches(t.options) /\ Caches(t.fetch)

(* A new call makes pending promises and touches no older one.              *)
LEMMA FetchEffect ==
  ASSUME TypeOK, NEW f \in Instances, NEW missing \in SUBSET Keys,
         MiddlewareFetch(f, missing)
  PROVE  /\ calls' \in Calls /\ by'[calls'] = f
         /\ \A k \in missing : state'[calls'][k] = "pending"
         /\ \A n \in Calls : n <= calls =>
              by'[n] = by[n] /\ state'[n] = state[n] /\ expires'[n] = expires[n]
<1>1. calls' = calls + 1 /\ calls' \in Calls /\ calls \in Nat
  BY FetchTypes, Constants DEF TypeOK, Calls
<1>2. by'[calls'] = f
  BY <1>1 DEF MiddlewareFetch, TypeOK
<1>3. state' = [state EXCEPT ![calls'] =
                  [k \in Keys |-> IF k \in missing THEN "pending" ELSE "none"]]
  BY DEF MiddlewareFetch
<1>4. state'[calls'] = [k \in Keys |-> IF k \in missing THEN "pending" ELSE "none"]
  BY <1>1, <1>3 DEF TypeOK
<1>5. ASSUME NEW n \in Calls, n <= calls
      PROVE  by'[n] = by[n] /\ state'[n] = state[n] /\ expires'[n] = expires[n]
  <2>1. n # calls'
    BY <1>1, <1>5 DEF Calls
  <2> QED BY <1>3, <2>1 DEF MiddlewareFetch, TypeOK
<1> QED BY <1>1, <1>2, <1>4, <1>5

\* Fetching replaces the values of an entry, it drops none.
LEMMA RefetchKeeps ==
  ASSUME TypeOK, NEW i \in Instances, NEW f \in Instances, Refetch(i, f),
         NEW k \in Keys, entry.value[k] # 0
  PROVE  entry'.value[k] # 0
<1>1. calls' \in 1..MaxCalls
  BY FetchTypes DEF Refetch
<1>2. CASE Caches(i)
  <2>1. entry'.value = [j \in Keys |-> calls']
    BY <1>2 DEF Refetch
  <2> QED BY <1>1, <2>1, Constants
<1>3. CASE ~Caches(i)
  BY <1>3 DEF Refetch
<1> QED BY <1>2, <1>3

LEMMA RefetchHeld ==
  ASSUME TypeOK, HeldInv, NEW i \in Instances, NEW f \in Instances,
         Caches(i) => Caches(f), Refetch(i, f), orphans' \subseteq orphans, now' = now
  PROVE  HeldInv'
<1>0. /\ calls' \in Calls /\ calls' = calls + 1 /\ by'[calls'] = f
      /\ \A k \in Keys : state'[calls'][k] = "pending"
      /\ \A n \in Calls : n <= calls =>
           by'[n] = by[n] /\ state'[n] = state[n] /\ expires'[n] = expires[n]
  BY FetchEffect, FetchTypes DEF Refetch
<1>1. CASE Caches(i)
  <2>1. entry' = [value |-> [k \in Keys |-> calls'],
                  expiry |-> ConfiguredExpiry(i),
                  refresh |-> ScheduleRefresh(ConfiguredExpiry(i), i, f),
                  modified |-> FALSE,
                  fetch |-> f]
    BY <1>1 DEF Refetch
  <2>2. \A k \in Keys : HeldOf(entry.value[k], k)'
    BY <1>0, <1>1, <2>1 DEF HeldOf, Caches, TypeOK
  <2>3. \A t \in ScheduleRefresh(ConfiguredExpiry(i), i, f) : t.options = i /\ t.fetch = f
    BY DEF ScheduleRefresh
  <2>4. \A t \in entry'.refresh \cup orphans' : Caches(t.options) /\ Caches(t.fetch)
    BY <1>1, <2>1, <2>3 DEF HeldInv
  <2> QED BY <1>1, <2>1, <2>2, <2>4 DEF HeldInv, Caches
<1>2. CASE ~Caches(i)
  <2>1. entry' = entry
    BY <1>2 DEF Refetch
  <2>2. ASSUME NEW k \in Keys, entry.value[k] # 0 PROVE HeldOf(entry.value[k], k)'
    <3>1. entry.value[k] \in Calls /\ entry.value[k] <= calls
      BY <2>2 DEF HeldInv, HeldOf, TypeOK, Entries, Values, Calls
    <3> DEFINE m == entry.value[k]
    <3>2. HeldOf(m, k) /\ calls \in Nat /\ m \in Nat
      BY <2>2, Constants DEF HeldInv, TypeOK, Entries, Values
    <3>3. by'[m] = by[m] /\ state'[m] = state[m] /\ expires'[m] = expires[m]
      BY <1>0, <3>1
    <3>4. m <= calls'
      BY <1>0, <3>1, <3>2
    <3> QED BY <2>1, <3>2, <3>3, <3>4 DEF HeldOf, Caches
  <2> QED BY <2>1, <2>2 DEF HeldInv, Caches
<1> QED BY <1>1, <1>2

LEMMA MissingHeld ==
  ASSUME TypeOK, HeldInv, NEW i \in Instances, Unexpired(i), RefetchMissing(i), now' = now
  PROVE  HeldInv'
<1> DEFINE missing == {k \in Keys : entry.value[k] = 0}
<1>0. /\ calls' \in Calls /\ calls' = calls + 1 /\ by'[calls'] = i
      /\ \A k \in missing : state'[calls'][k] = "pending"
      /\ \A n \in Calls : n <= calls =>
           by'[n] = by[n] /\ state'[n] = state[n] /\ expires'[n] = expires[n]
  BY FetchEffect, FetchTypes DEF RefetchMissing
<1>1. entry' = [value |-> [k \in Keys |-> IF k \in missing THEN calls' ELSE entry.value[k]],
                expiry |-> EffectiveExpiry(i),
                refresh |-> ScheduleRefresh(EffectiveExpiry(i), i, i),
                modified |-> FALSE, fetch |-> i]
  BY DEF RefetchMissing
<1>2. Caches(i)
  BY DEF Unexpired
<1>3. ASSUME NEW k \in Keys PROVE HeldOf(entry.value[k], k)'
  <2>1. CASE k \in missing
    BY <1>0, <1>1, <1>2, <2>1 DEF HeldOf, Caches, TypeOK
  <2>2. CASE k \notin missing
    <3>1. /\ entry.value[k] \in Calls /\ entry.value[k] <= calls
          /\ HeldOf(entry.value[k], k) /\ entry'.value[k] = entry.value[k]
      BY <1>1, <2>2 DEF HeldInv, HeldOf, TypeOK, Entries, Values, Calls
    <3>2. NoTimestamp => entry'.expiry <= entry.expiry
      BY <1>1, EffectiveTypes DEF NoTimestamp
    <3>3. entry'.expiry \in Nat /\ entry.expiry \in Nat /\ expires[entry.value[k]][k] \in Nat
      BY <1>1, <3>1, EffectiveTypes DEF TypeOK, Entries
    <3> DEFINE m == entry.value[k]
    <3>4. by'[m] = by[m] /\ state'[m] = state[m] /\ expires'[m] = expires[m]
      BY <1>0, <3>1
    <3>5. m <= calls'
      BY <1>0, <3>1, Constants DEF TypeOK, Calls
    <3>6. NoTimestamp /\ state'[m][k] = "ok" => entry'.expiry <= expires'[m][k]
      BY <3>1, <3>2, <3>3, <3>4 DEF HeldOf
    <3> QED BY <3>1, <3>4, <3>5, <3>6 DEF HeldOf, Caches
  <2> QED BY <2>1, <2>2
<1>4. \A t \in entry'.refresh \cup orphans' : Caches(t.options) /\ Caches(t.fetch)
  <2>1. \A t \in ScheduleRefresh(EffectiveExpiry(i), i, i) : t.options = i /\ t.fetch = i
    BY DEF ScheduleRefresh
  <2> QED BY <1>1, <1>2, <2>1 DEF RefetchMissing, HeldInv
<1> QED BY <1>1, <1>2, <1>3, <1>4 DEF HeldInv, Caches

LEMMA SuccessHeld ==
  ASSUME TypeOK, HeldInv, NEW n \in Calls, NEW k \in Keys, FetchSucceeds(n, k)
  PROVE  HeldInv'
<1>1. PICK expiry \in {now + life : life \in Lifetimes} \cup {Infinity} :
        /\ expires' = [expires EXCEPT ![n][k] = expiry]
        /\ SetCacheKeyExpiry(by[n], expiry)
  BY DEF FetchSucceeds
<1> DEFINE ahead == IF learned[by[n]] > now THEN learned[by[n]] ELSE Infinity
           clamp == Earlier(expiry, ahead)
<1>2. expiry \in Nat /\ by[n] \in Instances /\ ahead \in Nat /\ now \in Nat
  BY Constants DEF TypeOK
<1>3. clamp \in Nat /\ clamp <= expiry
  BY <1>2, EarlierOf
<1>4. /\ state' = [state EXCEPT ![n][k] = "ok"]
      /\ UNCHANGED <<now, orphans, calls, by>>
  BY DEF FetchSucceeds
<1>5. /\ entry'.value = entry.value /\ entry'.fetch = entry.fetch
      /\ entry.expiry \in Nat /\ entry'.expiry \in Nat
      /\ entry'.expiry <= entry.expiry
      /\ Caches(by[n]) => entry'.expiry <= clamp
  BY <1>1, <1>3 DEF SetCacheKeyExpiry, TypeOK, Entries
<1>6. ASSUME NEW j \in Keys, entry.value[j] # 0 PROVE HeldOf(entry.value[j], j)'
  <2> DEFINE m == entry.value[j]
  <2>1. m \in Calls /\ HeldOf(m, j) /\ entry'.value[j] = m
    BY <1>5, <1>6 DEF HeldInv, HeldOf, TypeOK, Entries, Values, Calls
  <2>2. CASE m = n /\ j = k
    <3>1. expires'[m][j] = expiry /\ state'[m][j] = "ok"
      BY <1>1, <1>4, <2>2 DEF TypeOK
    <3> QED BY <1>2, <1>3, <1>4, <1>5, <2>1, <2>2, <3>1 DEF HeldOf, Caches, TypeOK
  <2>3. CASE ~(m = n /\ j = k)
    <3>1. /\ expires'[m][j] = expires[m][j] /\ expires[m][j] \in Nat
          /\ state'[m][j] = state[m][j]
      BY <1>1, <1>4, <2>1, <2>3 DEF TypeOK
    <3> QED BY <1>4, <1>5, <2>1, <3>1 DEF HeldOf, Caches, TypeOK
  <2> QED BY <2>2, <2>3
<1>7. entry'.expiry # 0 => Caches(entry'.fetch)
  BY <1>5 DEF HeldInv, Caches
<1>8. \A t \in entry'.refresh \cup orphans' : Caches(t.options) /\ Caches(t.fetch)
  <2>1. CASE clamp < entry.expiry /\ Caches(by[n])
    <3>1. entry'.refresh = ScheduleRefresh(clamp, by[n], entry.fetch)
      BY <1>1, <2>1 DEF SetCacheKeyExpiry, TypeOK, Entries
    <3>2. Caches(entry.fetch)
      BY <1>3, <1>5, <2>1 DEF HeldInv
    <3>3. \A t \in ScheduleRefresh(clamp, by[n], entry.fetch) :
            t.options = by[n] /\ t.fetch = entry.fetch
      BY DEF ScheduleRefresh
    <3> QED BY <1>4, <2>1, <3>1, <3>2, <3>3 DEF HeldInv
  <2>2. CASE ~(clamp < entry.expiry /\ Caches(by[n]))
    BY <1>1, <1>4, <2>2 DEF SetCacheKeyExpiry, HeldInv
  <2> QED BY <2>1, <2>2
<1> QED BY <1>5, <1>6, <1>7, <1>8 DEF HeldInv, Caches

LEMMA FailureHeld ==
  ASSUME TypeOK, HeldInv, NEW n \in Calls, NEW k \in Keys, FetchFails(n, k)
  PROVE  HeldInv'
<1>1. /\ state' = [state EXCEPT ![n][k] = "failed"]
      /\ UNCHANGED <<now, orphans, learned, calls, by, expires>>
  BY DEF FetchFails
<1>2. /\ entry'.expiry = entry.expiry /\ entry'.fetch = entry.fetch
      /\ entry'.refresh \subseteq entry.refresh
      /\ \A j \in Keys : entry'.value[j] # 0 =>
           entry'.value[j] = entry.value[j] /\ ~(entry.value[j] = n /\ j = k)
  BY DEF FetchFails, TypeOK, Entries, Values
<1>3. ASSUME NEW j \in Keys, entry'.value[j] # 0 PROVE HeldOf(entry.value[j], j)'
  <2> DEFINE m == entry.value[j]
  <2>1. m \in Calls /\ HeldOf(m, j) /\ entry'.value[j] = m /\ ~(m = n /\ j = k)
    BY <1>2, <1>3 DEF HeldInv, HeldOf, TypeOK, Entries, Values, Calls
  <2>2. state'[m][j] = state[m][j]
    BY <1>1, <2>1 DEF TypeOK
  <2> QED BY <1>1, <1>2, <2>1, <2>2 DEF HeldOf, Caches
<1> QED BY <1>1, <1>2, <1>3 DEF HeldInv, Caches

LEMMA HeldInit == Init => HeldInv
BY DEF Init, HeldInv, NoEntry

LEMMA HeldNext == TypeOK /\ HeldInv /\ [Next]_vars => HeldInv'
<1> SUFFICES ASSUME TypeOK, HeldInv, [Next]_vars PROVE HeldInv'
  OBVIOUS
<1>1. ASSUME NEW i \in Instances, Invoke(i) PROVE HeldInv'
  <2>1. CASE Unexpired(i)
    BY <1>1, <2>1, MissingHeld DEF Invoke
  <2>2. CASE ~Unexpired(i)
    BY <1>1, <2>2, RefetchHeld DEF Invoke
  <2> QED BY <2>1, <2>2
<1>2. ASSUME NEW t \in entry.refresh \cup orphans, RefreshFires(t) PROVE HeldInv'
  <2>1. /\ t.options \in Instances /\ t.fetch \in Instances
        /\ Caches(t.fetch)
    BY DEF TypeOK, Entries, Timers, HeldInv
  <2> QED BY <1>2, <2>1, RefetchHeld DEF RefreshFires
<1>3. ASSUME NEW n \in Calls, NEW k \in Keys, FetchSucceeds(n, k) PROVE HeldInv'
  BY <1>3, SuccessHeld
<1>4. ASSUME NEW n \in Calls, NEW k \in Keys, FetchFails(n, k) PROVE HeldInv'
  BY <1>4, FailureHeld
<1>5. CASE Drop
  BY <1>5 DEF Drop, HeldInv, NoEntry, Caches
<1>6. CASE Tick
  BY <1>6 DEF Tick, HeldInv, HeldOf, Caches, promiseVars
<1>7. CASE UNCHANGED vars
  BY <1>7 DEF vars, promiseVars, HeldInv, HeldOf, Caches
<1> QED BY <1>1, <1>2, <1>3, <1>4, <1>5, <1>6, <1>7 DEF Next

(* No hit serves a promise that has failed: it was dropped when it failed.  *)
THEOREM FailuresAreEvicted == Spec => []NeverServesFailure
<1>1. TypeOK /\ HeldInv => NeverServesFailure
  BY DEF HeldInv, HeldOf, NeverServesFailure
<1> QED BY <1>1, TypeInit, TypeNext, HeldInit, HeldNext, PTL DEF Spec

(* A failure drops its own promise alone: one fetched later under the same  *)
(* key is never dropped in its stead.                                       *)
THEOREM LaterFetchesSurvive == Spec => OnlyOwnFailureEvicts
<1>1. ASSUME TypeOK, [Next]_vars
      PROVE  [\A k \in Keys :
                LET n == entry.value[k] IN
                n # 0 /\ entry'.value[k] = 0 /\ entry' # NoEntry
                  => state'[n][k] = "failed"]_vars
  <2>1. ASSUME NEW k \in Keys, entry.value[k] # 0, entry'.value[k] = 0, entry' # NoEntry,
               Next
        PROVE  state'[entry.value[k]][k] = "failed"
    <3>1. ASSUME NEW i \in Instances, Invoke(i) PROVE FALSE
      <4>1. CASE Unexpired(i)
        BY <1>1, <2>1, <3>1, <4>1, FetchTypes DEF Invoke, RefetchMissing
      <4>2. CASE ~Unexpired(i)
        BY <1>1, <2>1, <3>1, <4>2, RefetchKeeps DEF Invoke
      <4> QED BY <4>1, <4>2
    <3>2. ASSUME NEW t \in entry.refresh \cup orphans, RefreshFires(t) PROVE FALSE
      <4>1. t.options \in Instances /\ t.fetch \in Instances
        BY <1>1 DEF TypeOK, Entries, Timers
      <4> QED BY <1>1, <2>1, <3>2, <4>1, RefetchKeeps DEF RefreshFires
    <3>3. ASSUME NEW n \in Calls, NEW j \in Keys, FetchSucceeds(n, j) PROVE FALSE
      BY <1>1, <2>1, <3>3 DEF FetchSucceeds, SetCacheKeyExpiry, TypeOK, Entries
    <3>4. ASSUME NEW n \in Calls, NEW j \in Keys, FetchFails(n, j)
          PROVE  state'[entry.value[k]][k] = "failed"
      <4>1. entry' # entry
        BY <2>1
      <4>2. /\ entry.value[j] = n
            /\ entry' = [entry EXCEPT !.value = [entry.value EXCEPT ![j] = 0],
                                      !.refresh = {}, !.modified = TRUE]
        BY <3>4, <4>1 DEF FetchFails
      <4>3. entry'.value = [entry.value EXCEPT ![j] = 0]
        BY <1>1, <4>2 DEF TypeOK, Entries
      <4>4. k = j
        BY <1>1, <2>1, <4>3 DEF TypeOK, Entries, Values
      <4> QED BY <1>1, <3>4, <4>2, <4>4 DEF FetchFails, TypeOK
    <3>5. ~Drop /\ ~Tick
      BY <2>1 DEF Drop, Tick
    <3> QED BY <1>1, <2>1, <3>1, <3>2, <3>3, <3>4, <3>5 DEF Next
  <2> QED BY <1>1, <2>1
<1> QED BY <1>1, TypeInit, TypeNext, PTL DEF Spec, OnlyOwnFailureEvicts

(* As long as no instance sets a unix timestamp, no hit of any instance      *)
(* serves what has expired.                                                *)
THEOREM ExpiredIsNotServed == NoTimestamp => (Spec => []NeverServesExpired)
<1> SUFFICES ASSUME NoTimestamp PROVE Spec => []NeverServesExpired
  OBVIOUS
<1>1. TypeOK /\ HeldInv => NeverServesExpired
  <2> SUFFICES ASSUME TypeOK, HeldInv, NEW i \in Instances, NEW k \in Keys,
                      Unexpired(i), entry.value[k] # 0, state[entry.value[k]][k] = "ok"
               PROVE  now < expires[entry.value[k]][k]
    BY DEF NeverServesExpired
  <2>1. now < entry.expiry
    BY EffectiveTypes, Constants DEF Unexpired, NoTimestamp, TypeOK, Entries
  <2>2. entry.expiry <= expires[entry.value[k]][k]
    BY DEF HeldInv, HeldOf
  <2>3. /\ entry.value[k] \in Calls /\ entry.expiry \in Nat /\ now \in Nat
        /\ expires[entry.value[k]][k] \in Nat
    BY Constants DEF TypeOK, Entries, Values, Calls
  <2> QED BY <2>1, <2>2, <2>3
<1> QED BY <1>1, TypeInit, TypeNext, HeldInit, HeldNext, PTL DEF Spec

----------------------------------------------------------------------------
(* The refresh of an entry                                                 *)

\* Whatever expires at all does so within a delay that setTimeout takes.
Near(x) == x < Infinity => x <= now + MaxDelay

RefreshInv ==
  /\ Schedulable => Near(entry.expiry) /\ \A i \in Instances : Near(learned[i])
  /\ RefreshNeverLost

LEMMA RefetchRefresh ==
  ASSUME TypeOK, RefreshInv, NEW i \in Instances, NEW f \in Instances,
         Caches(i) \/ entry' = entry, Refetch(i, f), now' = now
  PROVE  RefreshInv'
<1> DEFINE expiry == ConfiguredExpiry(i)
<1>1. /\ expiry \in Nat /\ now \in Nat /\ Infinity \in Nat /\ MaxDelay \in Nat
      /\ learned \in [Instances -> Nat]
  BY Constants DEF ConfiguredExpiry, TypeOK
<1>2. Schedulable => \A j \in Instances : Near(learned[j])'
  BY <1>1 DEF Refetch, RefreshInv, Near
<1>3. CASE Caches(i)
  <2>1. entry' = [value |-> [k \in Keys |-> calls'], expiry |-> expiry,
                  refresh |-> ScheduleRefresh(expiry, i, f),
                  modified |-> FALSE, fetch |-> f]
    BY <1>3 DEF Refetch
  <2>2. Schedulable => expiry <= now + MaxDelay \/ expiry = Infinity
    <3>1. CacheExpiry[i].n \in Nat /\ CacheExpiry[i].kind \in {"off", "for", "until", "forever"}
      BY FetchAssumption DEF Expiries
    <3> QED BY <1>1, <1>3, <3>1 DEF ConfiguredExpiry, Schedulable, Caches
  <2>3. Schedulable /\ now < expiry /\ expiry < Infinity =>
          \E t \in ScheduleRefresh(expiry, i, f) : t.at <= expiry
    BY <1>1, <2>2, Scheduled DEF Schedulable
  <2>4. calls' # 0
    BY FetchTypes DEF Refetch
  <2>5. RefreshNeverLost'
    BY <2>1, <2>3, <2>4 DEF RefreshNeverLost, Schedulable
  <2> QED BY <1>1, <1>2, <2>1, <2>2, <2>5 DEF RefreshInv, Near, Schedulable
<1>4. CASE entry' = entry
  BY <1>2, <1>4 DEF RefreshInv, RefreshNeverLost, Near, Schedulable
<1> QED BY <1>3, <1>4

LEMMA MissingRefresh ==
  ASSUME TypeOK, RefreshInv, NEW i \in Instances, RefetchMissing(i), now' = now
  PROVE  RefreshInv'
<1> DEFINE missing == {k \in Keys : entry.value[k] = 0}
           expiry == EffectiveExpiry(i)
<1>1. /\ expiry \in Nat /\ now \in Nat /\ Infinity \in Nat /\ MaxDelay \in Nat
  BY EffectiveTypes, Constants DEF TypeOK
<1>2. /\ entry' = [value |-> [k \in Keys |-> IF k \in missing THEN calls' ELSE entry.value[k]],
                   expiry |-> expiry, refresh |-> ScheduleRefresh(expiry, i, i),
                   modified |-> FALSE, fetch |-> i]
      /\ learned' = learned
  BY DEF RefetchMissing
<1>3. Schedulable => Near(expiry)
  BY EffectiveTypes DEF Schedulable, RefreshInv
<1>4. Schedulable /\ now < expiry /\ expiry < Infinity =>
        \E t \in ScheduleRefresh(expiry, i, i) : t.at <= expiry
  BY <1>1, <1>3, Scheduled DEF Near, Schedulable
<1>5. calls' # 0
  BY FetchTypes DEF RefetchMissing
<1>6. RefreshNeverLost'
  BY <1>2, <1>4, <1>5 DEF RefreshNeverLost, Schedulable
<1> QED BY <1>2, <1>3, <1>6 DEF RefreshInv, Near, Schedulable

LEMMA LearnRefresh ==
  ASSUME TypeOK, RefreshInv, NEW i \in Instances, now' = now,
         NEW expiry \in {now + life : life \in Lifetimes} \cup {Infinity},
         SetCacheKeyExpiry(i, expiry)
  PROVE  RefreshInv'
<1> DEFINE ahead == IF learned[i] > now THEN learned[i] ELSE Infinity
           clamp == Earlier(expiry, ahead)
<1>1. /\ now \in Nat /\ Infinity \in Nat /\ MaxDelay \in Nat /\ now < Infinity
      /\ learned \in [Instances -> Nat] /\ entry.expiry \in Nat
      /\ entry.fetch \in Instances
  BY TimeAssumption DEF TypeOK, Entries
<1>2. expiry \in Nat /\ now < expiry
  BY <1>1, Constants
<1>3. ahead \in Nat /\ now < ahead
  BY <1>1
<1>4. clamp \in Nat /\ now < clamp /\ (clamp = expiry \/ clamp = ahead)
  BY <1>2, <1>3, EarlierOf
<1>5. Schedulable => Near(clamp)
  <2>1. Schedulable => Near(expiry)
    BY <1>1, Constants DEF Schedulable, Near
  <2>2. Schedulable => Near(ahead)
    BY <1>1 DEF RefreshInv, Near
  <2> QED BY <1>4, <2>1, <2>2
<1>6. learned' = [learned EXCEPT ![i] = clamp]
  BY DEF SetCacheKeyExpiry
<1>7. Schedulable => \A j \in Instances : Near(learned[j])'
  BY <1>1, <1>5, <1>6 DEF RefreshInv, Near
<1>8. CASE clamp < entry.expiry /\ Caches(i)
  <2>1. entry' = [entry EXCEPT !.expiry = clamp,
                               !.refresh = ScheduleRefresh(clamp, i, entry.fetch)]
    BY <1>8 DEF SetCacheKeyExpiry
  <2>2. /\ entry'.expiry = clamp /\ entry'.refresh = ScheduleRefresh(clamp, i, entry.fetch)
        /\ entry'.value = entry.value /\ entry'.modified = entry.modified
    BY <2>1 DEF TypeOK, Entries
  <2>3. Schedulable /\ clamp < Infinity =>
          \E t \in ScheduleRefresh(clamp, i, entry.fetch) : t.at <= clamp
    BY <1>1, <1>4, <1>5, Scheduled DEF Near, Schedulable
  <2>4. entry # NoEntry
    BY <1>1, <1>4, <1>8 DEF NoEntry
  <2>5. RefreshNeverLost'
    BY <2>2, <2>3, <2>4 DEF RefreshInv, RefreshNeverLost, Schedulable
  <2> QED BY <1>5, <1>7, <2>2, <2>5 DEF RefreshInv, Near, Schedulable
<1>9. CASE ~(clamp < entry.expiry /\ Caches(i))
  <2>1. entry' = entry
    BY <1>9 DEF SetCacheKeyExpiry
  <2> QED BY <1>7, <2>1 DEF RefreshInv, RefreshNeverLost, Near, Schedulable
<1> QED BY <1>8, <1>9

LEMMA RefreshInit == Init => RefreshInv
BY Constants DEF Init, RefreshInv, RefreshNeverLost, Near, Schedulable, NoEntry

LEMMA RefreshNext == TypeOK /\ RefreshInv /\ [Next]_vars => RefreshInv'
<1> SUFFICES ASSUME TypeOK, RefreshInv, [Next]_vars PROVE RefreshInv'
  OBVIOUS
<1>1. ASSUME NEW i \in Instances, Invoke(i) PROVE RefreshInv'
  <2>1. CASE Unexpired(i)
    BY <1>1, <2>1, MissingRefresh DEF Invoke
  <2>2. CASE ~Unexpired(i)
    BY <1>1, <2>2, RefetchRefresh DEF Invoke, Refetch
  <2> QED BY <2>1, <2>2
<1>2. ASSUME NEW t \in entry.refresh \cup orphans, RefreshFires(t) PROVE RefreshInv'
  <2>1. t.options \in Instances /\ t.fetch \in Instances
    BY DEF TypeOK, Entries, Timers
  <2>2. now' = now /\ Refetch(t.options, t.fetch)
    BY <1>2 DEF RefreshFires
  <2> QED BY <2>1, <2>2, RefetchRefresh DEF Refetch
<1>3. ASSUME NEW n \in Calls, NEW k \in Keys, FetchSucceeds(n, k) PROVE RefreshInv'
  <2>1. by[n] \in Instances /\ now' = now
    BY <1>3 DEF FetchSucceeds, TypeOK
  <2> QED BY <1>3, <2>1, LearnRefresh DEF FetchSucceeds
<1>4. ASSUME NEW n \in Calls, NEW k \in Keys, FetchFails(n, k) PROVE RefreshInv'
  <2>1. entry'.expiry = entry.expiry /\ (entry' = entry \/ entry'.modified)
    BY <1>4 DEF FetchFails, TypeOK, Entries
  <2> QED BY <1>4, <2>1 DEF FetchFails, RefreshInv, RefreshNeverLost, Near, Schedulable
<1>5. CASE Drop
  BY <1>5, Constants DEF Drop, RefreshInv, RefreshNeverLost, Near, Schedulable, NoEntry, TypeOK
<1>6. CASE Tick
  <2>1. now' = now + 1 /\ entry' = entry /\ learned' = learned /\ now \in Nat
    BY <1>6, Constants DEF Tick, TypeOK
  <2>2. MaxDelay \in Nat /\ entry.expiry \in Nat /\ \A i \in Instances : learned[i] \in Nat
    BY Constants DEF TypeOK, Entries
  <2>3. RefreshNeverLost'
    BY <2>1, <2>2 DEF RefreshInv, RefreshNeverLost, Schedulable
  <2>4. Schedulable => Near(entry.expiry)' /\ \A i \in Instances : Near(learned[i])'
    BY <2>1, <2>2 DEF RefreshInv, Near
  <2> QED BY <2>3, <2>4 DEF RefreshInv, Schedulable
<1>7. CASE UNCHANGED vars
  BY <1>7 DEF vars, RefreshInv, RefreshNeverLost, Near, Schedulable
<1> QED BY <1>1, <1>2, <1>3, <1>4, <1>5, <1>6, <1>7 DEF Next

(* The values of an unmodified entry are all there, and one that expires is  *)
(* due for a refresh no later: no order of timers, failures, late answers    *)
(* and instances ends the chain of background refreshes.                    *)
THEOREM RefreshContinues == Spec => []RefreshNeverLost
<1>1. RefreshInv => RefreshNeverLost
  BY DEF RefreshInv
<1> QED BY <1>1, TypeInit, TypeNext, RefreshInit, RefreshNext, PTL
        DEF Spec
============================================================================
