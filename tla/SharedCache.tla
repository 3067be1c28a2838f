----------------------------- MODULE SharedCache -----------------------------
(***************************************************************************)
(* The fetch cache of @middy/util as a whole: one Map for the process, that *)
(* the middlewares of a function share, each with its own cacheKey,         *)
(* cacheExpiry and cacheMaxSize.  FetchCache follows one entry through      *)
(* failures, learned expiries and sharing instances; here every fetch       *)
(* succeeds, and the question is which entries there are.                   *)
(*                                                                         *)
(* Expiries count down: 0 has passed, Forever never does.                   *)
(***************************************************************************)
EXTENDS Integers, SequencesExt

Middlewares == 1..3
Forever == 9

VARIABLES
  options,  \* of each middleware; source stands for all that fetchSourceId is made of
  cache,    \* the entries, in the order of the Map; refresh is a set of at most one timer
  timers,   \* the timers that are armed: whose refresh, and in what time
  served    \* what the last step handed to whom, or nothing

vars == <<options, cache, timers, served>>

Options(m) ==
  CASE m = 1 -> [key : {"a"}, source : {"p"}, cacheExpiry : {1, Forever}, cacheMaxSize : 0..2]
    [] m = 2 -> [key : {"b"}, source : {"p"}, cacheExpiry : {2, Forever}, cacheMaxSize : 1..2]
    [] m = 3 -> [key : {"a"}, source : {"p", "q"}, cacheExpiry : {0, 2}, cacheMaxSize : 1..2]
                  \cup [key : {"c"}, source : {"p"}, cacheExpiry : {1, Forever}, cacheMaxSize : 1..2]
Init ==
  /\ options \in [1..3 -> UNION {Options(m) : m \in Middlewares}]
  /\ \A m \in Middlewares : options[m] \in Options(m)
  /\ cache = <<>> /\ timers = {} /\ served = {}

----------------------------------------------------------------------------
Caches(m) == options[m].cacheExpiry # 0
Indices(key) == {n \in DOMAIN cache : cache[n].key = key}
Entries(key) == {cache[n] : n \in Indices(key)}

\* Fault: the entry with the earliest expiry is evicted, whoever's it is.
Earliest(map, inserted) == DOMAIN map
\* The entries evictCache chooses from.
Candidates(map, inserted) ==
  LET others == {n \in DOMAIN map : map[n].key # inserted}
  IN  IF others = {} THEN DOMAIN map ELSE others
Victim(map, inserted) ==
  LET from == Candidates(map, inserted)
  IN  CHOOSE n \in from : \A o \in from :
        map[n].expires < map[o].expires \/ (map[n].expires = map[o].expires /\ n <= o)
\* What the cache and the timers become.
\* Fault: the timer of an evicted entry stays armed.
EvictQuietly(map, armed, maxSize, inserted) ==
  IF Len(map) <= maxSize THEN cache' = map /\ timers' = armed
  ELSE cache' = RemoveAt(map, Victim(map, inserted)) /\ timers' = armed
EvictCache(map, armed, maxSize, inserted) ==
  IF Len(map) <= maxSize THEN cache' = map /\ timers' = armed
  ELSE LET victim == Victim(map, inserted)
       IN  cache' = RemoveAt(map, victim) /\ timers' = armed \ map[victim].refresh

ScheduleRefresh(m) ==
  IF options[m].cacheExpiry = Forever THEN {} ELSE {[of |-> m, due |-> options[m].cacheExpiry]}
\* Fetches, and stores what it fetched if m caches.
Store(m, armed) ==
  LET key == options[m].key
      entry == [key |-> key, source |-> options[m].source, expires |-> options[m].cacheExpiry,
                refresh |-> ScheduleRefresh(m)]
      rearmed == (armed \ UNION {e.refresh : e \in Entries(key)}) \cup entry.refresh
      map == IF Indices(key) = {} THEN Append(cache, entry)
             ELSE [n \in DOMAIN cache |-> IF n \in Indices(key) THEN entry ELSE cache[n]]
  IN  IF Caches(m) THEN EvictCache(map, rearmed, options[m].cacheMaxSize, key)
      ELSE cache' = cache /\ timers' = armed

\* Fault: whoever has the key owns the entry.
AnyOwner(m) == FALSE
\* assertCacheKeyOwner throws.
Foreign(m) == \E e \in Entries(options[m].key) : e.source # options[m].source
Fresh(m) == \E e \in Entries(options[m].key) : e.expires > 0
ProcessCache(m) ==
  \/ Caches(m) /\ Foreign(m) /\ served' = {} /\ UNCHANGED <<cache, timers>>
  \/ /\ Caches(m) /\ ~Foreign(m) /\ Fresh(m)
     /\ served' = {[to |-> m, source |-> e.source, stored |-> FALSE] : e \in Entries(options[m].key)}
     /\ UNCHANGED <<cache, timers>>
  \/ /\ Caches(m) => ~Foreign(m) /\ ~Fresh(m)
     /\ served' = {[to |-> m, source |-> options[m].source, stored |-> Caches(m)]}
     /\ Store(m, timers)
\* The timer refetches whatever the cache holds.
Refresh(timer) ==
  /\ timer.due = 0
  /\ served' = {[to |-> timer.of, source |-> options[timer.of].source, stored |-> TRUE]}
  /\ Store(timer.of, timers \ {timer})

\* Fault: an entry is deleted without a look at its timer.
DeleteOnly(keys) == UNCHANGED timers
Disarm(keys) == timers' = timers \ UNION {e.refresh : e \in UNION {Entries(key) : key \in keys}}
\* clearCache of one key, and of all of them.
ClearKey(key) ==
  /\ cache' = IF Indices(key) = {} THEN cache ELSE RemoveAt(cache, CHOOSE n \in Indices(key) : TRUE)
  /\ Disarm({key}) /\ served' = {}
ClearCache == cache' = <<>> /\ Disarm({cache[n].key : n \in DOMAIN cache}) /\ served' = {}

Elapsed(n) == IF n \in {0, Forever} THEN n ELSE n - 1
Later(some) == {[timer EXCEPT !.due = Elapsed(@)] : timer \in some}
Tick ==
  /\ cache' = [n \in DOMAIN cache |-> [cache[n] EXCEPT !.expires = Elapsed(@), !.refresh = Later(@)]]
  /\ timers' = Later(timers) /\ served' = {}

Next ==
  /\ \/ \E m \in Middlewares : ProcessCache(m)
     \/ \E timer \in timers : Refresh(timer)
     \/ (\E key \in {"a", "b"} : ClearKey(key)) \/ ClearCache
     \/ Tick
  /\ UNCHANGED options
Spec == Init /\ [][Next]_vars

----------------------------------------------------------------------------
TypeOK ==
  /\ \A n \in DOMAIN cache : cache[n].expires \in 0..Forever /\ cache[n].refresh \subseteq timers
  /\ timers \subseteq [of : Middlewares, due : 0..2]
  /\ \A s \in served : s.to \in Middlewares

\* A middleware is served what it fetches itself, and what it has just stored is there for
\* the next invocation, however full the cache is and whatever it holds.
OwnIsCached ==
  \A s \in served :
    /\ s.source = options[s.to].source
    /\ s.stored /\ options[s.to].cacheMaxSize > 0 =>
         \E e \in Entries(options[s.to].key) : e.source = s.source /\ e.expires > 0
\* The cache is no larger than the largest cacheMaxSize, and nothing is refetched in the
\* background but what is in it.
Bounded ==
  /\ \E m \in Middlewares : Len(cache) <= options[m].cacheMaxSize
  /\ timers = UNION {cache[n].refresh : n \in DOMAIN cache}
CacheIsShared == OwnIsCached /\ Bounded
=============================================================================
