--------------------------- MODULE ConnectionLease ---------------------------
(***************************************************************************)
(* The connections of @middy/rds (packages/rds/index.js; @middy/dsql is the *)
(* same program): who connects, which client the cache hands out, which     *)
(* invocation holds which client, and when a client is closed.              *)
(*                                                                         *)
(* Connects are numbered.  n is the promise fetch returns, and the client    *)
(* its connect opens; the promise may resolve to the client of another      *)
(* connect that took its place in the cache.  0 stands for undefined.       *)
(*                                                                         *)
(* The event loop runs every continuation of a settled promise before the   *)
(* next I/O event or timer: steps that those start wait until the program   *)
(* is Quiet.  Invocations may be started by code at any time.               *)
(***************************************************************************)
EXTENDS Integers

CONSTANTS
  Requests,     \* the invocations
  Cachings,     \* what cacheExpiry may be: "off" (0), "forever" (-1), "for" a time
  MaxConnects,  \* bound: connects
  MaxDrops      \* bound: evictions

ASSUME ConnectsAssumption ==
  /\ Cachings \subseteq {"off", "forever", "for"}
  /\ MaxConnects \in Nat \ {0} /\ MaxDrops \in Nat

VARIABLES
  caching,   \* the lifetime the options ask for, Cachings; never changes
  durable,   \* whether invocations run durably: sequential, and without onError
  entry,     \* getCache(cacheKey).value
  drops,     \* evictions so far
  connects,  \* connects so far
  status,    \* status[n] of promise n
  joined,    \* joined[n]: the promise n waits for once it is "joining"
  gives,     \* gives[n]: the client promise n resolved to
  live,      \* the client the cache owns
  holder,    \* holders: the client each invocation has leased
  retired,   \* the leased clients to be closed once nobody holds them
  closed,    \* closed[c]: how often end() was called on client c
  broken,    \* the clients the adapter flagged
  pc,        \* where an invocation is
  waits      \* the promise its before middleware awaits

configVars == <<caching, durable>>
promiseVars == <<connects, status, joined, gives>>
leaseVars == <<live, holder, retired, closed>>
vars == <<configVars, entry, drops, promiseVars, leaseVars, broken, pc, waits>>

Connects == 1..MaxConnects
Clients == Connects
Settled == {"ok", "failed"}

Awaiting(r) == pc[r] \in {"waiting", "rewaiting"}
Holders(c) == {r \in Requests : holder[r] = c}

\* No settled promise has a continuation left to run.
Quiet ==
  /\ \A r \in Requests : Awaiting(r) => status[waits[r]] \notin Settled
  /\ \A n \in Connects : status[n] = "joining" => status[joined[n]] \notin Settled

\* Construction, with a prefetch or without.
Init ==
  /\ caching \in Cachings /\ durable \in BOOLEAN
  /\ connects \in IF caching = "off" THEN {0} ELSE {0, 1}
  /\ entry = connects
  /\ status = [n \in Connects |-> IF n <= connects THEN "connecting" ELSE "none"]
  /\ joined = [n \in Connects |-> 0]
  /\ gives = [n \in Connects |-> 0]
  /\ live = 0 /\ retired = {} /\ broken = {} /\ drops = 0
  /\ holder = [r \in Requests |-> 0]
  /\ closed = [c \in Clients |-> 0]
  /\ pc = [r \in Requests |-> "idle"]
  /\ waits = [r \in Requests |-> 0]

----------------------------------------------------------------------------
(* Leases                                                                  *)

\* Fault: a client that leaves the cache is closed whoever holds it.
RetireAtOnce(c) ==
  closed' = [closed EXCEPT ![c] = @ + 1] /\ UNCHANGED retired

\* retire: close a client that leaves the cache, now or with its last lease.
Retire(c) ==
  IF Holders(c) = {}
  THEN closed' = [closed EXCEPT ![c] = @ + 1] /\ UNCHANGED retired
  ELSE retired' = retired \cup {c} /\ UNCHANGED closed

\* Make client n the one the cache hands out.
Adopt(n) ==
  /\ IF live # 0 THEN Retire(live) ELSE UNCHANGED <<retired, closed>>
  /\ live' = n

\* The clients that only the invocations R hold.
Freed(R) == {c \in Clients : Holders(c) # {} /\ Holders(c) \subseteq R}

Once(condition) == IF condition THEN 1 ELSE 0

\* Fault: the mark of a retired client outlives its last lease.
ReleaseKeepingRetired(R) ==
  /\ holder' = [r \in Requests |-> IF r \in R THEN 0 ELSE holder[r]]
  /\ closed' = [c \in Clients |->
                  closed[c] + Once(c \in Freed(R) /\ caching = "off")
                            + Once(c \in Freed(R) \cap retired)]
  /\ UNCHANGED retired

\* release of every lease in R: a client without cache is ended with its lease,
\* a retired one is closed with its last.
Release(R) ==
  /\ holder' = [r \in Requests |-> IF r \in R THEN 0 ELSE holder[r]]
  /\ retired' = retired \ Freed(R)
  /\ closed' = [c \in Clients |->
                  closed[c] + Once(c \in Freed(R) /\ caching = "off")
                            + Once(c \in Freed(R) \cap retired)]

----------------------------------------------------------------------------
(* Connecting                                                              *)

NewConnect ==
  /\ connects < MaxConnects
  /\ connects' = connects + 1
  /\ status' = [status EXCEPT ![connects'] = "connecting"]
  /\ UNCHANGED <<joined, gives>>

\* connectCached when the cache holds e: the promise it returns is waits'[r].
\* An entry with a lifetime may be found expired.
ConnectCached(r, e) ==
  \/ /\ e # 0
     /\ waits' = [waits EXCEPT ![r] = e]
     /\ entry' = e
     /\ UNCHANGED promiseVars
  \/ /\ e = 0 \/ caching = "for"
     /\ NewConnect
     /\ waits' = [waits EXCEPT ![r] = connects']
     /\ entry' = IF caching = "off" THEN e ELSE connects'

\* The refresh timer: reconnect in the background.
Refresh ==
  /\ Quiet /\ caching = "for" /\ entry # 0
  /\ NewConnect
  /\ entry' = connects'
  /\ UNCHANGED <<configVars, drops, leaseVars, broken, pc, waits>>

\* Another middleware's entry takes the place of this one (evictCache).
Evict ==
  /\ entry # 0 /\ drops < MaxDrops
  /\ entry' = 0 /\ drops' = drops + 1
  /\ UNCHANGED <<configVars, promiseVars, leaseVars, broken, pc, waits>>

\* A connect succeeds.  If another one has replaced it in the cache meanwhile,
\* it waits for that one before it gives its client up.  A client is flagged by
\* a later event, except that one nobody shares may be broken from the start.
ConnectSucceeds(n) ==
  /\ Quiet /\ status[n] = "connecting"
  /\ broken' \in {broken} \cup (IF caching = "off" THEN {broken \cup {n}} ELSE {})
  /\ \/ /\ caching = "off" \/ entry \in {0, n}
        /\ status' = [status EXCEPT ![n] = "ok"]
        /\ gives' = [gives EXCEPT ![n] = n]
        /\ IF caching = "off" THEN UNCHANGED <<live, retired, closed>> ELSE Adopt(n)
        /\ UNCHANGED joined
     \/ /\ caching # "off" /\ entry \notin {0, n}
        /\ status' = [status EXCEPT ![n] = "joining"]
        /\ joined' = [joined EXCEPT ![n] = entry]
        /\ UNCHANGED <<gives, live, retired, closed>>
  /\ UNCHANGED <<configVars, entry, drops, connects, holder, pc, waits>>

\* Fault: n closes its client and hands it out all the same.
JoinEndsWithOwn(n) ==
  /\ status[n] = "joining" /\ status[joined[n]] \in Settled
  /\ status' = [status EXCEPT ![n] = "ok"]
  /\ gives' = [gives EXCEPT ![n] = n]
  /\ IF status[joined[n]] = "ok" THEN Retire(n) /\ UNCHANGED live ELSE Adopt(n)
  /\ UNCHANGED <<configVars, entry, drops, connects, joined, holder, broken, pc, waits>>

\* Fault: n hands the other client out and forgets its own.
JoinEndsForgetting(n) ==
  /\ status[n] = "joining" /\ status[joined[n]] \in Settled
  /\ status' = [status EXCEPT ![n] = "ok"]
  /\ IF status[joined[n]] = "ok"
     THEN /\ gives' = [gives EXCEPT ![n] = gives[joined[n]]]
          /\ UNCHANGED <<live, retired, closed>>
     ELSE /\ Adopt(n)
          /\ gives' = [gives EXCEPT ![n] = n]
  /\ UNCHANGED <<configVars, entry, drops, connects, joined, holder, broken, pc, waits>>

\* The connect that replaced n is through: hand its client out, or n's own.
JoinEnds(n) ==
  /\ status[n] = "joining" /\ status[joined[n]] \in Settled
  /\ status' = [status EXCEPT ![n] = "ok"]
  /\ IF status[joined[n]] = "ok"
     THEN /\ Retire(n)
          /\ gives' = [gives EXCEPT ![n] = gives[joined[n]]]
          /\ UNCHANGED live
     ELSE /\ Adopt(n)
          /\ gives' = [gives EXCEPT ![n] = n]
  /\ UNCHANGED <<configVars, entry, drops, connects, joined, holder, broken, pc, waits>>

\* A connect fails: its entry is dropped, one that replaced it is not.
ConnectFails(n) ==
  /\ Quiet /\ status[n] = "connecting"
  /\ status' = [status EXCEPT ![n] = "failed"]
  /\ entry' = IF entry = n THEN 0 ELSE entry
  /\ UNCHANGED <<configVars, drops, connects, joined, gives, leaseVars, broken, pc, waits>>

\* The server drops a connection.
Break(c) ==
  /\ Quiet /\ status[c] \in {"joining", "ok"} /\ c \notin broken /\ closed[c] = 0
  /\ broken' = broken \cup {c}
  /\ UNCHANGED <<configVars, entry, drops, promiseVars, leaseVars, pc, waits>>

----------------------------------------------------------------------------
(* An invocation                                                           *)

\* before: a durable invocation first takes back what an earlier one left.
Before(r) ==
  /\ pc[r] = "idle"
  /\ durable => \A q \in Requests : ~Awaiting(q) /\ pc[q] # "running"
  /\ pc' = [pc EXCEPT ![r] = "waiting"]
  /\ IF durable THEN Release(Requests) ELSE UNCHANGED <<holder, retired, closed>>
  /\ ConnectCached(r, entry)
  /\ UNCHANGED <<configVars, drops, live, broken>>

\* The client is there and is leased; after a reconnect it is not looked at.
Lease(r) ==
  /\ Awaiting(r) /\ status[waits[r]] = "ok"
  /\ pc[r] = "rewaiting" \/ gives[waits[r]] \notin broken
  /\ pc' = [pc EXCEPT ![r] = "running"]
  /\ holder' = [holder EXCEPT ![r] = gives[waits[r]]]
  /\ UNCHANGED <<configVars, entry, drops, promiseVars, live, retired, closed, broken, waits>>

\* Fault: every invocation that sees the broken client replaces the entry.
ReconnectAnyway(r) ==
  LET c == gives[waits[r]] IN
  /\ pc[r] = "waiting" /\ status[waits[r]] = "ok" /\ c \in broken
  /\ pc' = [pc EXCEPT ![r] = "rewaiting"]
  /\ Retire(c) /\ live' = 0
  /\ ConnectCached(r, 0)
  /\ UNCHANGED <<configVars, drops, holder, broken>>

\* The client is broken: take it out of the cache, unless another invocation
\* has, and connect again.
Reconnect(r) ==
  LET c == gives[waits[r]]
      mine == caching = "off" \/ entry = waits[r]
  IN
  /\ pc[r] = "waiting" /\ status[waits[r]] = "ok" /\ c \in broken
  /\ pc' = [pc EXCEPT ![r] = "rewaiting"]
  /\ IF mine
     THEN Retire(c) /\ live' = 0
     ELSE UNCHANGED <<retired, closed, live>>
  /\ ConnectCached(r, IF mine THEN 0 ELSE entry)
  /\ UNCHANGED <<configVars, drops, holder, broken>>

\* The connect failed: so does the invocation, which holds nothing.
Fail(r) ==
  /\ Awaiting(r) /\ status[waits[r]] = "failed"
  /\ pc' = [pc EXCEPT ![r] = "done"]
  /\ UNCHANGED <<configVars, entry, drops, promiseVars, leaseVars, broken, waits>>

\* after, or onError.
After(r) ==
  /\ pc[r] = "running"
  /\ pc' = [pc EXCEPT ![r] = "done"]
  /\ Release({r})
  /\ UNCHANGED <<configVars, entry, drops, promiseVars, live, broken, waits>>

\* A durable invocation throws: nothing releases its lease.
Abandon(r) ==
  /\ durable /\ pc[r] = "running"
  /\ pc' = [pc EXCEPT ![r] = "done"]
  /\ UNCHANGED <<configVars, entry, drops, promiseVars, leaseVars, broken, waits>>

----------------------------------------------------------------------------
Next ==
  \/ Refresh \/ Evict
  \/ \E n \in Connects :
       ConnectSucceeds(n) \/ JoinEnds(n) \/ ConnectFails(n) \/ Break(n)
  \/ \E r \in Requests :
       Before(r) \/ Lease(r) \/ Reconnect(r) \/ Fail(r) \/ After(r) \/ Abandon(r)

Spec == Init /\ [][Next]_vars

----------------------------------------------------------------------------
(* Properties                                                              *)

\* Every variable stays in its type; a client is marked retired while leased.
TypeOK ==
  /\ caching \in Cachings /\ durable \in BOOLEAN
  /\ entry \in 0..MaxConnects /\ live \in 0..MaxConnects
  /\ drops \in 0..MaxDrops /\ connects \in 0..MaxConnects
  /\ status \in [Connects -> {"none", "connecting", "joining"} \cup Settled]
  /\ joined \in [Connects -> 0..MaxConnects]
  /\ gives \in [Connects -> 0..MaxConnects]
  /\ holder \in [Requests -> 0..MaxConnects]
  /\ retired \subseteq {c \in Clients : Holders(c) # {}} /\ broken \subseteq Clients
  /\ closed \in [Clients -> Nat]
  /\ pc \in [Requests -> {"idle", "waiting", "rewaiting", "running", "done"}]
  /\ waits \in [Requests -> 0..MaxConnects]

\* "A connection replaced by a refresh, or flagged broken by the adapter, is
\* closed once the invocations using it finish" (docs/middlewares/rds): no client
\* is closed under an invocation that goes on using it.
NeverClosesHeld ==
  [][\A c \in Clients :
       closed'[c] > closed[c] => \A r \in Requests : holder'[r] # c]_vars

\* No refresh and at most one eviction: a connect in flight is replaced once at
\* most before it settles.
Steady == caching # "for" /\ drops <= 1

\* A client is closed once at most, whichever of a broken connection, a lost race
\* and a last lease gets to it.
ClosedOnce == Steady => \A c \in Clients : closed[c] <= 1

\* No connection is lost track of: an open one is the cache's, is leased, is
\* waiting for the connect that replaced it, or is about to be handed out.
NoLeak ==
  Steady =>
    \A c \in Clients :
      status[c] \in {"joining", "ok"} /\ closed[c] = 0 =>
        \/ c = live \/ Holders(c) # {} \/ status[c] = "joining"
        \/ caching = "off" /\ \E r \in Requests : Awaiting(r) /\ waits[r] = c

\* "A connection replaced by a refresh [...] is closed once the invocations using
\* it finish; newer connections stay open" (docs/middlewares/rds): what an
\* invocation is handed out has not been closed.
HandsOutOpen ==
  [][\A r \in Requests :
       holder'[r] \notin {holder[r], 0} => closed[holder'[r]] = 0]_vars

\* The same, as long as no connect in flight is replaced twice, of every client that is
\* not flagged broken; and of the broken ones too while no connect in flight is replaced
\* at all.  (A reconnect may retire a broken client just before a connect that lost its
\* place to that client hands it on, to an invocation that does not look at it again.)
SteadyHandsOutOpen ==
  [][\A r \in Requests :
       Steady /\ holder'[r] \notin {holder[r], 0} /\ (drops = 0 \/ holder'[r] \notin broken)
         => closed[holder'[r]] = 0]_vars
============================================================================
