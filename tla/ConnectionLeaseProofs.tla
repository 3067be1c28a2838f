------------------------ MODULE ConnectionLeaseProofs ------------------------
(***************************************************************************)
(* Proofs about the leases of @middy/rds, for any number of invocations,    *)
(* connects and evictions and any lifetime; and, in sections of their own,  *)
(* about the clients of @middy/ws-response and @middy/s3-object-response.   *)
(***************************************************************************)
EXTENDS ConnectionLease, SequenceTheorems, TLAPS

USE ConnectsAssumption

\* An invocation leases once, with the last step of its before middleware.
LeaseInv == \A r \in Requests : pc[r] \notin {"running", "done"} => holder[r] = 0

LInv == TypeOK /\ LeaseInv

\* A promise that waits for another one, or is awaited, has one to wait for.
AwaitInv == \A r \in Requests : Awaiting(r) => waits[r] \in Connects
JoinInv == \A n \in Connects : status[n] = "joining" => joined[n] \in Connects

TInv == LInv /\ AwaitInv /\ JoinInv

(* Closing a client that leaves the cache takes it from nobody.             *)
LEMMA RetireSpares ==
  ASSUME TypeOK, NEW c \in Clients, Retire(c)
  PROVE  /\ retired' \subseteq {d \in Clients : Holders(d) # {}}
         /\ closed' \in [Clients -> Nat]
         /\ \A d \in Clients : closed'[d] > closed[d] => Holders(d) = {}
<1>1. closed \in [Clients -> Nat]
  BY DEF TypeOK
<1>2. CASE Holders(c) = {}
  <2>1. closed' = [closed EXCEPT ![c] = @ + 1] /\ retired' = retired
    BY <1>2 DEF Retire
  <2> QED BY <1>1, <1>2, <2>1 DEF TypeOK
<1>3. CASE Holders(c) # {}
  <2>1. retired' = retired \cup {c} /\ closed' = closed
    BY <1>3 DEF Retire
  <2> QED BY <1>1, <1>3, <2>1 DEF TypeOK
<1> QED BY <1>2, <1>3

LEMMA AdoptSpares ==
  ASSUME TypeOK, NEW n \in Connects, Adopt(n)
  PROVE  /\ live' = n
         /\ retired' \subseteq {d \in Clients : Holders(d) # {}}
         /\ closed' \in [Clients -> Nat]
         /\ \A d \in Clients : closed'[d] > closed[d] => Holders(d) = {}
<1>1. CASE live = 0
  BY <1>1 DEF Adopt, TypeOK
<1>2. CASE live # 0
  <2>1. live \in Clients /\ Retire(live)
    BY <1>2 DEF Adopt, TypeOK, Clients, Connects
  <2> QED BY <2>1, RetireSpares DEF Adopt
<1> QED BY <1>1, <1>2

(* Releasing closes only clients that nobody goes on holding.               *)
LEMMA ReleaseSpares ==
  ASSUME TypeOK, NEW R \in SUBSET Requests, Release(R)
  PROVE  /\ holder' \in [Requests -> 0..MaxConnects]
         /\ \A r \in Requests : holder'[r] = IF r \in R THEN 0 ELSE holder[r]
         /\ retired' \subseteq {d \in Clients : Holders(d)' # {}}
         /\ closed' \in [Clients -> Nat]
         /\ \A d \in Clients : closed'[d] > closed[d] => Holders(d)' = {}
<1>1. /\ holder' \in [Requests -> 0..MaxConnects]
      /\ \A r \in Requests : holder'[r] = IF r \in R THEN 0 ELSE holder[r]
  BY DEF Release, TypeOK
<1>2. closed \in [Clients -> Nat] /\ \A condition : Once(condition) \in {0, 1}
  BY DEF TypeOK, Once
<1>3. closed' \in [Clients -> Nat]
  BY <1>2 DEF Release
<1>4. ASSUME NEW d \in Clients, d \notin Freed(R) PROVE closed'[d] = closed[d]
  BY <1>2, <1>4 DEF Release, Once
<1>5. \A d \in Freed(R) : Holders(d)' = {}
  BY <1>1 DEF Freed, Holders, Clients, Connects
<1>6. ASSUME NEW d \in Clients, Holders(d) # {}, d \notin Freed(R) PROVE Holders(d)' # {}
  BY <1>1, <1>6 DEF Freed, Holders
<1>7. retired' \subseteq {d \in Clients : Holders(d)' # {}}
  BY <1>6 DEF Release, TypeOK
<1> QED BY <1>1, <1>2, <1>3, <1>4, <1>5, <1>7

LEMMA ConnectTypes ==
  ASSUME TypeOK, NewConnect
  PROVE  /\ connects' \in Connects
         /\ status' \in [Connects -> {"none", "connecting", "joining"} \cup Settled]
         /\ UNCHANGED <<joined, gives>>
BY DEF NewConnect, TypeOK, Connects

LEMMA ConnectCachedTypes ==
  ASSUME TypeOK, NEW r \in Requests, NEW e \in 0..MaxConnects, ConnectCached(r, e)
  PROVE  /\ waits' \in [Requests -> 0..MaxConnects]
         /\ entry' \in 0..MaxConnects
         /\ connects' \in 0..MaxConnects
         /\ status' \in [Connects -> {"none", "connecting", "joining"} \cup Settled]
         /\ UNCHANGED <<joined, gives>>
<1>1. CASE e # 0 /\ waits' = [waits EXCEPT ![r] = e] /\ entry' = e /\ UNCHANGED promiseVars
  BY <1>1 DEF promiseVars, TypeOK
<1>2. CASE /\ NewConnect /\ waits' = [waits EXCEPT ![r] = connects']
           /\ entry' = IF caching = "off" THEN e ELSE connects'
  BY <1>2, ConnectTypes DEF TypeOK, Connects
<1> QED BY <1>1, <1>2 DEF ConnectCached

LEMMA SameHolders == holder' = holder => \A c \in Clients : Holders(c)' = Holders(c)
BY DEF Holders

\* What a step that moves no lease leaves of the type invariant to show.
LEMMA Unleased ==
  ASSUME LInv, UNCHANGED <<configVars, holder>>,
         entry' \in 0..MaxConnects, drops' \in 0..MaxDrops, live' \in 0..MaxConnects,
         connects' \in 0..MaxConnects,
         status' \in [Connects -> {"none", "connecting", "joining"} \cup Settled],
         joined' \in [Connects -> 0..MaxConnects],
         gives' \in [Connects -> 0..MaxConnects],
         retired' \subseteq {d \in Clients : Holders(d) # {}},
         broken' \subseteq Clients, closed' \in [Clients -> Nat],
         pc' \in [Requests -> {"idle", "waiting", "rewaiting", "running", "done"}],
         \A r \in Requests : pc[r] \in {"running", "done"} => pc'[r] = pc[r],
         waits' \in [Requests -> 0..MaxConnects]
  PROVE  LInv'
<1>1. retired' \subseteq {d \in Clients : Holders(d)' # {}}
  BY SameHolders
<1>2. LeaseInv'
  BY DEF LInv, LeaseInv
<1> QED BY <1>1, <1>2 DEF LInv, TypeOK, configVars

LEMMA LeaseTypeInit == Init => TInv
BY DEF Init, TInv, LInv, TypeOK, LeaseInv, AwaitInv, JoinInv, Awaiting, Clients, Connects

LEMMA LeaseTypeNext == TInv /\ [Next]_vars => LInv'
<1> SUFFICES ASSUME TInv, [Next]_vars PROVE LInv'
  OBVIOUS
<1> USE DEF configVars, promiseVars, leaseVars
<1>0. TypeOK /\ LeaseInv /\ LInv /\ AwaitInv /\ JoinInv
  BY DEF TInv, LInv
<1>c. Connects \subseteq 0..MaxConnects
  BY DEF Connects
<1>1. CASE Refresh
  <2>1. NewConnect /\ entry' = connects' /\ connects' \in Connects
    BY <1>0, <1>1, ConnectTypes DEF Refresh
  <2>2. status' \in [Connects -> {"none", "connecting", "joining"} \cup Settled]
    BY <1>0, <2>1, ConnectTypes
  <2>3. UNCHANGED <<caching, durable, drops, joined, gives, live, holder, retired, closed,
                    broken, pc, waits>>
    BY <1>1 DEF Refresh, NewConnect
  <2>4. entry' \in 0..MaxConnects /\ connects' \in 0..MaxConnects
    BY <1>c, <2>1
  <2> QED BY <1>0, <2>2, <2>3, <2>4, Unleased DEF TypeOK
<1>2. CASE Evict
  BY <1>0, <1>2, Unleased DEF Evict, TypeOK
<1>3. ASSUME NEW n \in Connects, ConnectSucceeds(n) PROVE LInv'
  <2>1. /\ live' \in 0..MaxConnects
        /\ retired' \subseteq {d \in Clients : Holders(d) # {}}
        /\ closed' \in [Clients -> Nat]
    <3>1. Adopt(n) \/ UNCHANGED <<live, retired, closed>>
      BY <1>3 DEF ConnectSucceeds
    <3>2. CASE Adopt(n)
      BY <1>0, <3>2, AdoptSpares DEF Connects
    <3>3. CASE UNCHANGED <<live, retired, closed>>
      BY <1>0, <3>3 DEF TypeOK
    <3> QED BY <3>1, <3>2, <3>3
  <2>2. status' \in [Connects -> {"none", "connecting", "joining"} \cup Settled]
    BY <1>0, <1>3 DEF ConnectSucceeds, TypeOK, Settled
  <2>3. /\ joined' \in [Connects -> 0..MaxConnects]
        /\ gives' \in [Connects -> 0..MaxConnects]
    <3>1. n \in 0..MaxConnects /\ entry \in 0..MaxConnects
      BY <1>0, <1>c DEF TypeOK
    <3>2. joined' = joined \/ joined' = [joined EXCEPT ![n] = entry]
      BY <1>3 DEF ConnectSucceeds
    <3>3. gives' = gives \/ gives' = [gives EXCEPT ![n] = n]
      BY <1>3 DEF ConnectSucceeds
    <3> QED BY <1>0, <3>1, <3>2, <3>3 DEF TypeOK
  <2>4. broken' \subseteq Clients
    BY <1>0, <1>3 DEF ConnectSucceeds, TypeOK, Clients
  <2>5. UNCHANGED <<caching, durable, entry, drops, connects, holder, pc, waits>>
    BY <1>3 DEF ConnectSucceeds
  <2> QED BY <1>0, <2>1, <2>2, <2>3, <2>4, <2>5, Unleased DEF TypeOK
<1>4. ASSUME NEW n \in Connects, JoinEnds(n) PROVE LInv'
  <2>1. /\ live' \in 0..MaxConnects
        /\ retired' \subseteq {d \in Clients : Holders(d) # {}}
        /\ closed' \in [Clients -> Nat]
    <3>1. (Retire(n) /\ live' = live) \/ Adopt(n)
      BY <1>4 DEF JoinEnds
    <3>2. CASE Retire(n) /\ live' = live
      BY <1>0, <3>2, RetireSpares DEF TypeOK, Clients
    <3>3. CASE Adopt(n)
      BY <1>0, <1>c, <3>3, AdoptSpares
    <3> QED BY <3>1, <3>2, <3>3
  <2>2. joined[n] \in Connects
    BY <1>0, <1>4 DEF JoinEnds, JoinInv
  <2>3. status' \in [Connects -> {"none", "connecting", "joining"} \cup Settled]
    BY <1>0, <1>4 DEF JoinEnds, TypeOK, Settled
  <2>4. gives' \in [Connects -> 0..MaxConnects]
    <3>1. gives' = [gives EXCEPT ![n] = gives[joined[n]]] \/ gives' = [gives EXCEPT ![n] = n]
      BY <1>4 DEF JoinEnds
    <3>2. n \in 0..MaxConnects /\ gives[joined[n]] \in 0..MaxConnects
      BY <1>0, <1>c, <2>2 DEF TypeOK
    <3> QED BY <1>0, <3>1, <3>2 DEF TypeOK
  <2>5. UNCHANGED <<caching, durable, entry, drops, connects, joined, holder, broken, pc, waits>>
    BY <1>4 DEF JoinEnds
  <2> QED BY <1>0, <2>1, <2>3, <2>4, <2>5, Unleased DEF TypeOK
<1>5. ASSUME NEW n \in Connects, ConnectFails(n) PROVE LInv'
  <2>1. status' \in [Connects -> {"none", "connecting", "joining"} \cup Settled]
    BY <1>0, <1>5 DEF ConnectFails, TypeOK, Settled
  <2> QED BY <1>0, <1>5, <2>1, Unleased DEF ConnectFails, TypeOK
<1>6. ASSUME NEW n \in Connects, Break(n) PROVE LInv'
  BY <1>0, <1>6, Unleased DEF Break, TypeOK, Clients
<1>7. ASSUME NEW r \in Requests, Before(r) PROVE LInv'
  <2>1. /\ holder' \in [Requests -> 0..MaxConnects]
        /\ \A q \in Requests : holder'[q] \in {0, holder[q]}
        /\ retired' \subseteq {d \in Clients : Holders(d)' # {}}
        /\ closed' \in [Clients -> Nat]
    <3>1. CASE durable
      BY <1>0, <1>7, <3>1, ReleaseSpares DEF Before
    <3>2. CASE ~durable
      BY <1>0, <1>7, <3>2, SameHolders DEF Before, TypeOK
    <3> QED BY <3>1, <3>2
  <2>2. ConnectCached(r, entry) /\ entry \in 0..MaxConnects
    BY <1>0, <1>7 DEF Before, TypeOK
  <2>3. pc[r] = "idle" /\ pc' = [pc EXCEPT ![r] = "waiting"]
    BY <1>7 DEF Before
  <2>4. LeaseInv'
    BY <1>0, <2>1, <2>3 DEF LeaseInv, TypeOK
  <2>5. /\ waits' \in [Requests -> 0..MaxConnects] /\ entry' \in 0..MaxConnects
        /\ connects' \in 0..MaxConnects /\ UNCHANGED <<joined, gives>>
        /\ status' \in [Connects -> {"none", "connecting", "joining"} \cup Settled]
    BY <1>0, <2>2, ConnectCachedTypes
  <2>6. TypeOK'
    BY <1>0, <1>7, <2>1, <2>3, <2>5 DEF Before, TypeOK
  <2> QED BY <2>4, <2>6 DEF LInv
<1>8. ASSUME NEW r \in Requests, Lease(r) PROVE LInv'
  <2>1. waits[r] \in Connects /\ holder[r] = 0
    BY <1>0, <1>8 DEF Lease, Awaiting, LeaseInv, AwaitInv
  <2>2. holder' = [holder EXCEPT ![r] = gives[waits[r]]] /\ pc' = [pc EXCEPT ![r] = "running"]
    BY <1>8 DEF Lease
  <2>3. holder' \in [Requests -> 0..MaxConnects]
    BY <1>0, <2>1, <2>2 DEF TypeOK
  <2>4. \A d \in Clients : Holders(d) \subseteq Holders(d)'
    BY <1>0, <2>1, <2>2 DEF Holders, TypeOK, Clients, Connects
  <2>5. retired' \subseteq {d \in Clients : Holders(d)' # {}}
    BY <1>0, <1>8, <2>4 DEF Lease, TypeOK
  <2> QED BY <1>0, <1>8, <2>2, <2>3, <2>5 DEF Lease, LInv, TypeOK, LeaseInv
<1>9. ASSUME NEW r \in Requests, Reconnect(r) PROVE LInv'
  <2> DEFINE c == gives[waits[r]]
             mine == caching = "off" \/ entry = waits[r]
             e == IF mine THEN 0 ELSE entry
  <2>1. /\ live' \in 0..MaxConnects
        /\ retired' \subseteq {d \in Clients : Holders(d) # {}}
        /\ closed' \in [Clients -> Nat]
    <3>1. c \in Clients
      BY <1>0, <1>9 DEF Reconnect, TypeOK
    <3>2. (Retire(c) /\ live' = 0) \/ UNCHANGED <<retired, closed, live>>
      BY <1>9 DEF Reconnect
    <3> QED BY <1>0, <3>1, <3>2, RetireSpares DEF TypeOK
  <2>2. e \in 0..MaxConnects /\ ConnectCached(r, e)
    BY <1>0, <1>9 DEF Reconnect, TypeOK
  <2>3. /\ waits' \in [Requests -> 0..MaxConnects] /\ entry' \in 0..MaxConnects
        /\ connects' \in 0..MaxConnects /\ UNCHANGED <<joined, gives>>
        /\ status' \in [Connects -> {"none", "connecting", "joining"} \cup Settled]
    BY <1>0, <2>2, ConnectCachedTypes
  <2>4. /\ pc[r] = "waiting" /\ pc' = [pc EXCEPT ![r] = "rewaiting"]
        /\ UNCHANGED <<configVars, drops, holder, broken>>
    BY <1>9 DEF Reconnect
  <2> QED BY <1>0, <2>1, <2>3, <2>4, Unleased DEF TypeOK
<1>10. ASSUME NEW r \in Requests, Fail(r) PROVE LInv'
  BY <1>0, <1>10, Unleased DEF Fail, Awaiting, TypeOK
<1>11. ASSUME NEW r \in Requests, After(r) PROVE LInv'
  <2>1. /\ holder' \in [Requests -> 0..MaxConnects]
        /\ \A q \in Requests : holder'[q] \in {0, holder[q]}
        /\ retired' \subseteq {d \in Clients : Holders(d)' # {}}
        /\ closed' \in [Clients -> Nat]
    BY <1>0, <1>11, ReleaseSpares DEF After
  <2> QED BY <1>0, <1>11, <2>1 DEF After, LInv, TypeOK, LeaseInv
<1>12. ASSUME NEW r \in Requests, Abandon(r) PROVE LInv'
  <2>1. retired' \subseteq {d \in Clients : Holders(d)' # {}}
    BY <1>0, <1>12, SameHolders DEF Abandon, TypeOK
  <2> QED BY <1>0, <1>12, <2>1 DEF Abandon, LInv, TypeOK, LeaseInv
<1>13. CASE UNCHANGED vars
  BY <1>0, <1>13, Unleased DEF vars, TypeOK
<1> QED BY <1>1, <1>2, <1>3, <1>4, <1>5, <1>6, <1>7, <1>8, <1>9, <1>10, <1>11, <1>12, <1>13
        DEF Next

(* A promise waits only for the entry that took its place.                   *)
LEMMA JoinNext == TypeOK /\ JoinInv /\ [Next]_vars => JoinInv'
<1> SUFFICES ASSUME TypeOK, JoinInv, [Next]_vars PROVE JoinInv'
  OBVIOUS
<1> USE DEF promiseVars
<1>1. ASSUME NEW n \in Connects, ConnectSucceeds(n) PROVE JoinInv'
  <2>1. CASE entry \notin {0, n} /\ joined' = [joined EXCEPT ![n] = entry]
             /\ status' = [status EXCEPT ![n] = "joining"]
    <3>1. entry \in Connects
      BY <2>1 DEF TypeOK, Connects
    <3>2. \A m \in Connects : m # n => joined'[m] = joined[m] /\ status'[m] = status[m]
      BY <2>1 DEF TypeOK
    <3>3. joined'[n] = entry
      BY <2>1 DEF TypeOK
    <3> QED BY <3>1, <3>2, <3>3 DEF JoinInv
  <2>2. CASE joined' = joined /\ status' = [status EXCEPT ![n] = "ok"]
    BY <2>2 DEF JoinInv, TypeOK
  <2> QED BY <1>1, <2>1, <2>2 DEF ConnectSucceeds
<1>2. ASSUME NEW n \in Connects, JoinEnds(n) \/ ConnectFails(n) PROVE JoinInv'
  BY <1>2 DEF JoinEnds, ConnectFails, JoinInv, TypeOK
<1>3. CASE NewConnect
  BY <1>3 DEF NewConnect, JoinInv, TypeOK
<1>4. CASE UNCHANGED <<status, joined>>
  BY <1>4 DEF JoinInv
<1>5. \/ \E n \in Connects : ConnectSucceeds(n) \/ JoinEnds(n) \/ ConnectFails(n)
      \/ NewConnect
      \/ UNCHANGED <<status, joined>>
  BY DEF Next, vars, Refresh, Evict, Break, Before, Lease, Reconnect, ConnectCached, Fail,
         After, Abandon
<1> QED BY <1>1, <1>2, <1>3, <1>4, <1>5

(* An invocation that awaits a promise awaits one of the connects.           *)
LEMMA AwaitNext == TypeOK /\ AwaitInv /\ [Next]_vars => AwaitInv'
<1> SUFFICES ASSUME TypeOK, AwaitInv, [Next]_vars PROVE AwaitInv'
  OBVIOUS
<1>1. ASSUME NEW r \in Requests, NEW e \in 0..MaxConnects, ConnectCached(r, e),
             \A q \in Requests : q # r => pc'[q] = pc[q]
      PROVE AwaitInv'
  <2>1. PICK n \in Connects : waits' = [waits EXCEPT ![r] = n]
    <3>1. CASE e # 0 /\ waits' = [waits EXCEPT ![r] = e]
      <4>1. e \in Connects
        BY <3>1 DEF Connects
      <4> QED BY <3>1, <4>1
    <3>2. CASE NewConnect /\ waits' = [waits EXCEPT ![r] = connects']
      BY <3>2, ConnectTypes
    <3> QED BY <1>1, <3>1, <3>2 DEF ConnectCached
  <2>2. waits'[r] \in Connects
    BY <2>1 DEF TypeOK
  <2>3. \A q \in Requests : q # r => pc'[q] = pc[q] /\ waits'[q] = waits[q]
    BY <1>1, <2>1 DEF TypeOK
  <2> QED BY <2>2, <2>3 DEF AwaitInv, Awaiting
<1>2. ASSUME NEW r \in Requests, Before(r) PROVE AwaitInv'
  BY <1>1, <1>2 DEF Before, TypeOK
<1>3. ASSUME NEW r \in Requests, Reconnect(r) PROVE AwaitInv'
  <2> DEFINE e == IF caching = "off" \/ entry = waits[r] THEN 0 ELSE entry
  <2>1. e \in 0..MaxConnects /\ ConnectCached(r, e)
    BY <1>3 DEF Reconnect, TypeOK
  <2>2. \A q \in Requests : q # r => pc'[q] = pc[q]
    BY <1>3 DEF Reconnect, TypeOK
  <2> QED BY <1>1, <2>1, <2>2
<1>4. ASSUME NEW r \in Requests, Lease(r) \/ Fail(r) \/ After(r) \/ Abandon(r)
      PROVE AwaitInv'
  BY <1>4 DEF Lease, Fail, After, Abandon, AwaitInv, Awaiting, TypeOK
<1>5. CASE UNCHANGED <<pc, waits>>
  BY <1>5 DEF AwaitInv, Awaiting
<1>6. \/ \E r \in Requests : \/ Before(r) \/ Reconnect(r) \/ Lease(r)
                              \/ Fail(r) \/ After(r) \/ Abandon(r)
      \/ UNCHANGED <<pc, waits>>
  BY DEF Next, vars, Refresh, Evict, ConnectSucceeds, JoinEnds, ConnectFails, Break
<1> QED BY <1>2, <1>3, <1>4, <1>5, <1>6

(* The whole of it is inductive.                                             *)
LEMMA LeaseNext == TInv /\ [Next]_vars => TInv'
BY LeaseTypeNext, JoinNext, AwaitNext DEF TInv, LInv

(* Every variable stays in its type; only a leased client is marked retired. *)
THEOREM LeaseTypeCorrect == Spec => []TypeOK
<1>1. TInv => TypeOK
  BY DEF TInv, LInv
<1> QED BY <1>1, LeaseNext, LeaseTypeInit, PTL DEF Spec

(* No step closes a client under an invocation that goes on using it.        *)
THEOREM HeldClientsStayOpen == Spec => NeverClosesHeld
<1> DEFINE Spared == \A c \in Clients :
                       closed'[c] > closed[c] => \A r \in Requests : holder'[r] # c
<1>1. ASSUME TypeOK, Next PROVE Spared
  <2> USE DEF configVars, promiseVars, leaseVars
  <2>0. closed \in [Clients -> Nat]
    BY <1>1 DEF TypeOK
  <2>1. CASE Refresh \/ Evict
    BY <2>0, <2>1 DEF Refresh, Evict
  <2>2. ASSUME NEW n \in Connects, ConnectSucceeds(n) PROVE Spared
    <3>1. holder' = holder /\ (closed' = closed \/ Adopt(n))
      BY <2>2 DEF ConnectSucceeds
    <3> QED BY <1>1, <2>0, <3>1, AdoptSpares DEF Holders
  <2>3. ASSUME NEW n \in Connects, JoinEnds(n) PROVE Spared
    <3>1. holder' = holder /\ (Retire(n) \/ Adopt(n))
      BY <2>3 DEF JoinEnds
    <3> QED BY <1>1, <3>1, AdoptSpares, RetireSpares DEF Holders, Clients
  <2>4. ASSUME NEW n \in Connects, ConnectFails(n) \/ Break(n) PROVE Spared
    BY <2>0, <2>4 DEF ConnectFails, Break
  <2>5. ASSUME NEW r \in Requests, Before(r) \/ After(r) PROVE Spared
    <3>1. closed' = closed \/ Release(Requests) \/ Release({r})
      BY <2>5 DEF Before, After
    <3>2. CASE Release(Requests)
      BY <1>1, <3>2, ReleaseSpares DEF Holders
    <3>3. CASE Release({r})
      BY <1>1, <3>3, ReleaseSpares DEF Holders
    <3> QED BY <2>0, <3>1, <3>2, <3>3
  <2>6. ASSUME NEW r \in Requests, Lease(r) \/ Fail(r) \/ Abandon(r) PROVE Spared
    BY <2>0, <2>6 DEF Lease, Fail, Abandon
  <2>7. ASSUME NEW r \in Requests, Reconnect(r) PROVE Spared
    <3>1. /\ holder' = holder
          /\ closed' = closed \/ Retire(gives[waits[r]])
          /\ gives[waits[r]] \in Clients
      BY <1>1, <2>7 DEF Reconnect, TypeOK
    <3> QED BY <1>1, <2>0, <3>1, RetireSpares DEF Holders
  <2> QED BY <1>1, <2>1, <2>2, <2>3, <2>4, <2>5, <2>6, <2>7 DEF Next
<1>2. ASSUME TypeOK, [Next]_vars PROVE [Spared]_vars
  BY <1>1, <1>2
<1> QED BY <1>2, LeaseTypeCorrect, PTL DEF Spec, NeverClosesHeld

----------------------------------------------------------------------------
(* Every client one invocation's: no cache                                   *)

(* The options never change.                                               *)
LEMMA ConfigKept == [Next]_vars => UNCHANGED configVars
BY DEF Next, vars, Refresh, Evict, ConnectSucceeds, JoinEnds, ConnectFails, Break, Before,
       Lease, Reconnect, Fail, After, Abandon

\* The promises made so far are those up to connects.
Born == \A n \in Connects : status[n] = "none" <=> n > connects

LEMMA BornConnect ==
  ASSUME TypeOK, Born, NewConnect
  PROVE  /\ Born' /\ connects' \in Connects /\ status[connects'] = "none"
         /\ status' = [status EXCEPT ![connects'] = "connecting"]
         /\ UNCHANGED <<joined, gives>>
<1>1. connects' \in Connects /\ connects' = connects + 1 /\ connects \in 0..MaxConnects
  BY ConnectTypes DEF NewConnect, TypeOK
<1>2. /\ status' = [status EXCEPT ![connects'] = "connecting"]
      /\ UNCHANGED <<joined, gives>> /\ status[connects'] = "none"
  BY <1>1 DEF NewConnect, Born, Connects
<1>3. \A n \in Connects : status'[n] = IF n = connects + 1 THEN "connecting" ELSE status[n]
  BY <1>1, <1>2 DEF TypeOK
<1>4. ASSUME NEW n \in Connects PROVE status'[n] = "none" <=> n > connects'
  BY <1>1, <1>3 DEF Born, Connects
<1> QED BY <1>1, <1>2, <1>4 DEF Born

LEMMA BornNext == TInv /\ Born /\ [Next]_vars => Born'
<1> SUFFICES ASSUME TypeOK, JoinInv, Born, [Next]_vars PROVE Born'
  BY DEF TInv, LInv
<1>1. CASE NewConnect
  BY <1>1, BornConnect
<1>2. ASSUME NEW n \in Connects, ConnectSucceeds(n) \/ JoinEnds(n) \/ ConnectFails(n)
      PROVE  Born'
  <2>1. /\ connects' = connects /\ status[n] # "none"
        /\ \E s \in {"ok", "joining", "failed"} : status' = [status EXCEPT ![n] = s]
    BY <1>2 DEF ConnectSucceeds, JoinEnds, ConnectFails
  <2> QED BY <2>1 DEF Born, TypeOK
<1>3. CASE UNCHANGED <<status, connects>>
  BY <1>3 DEF Born
<1>4. \/ \E n \in Connects : ConnectSucceeds(n) \/ JoinEnds(n) \/ ConnectFails(n)
      \/ NewConnect
      \/ UNCHANGED <<status, connects>>
  BY DEF Next, vars, Refresh, Evict, Break, Before, Lease, Reconnect, ConnectCached, Fail,
         After, Abandon, promiseVars
<1> QED BY <1>1, <1>2, <1>3, <1>4

----------------------------------------------------------------------------
\* Invocation r awaits connect n, or has leased its client.
Uses(r, n) == (Awaiting(r) /\ waits[r] = n) \/ holder[r] = n

\* Without a cache every client is one invocation's alone, from its connect on.
OffOf(n) ==
  /\ status[n] # "joining"
  /\ status[n] = "ok" => gives[n] = n
  /\ \A r, q \in Requests : Uses(r, n) /\ Uses(q, n) => r = q
  /\ \A r \in Requests : holder[r] = n => status[n] = "ok"
  /\ \A r \in Requests : Uses(r, n) => status[n] # "none"
  /\ closed[n] <= 1
  /\ (\E r \in Requests : Uses(r, n)) \/ status[n] \in {"none", "connecting"} => closed[n] = 0
  /\ status[n] \in {"connecting", "ok"} /\ closed[n] = 0 => \E r \in Requests : Uses(r, n)

OffInv ==
  caching = "off" => entry = 0 /\ live = 0 /\ retired = {} /\ \A n \in Connects : OffOf(n)

\* What OffOf says of n depends on this.
LEMMA OffSame ==
  ASSUME NEW n \in Connects, OffOf(n), status'[n] = status[n], gives'[n] = gives[n],
         closed'[n] = closed[n],
         \A r \in Requests : (Uses(r, n)' <=> Uses(r, n)) /\ (holder'[r] = n => holder[r] = n)
  PROVE  OffOf(n)'
BY DEF OffOf

\* An invocation leaves the client it was the only one to use, and it is closed.
LEMMA OffLeft ==
  ASSUME TypeOK, NEW n \in Connects, OffOf(n), status'[n] = status[n], gives'[n] = gives[n],
         NEW r \in Requests, Uses(r, n), status[n] = "ok", closed'[n] = closed[n] + 1,
         \A q \in Requests : ~Uses(q, n)'
  PROVE  OffOf(n)'
BY DEF OffOf, Uses

LEMMA OffConnect ==
  ASSUME TInv, Born, OffInv, caching = "off", NEW r \in Requests, ConnectCached(r, 0)
  PROVE  \E m \in Connects :
           /\ status[m] = "none" /\ status' = [status EXCEPT ![m] = "connecting"]
           /\ waits' = [waits EXCEPT ![r] = m]
           /\ UNCHANGED <<joined, gives>> /\ entry' = 0
BY BornConnect DEF TInv, LInv, ConnectCached

LEMMA OffNext == TInv /\ Born /\ OffInv /\ [Next]_vars => OffInv'
<1> SUFFICES ASSUME TInv, Born, OffInv, [Next]_vars, caching = "off"
             PROVE  /\ entry' = 0 /\ live' = 0 /\ retired' = {}
                    /\ \A n \in Connects : OffOf(n)'
  BY ConfigKept DEF OffInv, configVars
<1> DEFINE Goal == entry' = 0 /\ live' = 0 /\ retired' = {} /\ \A n \in Connects : OffOf(n)'
<1> USE DEF promiseVars, leaseVars
<1>0. /\ TypeOK /\ LeaseInv /\ entry = 0 /\ live = 0 /\ retired = {}
      /\ \A n \in Connects : OffOf(n)
  BY DEF TInv, LInv, OffInv
<1> SUFFICES Goal
  OBVIOUS
<1>1. CASE Refresh \/ Evict
  BY <1>0, <1>1 DEF Refresh, Evict
<1>2. ASSUME NEW n \in Connects, ConnectSucceeds(n) PROVE Goal
  <2>1. /\ status[n] = "connecting" /\ status' = [status EXCEPT ![n] = "ok"]
        /\ gives' = [gives EXCEPT ![n] = n]
        /\ UNCHANGED <<entry, live, retired, closed, holder, pc, waits>>
    BY <1>2 DEF ConnectSucceeds
  <2>2. ASSUME NEW m \in Connects PROVE OffOf(m)'
    <3>1. OffOf(m) /\ \A r \in Requests : Uses(r, m)' <=> Uses(r, m)
      BY <1>0, <2>1 DEF Uses, Awaiting
    <3>2. CASE m # n
      <4>1. status'[m] = status[m] /\ gives'[m] = gives[m] /\ closed'[m] = closed[m]
        BY <1>0, <2>1, <3>2 DEF TypeOK
      <4> QED BY <2>1, <3>1, <4>1, OffSame
    <3>3. CASE m = n
      <4>1. status'[m] = "ok" /\ gives'[m] = m /\ closed'[m] = closed[m]
        BY <1>0, <2>1, <3>3 DEF TypeOK
      <4> QED BY <2>1, <3>1, <3>3, <4>1 DEF OffOf
    <3> QED BY <3>2, <3>3
  <2> QED BY <1>0, <2>1, <2>2
<1>3. ASSUME NEW n \in Connects, JoinEnds(n) PROVE Goal
  BY <1>0, <1>3 DEF JoinEnds, OffOf
<1>4. ASSUME NEW n \in Connects, ConnectFails(n) PROVE Goal
  <2>1. /\ status[n] = "connecting" /\ status' = [status EXCEPT ![n] = "failed"]
        /\ entry' = 0 /\ UNCHANGED <<gives, live, retired, closed, holder, pc, waits>>
    BY <1>0, <1>4 DEF ConnectFails
  <2>2. ASSUME NEW m \in Connects PROVE OffOf(m)'
    <3>1. OffOf(m) /\ \A r \in Requests : Uses(r, m)' <=> Uses(r, m)
      BY <1>0, <2>1 DEF Uses, Awaiting
    <3>2. status'[m] = IF m = n THEN "failed" ELSE status[m]
      BY <1>0, <2>1 DEF TypeOK
    <3> QED BY <2>1, <3>1, <3>2 DEF OffOf
  <2> QED BY <1>0, <2>1, <2>2
<1>5. ASSUME NEW n \in Connects, Break(n) PROVE Goal
  BY <1>0, <1>5, OffSame DEF Break, Uses, Awaiting
<1>6. ASSUME NEW r \in Requests, Before(r) PROVE Goal
  <2>1. PICK k \in Connects :
          /\ status[k] = "none" /\ status' = [status EXCEPT ![k] = "connecting"]
          /\ waits' = [waits EXCEPT ![r] = k] /\ UNCHANGED <<joined, gives>> /\ entry' = 0
    BY <1>0, <1>6, OffConnect DEF Before
  <2>2. pc[r] = "idle" /\ pc' = [pc EXCEPT ![r] = "waiting"] /\ live' = live
    BY <1>6 DEF Before
  <2>3. \A m \in Connects, q \in Requests :
          Awaiting(q)' /\ waits'[q] = m <=> (Awaiting(q) /\ waits[q] = m) \/ (q = r /\ m = k)
    BY <1>0, <2>1, <2>2 DEF Awaiting, TypeOK
  <2>4. \A m \in Connects : status'[m] = IF m = k THEN "connecting" ELSE status[m]
    BY <1>0, <2>1 DEF TypeOK
  <2>5. CASE ~durable
    <3>1. UNCHANGED <<holder, retired, closed>>
      BY <1>6, <2>5 DEF Before
    <3>2. ASSUME NEW m \in Connects PROVE OffOf(m)'
      <4>1. \A q \in Requests : Uses(q, m)' <=> Uses(q, m) \/ (q = r /\ m = k)
        BY <2>3, <3>1 DEF Uses
      <4>2. CASE m = k
        BY <1>0, <2>1, <2>4, <3>1, <4>1, <4>2 DEF OffOf
      <4>3. CASE m # k
        BY <1>0, <2>1, <2>4, <3>1, <4>1, <4>3, OffSame
      <4> QED BY <4>2, <4>3
    <3> QED BY <1>0, <2>1, <2>2, <3>1, <3>2
  <2>6. CASE durable
    <3>1. Release(Requests) /\ \A q \in Requests : ~Awaiting(q)
      BY <1>6, <2>6 DEF Before
    <3>2. /\ \A q \in Requests : holder'[q] = 0
          /\ retired' = {}
      BY <1>0, <3>1 DEF Release
    <3>3. ASSUME NEW m \in Connects PROVE OffOf(m)'
      <4>0. m # 0
        BY DEF Connects
      <4>1. \A q \in Requests : Uses(q, m)' <=> q = r /\ m = k
        BY <2>3, <3>1, <3>2, <4>0 DEF Uses
      <4>2. \A q \in Requests : Uses(q, m) => holder[q] = m
        BY <3>1 DEF Uses
      <4>3. closed'[m] = closed[m] + Once(m \in Freed(Requests))
        BY <1>0, <3>1 DEF Release, Clients, Once, TypeOK
      <4>4. m \in Freed(Requests) <=> \E q \in Requests : Uses(q, m)
        BY <4>2 DEF Freed, Holders, Clients, Uses
      <4>5. CASE m = k
        <5>1. \A q \in Requests : ~Uses(q, m)
          BY <1>0, <2>1, <4>5 DEF OffOf
        <5>2. closed'[m] = closed[m]
          BY <1>0, <4>3, <4>4, <5>1 DEF Once, TypeOK, Clients
        <5> QED BY <1>0, <2>1, <2>4, <3>2, <4>0, <4>1, <4>5, <5>2 DEF OffOf
      <4>6. CASE m # k /\ \A q \in Requests : ~Uses(q, m)
        <5>1. closed'[m] = closed[m]
          BY <1>0, <4>3, <4>4, <4>6 DEF Once, TypeOK, Clients
        <5> QED BY <1>0, <2>1, <2>4, <3>2, <4>0, <4>1, <4>6, <5>1, OffSame
      <4>7. CASE m # k /\ \E q \in Requests : Uses(q, m)
        <5>1. PICK q \in Requests : Uses(q, m)
          BY <4>7
        <5>2. closed'[m] = closed[m] + 1
          BY <4>3, <4>4, <4>7 DEF Once
        <5>3. status[m] = "ok"
          BY <1>0, <4>2, <5>1 DEF OffOf
        <5>4. status'[m] = status[m] /\ gives'[m] = gives[m] /\ \A p \in Requests : ~Uses(p, m)'
          BY <2>1, <2>4, <4>1, <4>7
        <5>5. OffOf(m)
          BY <1>0
        <5> QED BY <1>0, <5>1, <5>2, <5>3, <5>4, <5>5, OffLeft
      <4> QED BY <4>5, <4>6, <4>7
    <3> QED BY <1>0, <2>1, <2>2, <3>2, <3>3
  <2> QED BY <2>5, <2>6
<1>7. ASSUME NEW r \in Requests, Lease(r) PROVE Goal
  <2>1. /\ Awaiting(r) /\ status[waits[r]] = "ok" /\ holder[r] = 0 /\ waits[r] \in Connects
        /\ pc' = [pc EXCEPT ![r] = "running"]
        /\ holder' = [holder EXCEPT ![r] = gives[waits[r]]]
        /\ UNCHANGED <<entry, live, retired, closed, status, gives, waits>>
    BY <1>7 DEF Lease, TInv, LInv, AwaitInv, LeaseInv, Awaiting
  <2>2. gives[waits[r]] = waits[r]
    BY <1>0, <2>1 DEF OffOf
  <2>3. ASSUME NEW m \in Connects PROVE OffOf(m)'
    <3>0. m # 0 /\ OffOf(m)
      BY <1>0 DEF Connects
    <3>1. \A q \in Requests : holder'[q] = IF q = r THEN waits[r] ELSE holder[q]
      BY <1>0, <2>1, <2>2 DEF TypeOK
    <3>2. \A q \in Requests : Awaiting(q)' <=> Awaiting(q) /\ q # r
      BY <1>0, <2>1 DEF TypeOK, Awaiting
    <3>3. \A q \in Requests : Uses(q, m)' <=> Uses(q, m)
      BY <2>1, <3>0, <3>1, <3>2 DEF Uses
    <3> QED BY <2>1, <3>0, <3>1, <3>3 DEF OffOf
  <2> QED BY <1>0, <2>1, <2>3
<1>8. ASSUME NEW r \in Requests, Reconnect(r) PROVE Goal
  <2> DEFINE w == waits[r]
  <2>1. /\ pc[r] = "waiting" /\ Awaiting(r) /\ w \in Connects /\ holder[r] = 0
        /\ status[w] = "ok" /\ gives[w] = w
        /\ pc' = [pc EXCEPT ![r] = "rewaiting"] /\ holder' = holder
    BY <1>0, <1>8 DEF Reconnect, TInv, LInv, AwaitInv, LeaseInv, Awaiting, OffOf
  <2>2. Retire(w) /\ live' = 0 /\ ConnectCached(r, 0)
    BY <1>8, <2>1 DEF Reconnect
  <2>3. PICK k \in Connects :
          /\ status[k] = "none" /\ status' = [status EXCEPT ![k] = "connecting"]
          /\ waits' = [waits EXCEPT ![r] = k] /\ UNCHANGED <<joined, gives>> /\ entry' = 0
    BY <1>0, <2>2, OffConnect
  <2>4. OffOf(w) /\ Uses(r, w)
    BY <1>0, <2>1 DEF Uses
  <2>5. \A q \in Requests : Uses(q, w) => q = r
    BY <2>4 DEF OffOf
  <2>6. Holders(w) = {}
    BY <2>1, <2>5 DEF Holders, Uses, Connects
  <2>7. closed' = [closed EXCEPT ![w] = @ + 1] /\ retired' = retired
    BY <2>2, <2>6 DEF Retire
  <2>8. k # w /\ \A m \in Connects : status'[m] = IF m = k THEN "connecting" ELSE status[m]
    BY <1>0, <2>1, <2>3 DEF TypeOK
  <2>9. \A m \in Connects : closed'[m] = IF m = w THEN closed[m] + 1 ELSE closed[m]
    BY <1>0, <2>7 DEF TypeOK, Clients
  <2>10. \A q \in Requests : waits'[q] = IF q = r THEN k ELSE waits[q]
    BY <1>0, <2>3 DEF TypeOK
  <2>11. \A q \in Requests : Awaiting(q)' <=> Awaiting(q)
    BY <1>0, <2>1 DEF TypeOK, Awaiting
  <2>12. ASSUME NEW m \in Connects PROVE OffOf(m)'
    <3>0. m # 0 /\ OffOf(m)
      BY <1>0 DEF Connects
    <3>1. \A q \in Requests :
            Uses(q, m)' <=> IF q = r THEN m = k ELSE Uses(q, m)
      BY <2>1, <2>10, <2>11, <3>0 DEF Uses
    <3>2. CASE m = k
      <4>1. \A q \in Requests : ~Uses(q, m)
        BY <2>3, <3>0, <3>2 DEF OffOf
      <4> QED BY <2>1, <2>3, <2>8, <2>9, <3>0, <3>1, <3>2, <4>1 DEF OffOf
    <3>3. CASE m = w
      <4>1. status'[m] = status[m] /\ gives'[m] = gives[m] /\ closed'[m] = closed[m] + 1
        BY <2>3, <2>8, <2>9, <3>3
      <4>2. \A q \in Requests : ~Uses(q, m)'
        BY <2>5, <2>8, <3>1, <3>3
      <4> QED BY <1>0, <2>1, <2>4, <3>3, <4>1, <4>2, OffLeft
    <3>4. CASE m # k /\ m # w
      <4>1. \A q \in Requests : Uses(q, m)' <=> Uses(q, m)
        BY <2>1, <3>0, <3>1, <3>4 DEF Uses
      <4> QED BY <2>1, <2>3, <2>8, <2>9, <3>0, <3>4, <4>1, OffSame
    <3> QED BY <3>2, <3>3, <3>4
  <2> QED BY <1>0, <2>2, <2>3, <2>7, <2>12
<1>9. ASSUME NEW r \in Requests, Fail(r) PROVE Goal
  <2>1. /\ Awaiting(r) /\ status[waits[r]] = "failed" /\ pc' = [pc EXCEPT ![r] = "done"]
        /\ UNCHANGED <<entry, live, retired, closed, status, gives, holder, waits>>
    BY <1>9 DEF Fail
  <2>2. ASSUME NEW m \in Connects PROVE OffOf(m)'
    <3>1. OffOf(m) /\ \A q \in Requests : Awaiting(q)' <=> Awaiting(q) /\ q # r
      BY <1>0, <2>1 DEF TypeOK, Awaiting
    <3>2. \A q \in Requests : Uses(q, m)' => Uses(q, m)
      BY <2>1, <3>1 DEF Uses
    <3>3. status[m] # "failed" => \A q \in Requests : Uses(q, m)' <=> Uses(q, m)
      BY <2>1, <3>1 DEF Uses
    <3> QED BY <2>1, <3>1, <3>2, <3>3 DEF OffOf
  <2> QED BY <1>0, <2>1, <2>2
<1>10. ASSUME NEW r \in Requests, After(r) PROVE Goal
  <2>1. /\ pc[r] = "running" /\ pc' = [pc EXCEPT ![r] = "done"] /\ Release({r})
        /\ UNCHANGED <<entry, live, status, gives, waits>>
    BY <1>10 DEF After
  <2>2. \A q \in Requests : holder'[q] = IF q = r THEN 0 ELSE holder[q]
    BY <2>1 DEF Release
  <2>3. retired' = {}
    BY <1>0, <2>1 DEF Release
  <2>4. \A q \in Requests : Awaiting(q)' <=> Awaiting(q)
    BY <1>0, <2>1 DEF TypeOK, Awaiting
  <2>5. ASSUME NEW m \in Connects PROVE OffOf(m)'
    <3>0. m # 0 /\ OffOf(m)
      BY <1>0 DEF Connects
    <3>1. \A q \in Requests : Uses(q, m)' <=> Uses(q, m) /\ (q # r \/ Awaiting(q))
      BY <2>1, <2>2, <2>4, <3>0 DEF Uses, Awaiting
    <3>2. closed'[m] = closed[m] + Once(m \in Freed({r}))
      BY <1>0, <2>1 DEF Release, Clients, Once, TypeOK
    <3>3. CASE holder[r] = m
      <4>1. Uses(r, m) /\ status[m] = "ok" /\ \A q \in Requests : Uses(q, m) => q = r
        BY <3>0, <3>3 DEF OffOf, Uses
      <4>2. m \in Freed({r})
        BY <3>3, <4>1 DEF Freed, Holders, Clients, Uses
      <4>3. closed'[m] = closed[m] + 1
        BY <3>2, <4>2 DEF Once
      <4>4. \A q \in Requests : ~Uses(q, m)'
        BY <2>1, <3>1, <4>1 DEF Awaiting
      <4> QED BY <1>0, <2>1, <3>0, <4>1, <4>3, <4>4, OffLeft
    <3>4. CASE holder[r] # m
      <4>1. m \notin Freed({r})
        BY <3>4 DEF Freed, Holders
      <4>2. closed'[m] = closed[m]
        BY <1>0, <3>2, <4>1 DEF Once, TypeOK, Clients
      <4>3. \A q \in Requests : Uses(q, m)' <=> Uses(q, m)
        BY <3>1, <3>4 DEF Uses
      <4> QED BY <2>1, <2>2, <3>0, <4>2, <4>3, OffSame
    <3> QED BY <3>3, <3>4
  <2> QED BY <1>0, <2>1, <2>3, <2>5
<1>11. ASSUME NEW r \in Requests, Abandon(r) PROVE Goal
  <2>1. /\ pc[r] = "running" /\ pc' = [pc EXCEPT ![r] = "done"]
        /\ UNCHANGED <<entry, live, retired, closed, status, gives, holder, waits>>
    BY <1>11 DEF Abandon
  <2>2. \A m \in Connects, q \in Requests : Uses(q, m)' <=> Uses(q, m)
    BY <1>0, <2>1 DEF TypeOK, Awaiting, Uses
  <2> QED BY <1>0, <2>1, <2>2, OffSame
<1>12. CASE UNCHANGED vars
  <2>1. UNCHANGED <<entry, live, retired, closed, status, gives, holder, pc, waits>>
    BY <1>12 DEF vars
  <2>2. \A m \in Connects, q \in Requests : Uses(q, m)' <=> Uses(q, m)
    BY <2>1 DEF Awaiting, Uses
  <2> QED BY <1>0, <2>1, <2>2, OffSame
<1> QED BY <1>1, <1>2, <1>3, <1>4, <1>5, <1>6, <1>7, <1>8, <1>9, <1>10, <1>11, <1>12 DEF Next

----------------------------------------------------------------------------
(* A cache that never expires, and one eviction at most                      *)

\* With a cache that never expires and at most one eviction.  A client is the cache's,
\* or retired while leased, or closed once, from when its connect is through.
Lot(n) ==
  /\ status[n] # "ok" => n # live /\ n \notin retired /\ closed[n] = 0
  /\ status[n] = "ok" => \/ n = live /\ n \notin retired /\ closed[n] = 0
                         \/ n # live /\ n \in retired /\ closed[n] = 0
                         \/ n # live /\ n \notin retired /\ closed[n] = 1

\* What a promise resolves to is an open connection's client, and no connect in flight
\* is flagged.
Promised(n) ==
  /\ status[n] = "ok" => gives[n] \in Connects /\ status[gives[n]] = "ok"
  /\ status[n] \in {"none", "connecting"} => n \notin broken

\* The entry is in flight, or it is the live client's.
EntryInv ==
  entry # 0 => /\ status[entry] \in {"connecting", "ok"}
               /\ status[entry] = "ok" => gives[entry] = entry /\ live = entry

NotReady == entry = 0 \/ status[entry] = "connecting"

\* A connect that the one eviction took out of the cache.
Orphan(n) == status[n] = "joining" \/ (status[n] = "connecting" /\ n # entry)
OrphanInv ==
  /\ \A n \in Connects : Orphan(n) => drops = 1
  /\ \A n, k \in Connects : Orphan(n) /\ Orphan(k) => n = k

\* The orphan joins the entry, or what was the entry until somebody found it broken or
\* it failed; then no one has a client in hand to lose.
JoinerOf(n) ==
  LET m == joined[n] IN
  /\ m \in Connects \ {n}
  /\ status[m] \in {"connecting", "ok", "failed"}
  /\ status[m] = "connecting" => entry = m
  /\ status[m] = "ok" => (m \in broken \/ entry = m) /\ gives[m] = m
  /\ status[m] = "failed" => /\ NotReady
                             /\ \A r \in Requests : Awaiting(r) => status[waits[r]] # "ok"
JoinersInv == \A n \in Connects : status[n] = "joining" => JoinerOf(n)

\* Who awaits a promise that is through is about to see the live client, or a broken one:
\* and a broken one only once as long as nothing was evicted.
WaiterOf(r) ==
  LET w == waits[r] IN
  /\ gives[w] \in broken \/ gives[w] = live
  /\ drops = 0 => /\ w # entry => NotReady
                  /\ pc[r] = "rewaiting" => gives[w] \notin broken
WaitersInv == \A r \in Requests : Awaiting(r) /\ status[waits[r]] = "ok" => WaiterOf(r)

Lots == \A n \in Connects : Lot(n)
PromisesInv == \A n \in Connects : Promised(n)
Shared == EntryInv /\ PromisesInv /\ OrphanInv /\ JoinersInv /\ WaitersInv

ForeverInv == caching = "forever" /\ drops <= 1 => Lots /\ Shared

(* Where a client goes that leaves the cache.                               *)
LEMMA RetireLot ==
  ASSUME TypeOK, NEW c \in Connects, Retire(c), c \notin retired, closed[c] = 0
  PROVE  /\ \A d \in Connects \ {c} : (d \in retired' <=> d \in retired) /\ closed'[d] = closed[d]
         /\ c \in retired' <=> closed'[c] = 0
         /\ c \notin retired' <=> closed'[c] = 1
BY DEF Retire, TypeOK, Clients

LEMMA AdoptLot ==
  ASSUME TypeOK, Lots, NEW n \in Connects, Adopt(n), status[n] # "ok",
         \A d \in Connects : status'[d] = IF d = n THEN "ok" ELSE status[d]
  PROVE  live' = n /\ Lots'
<1>1. live' = n
  BY DEF Adopt
<1>2. CASE live = 0
  <2>1. UNCHANGED <<retired, closed>>
    BY <1>2 DEF Adopt
  <2> QED BY <1>1, <1>2, <2>1 DEF Lots, Lot, Connects
<1>3. CASE live # 0
  <2>1. live \in Connects /\ Retire(live) /\ Lot(live)
    BY <1>3 DEF Adopt, TypeOK, Connects, Lots
  <2>2. live \notin retired /\ closed[live] = 0 /\ status[live] = "ok"
    BY <2>1 DEF Lot
  <2>3. /\ \A d \in Connects \ {live} :
             (d \in retired' <=> d \in retired) /\ closed'[d] = closed[d]
        /\ live \in retired' <=> closed'[live] = 0
        /\ live \notin retired' <=> closed'[live] = 1
    BY <2>1, <2>2, RetireLot
  <2>4. closed'[live] \in {0, 1}
    BY <2>3
  <2> QED BY <1>1, <2>2, <2>3, <2>4 DEF Lots, Lot
<1> QED BY <1>1, <1>2, <1>3

LEMMA ReleaseLot ==
  ASSUME TypeOK, Lots, caching # "off", NEW R \in SUBSET Requests, Release(R), live' = live,
         \A d \in Connects : (status'[d] = "ok" <=> status[d] = "ok")
  PROVE  Lots'
<1>1. ASSUME NEW d \in Connects PROVE Lot(d)'
  <2>1. closed[d] \in Nat /\ closed'[d] = closed[d] + Once(d \in Freed(R) \cap retired)
    BY DEF Release, TypeOK, Clients, Once
  <2>2. d \in retired' <=> d \in retired /\ d \notin Freed(R)
    BY DEF Release
  <2>3. Lot(d)
    BY DEF Lots
  <2>4. CASE d \in Freed(R) \cap retired
    BY <2>1, <2>2, <2>3, <2>4 DEF Lot, Once
  <2>5. CASE d \notin Freed(R) \cap retired
    <3>1. closed'[d] = closed[d] /\ (d \in retired' <=> d \in retired)
      BY <2>1, <2>2, <2>5 DEF Once
    <3> QED BY <2>3, <3>1 DEF Lot
  <2> QED BY <2>4, <2>5
<1> QED BY <1>1 DEF Lots

\* Nobody's place in the cache changes, nor what anybody is given.
LEMMA SharedKept ==
  ASSUME Shared, UNCHANGED <<entry, drops, status, joined, gives, live>>,
         UNCHANGED broken,
         \A r \in Requests : Awaiting(r)' =>
           Awaiting(r) /\ waits'[r] = waits[r] /\ (pc'[r] = "rewaiting" => pc[r] = "rewaiting")
  PROVE  Shared'
<1>1. EntryInv' /\ PromisesInv' /\ OrphanInv' /\ (NotReady' <=> NotReady)
  BY DEF Shared, EntryInv, PromisesInv, Promised, OrphanInv, Orphan, NotReady
<1>2. JoinersInv'
  BY <1>1 DEF Shared, JoinersInv, JoinerOf
<1>3. WaitersInv'
  BY <1>1 DEF Shared, WaitersInv, WaiterOf
<1> QED BY <1>1, <1>2, <1>3 DEF Shared

LEMMA LotsKept ==
  ASSUME Lots, UNCHANGED <<live, retired, closed>>,
         \A d \in Connects : status'[d] = "ok" <=> status[d] = "ok"
  PROVE  Lots'
BY DEF Lots, Lot

LEMMA EvictForever ==
  ASSUME TypeOK, Lots, Shared, Evict, drops' <= 1
  PROVE  Lots' /\ Shared'
<1>1. /\ entry # 0 /\ entry' = 0 /\ drops = 0 /\ drops' = 1
      /\ UNCHANGED <<status, joined, gives, live, retired, closed, broken, pc, waits>>
  BY DEF Evict, TypeOK, promiseVars, leaseVars
<1>2. \A n \in Connects : ~Orphan(n)
  BY <1>1 DEF Shared, OrphanInv
<1>3. Lots' /\ EntryInv' /\ PromisesInv'
  BY <1>1 DEF Lots, Lot, Shared, EntryInv, PromisesInv, Promised
<1>4. OrphanInv'
  BY <1>1, <1>2 DEF OrphanInv, Orphan
<1>5. JoinersInv'
  BY <1>1, <1>2 DEF JoinersInv, Orphan
<1>6. WaitersInv'
  BY <1>1 DEF Shared, WaitersInv, WaiterOf, Awaiting
<1> QED BY <1>3, <1>4, <1>5, <1>6 DEF Shared

LEMMA SucceedForever ==
  ASSUME TypeOK, Lots, Shared, caching = "forever", NEW n \in Connects, ConnectSucceeds(n)
  PROVE  Lots' /\ Shared'
<1>0. /\ Quiet /\ status[n] = "connecting"
      /\ UNCHANGED <<entry, drops, broken, holder, pc, waits>>
  BY DEF ConnectSucceeds
<1>1. /\ \A r \in Requests : Awaiting(r)' => Awaiting(r) /\ status[waits[r]] # "ok"
      /\ \A k \in Connects : status[k] = "joining" => status[joined[k]] \notin Settled
  BY <1>0 DEF Quiet, Settled, Awaiting
<1>2. CASE entry \in {0, n}
  <2>1. /\ status' = [status EXCEPT ![n] = "ok"] /\ gives' = [gives EXCEPT ![n] = n]
        /\ Adopt(n) /\ joined' = joined
    BY <1>2 DEF ConnectSucceeds
  <2>2. \A d \in Connects : /\ status'[d] = IF d = n THEN "ok" ELSE status[d]
                            /\ gives'[d] = IF d = n THEN n ELSE gives[d]
    BY <2>1 DEF TypeOK
  <2>3. live' = n /\ Lots'
    BY <1>0, <2>1, <2>2, AdoptLot
  <2>4. EntryInv'
    BY <1>0, <1>2, <2>2, <2>3 DEF EntryInv
  <2>5. PromisesInv'
    BY <1>0, <2>2 DEF Shared, PromisesInv, Promised
  <2>6. OrphanInv'
    BY <1>0, <2>2 DEF Shared, OrphanInv, Orphan
  <2>7. ASSUME NEW k \in Connects, status'[k] = "joining" PROVE JoinerOf(k)'
    <3>1. status[k] = "joining" /\ JoinerOf(k)
      BY <2>2, <2>7 DEF Shared, JoinersInv
    <3>2. joined[k] = n
      BY <1>1, <1>2, <3>1 DEF JoinerOf, Settled, Connects
    <3> QED BY <1>0, <1>2, <2>1, <2>2, <3>1, <3>2 DEF JoinerOf, Connects
  <2>8. ASSUME NEW r \in Requests, Awaiting(r)', status'[waits'[r]] = "ok" PROVE WaiterOf(r)'
    <3>1. waits'[r] = n
      BY <1>0, <1>1, <2>1, <2>2, <2>8 DEF TypeOK
    <3>2. n \notin broken
      BY <1>0 DEF Shared, PromisesInv, Promised
    <3> QED BY <1>0, <1>2, <2>2, <2>3, <3>1, <3>2 DEF WaiterOf, NotReady
  <2> QED BY <2>3, <2>4, <2>5, <2>6, <2>7, <2>8 DEF Shared, JoinersInv, WaitersInv
<1>3. CASE entry \notin {0, n}
  <2>1. /\ status' = [status EXCEPT ![n] = "joining"] /\ joined' = [joined EXCEPT ![n] = entry]
        /\ UNCHANGED <<gives, live, retired, closed>>
    BY <1>3 DEF ConnectSucceeds
  <2>2. \A d \in Connects : /\ status'[d] = IF d = n THEN "joining" ELSE status[d]
                            /\ joined'[d] = IF d = n THEN entry ELSE joined[d]
    BY <2>1 DEF TypeOK
  <2>3. entry \in Connects /\ Orphan(n)
    BY <1>0, <1>3 DEF TypeOK, Connects, Orphan
  <2>4. Lots'
    BY <1>0, <2>1, <2>2, LotsKept
  <2>5. EntryInv' /\ PromisesInv'
    BY <1>0, <1>3, <2>1, <2>2, <2>3 DEF Shared, EntryInv, PromisesInv, Promised
  <2>6. OrphanInv'
    <3>1. \A k \in Connects : Orphan(k)' <=> Orphan(k)
      BY <1>0, <2>2, <2>3 DEF Orphan
    <3> QED BY <1>0, <3>1 DEF Shared, OrphanInv
  <2>7. ASSUME NEW k \in Connects, status'[k] = "joining" PROVE JoinerOf(k)'
    <3>1. k = n
      BY <2>2, <2>3, <2>7 DEF Shared, OrphanInv, Orphan
    <3>2. entry # n /\ status[entry] \in {"connecting", "ok"}
          /\ (status[entry] = "ok" => gives[entry] = entry)
      BY <1>3 DEF Shared, EntryInv
    <3> QED BY <1>0, <2>1, <2>2, <2>3, <3>1, <3>2 DEF JoinerOf
  <2>8. WaitersInv'
    BY <1>0, <1>1, <2>1, <2>2 DEF WaitersInv, TypeOK
  <2> QED BY <2>4, <2>5, <2>6, <2>7, <2>8 DEF Shared, JoinersInv
<1> QED BY <1>2, <1>3

LEMMA JoinForever ==
  ASSUME TypeOK, Lots, Shared, NEW n \in Connects, JoinEnds(n)
  PROVE  Lots' /\ Shared'
<1> DEFINE m == joined[n]
<1>0. /\ status[n] = "joining" /\ status[m] \in Settled
      /\ status' = [status EXCEPT ![n] = "ok"]
      /\ UNCHANGED <<entry, drops, joined, broken, holder, pc, waits>>
  BY DEF JoinEnds
<1>1. /\ Orphan(n) /\ drops = 1 /\ JoinerOf(n) /\ m \in Connects \ {n}
      /\ \A k \in Connects : Orphan(k) => k = n
  BY <1>0 DEF Shared, OrphanInv, Orphan, JoinersInv, JoinerOf
<1>2. \A d \in Connects : status'[d] = IF d = n THEN "ok" ELSE status[d]
  BY <1>0 DEF TypeOK
<1>3. \A k \in Connects : ~Orphan(k)'
  BY <1>0, <1>1, <1>2 DEF Orphan
<1>4. OrphanInv' /\ JoinersInv'
  BY <1>3 DEF OrphanInv, JoinersInv, Orphan
<1>5. entry # n /\ (entry # 0 => entry \in Connects)
  BY <1>0 DEF Shared, EntryInv, TypeOK, Connects
<1>6. \A r \in Requests : /\ Awaiting(r)' <=> Awaiting(r)
                          /\ status'[waits'[r]] = "ok" => waits[r] = n \/ status[waits[r]] = "ok"
  BY <1>0 DEF Awaiting, TypeOK
<1>7. CASE status[m] = "ok"
  <2>1. Retire(n) /\ live' = live /\ gives' = [gives EXCEPT ![n] = gives[m]]
    BY <1>7 DEF JoinEnds
  <2>2. gives[m] = m /\ (m \in broken \/ m = live)
    BY <1>1, <1>5, <1>7 DEF JoinerOf, Shared, EntryInv, Connects
  <2>3. \A d \in Connects : gives'[d] = IF d = n THEN m ELSE gives[d]
    BY <1>1, <2>1, <2>2 DEF TypeOK
  <2>4. Lots'
    <3>1. Lot(n) /\ n \notin retired /\ closed[n] = 0 /\ n # live
      BY <1>0 DEF Lots, Lot
    <3>2. /\ \A d \in Connects \ {n} :
               (d \in retired' <=> d \in retired) /\ closed'[d] = closed[d]
          /\ n \in retired' <=> closed'[n] = 0
          /\ n \notin retired' <=> closed'[n] = 1
      BY <2>1, <3>1, RetireLot
    <3>3. closed'[n] \in {0, 1}
      BY <3>2
    <3> QED BY <1>2, <2>1, <3>1, <3>2, <3>3 DEF Lots, Lot
  <2>5. EntryInv'
    BY <1>0, <1>2, <1>5, <2>1, <2>3 DEF Shared, EntryInv
  <2>6. PromisesInv'
    BY <1>0, <1>1, <1>2, <1>7, <2>3 DEF Shared, PromisesInv, Promised
  <2>7. ASSUME NEW r \in Requests, Awaiting(r)', status'[waits'[r]] = "ok" PROVE WaiterOf(r)'
    <3>1. CASE waits[r] = n
      BY <1>0, <1>1, <2>1, <2>2, <2>3, <3>1 DEF WaiterOf
    <3>2. CASE waits[r] # n
      <4>1. WaiterOf(r)
        BY <1>6, <2>7, <3>2 DEF Shared, WaitersInv
      <4>2. gives'[waits[r]] = gives[waits[r]]
        BY <2>1, <3>2 DEF TypeOK
      <4> QED BY <1>0, <1>1, <2>1, <4>1, <4>2 DEF WaiterOf
    <3> QED BY <3>1, <3>2
  <2> QED BY <1>4, <2>4, <2>5, <2>6, <2>7 DEF Shared, WaitersInv
<1>8. CASE status[m] # "ok"
  <2>1. Adopt(n) /\ gives' = [gives EXCEPT ![n] = n] /\ status[m] = "failed"
    BY <1>0, <1>8 DEF JoinEnds, Settled
  <2>2. NotReady /\ \A r \in Requests : Awaiting(r) => status[waits[r]] # "ok"
    BY <1>1, <2>1 DEF JoinerOf
  <2>3. \A d \in Connects : gives'[d] = IF d = n THEN n ELSE gives[d]
    BY <2>1 DEF TypeOK
  <2>4. live' = n /\ Lots'
    BY <1>0, <1>2, <2>1, AdoptLot
  <2>5. EntryInv'
    BY <1>0, <1>2, <1>5, <2>2 DEF EntryInv, NotReady
  <2>6. PromisesInv'
    BY <1>0, <1>2, <2>3 DEF Shared, PromisesInv, Promised
  <2>7. ASSUME NEW r \in Requests, Awaiting(r)', status'[waits'[r]] = "ok" PROVE WaiterOf(r)'
    <3>1. waits[r] = n
      BY <1>6, <2>2, <2>7
    <3> QED BY <1>0, <1>1, <2>3, <2>4, <3>1 DEF WaiterOf
  <2> QED BY <1>4, <2>4, <2>5, <2>6, <2>7 DEF Shared, WaitersInv
<1> QED BY <1>7, <1>8

LEMMA FailForever ==
  ASSUME TypeOK, Lots, Shared, NEW n \in Connects, ConnectFails(n)
  PROVE  Lots' /\ Shared'
<1>0. /\ Quiet /\ status[n] = "connecting" /\ status' = [status EXCEPT ![n] = "failed"]
      /\ entry' = IF entry = n THEN 0 ELSE entry
      /\ UNCHANGED <<drops, joined, gives, live, retired, closed, broken, pc, waits>>
  BY DEF ConnectFails, leaseVars
<1>1. /\ \A r \in Requests : Awaiting(r)' => Awaiting(r) /\ status[waits[r]] # "ok"
      /\ \A k \in Connects : status[k] = "joining" => status[joined[k]] \notin Settled
  BY <1>0 DEF Quiet, Settled, Awaiting
<1>2. \A d \in Connects : status'[d] = IF d = n THEN "failed" ELSE status[d]
  BY <1>0 DEF TypeOK
<1>3. Lots'
  BY <1>0, <1>2, LotsKept
<1>4. entry # 0 => entry \in Connects
  BY DEF TypeOK, Connects
<1>5. EntryInv' /\ PromisesInv'
  BY <1>0, <1>2, <1>4 DEF Shared, EntryInv, PromisesInv, Promised
<1>6. OrphanInv'
  <2>1. \A k \in Connects : Orphan(k)' => Orphan(k)
    BY <1>0, <1>2 DEF Orphan
  <2> QED BY <1>0, <2>1 DEF Shared, OrphanInv
<1>7. \A r \in Requests : Awaiting(r)' => status'[waits'[r]] # "ok"
  BY <1>0, <1>1 DEF TypeOK
<1>8. ASSUME NEW k \in Connects, status'[k] = "joining" PROVE JoinerOf(k)'
  <2>1. JoinerOf(k) /\ status[joined[k]] = "connecting" /\ joined[k] = entry
    BY <1>1, <1>2, <1>8 DEF Shared, JoinersInv, JoinerOf, Settled
  <2> QED BY <1>0, <1>2, <1>7, <2>1 DEF JoinerOf, NotReady
<1> QED BY <1>3, <1>5, <1>6, <1>7, <1>8 DEF Shared, JoinersInv, WaitersInv

LEMMA BreakForever ==
  ASSUME TypeOK, Lots, Shared, NEW n \in Connects, Break(n)
  PROVE  Lots' /\ Shared'
<1>0. /\ Quiet /\ status[n] \in {"joining", "ok"} /\ broken' = broken \cup {n}
      /\ UNCHANGED <<entry, drops, status, joined, gives, live, retired, closed, pc, waits>>
  BY DEF Break, promiseVars, leaseVars
<1>1. \A r \in Requests : Awaiting(r)' => Awaiting(r) /\ status[waits[r]] # "ok"
  BY <1>0 DEF Quiet, Settled, Awaiting
<1>2. Lots' /\ EntryInv' /\ PromisesInv' /\ OrphanInv' /\ (NotReady' <=> NotReady)
  BY <1>0 DEF Lots, Lot, Shared, EntryInv, PromisesInv, Promised, OrphanInv, Orphan, NotReady
<1>3. JoinersInv'
  BY <1>0, <1>1, <1>2 DEF Shared, JoinersInv, JoinerOf
<1>4. WaitersInv'
  BY <1>0, <1>1 DEF WaitersInv
<1> QED BY <1>2, <1>3, <1>4 DEF Shared

\* connectCached makes a promise, or finds the entry's.
LEMMA ForeverConnect ==
  ASSUME TInv, Born, caching = "forever", NEW r \in Requests, NEW e \in 0..MaxConnects,
         ConnectCached(r, e)
  PROVE  \/ /\ e # 0 /\ waits' = [waits EXCEPT ![r] = e] /\ entry' = e
            /\ UNCHANGED <<status, joined, gives>>
         \/ /\ e = 0
            /\ \E k \in Connects :
                 /\ status[k] = "none" /\ status' = [status EXCEPT ![k] = "connecting"]
                 /\ waits' = [waits EXCEPT ![r] = k] /\ entry' = k
                 /\ UNCHANGED <<joined, gives>>
<1>1. CASE e # 0 /\ waits' = [waits EXCEPT ![r] = e] /\ entry' = e /\ UNCHANGED promiseVars
  BY <1>1 DEF promiseVars
<1>2. CASE e = 0 /\ NewConnect /\ waits' = [waits EXCEPT ![r] = connects'] /\ entry' = connects'
  BY <1>2, BornConnect DEF TInv, LInv
<1> QED BY <1>1, <1>2 DEF ConnectCached

\* A new connect takes the place of no entry, or of one that is through and is broken.
LEMMA NewEntry ==
  ASSUME TInv, Shared, NEW k \in Connects, NEW r \in Requests,
         status[k] = "none", status' = [status EXCEPT ![k] = "connecting"],
         waits' = [waits EXCEPT ![r] = k], entry' = k,
         UNCHANGED <<drops, joined, gives, broken>>,
         \A q \in Requests : q # r => pc'[q] = pc[q],
         \/ entry = 0 /\ live' = live
         \/ entry \in broken /\ status[entry] = "ok"
  PROVE  Shared'
<1>0. TypeOK /\ EntryInv /\ (entry # 0 => entry \in Connects)
  <2>1. TypeOK /\ EntryInv
    BY DEF TInv, LInv, Shared
  <2>2. entry \in 0..MaxConnects
    BY <2>1 DEF TypeOK
  <2> QED BY <2>1, <2>2 DEF Connects
<1>1. /\ \A d \in Connects : status'[d] = IF d = k THEN "connecting" ELSE status[d]
      /\ \A q \in Requests : waits'[q] = IF q = r THEN k ELSE waits[q]
      /\ \A q \in Requests : q # r => (Awaiting(q)' <=> Awaiting(q))
  BY <1>0 DEF TypeOK, Awaiting
<1>2. NotReady' /\ EntryInv'
  BY <1>1 DEF NotReady, EntryInv
<1>3. PromisesInv'
  BY <1>1 DEF Shared, PromisesInv, Promised
<1>4. OrphanInv'
  <2>1. \A x \in Connects : Orphan(x)' => Orphan(x)
    BY <1>0, <1>1 DEF Orphan, Connects
  <2> QED BY <2>1 DEF Shared, OrphanInv
<1>5. ASSUME NEW q \in Requests, Awaiting(q)', status'[waits'[q]] = "ok"
      PROVE  q # r /\ Awaiting(q) /\ waits'[q] = waits[q] /\ status[waits[q]] = "ok"
             /\ waits[q] \in Connects
  <2>1. q # r /\ Awaiting(q)
    BY <1>1, <1>5
  <2> QED BY <1>1, <1>5, <2>1 DEF TInv, AwaitInv
<1>6. ASSUME NEW x \in Connects, status'[x] = "joining" PROVE JoinerOf(x)'
  <2> DEFINE m == joined[x]
  <2>1. status[x] = "joining" /\ JoinerOf(x) /\ m # k
    BY <1>1, <1>6 DEF Shared, JoinersInv, JoinerOf
  <2>2. m \in Connects \ {x} /\ status'[m] = status[m] /\ joined'[x] = m /\ gives'[m] = gives[m]
    BY <1>1, <2>1 DEF JoinerOf
  <2>3. status[m] # "connecting"
    BY <2>1 DEF JoinerOf, Connects
  <2>4. status[m] = "ok" => m \in broken /\ gives[m] = m
    BY <2>1, <2>2 DEF JoinerOf, Connects
  <2>5. status[m] = "failed" => \A q \in Requests : Awaiting(q)' => status'[waits'[q]] # "ok"
    BY <1>5, <2>1 DEF JoinerOf
  <2> QED BY <1>2, <2>1, <2>2, <2>3, <2>4, <2>5 DEF JoinerOf
<1>7. ASSUME NEW q \in Requests, Awaiting(q)', status'[waits'[q]] = "ok" PROVE WaiterOf(q)'
  <2>1. WaiterOf(q) /\ q # r /\ waits'[q] = waits[q] /\ pc'[q] = pc[q]
    BY <1>5, <1>7 DEF Shared, WaitersInv
  <2>2. gives[waits[q]] \in broken \/ gives[waits[q]] = live'
    <3>1. entry \in broken => entry # 0
      BY <1>0 DEF TypeOK, Clients, Connects
    <3> QED BY <1>0, <2>1, <3>1 DEF WaiterOf, EntryInv
  <2> QED BY <1>2, <2>1, <2>2 DEF WaiterOf
<1> QED BY <1>2, <1>3, <1>4, <1>6, <1>7 DEF Shared, JoinersInv, WaitersInv

\* An invocation finds the entry.
LEMMA SameEntry ==
  ASSUME TInv, Shared, NEW r \in Requests, entry # 0,
         waits' = [waits EXCEPT ![r] = entry],
         UNCHANGED <<entry, drops, status, joined, gives, live, broken>>,
         \A q \in Requests : q # r => pc'[q] = pc[q],
         \/ pc'[r] = "waiting"
         \/ Awaiting(r) /\ status[waits[r]] = "ok" /\ waits[r] # entry
  PROVE  Shared'
<1>0. TypeOK /\ EntryInv /\ entry \in Connects
  <2>1. TypeOK /\ EntryInv
    BY DEF TInv, LInv, Shared
  <2>2. entry \in 0..MaxConnects
    BY <2>1 DEF TypeOK
  <2> QED BY <2>1, <2>2 DEF Connects
<1>1. /\ \A q \in Requests : waits'[q] = IF q = r THEN entry ELSE waits[q]
      /\ \A q \in Requests : q # r => (Awaiting(q)' <=> Awaiting(q))
  BY <1>0 DEF TypeOK, Awaiting
<1>2. EntryInv' /\ PromisesInv' /\ OrphanInv' /\ (NotReady' <=> NotReady)
  BY DEF Shared, EntryInv, PromisesInv, Promised, OrphanInv, Orphan, NotReady
<1>3. NotReady => status[entry] # "ok"
  BY <1>0 DEF NotReady, Connects
<1>4. ASSUME NEW x \in Connects, status'[x] = "joining" PROVE JoinerOf(x)'
  <2>1. JoinerOf(x) /\ joined'[x] = joined[x]
    BY <1>4 DEF Shared, JoinersInv
  <2> QED BY <1>1, <1>2, <1>3, <2>1 DEF JoinerOf
<1>5. ASSUME NEW q \in Requests, Awaiting(q)', status'[waits'[q]] = "ok" PROVE WaiterOf(q)'
  <2>1. CASE q # r
    <3>1. WaiterOf(q) /\ waits'[q] = waits[q] /\ pc'[q] = pc[q]
      BY <1>1, <1>5, <2>1 DEF Shared, WaitersInv
    <3> QED BY <1>2, <3>1 DEF WaiterOf
  <2>2. CASE q = r
    <3>1. waits'[r] = entry /\ status[entry] = "ok" /\ gives[entry] = live
      BY <1>0, <1>1, <1>5, <2>2 DEF EntryInv, Connects
    <3>2. pc'[r] = "waiting" \/ drops # 0
      <4>1. CASE Awaiting(r) /\ status[waits[r]] = "ok" /\ waits[r] # entry
        BY <1>3, <3>1, <4>1 DEF Shared, WaitersInv, WaiterOf
      <4> QED BY <4>1
    <3> QED BY <2>2, <3>1, <3>2 DEF WaiterOf
  <2> QED BY <2>1, <2>2
<1> QED BY <1>2, <1>4, <1>5 DEF Shared, JoinersInv, WaitersInv

LEMMA BeforeForever ==
  ASSUME TInv, Born, Lots, Shared, caching = "forever", NEW r \in Requests, Before(r)
  PROVE  Lots' /\ Shared'
<1>0. /\ TypeOK /\ pc[r] = "idle" /\ pc' = [pc EXCEPT ![r] = "waiting"]
      /\ UNCHANGED <<drops, live, broken>> /\ ConnectCached(r, entry) /\ entry \in 0..MaxConnects
  BY DEF Before, TInv, LInv, TypeOK
<1>1. pc'[r] = "waiting" /\ \A q \in Requests : q # r => pc'[q] = pc[q]
  BY <1>0 DEF TypeOK
<1>2. ASSUME \A d \in Connects : (status'[d] = "ok" <=> status[d] = "ok") PROVE Lots'
  <2>1. CASE durable
    BY <1>0, <1>2, <2>1, ReleaseLot DEF Before
  <2>2. CASE ~durable
    BY <1>0, <1>2, <2>2, LotsKept DEF Before
  <2> QED BY <2>1, <2>2
<1>3. CASE entry # 0 /\ waits' = [waits EXCEPT ![r] = entry] /\ UNCHANGED <<entry, status, joined, gives>>
  BY <1>0, <1>1, <1>2, <1>3, SameEntry
<1>4. ASSUME entry = 0, NEW k \in Connects, status[k] = "none",
             status' = [status EXCEPT ![k] = "connecting"],
             waits' = [waits EXCEPT ![r] = k], entry' = k, UNCHANGED <<joined, gives>>
      PROVE  Lots' /\ Shared'
  <2>1. \A d \in Connects : (status'[d] = "ok" <=> status[d] = "ok")
    BY <1>0, <1>4 DEF TypeOK
  <2> QED BY <1>0, <1>1, <1>2, <1>4, <2>1, NewEntry
<1> QED BY <1>0, <1>3, <1>4, ForeverConnect

LEMMA ReconnectForever ==
  ASSUME TInv, Born, Lots, Shared, caching = "forever", NEW r \in Requests, Reconnect(r)
  PROVE  Lots' /\ Shared'
<1> DEFINE w == waits[r]
<1>0. /\ TypeOK /\ pc[r] = "waiting" /\ Awaiting(r) /\ w \in Connects /\ status[w] = "ok"
      /\ gives[w] \in broken /\ pc' = [pc EXCEPT ![r] = "rewaiting"]
      /\ UNCHANGED <<drops, holder, broken>> /\ entry \in 0..MaxConnects
  BY DEF Reconnect, TInv, LInv, TypeOK, AwaitInv, Awaiting
<1>1. \A q \in Requests : q # r => pc'[q] = pc[q]
  BY <1>0 DEF TypeOK
<1>2. CASE entry = w
  <2>1. gives[w] = w /\ live = w /\ w # 0
    BY <1>0, <1>2 DEF Shared, EntryInv, Connects
  <2>2. Retire(w) /\ live' = 0 /\ ConnectCached(r, 0)
    BY <1>2, <2>1 DEF Reconnect
  <2>3. PICK k \in Connects :
          /\ status[k] = "none" /\ status' = [status EXCEPT ![k] = "connecting"]
          /\ waits' = [waits EXCEPT ![r] = k] /\ entry' = k /\ UNCHANGED <<joined, gives>>
    <3>1. 0 \in 0..MaxConnects
      OBVIOUS
    <3> QED BY <2>2, <3>1, ForeverConnect
  <2>4. Shared'
    BY <1>0, <1>1, <1>2, <2>1, <2>3, NewEntry
  <2>5. Lots'
    <3>1. Lot(w) /\ w \notin retired /\ closed[w] = 0
      BY <1>0, <2>1 DEF Lots, Lot
    <3>2. /\ \A d \in Connects \ {w} :
               (d \in retired' <=> d \in retired) /\ closed'[d] = closed[d]
          /\ w \in retired' <=> closed'[w] = 0
          /\ w \notin retired' <=> closed'[w] = 1
      BY <1>0, <2>2, <3>1, RetireLot
    <3>3. closed'[w] \in {0, 1} /\ \A d \in Connects : d # 0
      BY <3>2 DEF Connects
    <3>4. \A d \in Connects : (status'[d] = "ok" <=> status[d] = "ok")
      BY <1>0, <2>3 DEF TypeOK
    <3> QED BY <1>0, <2>1, <2>2, <3>1, <3>2, <3>3, <3>4 DEF Lots, Lot
  <2> QED BY <2>4, <2>5
<1>3. CASE entry # w
  <2>1. UNCHANGED <<retired, closed, live>> /\ ConnectCached(r, entry)
    BY <1>3 DEF Reconnect
  <2>2. CASE entry # 0 /\ waits' = [waits EXCEPT ![r] = entry] /\ entry' = entry
             /\ UNCHANGED <<status, joined, gives>>
    <3>1. Shared'
      BY <1>0, <1>1, <1>3, <2>1, <2>2, SameEntry
    <3> QED BY <2>1, <2>2, <3>1, LotsKept
  <2>3. ASSUME entry = 0, NEW k \in Connects, status[k] = "none",
               status' = [status EXCEPT ![k] = "connecting"],
               waits' = [waits EXCEPT ![r] = k], entry' = k, UNCHANGED <<joined, gives>>
        PROVE  Lots' /\ Shared'
    <3>1. \A d \in Connects : (status'[d] = "ok" <=> status[d] = "ok")
      BY <1>0, <2>3 DEF TypeOK
    <3>2. Shared'
      BY <1>0, <1>1, <2>1, <2>3, NewEntry
    <3> QED BY <2>1, <3>1, <3>2, LotsKept
  <2> QED BY <1>0, <2>1, <2>2, <2>3, ForeverConnect
<1> QED BY <1>2, <1>3

LEMMA ForeverNext == TInv /\ Born /\ ForeverInv /\ [Next]_vars => ForeverInv'
<1> SUFFICES ASSUME TInv, Born, ForeverInv, [Next]_vars, caching' = "forever", drops' <= 1
             PROVE  Lots' /\ Shared'
  BY DEF ForeverInv
<1> USE DEF promiseVars, leaseVars
<1>0. /\ TypeOK /\ caching = "forever" /\ Lots /\ Shared
  <2>1. drops' = drops \/ drops' = drops + 1
    BY DEF Next, vars, Refresh, Evict, ConnectSucceeds, JoinEnds, ConnectFails, Break, Before,
           Lease, Reconnect, Fail, After, Abandon
  <2>2. TypeOK /\ drops \in Nat
    BY DEF TInv, LInv, TypeOK
  <2>3. caching = "forever"
    BY ConfigKept DEF configVars
  <2> QED BY <2>1, <2>2, <2>3 DEF ForeverInv
<1>1. CASE Refresh
  BY <1>0, <1>1 DEF Refresh
<1>2. CASE Evict
  BY <1>0, <1>2, EvictForever
<1>3. ASSUME NEW n \in Connects,
             ConnectSucceeds(n) \/ JoinEnds(n) \/ ConnectFails(n) \/ Break(n)
      PROVE  Lots' /\ Shared'
  BY <1>0, <1>3, SucceedForever, JoinForever, FailForever, BreakForever
<1>4. ASSUME NEW r \in Requests, Before(r) \/ Reconnect(r) PROVE Lots' /\ Shared'
  BY <1>0, <1>4, BeforeForever, ReconnectForever
<1>5. ASSUME NEW r \in Requests, Lease(r) \/ Fail(r) \/ After(r) \/ Abandon(r)
      PROVE  Lots' /\ Shared'
  <2>1. /\ UNCHANGED <<entry, drops, status, joined, gives, live, broken, waits>>
        /\ \E p \in {"running", "done"} : pc' = [pc EXCEPT ![r] = p]
    BY <1>5 DEF Lease, Fail, After, Abandon
  <2>2. \A q \in Requests : Awaiting(q)' =>
           Awaiting(q) /\ waits'[q] = waits[q] /\ (pc'[q] = "rewaiting" => pc[q] = "rewaiting")
    BY <1>0, <2>1 DEF Awaiting, TypeOK
  <2>3. Shared'
    BY <1>0, <2>1, <2>2, SharedKept
  <2>4. CASE After(r)
    <3>1. Release({r})
      BY <2>4 DEF After
    <3> QED BY <1>0, <2>1, <2>3, <3>1, ReleaseLot
  <2>5. CASE Lease(r) \/ Fail(r) \/ Abandon(r)
    <3>1. UNCHANGED <<live, retired, closed>>
      BY <2>5 DEF Lease, Fail, Abandon
    <3> QED BY <1>0, <2>1, <2>3, <3>1, LotsKept
  <2> QED BY <1>5, <2>3, <2>4, <2>5
<1>6. CASE UNCHANGED vars
  BY <1>0, <1>6, SharedKept, LotsKept DEF vars, Awaiting
<1> QED BY <1>1, <1>2, <1>3, <1>4, <1>5, <1>6 DEF Next

LEMMA ShareInit == Init => Born /\ OffInv /\ ForeverInv
<1> SUFFICES ASSUME Init PROVE Born /\ OffInv /\ ForeverInv
  OBVIOUS
<1>1. Born
  BY DEF Init, Born, Connects
<1>2. /\ \A n \in Connects : /\ status[n] = IF n <= connects THEN "connecting" ELSE "none"
                             /\ gives[n] = 0 /\ joined[n] = 0 /\ closed[n] = 0 /\ n # 0
      /\ \A r \in Requests : ~Awaiting(r) /\ holder[r] = 0
      /\ live = 0 /\ retired = {} /\ broken = {} /\ drops = 0
      /\ entry = connects /\ connects \in {0, 1} /\ (caching = "off" => connects = 0)
  BY DEF Init, Awaiting, Connects, Clients
<1>3. OffInv
  BY <1>2 DEF OffInv, OffOf, Uses, Connects
<1>4. \A n \in Connects : status[n] \in {"connecting", "none"} /\ (status[n] = "connecting" => n = entry)
  BY <1>2 DEF Connects
<1>5. EntryInv
  BY <1>2 DEF EntryInv, Connects
<1>6. Lots /\ PromisesInv /\ OrphanInv /\ JoinersInv /\ WaitersInv
  BY <1>2, <1>4 DEF Lots, Lot, PromisesInv, Promised, OrphanInv, Orphan, JoinersInv, WaitersInv
<1> QED BY <1>1, <1>3, <1>5, <1>6 DEF ForeverInv, Shared

\* The inductive invariant.
ShareInv == TInv /\ Born /\ OffInv /\ ForeverInv

LEMMA ShareInvariant == Spec => []ShareInv
<1>1. Init => ShareInv
  BY LeaseTypeInit, ShareInit DEF ShareInv
<1>2. ShareInv /\ [Next]_vars => ShareInv'
  BY LeaseNext, BornNext, OffNext, ForeverNext DEF ShareInv
<1> QED BY <1>1, <1>2, PTL DEF Spec

LEMMA SteadyShare ==
  ASSUME ShareInv, Steady
  PROVE  TypeOK /\ ((caching = "off" /\ OffInv) \/ (caching = "forever" /\ Lots /\ Shared))
<1>1. TypeOK /\ caching \in {"off", "forever"} /\ drops <= 1
  BY DEF ShareInv, Steady, TInv, LInv, TypeOK
<1>2. OffInv /\ (caching = "forever" => Lots /\ Shared)
  BY <1>1 DEF ShareInv, ForeverInv
<1> QED BY <1>1, <1>2

(* As long as no connect in flight is replaced twice, no client is closed     *)
(* twice: not by a broken connection, a lost race and a last lease together.  *)
THEOREM ClientsCloseOnce == Spec => []ClosedOnce
<1>1. ASSUME ShareInv, Steady, NEW c \in Clients PROVE closed[c] <= 1
  <2>1. CASE caching = "off" /\ OffInv
    BY <2>1 DEF OffInv, OffOf, Clients
  <2>2. CASE Lots
    BY <2>2 DEF Lots, Lot, Clients
  <2> QED BY <1>1, <2>1, <2>2, SteadyShare
<1>2. ShareInv => ClosedOnce
  BY <1>1 DEF ClosedOnce
<1> QED BY <1>2, ShareInvariant, PTL

(* Nor is an open connection ever lost track of: it is the cache's, it is     *)
(* leased, or it is about to be joined or leased.                            *)
THEOREM ConnectionsAreKeptTrackOf == Spec => []NoLeak
<1>1. ASSUME ShareInv, Steady, NEW c \in Clients, status[c] \in {"joining", "ok"}, closed[c] = 0
      PROVE  \/ c = live \/ Holders(c) # {} \/ status[c] = "joining"
             \/ caching = "off" /\ \E r \in Requests : Awaiting(r) /\ waits[r] = c
  <2>1. CASE caching = "off" /\ OffInv
    BY <1>1, <2>1 DEF OffInv, OffOf, Uses, Holders, Clients
  <2>2. CASE Lots
    <3>1. retired \subseteq {d \in Clients : Holders(d) # {}}
      BY <1>1, SteadyShare DEF TypeOK
    <3> QED BY <1>1, <2>2, <3>1 DEF Lots, Lot, Clients
  <2> QED BY <1>1, <2>1, <2>2, SteadyShare
<1>2. ShareInv => NoLeak
  BY <1>1 DEF NoLeak
<1> QED BY <1>2, ShareInvariant, PTL

(* What an invocation is handed out has not been closed, unless it is a broken *)
(* client handed on after the eviction.                                      *)
THEOREM SteadyLeasesAreOpen == Spec => SteadyHandsOutOpen
<1> DEFINE Open == \A r \in Requests :
       Steady /\ holder'[r] \notin {holder[r], 0} /\ (drops = 0 \/ holder'[r] \notin broken)
         => closed[holder'[r]] = 0
<1>1. ASSUME ShareInv, Next, NEW r \in Requests, Steady, holder'[r] \notin {holder[r], 0},
             drops = 0 \/ holder'[r] \notin broken
      PROVE  closed[holder'[r]] = 0
  <2>0. TypeOK
    BY <1>1, SteadyShare
  <2>1. Lease(r)
    BY <1>1, <2>0 DEF Next, Refresh, Evict, ConnectSucceeds, JoinEnds, ConnectFails, Break, Before,
       Lease, Reconnect, Fail, After, Abandon, Release, leaseVars, TypeOK
  <2>2. /\ waits[r] \in Connects /\ Awaiting(r) /\ status[waits[r]] = "ok"
        /\ pc[r] = "rewaiting" \/ gives[waits[r]] \notin broken
        /\ holder'[r] = gives[waits[r]]
    BY <1>1, <2>0, <2>1 DEF Lease, ShareInv, TInv, AwaitInv, TypeOK
  <2>3. CASE caching = "off" /\ OffInv
    BY <2>2, <2>3 DEF OffInv, OffOf, Uses
  <2>4. CASE Lots /\ Shared
    <3>1. WaiterOf(r) /\ Promised(waits[r])
      BY <2>2, <2>4 DEF Shared, WaitersInv, PromisesInv
    <3>2. gives[waits[r]] \notin broken
      BY <1>1, <2>2, <3>1 DEF WaiterOf
    <3>3. gives[waits[r]] = live /\ gives[waits[r]] \in Connects /\ status[gives[waits[r]]] = "ok"
      BY <2>2, <3>1, <3>2 DEF WaiterOf, Promised
    <3> QED BY <2>2, <2>4, <3>3 DEF Lots, Lot
  <2> QED BY <1>1, <2>3, <2>4, SteadyShare
<1>2. ASSUME ShareInv, Next PROVE Open
  BY <1>1, <1>2
<1>3. ASSUME ShareInv, [Next]_vars PROVE [Open]_vars
  BY <1>2, <1>3
<1> QED BY <1>3, ShareInvariant, PTL DEF Spec, SteadyHandsOutOpen

----------------------------------------------------------------------------
(* The pooled clients and the replies of @middy/ws-response. *)
CONSTANT DerivedClientsMax
VARIABLES wsOptions, wsCreds, pool, replying
replies == INSTANCE ConnectionReplies WITH options <- wsOptions, creds <- wsCreds, inv <- replying

WsClients == [endpoint : replies!Endpoints \cup {"configured"}, creds : 0..2]
Invocation ==
  [pc : {"idle", "after", "init", "send", "again", "done"}, endpoint : replies!Endpoints \cup {replies!None},
   kind : {replies!None, "CONNECT", "MESSAGE", "DISCONNECT"}, to : {replies!None, "own", "other"}, creds : 0..2,
   with : WsClients \cup {replies!NoClient}, posted : Seq([at : WsClients, to : {replies!None, "own", "other"}]),
   response : {replies!None, "handler", "200", "410", "error"}]
Typed ==
  /\ wsOptions \in [endpoint : {replies!None, "configured"}, assumeRole : BOOLEAN]
  /\ wsCreds \in 0..2 /\ pool \in Seq(WsClients) /\ replying \in [replies!Replies -> Invocation]
\* Without a role to assume there are no credentials to tell apart.
OneRole == wsOptions.assumeRole = FALSE => wsCreds = 0 /\ \A i \in replies!Replies : replying[i].creds = 0
\* The client an invocation uses is its own, and nothing is sent before that.
Own(i) == [endpoint |-> replies!EndpointOf(i), creds |-> replying[i].creds]
Sending(i) ==
  /\ replying[i].pc \in {"after", "init", "send", "again"} =>
       /\ replying[i].endpoint \in replies!Endpoints /\ replying[i].kind # replies!None
       /\ replying[i].posted = <<>> /\ replying[i].response = "handler"
  /\ replying[i].pc \in {"init", "send", "again"} => replying[i].with = Own(i) /\ replying[i].kind = "MESSAGE"
Sent(i) ==
  /\ replying[i].posted \in {<<>>, <<[at |-> Own(i), to |-> replying[i].to]>>}
  /\ replying[i].response = "200" <=> replying[i].posted # <<>>
  /\ replying[i].posted # <<>> => replying[i].kind = "MESSAGE"
PoolBounded == Len(pool) <= DerivedClientsMax
PoolUnique == \A m, n \in DOMAIN pool : pool[m].endpoint = pool[n].endpoint => m = n
RepliesInv == /\ Typed /\ OneRole /\ PoolBounded /\ PoolUnique
              /\ \A i \in replies!Replies : Sending(i) /\ Sent(i)

\* An invocation that goes on leaves the other one as it is.
LEMMA OthersStay ==
  ASSUME RepliesInv, NEW i \in replies!Replies, NEW j \in replies!Replies, j # i, replying'[j] = replying[j],
         wsOptions' = wsOptions
  PROVE  Sending(j)' /\ Sent(j)'
<1>1. Sending(j) /\ Sent(j)
  BY DEF RepliesInv
<1>2. Own(j)' = Own(j)
  BY DEF Own, replies!EndpointOf
<1>3. Sending(j)'
  BY <1>1, <1>2 DEF Sending
<1>4. Sent(j)'
  BY <1>1, <1>2 DEF Sent
<1> QED BY <1>3, <1>4

\* The invocation i has become a record of its own, for the same options.
LEMMA OneGoes ==
  ASSUME RepliesInv, NEW i \in replies!Replies, NEW v \in Invocation, replying' = [replying EXCEPT ![i] = v],
         wsOptions' = wsOptions, wsCreds' = wsCreds, pool' = pool, wsOptions.assumeRole = FALSE => v.creds = 0,
         Sending(i)', Sent(i)'
  PROVE  RepliesInv'
<1>1. replying' \in [replies!Replies -> Invocation] /\ replying'[i] = v
            /\ \A j \in replies!Replies : j # i => replying'[j] = replying[j]
  BY DEF RepliesInv, Typed
<1>2. Typed'
  BY <1>1 DEF RepliesInv, Typed
<1>3. OneRole'
  BY <1>1 DEF RepliesInv, OneRole
<1>4. PoolBounded' /\ PoolUnique'
  BY DEF RepliesInv, PoolBounded, PoolUnique
<1>5. \A j \in replies!Replies : Sending(j)' /\ Sent(j)'
  <2> SUFFICES ASSUME NEW j \in replies!Replies PROVE Sending(j)' /\ Sent(j)'
    OBVIOUS
  <2>1. CASE j = i
    BY <2>1
  <2>2. CASE j # i
    BY <1>1, <2>2, OthersStay
  <2> QED BY <2>1, <2>2
<1> QED BY <1>2, <1>3, <1>4, <1>5 DEF RepliesInv

\* The handler has answered: the invocation is a new one.
LEMMA AfterKeeps == ASSUME RepliesInv, NEW i \in replies!Replies, replies!After(i) PROVE RepliesInv'
<1>1. PICK endpoint \in replies!Endpoints, kind \in {"CONNECT", "MESSAGE", "DISCONNECT"}, 
             to \in {replies!None, "own", "other"} :
        replying' = [replying EXCEPT ![i] = [replies!Idle EXCEPT !.pc = "after", !.endpoint = endpoint, !.kind = kind,
                                               !.to = to, !.creds = wsCreds, !.response = "handler"]]
  BY DEF replies!After
<1> DEFINE v == [replies!Idle EXCEPT !.pc = "after", !.endpoint = endpoint, !.kind = kind,
                             !.to = to, !.creds = wsCreds, !.response = "handler"]
<1>2. replying' = [replying EXCEPT ![i] = v]
  BY <1>1
<1>3. v \in Invocation /\ v.creds = wsCreds
  <2>1. replies!Idle \in Invocation
    BY DEF replies!Idle, Invocation
  <2>2. wsCreds \in 0..2
    BY DEF RepliesInv, Typed
  <2> QED BY <2>1, <2>2 DEF Invocation
<1>r. /\ v.pc = "after" /\ v.endpoint = endpoint /\ v.kind = kind /\ v.to = to /\ v.posted = <<>>
      /\ v.response = "handler"
  BY DEF replies!Idle
<1>4. wsOptions.assumeRole = FALSE => v.creds = 0
  BY <1>3 DEF RepliesInv, OneRole
<1>5. replying'[i] = v
  BY <1>2 DEF RepliesInv, Typed
<1>6. Sending(i)'
  BY <1>5, <1>r DEF Sending, replies!None
<1>7. Sent(i)'
  BY <1>5, <1>r DEF Sent
<1>8. UNCHANGED <<wsOptions, wsCreds, pool>>
  BY DEF replies!After
<1> HIDE DEF v
<1> QED BY <1>2, <1>3, <1>4, <1>6, <1>7, <1>8, OneGoes

\* What is known of an invocation before it goes on.
LEMMA Goer ==
  ASSUME RepliesInv, NEW i \in replies!Replies
  PROVE  replying[i] \in Invocation /\ Sending(i) /\ Sent(i) /\ (wsOptions.assumeRole = FALSE => replying[i].creds = 0)
BY DEF RepliesInv, Typed, OneRole

\* The client the invocation is to use is for its endpoint and its credentials.
LEMMA ResolveKeeps == ASSUME RepliesInv, NEW i \in replies!Replies, replies!ResolveClient(i) PROVE RepliesInv'
<1>1. PICK next \in {"send", "init"} : replying' = [replying EXCEPT ![i].pc = next, ![i].with = Own(i)]
  <2>1. CASE replies!Prefetched
    <3>1. replying' = [replying EXCEPT ![i].pc = "send", ![i].with = [endpoint |-> wsOptions.endpoint, creds |-> 0]]
      BY <2>1 DEF replies!ResolveClient
    <3>2. wsOptions.endpoint # replies!None /\ wsOptions.assumeRole = FALSE
      BY <2>1 DEF replies!Prefetched, RepliesInv, Typed
    <3>3. Own(i) = [endpoint |-> wsOptions.endpoint, creds |-> 0]
      BY <3>2, Goer DEF Own, replies!EndpointOf
    <3> QED BY <3>1, <3>3
  <2>2. CASE ~replies!Prefetched
    BY <2>2 DEF replies!ResolveClient, replies!MadeFor, Own
  <2> QED BY <2>1, <2>2
<1> DEFINE v == [replying[i] EXCEPT !.pc = next, !.with = Own(i)]
<1>2. /\ replying[i] \in Invocation /\ Sending(i) /\ Sent(i) /\ replying[i].pc = "after"
      /\ (wsOptions.assumeRole = FALSE => replying[i].creds = 0)
  BY Goer DEF replies!ResolveClient
<1>3. UNCHANGED <<wsOptions, wsCreds, pool>> /\ replying[i].kind = "MESSAGE"
  BY <1>2 DEF replies!ResolveClient, replies!Deliverable, Invocation, Sending
<1>4. Own(i) \in WsClients
  BY <1>2 DEF Own, replies!EndpointOf, WsClients, Invocation, RepliesInv, Typed, Sending
<1>5. replying' = [replying EXCEPT ![i] = v] /\ v \in Invocation /\ replying'[i] = v
  BY <1>1, <1>2, <1>4 DEF Invocation, RepliesInv, Typed
<1>6. Own(i)' = Own(i)
  BY <1>2, <1>3, <1>5 DEF Own, replies!EndpointOf, Invocation
<1>7. /\ v.with = Own(i) /\ v.kind = replying[i].kind /\ v.posted = replying[i].posted
      /\ v.response = replying[i].response
      /\ v.endpoint = replying[i].endpoint /\ v.creds = replying[i].creds /\ v.to = replying[i].to
  BY <1>2 DEF Invocation
<1>8. Sending(i)'
  BY <1>2, <1>3, <1>5, <1>6, <1>7 DEF Sending
<1>9. Sent(i)'
  BY <1>2, <1>3, <1>5, <1>6, <1>7 DEF Sent
<1> HIDE DEF v
<1> QED BY <1>2, <1>3, <1>5, <1>7, <1>8, <1>9, OneGoes

\* A step that only moves the invocation on, or answers without having sent anything.
LEMMA MovesOn ==
  ASSUME RepliesInv, NEW i \in replies!Replies, NEW next, NEW response, UNCHANGED <<wsOptions, wsCreds, pool>>,
         replying' = [replying EXCEPT ![i].pc = next, ![i].response = response],
         \/ next = "done" /\ (response = replying[i].response
                               \/ (replying[i].posted = <<>> /\ response \in {"410", "error"}))
         \/ next = "again" /\ response = replying[i].response /\ replying[i].pc = "send"
  PROVE  RepliesInv'
<1> DEFINE v == [replying[i] EXCEPT !.pc = next, !.response = response]
<1>1. replying[i] \in Invocation /\ Sending(i) /\ Sent(i) /\ (wsOptions.assumeRole = FALSE => replying[i].creds = 0)
  BY Goer
<1>2. replying' = [replying EXCEPT ![i] = v] /\ v \in Invocation /\ replying'[i] = v
  BY <1>1 DEF Invocation, RepliesInv, Typed
<1>3. /\ v.pc = next /\ v.response = response /\ v.with = replying[i].with /\ v.kind = replying[i].kind
      /\ v.posted = replying[i].posted /\ v.endpoint = replying[i].endpoint /\ v.creds = replying[i].creds
      /\ v.to = replying[i].to
  BY <1>1 DEF Invocation
<1>4. Own(i)' = Own(i)
  BY <1>2, <1>3 DEF Own, replies!EndpointOf
<1>5. Sending(i)'
  BY <1>1, <1>2, <1>3, <1>4 DEF Sending
<1>6. Sent(i)'
  BY <1>1, <1>2, <1>3, <1>4 DEF Sent
<1>7. wsOptions.assumeRole = FALSE => v.creds = 0
  BY <1>1, <1>3
<1>8. wsOptions' = wsOptions /\ wsCreds' = wsCreds /\ pool' = pool
  OBVIOUS
<1> HIDE DEF v
<1> QED BY <1>2, <1>5, <1>6, <1>7, <1>8, OneGoes

\* Going on is leaving the response alone.
LEMMA GoIs ==
  ASSUME RepliesInv, NEW i \in replies!Replies, NEW next, replies!Go(i, next)
  PROVE  replying' = [replying EXCEPT ![i].pc = next, ![i].response = replying[i].response]
<1>1. replying[i] \in Invocation
  BY Goer
<1>2. [replying[i] EXCEPT !.pc = next] = [replying[i] EXCEPT !.pc = next, !.response = replying[i].response]
  BY <1>1 DEF Invocation
<1> QED BY <1>2 DEF replies!Go

\* The message is posted by the client of the invocation's own.
LEMMA PostedKeeps ==
  ASSUME RepliesInv, NEW i \in replies!Replies, replying[i].pc \in {"send", "again"}, replies!Posted(i),
         UNCHANGED <<wsOptions, wsCreds, pool>>
  PROVE  RepliesInv'
<1> DEFINE message == [at |-> replying[i].with, to |-> replying[i].to]
           v == [replying[i] EXCEPT !.pc = "done", !.response = "200", !.posted = Append(replying[i].posted, message)]
<1>1. replying[i] \in Invocation /\ Sending(i) /\ (wsOptions.assumeRole = FALSE => replying[i].creds = 0)
  BY Goer
<1>2. replying[i].posted = <<>> /\ replying[i].with = Own(i) /\ replying[i].kind = "MESSAGE"
            /\ replying[i].endpoint \in replies!Endpoints
  BY <1>1 DEF Sending
<1>3. Own(i) \in WsClients
  BY <1>1, <1>2 DEF Own, replies!EndpointOf, WsClients, Invocation, RepliesInv, Typed
<1>4. message \in [at : WsClients, to : {replies!None, "own", "other"}]
  BY <1>1, <1>2, <1>3 DEF Invocation
<1>5. Append(replying[i].posted, message) = <<message>>
            /\ <<message>> \in Seq([at : WsClients, to : {replies!None, "own", "other"}])
  BY <1>2, <1>4
<1>6. v \in Invocation
  BY <1>1, <1>5 DEF Invocation
<1>7. replying' = [replying EXCEPT ![i] = v] /\ replying'[i] = v
  BY DEF replies!Posted, RepliesInv, Typed
<1>8. /\ v.pc = "done" /\ v.response = "200" /\ v.posted = <<message>> /\ v.kind = "MESSAGE"
      /\ v.endpoint = replying[i].endpoint /\ v.creds = replying[i].creds /\ v.to = replying[i].to
  BY <1>1, <1>2, <1>5 DEF Invocation
<1>9. Own(i)' = Own(i)
  BY <1>7, <1>8 DEF Own, replies!EndpointOf
<1>10. Sending(i)'
  BY <1>7, <1>8 DEF Sending
<1>11. Sent(i)'
  <2>1. <<message>> # <<>> /\ message = [at |-> Own(i), to |-> replying[i].to]
    BY <1>2
  <2> QED BY <1>7, <1>8, <1>9, <2>1 DEF Sent
<1> HIDE DEF v
<1> QED BY <1>1, <1>6, <1>7, <1>8, <1>10, <1>11, OneGoes

\* An invocation that has ended leaves nothing but the pool.
LEMMA EndsKeeps == ASSUME RepliesInv, NEW i \in replies!Replies, replies!Ends(i) PROVE RepliesInv'
<1>1. replies!Idle \in Invocation
  BY DEF replies!Idle, Invocation
<1>2. replies!Idle.pc = "idle" /\ replies!Idle.posted = <<>> /\ replies!Idle.response = replies!None
            /\ replies!Idle.creds = 0
  BY DEF replies!Idle
<1>3. replying' = [replying EXCEPT ![i] = replies!Idle] /\ replying'[i] = replies!Idle
            /\ UNCHANGED <<wsOptions, wsCreds, pool>>
  BY DEF replies!Ends, RepliesInv, Typed
<1>4. Sending(i)'
  BY <1>2, <1>3 DEF Sending
<1>5. Sent(i)'
  BY <1>2, <1>3 DEF Sent, replies!None
<1> QED BY <1>1, <1>2, <1>3, <1>4, <1>5, OneGoes

\* The pool with one more client, or another in the place of one for the same endpoint.
LEMMA PoolKeeps ==
  ASSUME DerivedClientsMax \in Nat, pool \in Seq(WsClients), PoolBounded, PoolUnique, NEW client \in WsClients,
         pool' = replies!Evict(IF replies!Pooled(client.endpoint) = {} THEN Append(pool, client)
                       ELSE [n \in DOMAIN pool |-> IF n \in replies!Pooled(client.endpoint) THEN client ELSE pool[n]])
  PROVE  pool' \in Seq(WsClients) /\ PoolBounded' /\ PoolUnique'
<1>1. CASE replies!Pooled(client.endpoint) = {}
  <2> DEFINE clients == Append(pool, client)
  <2>0. Len(pool) \in Nat
    OBVIOUS
  <2>1. clients \in Seq(WsClients) /\ Len(clients) = Len(pool) + 1
    OBVIOUS
  <2>2. \A m, n \in 1..Len(clients) : clients[m].endpoint = clients[n].endpoint => m = n
    <3>1. \A n \in 1..Len(pool) : clients[n] = pool[n] /\ pool[n].endpoint # client.endpoint
      BY <1>1 DEF replies!Pooled
    <3>2. clients[Len(pool) + 1] = client
      OBVIOUS
    <3> QED BY <2>1, <3>1, <3>2 DEF PoolUnique
  <2> HIDE DEF clients
  <2>3. pool' = IF Len(clients) > DerivedClientsMax THEN Tail(clients) ELSE clients
    BY <1>1 DEF replies!Evict, clients
  <2>4. CASE Len(clients) > DerivedClientsMax
    <3>0. clients # <<>>
      BY <2>0, <2>1
    <3>1. pool' = Tail(clients) /\ clients # <<>>
      BY <2>3, <2>4, <3>0
    <3>2. /\ pool' \in Seq(WsClients) /\ Len(pool') = Len(clients) - 1
          /\ \A n \in 1..Len(pool') : pool'[n] = clients[n + 1]
      BY <2>1, <3>1, HeadTailProperties
    <3>3. Len(pool') = Len(pool) /\ DOMAIN pool' = 1..Len(pool)
      BY <2>0, <2>1, <3>2
    <3>4. PoolUnique'
      <4> SUFFICES ASSUME NEW m \in 1..Len(pool), NEW n \in 1..Len(pool), pool'[m].endpoint = pool'[n].endpoint
                   PROVE  m = n
        BY <3>3 DEF PoolUnique
      <4>1. m + 1 \in 1..Len(clients) /\ n + 1 \in 1..Len(clients)
        BY <2>0, <2>1
      <4>2. clients[m + 1].endpoint = clients[n + 1].endpoint
        BY <3>2, <3>3
      <4>3. m + 1 = n + 1
        BY <2>2, <4>1, <4>2
      <4> QED BY <2>0, <4>3
    <3> QED BY <3>2, <3>3, <3>4 DEF PoolBounded
  <2>5. CASE ~(Len(clients) > DerivedClientsMax)
    <3>1. pool' = clients /\ Len(clients) <= DerivedClientsMax /\ DOMAIN clients = 1..Len(clients)
      BY <2>0, <2>1, <2>3, <2>5
    <3> QED BY <2>1, <2>2, <3>1 DEF PoolBounded, PoolUnique
  <2> QED BY <2>4, <2>5
<1>2. CASE replies!Pooled(client.endpoint) # {}
  <2> DEFINE clients == [n \in DOMAIN pool |-> IF n \in replies!Pooled(client.endpoint) THEN client ELSE pool[n]]
  <2>1. clients \in Seq(WsClients) /\ Len(clients) = Len(pool)
    OBVIOUS
  <2>2. \A n \in DOMAIN pool : clients[n].endpoint = pool[n].endpoint
    BY DEF replies!Pooled
  <2>3. pool' = replies!Evict(clients)
    BY <1>2
  <2> HIDE DEF clients
  <2>4. Len(pool) \in Nat /\ DOMAIN pool = 1..Len(pool) /\ DOMAIN clients = 1..Len(pool)
    BY <2>1
  <2>5. pool' = clients
    <3>1. Len(pool) <= DerivedClientsMax
      BY DEF PoolBounded
    <3>2. ~(Len(clients) > DerivedClientsMax)
      BY <2>1, <2>4, <3>1
    <3> QED BY <2>3, <3>2 DEF replies!Evict
  <2>6. PoolBounded'
    BY <2>1, <2>5 DEF PoolBounded
  <2>7. PoolUnique'
    BY <2>2, <2>4, <2>5 DEF PoolUnique
  <2> QED BY <2>1, <2>5, <2>6, <2>7
<1> QED BY <1>1, <1>2

\* The client that has been created goes into the pool.
LEMMA CreatedKeeps ==
  ASSUME DerivedClientsMax \in Nat, RepliesInv, NEW i \in replies!Replies, replies!ClientCreated(i) PROVE RepliesInv'
<1> DEFINE v == [replying[i] EXCEPT !.pc = "send"]
<1>1. replying[i] \in Invocation /\ Sending(i) /\ Sent(i) /\ replying[i].pc = "init" /\ UNCHANGED <<wsOptions, wsCreds>>
  BY Goer DEF replies!ClientCreated
<1>2. replying[i].with = Own(i) /\ Own(i) \in WsClients
  BY <1>1 DEF Sending, Own, replies!EndpointOf, WsClients, Invocation, RepliesInv, Typed
<1>3. pool' \in Seq(WsClients) /\ PoolBounded' /\ PoolUnique'
  <2>1. pool' = replies!Evict(IF replies!Pooled(replying[i].with.endpoint) = {} THEN Append(pool, replying[i].with)
                      ELSE [n \in DOMAIN pool |->
                              IF n \in replies!Pooled(replying[i].with.endpoint) THEN replying[i].with ELSE pool[n]])
    BY DEF replies!ClientCreated
  <2> QED BY <1>2, <2>1, PoolKeeps DEF RepliesInv, Typed
<1>4. replying' = [replying EXCEPT ![i] = v] /\ v \in Invocation
  BY <1>1 DEF replies!ClientCreated, replies!Go, Invocation
<1>5. /\ v.pc = "send" /\ v.with = replying[i].with /\ v.kind = replying[i].kind
      /\ v.response = replying[i].response
      /\ v.posted = replying[i].posted /\ v.endpoint = replying[i].endpoint /\ v.creds = replying[i].creds
      /\ v.to = replying[i].to
  BY <1>1 DEF Invocation
<1>6. replying' \in [replies!Replies -> Invocation] /\ replying'[i] = v
            /\ \A j \in replies!Replies : j # i => replying'[j] = replying[j]
  BY <1>4 DEF RepliesInv, Typed
<1> HIDE DEF v
<1>7. Own(i)' = Own(i)
  BY <1>1, <1>5, <1>6 DEF Own, replies!EndpointOf
<1>8. Sending(i)' /\ Sent(i)'
  <2>1. Sending(i)'
    BY <1>1, <1>5, <1>6, <1>7 DEF Sending
  <2>2. Sent(i)'
    BY <1>1, <1>5, <1>6, <1>7 DEF Sent
  <2> QED BY <2>1, <2>2
<1>9. Typed' /\ OneRole'
  <2>1. Typed'
    BY <1>1, <1>3, <1>6 DEF RepliesInv, Typed
  <2>2. OneRole'
    BY <1>1, <1>5, <1>6 DEF RepliesInv, OneRole
  <2> QED BY <2>1, <2>2
<1>10. \A j \in replies!Replies : Sending(j)' /\ Sent(j)'
  <2> SUFFICES ASSUME NEW j \in replies!Replies PROVE Sending(j)' /\ Sent(j)'
    OBVIOUS
  <2> QED BY <1>1, <1>6, <1>8, OthersStay
<1> QED BY <1>3, <1>9, <1>10 DEF RepliesInv

\* Every step keeps the invariant.
LEMMA RepliesSteps == ASSUME DerivedClientsMax \in Nat, RepliesInv, [replies!Next]_replies!vars PROVE RepliesInv'
<1>1. ASSUME NEW i \in replies!Replies, replies!LeftAlone(i) PROVE RepliesInv'
  <2>1. replies!Go(i, "done") /\ UNCHANGED <<wsOptions, wsCreds, pool>>
    BY <1>1 DEF replies!LeftAlone
  <2>2. replying' = [replying EXCEPT ![i].pc = "done", ![i].response = replying[i].response]
    BY <2>1, GoIs
  <2> QED BY <2>1, <2>2, MovesOn
<1>2. ASSUME NEW i \in replies!Replies, replies!InvalidSignature(i) PROVE RepliesInv'
  <2>1. replies!Go(i, "again") /\ UNCHANGED <<wsOptions, wsCreds, pool>> /\ replying[i].pc = "send"
    BY <1>2 DEF replies!InvalidSignature
  <2>2. replying' = [replying EXCEPT ![i].pc = "again", ![i].response = replying[i].response]
    BY <2>1, GoIs
  <2> QED BY <2>1, <2>2, MovesOn
<1>3. ASSUME NEW i \in replies!Replies, NEW response \in {"410", "error"}, replies!Answer(i, response),
             replying[i].pc \in {"init", "send", "again"}, UNCHANGED <<wsOptions, wsCreds, pool>>
      PROVE  RepliesInv'
  <2>1. replying[i].posted = <<>>
    BY <1>3, Goer DEF Sending
  <2> QED BY <1>3, <2>1, MovesOn DEF replies!Answer
<1>4. ASSUME NEW i \in replies!Replies, replies!ClientFails(i) PROVE RepliesInv'
  BY <1>3, <1>4 DEF replies!ClientFails
<1>5. ASSUME NEW i \in replies!Replies, replies!PostToConnection(i) PROVE RepliesInv'
  BY <1>3, <1>5, PostedKeeps DEF replies!PostToConnection, replies!Gone
<1>6. CASE replies!StsRefetches
  <2>1. UNCHANGED <<wsOptions, pool, replying>> /\ wsCreds' = 2 /\ wsOptions.assumeRole
    BY <1>6 DEF replies!StsRefetches
  <2>2. \A i \in replies!Replies : Sending(i)' /\ Sent(i)'
    BY <2>1 DEF RepliesInv, Sending, Sent, Own, replies!EndpointOf
  <2>3. Typed' /\ OneRole'
    <3>1. Typed'
      BY <2>1 DEF RepliesInv, Typed
    <3>2. OneRole'
      BY <2>1 DEF RepliesInv, OneRole
    <3> QED BY <3>1, <3>2
  <2>4. PoolBounded' /\ PoolUnique'
    BY <2>1 DEF RepliesInv, PoolBounded, PoolUnique
  <2> QED BY <2>2, <2>3, <2>4 DEF RepliesInv
<1>7. CASE UNCHANGED replies!vars
  <2>1. \A i \in replies!Replies : Sending(i)' /\ Sent(i)'
    BY <1>7 DEF replies!vars, RepliesInv, Sending, Sent, Own, replies!EndpointOf
  <2>2. Typed' /\ OneRole' /\ PoolBounded' /\ PoolUnique'
    BY <1>7 DEF replies!vars, RepliesInv, Typed, OneRole, PoolBounded, PoolUnique
  <2> QED BY <2>1, <2>2 DEF RepliesInv
<1> QED BY <1>1, <1>2, <1>4, <1>5, <1>6, <1>7, AfterKeeps, ResolveKeeps, CreatedKeeps, EndsKeeps DEF replies!Next

\* The invariant says what is claimed of the replies.
LEMMA RepliesHold == ASSUME DerivedClientsMax \in Nat, RepliesInv PROVE replies!TypeOK /\ replies!RepliesReach
<1>1. replies!TypeOK
  <2>1. Len(pool) \in Nat /\ Len(pool) <= DerivedClientsMax
    BY DEF RepliesInv, Typed, PoolBounded
  <2>2. \A i \in replies!Replies : /\ replying[i].pc \in {"idle", "after", "init", "send", "again", "done"}
                           /\ replying[i].response \in {replies!None, "handler", "200", "410", "error"}
    BY DEF RepliesInv, Typed, Invocation
  <2> QED BY <2>1, <2>2 DEF RepliesInv, Typed, replies!TypeOK
<1>2. \A i \in replies!Replies : Sent(i)
  BY DEF RepliesInv
<1>3. replies!RepliesReach
  BY <1>2 DEF RepliesInv, PoolBounded, PoolUnique, Sent, Own, replies!EndpointOf, replies!RepliesReach
<1> QED BY <1>1, <1>3

\* ws-response: whichever invocations overlap, a message reaches the endpoint its request came to,
\* or the one configured, with the credentials of its invocation, and only a client that was sent
\* something is told so; the pool never exceeds derivedClientsMax, whatever that is.
THEOREM RepliesAreOwn ==
  ASSUME DerivedClientsMax \in Nat
  PROVE  replies!Spec => [](replies!TypeOK /\ replies!RepliesReach)
<1>1. replies!Init => RepliesInv
  <2> SUFFICES ASSUME replies!Init PROVE RepliesInv
    OBVIOUS
  <2>1. replies!Idle \in Invocation /\ replies!Idle.pc = "idle" /\ replies!Idle.posted = <<>>
              /\ replies!Idle.response = "none" /\ replies!Idle.creds = 0
    BY DEF replies!Idle, Invocation, replies!None
  <2>2. replying \in [replies!Replies -> Invocation] /\ \A i \in replies!Replies : replying[i] = replies!Idle
    BY <2>1 DEF replies!Init
  <2>3. pool = <<>> /\ wsCreds \in 0..2 /\ (wsOptions.assumeRole = FALSE => wsCreds = 0)
    BY DEF replies!Init
  <2>4. Typed
    BY <2>2, <2>3 DEF replies!Init, Typed
  <2>5. OneRole
    BY <2>1, <2>2, <2>3 DEF OneRole
  <2>6. PoolBounded /\ PoolUnique
    BY <2>3 DEF PoolBounded, PoolUnique
  <2>7. \A i \in replies!Replies : Sending(i) /\ Sent(i)
    BY <2>1, <2>2 DEF Sending, Sent
  <2> QED BY <2>4, <2>5, <2>6, <2>7 DEF RepliesInv
<1>2. RepliesInv /\ [replies!Next]_replies!vars => RepliesInv'
  BY RepliesSteps
<1>3. RepliesInv => replies!TypeOK /\ replies!RepliesReach
  BY RepliesHold
<1> QED BY <1>1, <1>2, <1>3, PTL DEF replies!Spec

----------------------------------------------------------------------------
(* The object and the answers of @middy/s3-object-response. *)
CONSTANTS MaxBudget, MinWait, Margin
VARIABLES role, progress, url, budget, elapsed, get, clientCreds, keptClient, input, command, resent, since
objectResponse == INSTANCE ObjectResponse WITH pc <- progress, creds <- clientCreds, client <- keptClient

\* A least wait is positive (at least a second in the code): what never waits is aborted at once.
TimesAre == MaxBudget \in Nat \ {0} /\ MinWait \in Nat \ {0} /\ Margin \in Nat

\* Where an invocation can be, and what is known of it there.
ObjectTyped ==
  /\ role \in BOOLEAN
  /\ progress \in [objectResponse!Overlapping ->
                     {"idle", "refused", "handler", "failed", "client", "sent", "resent", "done", "cut"}]
  /\ url \in [objectResponse!Overlapping -> objectResponse!Urls]
  /\ budget \in [objectResponse!Overlapping -> 0..MaxBudget]
  /\ elapsed \in [objectResponse!Overlapping -> 0..MaxBudget]
  /\ get \in [objectResponse!Overlapping -> {"none", "pending", "arrived", "aborted"}]
  /\ clientCreds \in [objectResponse!Overlapping -> 0..objectResponse!FunctionCreds]
  /\ keptClient \in 0..objectResponse!FunctionCreds
  /\ input \in [objectResponse!Overlapping -> {"body", "fields"}]
  /\ command \in [objectResponse!Overlapping -> [with : 0..objectResponse!FunctionCreds, route : Nat,
                                                 body : {"none", "body"}]]
  /\ resent \in [objectResponse!Overlapping -> 0..objectResponse!FunctionCreds]
  /\ since \in [objectResponse!Overlapping -> SUBSET objectResponse!Overlapping]
\* Time passes for those that have begun and have not ended.
InTime(i) ==
  /\ progress[i] \in {"idle", "refused"} => elapsed[i] = 0 /\ get[i] = "none" /\ command[i] = objectResponse!Unsent
  /\ progress[i] \in {"handler", "client", "sent", "resent"} => elapsed[i] < budget[i]
  /\ get[i] # "none" => url[i] # objectResponse!NoUrl /\ objectResponse!AssertAllowedInputUrl(url[i])
  /\ get[i] = "pending" => elapsed[i] < objectResponse!Wait(budget[i])
\* Without a role there is one client, with the credentials of the function.
OneClient ==
  role = FALSE =>
    /\ keptClient \in {objectResponse!NoClient, objectResponse!FunctionCreds}
    /\ \A i \in objectResponse!Overlapping :
         progress[i] \notin {"idle", "refused"} => clientCreds[i] = objectResponse!FunctionCreds
\* What may be sent again is sent by the client of one that has sent since, whose credentials stay.
Unwritten == {"idle", "refused", "handler", "client"}
Senders ==
  /\ \A i, j \in objectResponse!Overlapping : j \in since[i] => progress[j] \notin Unwritten
  /\ \A i \in objectResponse!Overlapping : progress[i] = "sent" => \E j \in since[i] : keptClient = clientCreds[j]
  /\ \A i \in objectResponse!Overlapping : progress[i] \in Unwritten => resent[i] = objectResponse!NoClient
ObjectInv ==
  /\ ObjectTyped /\ OneClient /\ Senders /\ objectResponse!WrittenAsOwn
  /\ \A i \in objectResponse!Overlapping : InTime(i)

\* The hosts an object may be asked for at.
Labels == {"", "point", "s3-accesspoint", "eu", "aws", "bucket", "sub", "mybucket", "ec2"}

\* A tuple of four, and what it has where.
LEMMA FourAre ==
  ASSUME NEW S, NEW a \in S, NEW b \in S, NEW c \in S, NEW d \in S
  PROVE  <<a, b, c, d>> \in Seq(S)
OBVIOUS
\* Its parts are read by Zenon, which the empty label does not put off.
LEMMA FourOf ==
  ASSUME NEW a, NEW b, NEW c, NEW d
  PROVE  Len(<<a, b, c, d>>) = 4 /\ <<a, b, c, d>>[1] = a /\ <<a, b, c, d>>[3] = c
OBVIOUS

\* Every host is a sequence of labels.
LEMMA HostsInSeq ==
  ASSUME NEW host \in objectResponse!Hosts PROVE host \in Seq(Labels)
<1>1. CASE host = <<"", "s3-accesspoint", "eu", "aws">>
  <2>1. "" \in Labels /\ "s3-accesspoint" \in Labels /\ "eu" \in Labels /\ "aws" \in Labels
    BY DEF Labels
  <2> QED BY <1>1, <2>1, FourAre, Zenon
<1>2. CASE host # <<"", "s3-accesspoint", "eu", "aws">>
  <2>2. /\ "point" \in Labels /\ "s3-accesspoint" \in Labels /\ "eu" \in Labels /\ "aws" \in Labels
        /\ "bucket" \in Labels /\ "sub" \in Labels /\ "mybucket" \in Labels /\ "ec2" \in Labels
    BY DEF Labels
  <2>3. CASE host = <<"point", "s3-accesspoint", "eu", "aws">>
    BY <2>2, <2>3
  <2>4. CASE host = <<"bucket", "aws">>
    BY <2>2, <2>4
  <2>5. CASE host = <<"sub", "bucket", "aws">>
    BY <2>2, <2>5
  <2>6. CASE host = <<"mybucket", "aws">>
    BY <2>2, <2>6
  <2>7. CASE host = <<"aws">>
    BY <2>2, <2>7
  <2>8. CASE host = <<"point", "ec2", "eu", "aws">>
    BY <2>2, <2>8
  <2>9. CASE host = <<"s3-accesspoint", "eu", "aws">>
    BY <2>2, <2>9
  <2>10. CASE host = <<"sub", "point", "s3-accesspoint", "eu", "aws">>
    BY <2>2, <2>10
  <2> QED BY <1>2, <2>3, <2>4, <2>5, <2>6, <2>7, <2>8, <2>9, <2>10
          DEF objectResponse!Hosts, objectResponse!AccessPoint
<1> QED BY <1>1, <1>2

\* The one host of the form of an access point, and those that end in the domain allowed.
LEMMA HostsAre ==
  ASSUME NEW host \in objectResponse!Hosts
  PROVE  /\ Len(host) = 4 /\ host[1] # "" /\ host[2] = "s3-accesspoint" => host = objectResponse!AccessPoint
         /\ Len(host) >= 2 /\ host[Len(host) - 1] = "bucket" /\ host[Len(host)] = "aws" =>
              host \in {<<"bucket", "aws">>, <<"sub", "bucket", "aws">>}
<1>1. CASE host = <<"point", "s3-accesspoint", "eu", "aws">>
  BY <1>1 DEF objectResponse!AccessPoint
<1>2. CASE host = <<"bucket", "aws">>
  BY <1>2
<1>3. CASE host = <<"sub", "bucket", "aws">>
  BY <1>3
<1>4. CASE host = <<"mybucket", "aws">>
  BY <1>4
<1>5. CASE host = <<"aws">>
  BY <1>5
<1>6. CASE host = <<"point", "ec2", "eu", "aws">>
  BY <1>6
<1>7. CASE host = <<"", "s3-accesspoint", "eu", "aws">>
  <2>1. host[1] = ""
    BY <1>7, FourOf, Zenon
  <2>2. Len(host) = 4 /\ host[3] = "eu"
    BY <1>7, FourOf, Zenon
  <2>3. host[Len(host) - 1] # "bucket"
    BY <2>2
  <2> QED BY <2>1, <2>3, Zenon
<1>8. CASE host = <<"s3-accesspoint", "eu", "aws">>
  BY <1>8
<1>9. CASE host = <<"sub", "point", "s3-accesspoint", "eu", "aws">>
  BY <1>9
<1> QED BY <1>1, <1>2, <1>3, <1>4, <1>5, <1>6, <1>7, <1>8, <1>9
        DEF objectResponse!Hosts, objectResponse!AccessPoint

\* What assertAllowedInputUrl accepts: an access point, or a host in the domain allowed.
LEMMA HostsAllowed ==
  ASSUME NEW host \in objectResponse!Hosts, NEW allowed \in objectResponse!AllowedHosts,
         objectResponse!HostMatches(host, allowed)
  PROVE  host \in {objectResponse!AccessPoint, <<"bucket", "aws">>, <<"sub", "bucket", "aws">>}
<1>1. CASE allowed = <<"*", "s3-accesspoint", "*", "aws">>
  <2>1. /\ Len(allowed) = 4 /\ DOMAIN allowed = 1..4
        /\ allowed[1] = "*" /\ allowed[2] = "s3-accesspoint"
    BY <1>1
  <2>2. objectResponse!Contains(allowed, "*")
    BY <2>1 DEF objectResponse!Contains
  <2>3. /\ Len(host) = Len(allowed)
        /\ \A k \in DOMAIN allowed : IF allowed[k] = "*" THEN host[k] # "" ELSE host[k] = allowed[k]
    BY <2>2 DEF objectResponse!HostMatches
  <2>4. Len(host) = 4
    BY <2>1, <2>3
  <2>5. 1 \in DOMAIN allowed /\ 2 \in DOMAIN allowed /\ allowed[2] # "*"
    BY <2>1
  <2>6. host[1] # "" /\ host[2] = "s3-accesspoint"
    BY <2>1, <2>3, <2>5, Zenon
  <2> QED BY <2>4, <2>6, HostsAre
<1>2. CASE allowed = <<"bucket", "aws">>
  <2> DEFINE n == Len(host)
  <2>1. ~objectResponse!Contains(allowed, "*")
    BY <1>2 DEF objectResponse!Contains
  <2>2. objectResponse!HasSuffix(host, allowed)
    BY <2>1 DEF objectResponse!HostMatches
  <2>3. Len(allowed) = 2 /\ allowed[1] = "bucket" /\ allowed[2] = "aws"
    BY <1>2
  <2>4. n \in Nat /\ host \in Seq(Labels)
    BY HostsInSeq
  <2>5. n >= 2 /\ SubSeq(host, n - 1, n) = allowed
    BY <2>2, <2>3, <2>4 DEF objectResponse!HasSuffix
  <2>6. SubSeq(host, n - 1, n)[1] = host[n - 1] /\ SubSeq(host, n - 1, n)[2] = host[n]
    BY <2>4, <2>5, SubSeqProperties
  <2>7. host[n - 1] = "bucket" /\ host[n] = "aws"
    BY <2>3, <2>5, <2>6
  <2> QED BY <2>5, <2>7, HostsAre
<1> QED BY <1>1, <1>2 DEF objectResponse!AllowedHosts

\* An event has a url and a budget to begin with.
LEMMA EventsAre ==
  ASSUME TimesAre, NEW event \in objectResponse!Events
  PROVE  event.url \in objectResponse!Urls /\ event.budget \in 1..MaxBudget
<1>1. /\ objectResponse!NoUrl \in objectResponse!Urls
      /\ objectResponse!Presigned \in objectResponse!Urls
  BY DEF objectResponse!Urls, objectResponse!Presigned, objectResponse!Hosts
<1>2. objectResponse!Short.url = objectResponse!NoUrl /\ objectResponse!Short.budget = 1
  BY DEF objectResponse!Short
<1>3. \A u \in objectResponse!Urls :
        /\ [objectResponse!Ordinary EXCEPT !.url = u].url = u
        /\ [objectResponse!Ordinary EXCEPT !.url = u].budget = MaxBudget
  BY DEF objectResponse!Ordinary
<1>4. \A b \in 1..MaxBudget :
        /\ [objectResponse!Ordinary EXCEPT !.budget = b].url = objectResponse!Presigned
        /\ [objectResponse!Ordinary EXCEPT !.budget = b].budget = b
  BY DEF objectResponse!Ordinary
<1>5. MaxBudget \in 1..MaxBudget /\ 1 \in 1..MaxBudget
  BY DEF TimesAre
<1>6. CASE event = objectResponse!Short
  BY <1>1, <1>2, <1>5, <1>6
<1>7. CASE \E u \in objectResponse!Urls : event = [objectResponse!Ordinary EXCEPT !.url = u]
  BY <1>3, <1>5, <1>7
<1>8. CASE \E b \in 1..MaxBudget : event = [objectResponse!Ordinary EXCEPT !.budget = b]
  BY <1>1, <1>4, <1>8
<1> QED BY <1>6, <1>7, <1>8 DEF objectResponse!Events

\* The least time an object is waited for is some.
LEMMA WaitIs ==
  ASSUME TimesAre, NEW b \in 0..MaxBudget
  PROVE  /\ objectResponse!Wait(b) \in Nat \ {0}
         /\ b >= MinWait + Margin => objectResponse!Wait(b) = b - Margin
BY DEF TimesAre, objectResponse!Wait

\* Before any event nothing is asked for or written.
LEMMA ObjectInits == TimesAre /\ objectResponse!Init => ObjectInv
<1> SUFFICES ASSUME TimesAre, objectResponse!Init PROVE ObjectInv
  OBVIOUS
<1> USE DEF objectResponse!Init, objectResponse!Overlapping, objectResponse!FunctionCreds, objectResponse!NoClient
<1>1. objectResponse!NoUrl \in objectResponse!Urls
  BY DEF objectResponse!Urls
<1>6. objectResponse!Unsent \in [with : 0..3, route : Nat, body : {"none", "body"}]
  BY DEF objectResponse!Unsent
<1>2. ObjectTyped
  BY <1>1, <1>6 DEF ObjectTyped, TimesAre
<1>3. OneClient
  BY DEF OneClient
<1>4. objectResponse!WrittenAsOwn /\ Senders
  BY DEF objectResponse!WrittenAsOwn, Senders, Unwritten
<1>5. \A i \in objectResponse!Overlapping : InTime(i)
  BY DEF InTime
<1> QED BY <1>2, <1>3, <1>4, <1>5 DEF ObjectInv

\* What the before hook asks for is allowed, and there is some time to wait for it.
LEMMA BeforeSteps ==
  ASSUME TimesAre, ObjectInv, NEW i \in objectResponse!Overlapping, NEW event \in objectResponse!Events,
         objectResponse!Before(i, event)
  PROVE  ObjectInv'
<1> USE DEF objectResponse!FunctionCreds, objectResponse!NoClient
<1>1. /\ progress[i] = "idle" /\ url' = [url EXCEPT ![i] = event.url]
      /\ budget' = [budget EXCEPT ![i] = event.budget]
      /\ UNCHANGED <<role, elapsed, keptClient, input, command, resent, since>>
  BY DEF objectResponse!Before
<1>2. PICK c \in 0..3 : clientCreds' = [clientCreds EXCEPT ![i] = c] /\ (role = FALSE => c = 3)
  <2>1. PICK c \in IF role THEN {1, 2} ELSE {3} : clientCreds' = [clientCreds EXCEPT ![i] = c]
    BY Zenon DEF objectResponse!Before
  <2>2. c \in 0..3 /\ (role = FALSE => c = 3)
    BY <2>1
  <2> QED BY <2>1, <2>2
<1>3. \/ /\ event.url = objectResponse!NoUrl \/ objectResponse!AssertAllowedInputUrl(event.url)
         /\ progress' = [progress EXCEPT ![i] = "handler"]
         /\ get' = [get EXCEPT ![i] = IF event.url = objectResponse!NoUrl THEN "none" ELSE "pending"]
      \/ progress' = [progress EXCEPT ![i] = "refused"] /\ UNCHANGED get
  BY DEF objectResponse!Before
<1>4. event.url \in objectResponse!Urls /\ event.budget \in 1..MaxBudget
  BY EventsAre
<1>5. ObjectTyped
  BY DEF ObjectInv
<1>6. ObjectTyped'
  <2>1. /\ budget' \in [objectResponse!Overlapping -> 0..MaxBudget]
        /\ url' \in [objectResponse!Overlapping -> objectResponse!Urls]
    BY <1>1, <1>4, <1>5 DEF ObjectTyped, TimesAre
  <2>2. clientCreds' \in [objectResponse!Overlapping -> 0..3]
    BY <1>2, <1>5 DEF ObjectTyped
  <2>3. /\ progress' \in [objectResponse!Overlapping ->
                         {"idle", "refused", "handler", "failed", "client", "sent", "resent", "done", "cut"}]
        /\ get' \in [objectResponse!Overlapping -> {"none", "pending", "arrived", "aborted"}]
    BY <1>3, <1>5 DEF ObjectTyped
  <2> QED BY <1>1, <1>5, <2>1, <2>2, <2>3 DEF ObjectTyped
<1>7. OneClient'
  BY <1>1, <1>2, <1>3, <1>5 DEF ObjectInv, OneClient, ObjectTyped
<1>8. objectResponse!WrittenAsOwn'
  <2>1. command[i] = objectResponse!Unsent
    BY <1>1 DEF ObjectInv, InTime
  <2>2. \A j \in objectResponse!Overlapping : j # i => clientCreds'[j] = clientCreds[j]
    BY <1>2, <1>5 DEF ObjectTyped
  <2>3. \A j \in objectResponse!Overlapping : since[j] \subseteq objectResponse!Overlapping /\ i \notin since[j]
    BY <1>1, <1>5 DEF ObjectInv, ObjectTyped, Senders, Unwritten
  <2>4. ASSUME NEW j \in objectResponse!Overlapping, resent[j] # 0, command[j] # objectResponse!Unsent
        PROVE  \E n \in since[j] : resent[j] = clientCreds'[n]
    <3>1. PICK n \in since[j] : resent[j] = clientCreds[n]
      BY <2>4 DEF ObjectInv, objectResponse!WrittenAsOwn
    <3> QED BY <2>2, <2>3, <3>1
  <2>5. ASSUME NEW j \in objectResponse!Overlapping, command[j] # objectResponse!Unsent
        PROVE  command[j] = [with |-> clientCreds'[j], route |-> j, body |-> "body"]
    BY <2>1, <2>2, <2>5 DEF ObjectInv, objectResponse!WrittenAsOwn
  <2>6. objectResponse!Unsent' = objectResponse!Unsent
    BY DEF objectResponse!Unsent
  <2> QED BY <1>1, <2>4, <2>5, <2>6 DEF objectResponse!WrittenAsOwn
<1>10. Senders'
  <2>1. \A j \in objectResponse!Overlapping : j # i => clientCreds'[j] = clientCreds[j] /\ progress'[j] = progress[j]
    BY <1>2, <1>3, <1>5 DEF ObjectTyped
  <2>2. \A j \in objectResponse!Overlapping : since[j] \subseteq objectResponse!Overlapping /\ i \notin since[j]
    BY <1>1, <1>5 DEF ObjectInv, ObjectTyped, Senders, Unwritten
  <2>3. progress'[i] # "sent" /\ resent[i] = 0
    BY <1>1, <1>3, <1>5 DEF ObjectInv, ObjectTyped, Senders, Unwritten
  <2>4. ASSUME NEW j \in objectResponse!Overlapping, progress'[j] = "sent"
        PROVE  \E n \in since[j] : keptClient = clientCreds'[n]
    <3>1. progress[j] = "sent"
      BY <2>1, <2>3, <2>4
    <3>2. PICK n \in since[j] : keptClient = clientCreds[n]
      BY <3>1 DEF ObjectInv, Senders
    <3> QED BY <2>1, <2>2, <3>2
  <2>5. ASSUME NEW j \in objectResponse!Overlapping, NEW n \in since[j] PROVE progress'[n] \notin Unwritten
    <3>1. n \in objectResponse!Overlapping /\ n # i
      BY <2>2
    <3>2. progress[n] \notin Unwritten
      BY <3>1 DEF ObjectInv, Senders
    <3> QED BY <2>1, <3>1, <3>2
  <2>6. ASSUME NEW j \in objectResponse!Overlapping, progress'[j] \in Unwritten PROVE resent[j] = 0
    BY <2>1, <2>3, <2>6 DEF ObjectInv, Senders
  <2> QED BY <1>1, <2>4, <2>5, <2>6 DEF Senders, Unwritten
<1>9. ASSUME NEW j \in objectResponse!Overlapping PROVE InTime(j)'
  <2>1. CASE j # i
    <3>1. /\ progress'[j] = progress[j] /\ url'[j] = url[j] /\ budget'[j] = budget[j] /\ elapsed'[j] = elapsed[j]
          /\ get'[j] = get[j] /\ command'[j] = command[j]
      BY <1>1, <1>3, <1>5, <2>1 DEF ObjectTyped
    <3> QED BY <3>1 DEF ObjectInv, InTime, objectResponse!AssertAllowedInputUrl, objectResponse!Wait
  <2>2. CASE j = i
    <3>1. elapsed[i] = 0 /\ get[i] = "none" /\ elapsed'[i] = 0
      BY <1>1 DEF ObjectInv, InTime
    <3>2. /\ budget'[i] = event.budget /\ url'[i] = event.url
          /\ objectResponse!Wait(budget[i])' = objectResponse!Wait(event.budget)
      BY <1>1, <1>5 DEF ObjectTyped, objectResponse!Wait
    <3>3. objectResponse!Wait(event.budget) > 0
      BY <1>4, WaitIs
    <3>4. progress'[i] \in {"handler", "refused"} /\ event.budget > 0
      BY <1>3, <1>4, <1>5 DEF ObjectTyped
    <3>7. command'[i] = objectResponse!Unsent /\ (progress'[i] = "refused" => get'[i] = "none")
      BY <1>1, <1>3, <1>5, <3>1 DEF ObjectInv, InTime, ObjectTyped
    <3>5. get'[i] # "none" => event.url # objectResponse!NoUrl /\ objectResponse!AssertAllowedInputUrl(event.url)
      BY <1>3, <1>5, <3>1 DEF ObjectTyped
    <3>6. objectResponse!AssertAllowedInputUrl(url[i])' = objectResponse!AssertAllowedInputUrl(event.url)
      BY <3>2 DEF objectResponse!AssertAllowedInputUrl
    <3> QED BY <2>2, <3>1, <3>2, <3>3, <3>4, <3>5, <3>6, <3>7 DEF InTime
  <2> QED BY <2>1, <2>2
<1> QED BY <1>6, <1>7, <1>8, <1>9, <1>10 DEF ObjectInv

\* An invocation goes on, and sends nothing for the first time.
LEMMA SendersStay ==
  ASSUME ObjectTyped, Senders, NEW i \in objectResponse!Overlapping, NEW p, progress' = [progress EXCEPT ![i] = p],
         p = "sent" => progress[i] = "sent", p \in Unwritten => progress[i] \in Unwritten,
         UNCHANGED <<clientCreds, keptClient, resent, since>>
  PROVE  Senders'
<1>1. \A j \in objectResponse!Overlapping :
        /\ progress'[j] = "sent" => progress[j] = "sent"
        /\ progress'[j] \in Unwritten => progress[j] \in Unwritten
  BY DEF ObjectTyped
<1>2. \A j \in objectResponse!Overlapping : since[j] \subseteq objectResponse!Overlapping
  BY DEF ObjectTyped
<1> QED BY <1>1, <1>2 DEF Senders, Unwritten, objectResponse!NoClient

\* Every other step leaves the object asked for, the times and the credentials as they are, or
\* takes them where an invocation that goes on may be.
LEMMA GoesOn ==
  ASSUME TimesAre, ObjectInv, NEW i \in objectResponse!Overlapping, progress[i] \notin {"idle", "refused"},
         \A j \in objectResponse!Overlapping : j # i => command'[j] = command[j],
         UNCHANGED <<role, url, budget, clientCreds>>,
         NEW p, progress' = [progress EXCEPT ![i] = p],
         p \in {"handler", "failed", "client", "sent", "resent", "done", "cut"},
         NEW e, elapsed' = [elapsed EXCEPT ![i] = e], e \in 0..MaxBudget,
         p \in {"handler", "client", "sent", "resent"} => e < budget[i],
         NEW g, get' = [get EXCEPT ![i] = g],
         g \in {"none", "pending", "arrived", "aborted"}, g = "none" <=> get[i] = "none",
         g = "pending" => e < objectResponse!Wait(budget[i])
  PROVE  /\ \A j \in objectResponse!Overlapping : InTime(j)'
         /\ keptClient' = keptClient => OneClient'
<1>1. ObjectTyped
  BY DEF ObjectInv
<1>2. ASSUME NEW j \in objectResponse!Overlapping PROVE InTime(j)'
  <2>1. /\ url'[j] = url[j] /\ budget'[j] = budget[j]
        /\ objectResponse!Wait(budget[j])' = objectResponse!Wait(budget[j])
        /\ objectResponse!AssertAllowedInputUrl(url[j])' = objectResponse!AssertAllowedInputUrl(url[j])
    BY DEF objectResponse!Wait, objectResponse!AssertAllowedInputUrl
  <2>2. CASE j # i
    <3>1. /\ progress'[j] = progress[j] /\ elapsed'[j] = elapsed[j] /\ get'[j] = get[j]
      BY <1>1, <2>2 DEF ObjectTyped
    <3> QED BY <2>1, <2>2, <3>1 DEF ObjectInv, InTime
  <2>3. CASE j = i
    <3>1. progress'[i] = p /\ elapsed'[i] = e /\ get'[i] = g
      BY <1>1 DEF ObjectTyped
    <3> QED BY <2>1, <2>3, <3>1 DEF ObjectInv, InTime
  <2> QED BY <2>2, <2>3
<1>3. ASSUME keptClient' = keptClient PROVE OneClient'
  BY <1>1, <1>3 DEF ObjectInv, OneClient, ObjectTyped
<1> QED BY <1>2, <1>3

\* Each step keeps the invariant; the command is written with what the invocation has.
LEMMA ObjectSteps == TimesAre /\ ObjectInv /\ [objectResponse!Next]_objectResponse!vars => ObjectInv'
<1> SUFFICES ASSUME TimesAre, ObjectInv, [objectResponse!Next]_objectResponse!vars PROVE ObjectInv'
  OBVIOUS
<1> USE DEF objectResponse!FunctionCreds, objectResponse!NoClient
<1>1. ObjectTyped
  BY DEF ObjectInv
<1>2. \A i \in objectResponse!Overlapping : InTime(i)
  BY DEF ObjectInv
<1>3. ASSUME NEW i \in objectResponse!Overlapping, objectResponse!Arrive(i) PROVE ObjectInv'
  <2>1. /\ get[i] = "pending" /\ progress[i] \notin {"idle", "refused"}
        /\ get' = [get EXCEPT ![i] = "arrived"]
        /\ UNCHANGED <<role, progress, url, budget, elapsed, clientCreds, keptClient, input, command, resent, since>>
    BY <1>2, <1>3 DEF objectResponse!Arrive, InTime
  <2>2. ObjectTyped'
    BY <1>1, <2>1 DEF ObjectTyped
  <2>3. \A j \in objectResponse!Overlapping : InTime(j)'
    <3>1. ASSUME NEW j \in objectResponse!Overlapping PROVE InTime(j)'
      <4>1. get'[j] = get[j] \/ (get[j] = "pending" /\ get'[j] = "arrived")
        BY <1>1, <2>1 DEF ObjectTyped
      <4>2. InTime(j)
        BY <1>2
      <4>3. progress[j] \in {"idle", "refused"} => get'[j] = get[j]
        BY <4>1, <4>2 DEF InTime
      <4> QED BY <2>1, <4>1, <4>2, <4>3 DEF InTime, objectResponse!Wait, objectResponse!AssertAllowedInputUrl
    <3> QED BY <3>1
  <2> QED BY <2>1, <2>2, <2>3 DEF ObjectInv, OneClient, Senders, objectResponse!WrittenAsOwn
<1>4. ASSUME NEW i \in objectResponse!Overlapping, objectResponse!Pass(i) PROVE ObjectInv'
  <2> DEFINE e == elapsed[i] + 1
             p == IF e = budget[i] THEN "cut" ELSE progress[i]
             g == IF get[i] = "pending" /\ e >= objectResponse!Wait(budget[i]) THEN "aborted" ELSE get[i]
  <2>1. /\ progress[i] \in {"handler", "client", "sent", "resent"}
        /\ elapsed' = [elapsed EXCEPT ![i] = e] /\ progress' = [progress EXCEPT ![i] = p]
        /\ get' = [get EXCEPT ![i] = g]
        /\ UNCHANGED <<role, url, budget, clientCreds, keptClient, input, command, resent, since>>
    BY <1>1, <1>4 DEF objectResponse!Pass, ObjectTyped
  <2>2. elapsed[i] < budget[i] /\ elapsed[i] \in 0..MaxBudget /\ budget[i] \in 0..MaxBudget
    BY <1>1, <1>2, <2>1 DEF InTime, ObjectTyped
  <2>3. e \in 0..MaxBudget /\ (p # "cut" => e < budget[i])
    BY <2>1, <2>2 DEF TimesAre
  <2>4. g \in {"none", "pending", "arrived", "aborted"} /\ (g = "none" <=> get[i] = "none")
    BY <1>1 DEF ObjectTyped
  <2>5. g = "pending" => e < objectResponse!Wait(budget[i])
    BY <2>2, WaitIs DEF TimesAre
  <2>6. p \in {"handler", "failed", "client", "sent", "resent", "done", "cut"}
    BY <2>1
  <2>9. (p = "sent" => progress[i] = "sent") /\ (p \in Unwritten => progress[i] \in Unwritten)
    BY DEF Unwritten
  <2> HIDE DEF e, p, g
  <2>7. ObjectTyped'
    BY <1>1, <2>1, <2>3, <2>4, <2>6 DEF ObjectTyped
  <2>8. (\A j \in objectResponse!Overlapping : InTime(j)') /\ OneClient'
    BY <2>1, <2>3, <2>4, <2>5, <2>6, GoesOn
  <2>10. Senders'
    BY <1>1, <2>1, <2>9, SendersStay DEF ObjectInv
  <2> QED BY <2>1, <2>7, <2>8, <2>10 DEF ObjectInv, objectResponse!WrittenAsOwn
<1>5. ASSUME NEW i \in objectResponse!Overlapping, NEW p, p \in {"client", "failed", "done"},
             progress' = [progress EXCEPT ![i] = p],
             p = "client" => progress[i] = "handler",
             progress[i] \notin {"idle", "refused"},
             input' \in [objectResponse!Overlapping -> {"body", "fields"}],
             UNCHANGED <<role, url, budget, elapsed, get, clientCreds, keptClient, command, resent, since>>
      PROVE  ObjectInv'
  <2>1. ObjectTyped'
    BY <1>1, <1>5 DEF ObjectTyped
  <2>2. ASSUME NEW j \in objectResponse!Overlapping PROVE InTime(j)'
    <3>1. \/ progress'[j] = progress[j]
          \/ /\ progress[j] \notin {"idle", "refused"} /\ progress'[j] = p
             /\ p = "client" => progress[j] = "handler"
      BY <1>1, <1>5 DEF ObjectTyped
    <3>2. InTime(j)
      BY <1>2
    <3> QED BY <1>5, <3>1, <3>2 DEF InTime, objectResponse!Wait, objectResponse!AssertAllowedInputUrl
  <2>3. OneClient'
    BY <1>1, <1>5 DEF ObjectInv, OneClient, ObjectTyped
  <2>4. Senders'
    <3>1. p # "sent" /\ (p \in Unwritten => progress[i] \in Unwritten)
      BY <1>5 DEF Unwritten
    <3> QED BY <1>1, <1>5, <3>1, SendersStay DEF ObjectInv
  <2> QED BY <1>5, <2>1, <2>2, <2>3, <2>4 DEF ObjectInv, objectResponse!WrittenAsOwn
<1>6. ASSUME NEW i \in objectResponse!Overlapping, objectResponse!Handle(i) PROVE ObjectInv'
  <2>1. /\ progress[i] = "handler" /\ progress' = [progress EXCEPT ![i] = "client"]
        /\ input' \in [objectResponse!Overlapping -> {"body", "fields"}]
        /\ UNCHANGED <<role, url, budget, elapsed, get, clientCreds, keptClient, command, resent, since>>
    BY <1>1, <1>6 DEF objectResponse!Handle, ObjectTyped
  <2> QED BY <1>5, <2>1
<1>7. ASSUME NEW i \in objectResponse!Overlapping,
             objectResponse!HandlerFails(i) \/ objectResponse!Answered(i)
      PROVE  ObjectInv'
  <2>1. /\ progress[i] \in {"handler", "sent", "resent"}
        /\ \E p \in {"done", "failed"} : progress' = [progress EXCEPT ![i] = p]
        /\ input' \in [objectResponse!Overlapping -> {"body", "fields"}]
        /\ UNCHANGED <<role, url, budget, elapsed, get, clientCreds, keptClient, command, resent, since>>
    BY <1>1, <1>7 DEF objectResponse!HandlerFails, objectResponse!Answered, ObjectTyped
  <2> QED BY <1>5, <2>1
<1>8. ASSUME NEW i \in objectResponse!Overlapping, objectResponse!Send(i) PROVE ObjectInv'
  <2> DEFINE c == objectResponse!ClientFor(i)
  <2>1. /\ progress[i] = "client" /\ progress' = [progress EXCEPT ![i] = "sent"] /\ keptClient' = c
        /\ command' = [command EXCEPT ![i] = [with |-> c, route |-> i, body |-> "body"]]
        /\ since' = [j \in objectResponse!Overlapping |->
                       IF j = i THEN {i} ELSE IF progress[j] = "sent" THEN since[j] \cup {i} ELSE since[j]]
        /\ UNCHANGED <<role, url, budget, elapsed, get, clientCreds, input, resent>>
    BY <1>8 DEF objectResponse!Send, objectResponse!Route, objectResponse!Body, objectResponse!Keeps
  <2>2. c = clientCreds[i]
    <3>1. CASE role = TRUE \/ keptClient = 0
      BY <3>1 DEF objectResponse!ClientFor
    <3>2. CASE role = FALSE /\ keptClient # 0
      <4>1. keptClient = 3 /\ clientCreds[i] = 3
        BY <2>1, <3>2 DEF ObjectInv, OneClient
      <4> QED BY <3>2, <4>1 DEF objectResponse!ClientFor
    <3> QED BY <1>1, <3>1, <3>2 DEF ObjectTyped
  <2>3. [with |-> c, route |-> i, body |-> "body"] \in [with : 0..3, route : Nat, body : {"none", "body"}]
    BY <1>1, <2>2 DEF ObjectTyped, objectResponse!Overlapping
  <2> HIDE DEF c
  <2>8. \A j \in objectResponse!Overlapping :
          /\ since'[j] \subseteq objectResponse!Overlapping
          /\ j # i => since[j] \subseteq since'[j] /\ progress'[j] = progress[j] /\ command'[j] = command[j]
          /\ progress'[j] = "sent" => i \in since'[j]
    BY <1>1, <2>1 DEF ObjectTyped
  <2>4. ObjectTyped'
    <3>1. since' \in [objectResponse!Overlapping -> SUBSET objectResponse!Overlapping]
      BY <2>1, <2>8
    <3> QED BY <1>1, <2>1, <2>2, <2>3, <3>1 DEF ObjectTyped
  <2>9. resent[i] = 0
    BY <2>1 DEF ObjectInv, Senders, Unwritten
  <2>5. objectResponse!WrittenAsOwn'
    <3>1. ASSUME NEW j \in objectResponse!Overlapping, command'[j] # objectResponse!Unsent
          PROVE  /\ command'[j] = [with |-> clientCreds[j], route |-> j, body |-> "body"]
                 /\ resent[j] # 0 => \E n \in since'[j] : resent[j] = clientCreds[n]
      <4>1. CASE j = i
        BY <1>1, <2>1, <2>2, <2>9, <4>1 DEF ObjectTyped
      <4>2. CASE j # i
        BY <2>8, <3>1, <4>2 DEF ObjectInv, objectResponse!WrittenAsOwn
      <4> QED BY <4>1, <4>2
    <3>2. objectResponse!Unsent' = objectResponse!Unsent
      BY DEF objectResponse!Unsent
    <3> QED BY <2>1, <3>1, <3>2 DEF objectResponse!WrittenAsOwn
  <2>10. Senders'
    <3>1. progress'[i] = "sent"
      BY <1>1, <2>1 DEF ObjectTyped
    <3>2. ASSUME NEW j \in objectResponse!Overlapping, NEW n \in since'[j] PROVE progress'[n] \notin Unwritten
      <4>1. n = i \/ n \in since[j]
        BY <2>1, <3>2
      <4>2. n # i => progress[n] \notin Unwritten /\ progress'[n] = progress[n]
        BY <2>8, <3>2, <4>1 DEF ObjectInv, Senders
      <4> QED BY <3>1, <4>2 DEF Unwritten
    <3>3. ASSUME NEW j \in objectResponse!Overlapping, progress'[j] = "sent"
          PROVE  \E n \in since'[j] : keptClient' = clientCreds[n]
      BY <2>1, <2>2, <2>8, <3>3
    <3>4. ASSUME NEW j \in objectResponse!Overlapping, progress'[j] \in Unwritten PROVE resent[j] = 0
      BY <2>8, <2>9, <3>4 DEF ObjectInv, Senders
    <3> QED BY <2>1, <3>2, <3>3, <3>4 DEF Senders, Unwritten
  <2>6. \A j \in objectResponse!Overlapping : InTime(j)'
    <3>1. elapsed' = [elapsed EXCEPT ![i] = elapsed[i]] /\ get' = [get EXCEPT ![i] = get[i]]
      BY <1>1, <2>1 DEF ObjectTyped
    <3>2. elapsed[i] \in 0..MaxBudget /\ elapsed[i] < budget[i]
          /\ get[i] \in {"none", "pending", "arrived", "aborted"}
          /\ (get[i] = "pending" => elapsed[i] < objectResponse!Wait(budget[i]))
      BY <1>1, <1>2, <2>1 DEF ObjectTyped, InTime
    <3>3. \A j \in objectResponse!Overlapping : j # i => command'[j] = command[j]
      BY <1>1, <2>1 DEF ObjectTyped
    <3>4. progress[i] \notin {"idle", "refused"}
      BY <2>1
    <3> QED BY <2>1, <3>1, <3>2, <3>3, <3>4, GoesOn
  <2>7. OneClient'
    <3>1. role = FALSE => c \in {0, 3} /\ \A j \in objectResponse!Overlapping :
            progress'[j] \notin {"idle", "refused"} => clientCreds'[j] = 3
      BY <1>1, <2>1, <2>2 DEF ObjectInv, OneClient, ObjectTyped
    <3> QED BY <2>1, <3>1 DEF OneClient
  <2> QED BY <2>4, <2>5, <2>6, <2>7, <2>10 DEF ObjectInv
<1>10. ASSUME NEW i \in objectResponse!Overlapping, objectResponse!Resend(i) PROVE ObjectInv'
  <2>1. /\ progress[i] = "sent" /\ progress' = [progress EXCEPT ![i] = "resent"]
        /\ resent' = [resent EXCEPT ![i] = keptClient]
        /\ UNCHANGED <<role, url, budget, elapsed, get, clientCreds, keptClient, input, command, since>>
    BY <1>10 DEF objectResponse!Resend
  <2>2. ObjectTyped'
    BY <1>1, <2>1 DEF ObjectTyped
  <2>3. (\A j \in objectResponse!Overlapping : InTime(j)') /\ OneClient'
    <3>1. elapsed' = [elapsed EXCEPT ![i] = elapsed[i]] /\ get' = [get EXCEPT ![i] = get[i]]
      BY <1>1, <2>1 DEF ObjectTyped
    <3>2. elapsed[i] \in 0..MaxBudget /\ elapsed[i] < budget[i]
          /\ get[i] \in {"none", "pending", "arrived", "aborted"}
          /\ (get[i] = "pending" => elapsed[i] < objectResponse!Wait(budget[i]))
      BY <1>1, <1>2, <2>1 DEF ObjectTyped, InTime
    <3>3. progress[i] \notin {"idle", "refused"} /\ \A j \in objectResponse!Overlapping : command'[j] = command[j]
      BY <2>1
    <3> QED BY <2>1, <3>1, <3>2, <3>3, GoesOn
  <2>4. \A j \in objectResponse!Overlapping : j # i => progress'[j] = progress[j] /\ resent'[j] = resent[j]
    BY <1>1, <2>1 DEF ObjectTyped
  <2>5. progress'[i] = "resent" /\ resent'[i] = keptClient
    BY <1>1, <2>1 DEF ObjectTyped
  <2>6. Senders'
    <3>1. \A j \in objectResponse!Overlapping : /\ progress'[j] = "sent" => progress[j] = "sent"
                                              /\ progress'[j] \in Unwritten => progress[j] \in Unwritten /\ j # i
      BY <2>4, <2>5 DEF Unwritten
    <3>2. \A j \in objectResponse!Overlapping : since[j] \subseteq objectResponse!Overlapping
      BY <1>1 DEF ObjectTyped
    <3> QED BY <2>1, <2>4, <3>1, <3>2 DEF ObjectInv, Senders, Unwritten
  <2>7. objectResponse!WrittenAsOwn'
    <3>1. PICK n \in since[i] : keptClient = clientCreds[n]
      BY <2>1 DEF ObjectInv, Senders
    <3>2. ASSUME NEW j \in objectResponse!Overlapping, command[j] # objectResponse!Unsent
          PROVE  /\ command[j] = [with |-> clientCreds[j], route |-> j, body |-> "body"]
                 /\ resent'[j] # 0 => \E m \in since[j] : resent'[j] = clientCreds[m]
      BY <2>4, <2>5, <3>1, <3>2 DEF ObjectInv, objectResponse!WrittenAsOwn
    <3>3. objectResponse!Unsent' = objectResponse!Unsent
      BY DEF objectResponse!Unsent
    <3> QED BY <2>1, <3>2, <3>3 DEF objectResponse!WrittenAsOwn
  <2> QED BY <2>2, <2>3, <2>6, <2>7 DEF ObjectInv
<1>9. CASE UNCHANGED objectResponse!vars
  <2>1. UNCHANGED <<role, progress, url, budget, elapsed, get, clientCreds, keptClient, input, command, resent, since>>
    BY <1>9 DEF objectResponse!vars
  <2>2. ObjectTyped'
    BY <2>1 DEF ObjectInv, ObjectTyped
  <2>3. ASSUME NEW j \in objectResponse!Overlapping PROVE InTime(j)'
    BY <2>1, <2>3 DEF ObjectInv, InTime, objectResponse!Wait, objectResponse!AssertAllowedInputUrl
  <2>4. OneClient'
    BY <2>1 DEF ObjectInv, OneClient
  <2>5. Senders'
    BY <2>1 DEF ObjectInv, Senders, Unwritten
  <2>6. objectResponse!WrittenAsOwn'
    BY <2>1 DEF ObjectInv, objectResponse!WrittenAsOwn, objectResponse!Unsent
  <2> QED BY <2>2, <2>3, <2>4, <2>5, <2>6 DEF ObjectInv
<1> QED BY <1>3, <1>4, <1>6, <1>7, <1>8, <1>9, <1>10, BeforeSteps DEF objectResponse!Next

\* What the invariant says of an invocation: TypeOK, AskedInTime, WrittenAsOwn.
LEMMA ObjectHolds ==
  ASSUME TimesAre, ObjectInv
  PROVE  objectResponse!TypeOK /\ objectResponse!AskedInTime /\ objectResponse!WrittenAsOwn
<1>1. objectResponse!TypeOK
  <2>1. /\ objectResponse!Range(clientCreds) \subseteq 0..objectResponse!FunctionCreds
        /\ objectResponse!Range(resent) \subseteq 0..objectResponse!FunctionCreds
        /\ objectResponse!Range(since) \subseteq SUBSET objectResponse!Overlapping
    BY DEF ObjectInv, ObjectTyped, objectResponse!Range
  <2> QED BY <2>1 DEF ObjectInv, ObjectTyped, objectResponse!TypeOK
<1>2. ASSUME NEW i \in objectResponse!Overlapping, get[i] # "none"
      PROVE  /\ url[i].scheme = "https"
             /\ url[i].host \in {objectResponse!AccessPoint, <<"bucket", "aws">>, <<"sub", "bucket", "aws">>}
             /\ get[i] = "pending" /\ budget[i] >= MinWait + Margin => budget[i] - elapsed[i] > Margin
  <2>1. InTime(i) /\ url[i] \in objectResponse!Urls /\ budget[i] \in 0..MaxBudget /\ elapsed[i] \in 0..MaxBudget
    BY DEF ObjectInv, ObjectTyped
  <2>2. url[i] # objectResponse!NoUrl /\ objectResponse!AssertAllowedInputUrl(url[i])
    BY <1>2, <2>1 DEF InTime
  <2>3. url[i].host \in objectResponse!Hosts
    BY <2>1, <2>2 DEF objectResponse!Urls, objectResponse!Presigned, objectResponse!Hosts
  <2>4. url[i].scheme = "https"
    BY <2>2 DEF objectResponse!AssertAllowedInputUrl
  <2>5. url[i].host \in {objectResponse!AccessPoint, <<"bucket", "aws">>, <<"sub", "bucket", "aws">>}
    BY <2>2, <2>3, HostsAllowed DEF objectResponse!AssertAllowedInputUrl
  <2>6. get[i] = "pending" /\ budget[i] >= MinWait + Margin => budget[i] - elapsed[i] > Margin
    BY <2>1, WaitIs DEF InTime, TimesAre
  <2> QED BY <2>4, <2>5, <2>6
<1> QED BY <1>1, <1>2 DEF objectResponse!AskedInTime, ObjectInv

\* S3 is asked for an object at an allowed host only, by https, what hangs is aborted with more
\* than the margin left, and whatever overlaps with it an invocation writes its own body to its own
\* route, with its own credentials unless it writes it again because its signature was refused:
\* then with its own or those of one that has written meanwhile.  For any budget, least wait and
\* margin.
THEOREM ObjectsInTime ==
  ASSUME MaxBudget \in Nat \ {0}, MinWait \in Nat \ {0}, Margin \in Nat
  PROVE  objectResponse!Spec =>
           [](objectResponse!TypeOK /\ objectResponse!AskedInTime /\ objectResponse!WrittenAsOwn)
<1> TimesAre
  BY DEF TimesAre
<1>1. objectResponse!Init => ObjectInv
  BY ObjectInits
<1>2. ObjectInv /\ [objectResponse!Next]_objectResponse!vars => ObjectInv'
  BY ObjectSteps
<1>3. ObjectInv => objectResponse!TypeOK /\ objectResponse!AskedInTime /\ objectResponse!WrittenAsOwn
  BY ObjectHolds
<1> QED BY <1>1, <1>2, <1>3, PTL DEF objectResponse!Spec
=============================================================================
