--------------------------- MODULE FetchingProofs ---------------------------
(***************************************************************************)
(* Proofs about Fetching: for each part, an invariant that its steps keep   *)
(* (Next), that the steps of the others leave alone (Same), that holds at   *)
(* first (Init) and gives what FetchedIsOwn says of the part (Holds).       *)
(***************************************************************************)
EXTENDS Fetching, SequenceTheorems, FiniteSetTheorems, WellFoundedInduction, TLAPS

----------------------------------------------------------------------------
(* SchemaVersions                                                          *)

\* The entry holds the fetches of the versions tracked, and no others.
EntryTracks ==
  IF stored THEN schemas!ToSet(ids) = {v \in Versions : value[v] # 0} ELSE value = [v \in Versions |-> 0]
\* The versions tracked are no more than the entry may hold.
IdsFit == ids \in Seq(Versions) /\ schemas!IsInjective(ids) /\ Len(ids) <= CacheMaxSize
FetchedTyped ==
  fetched \in [Versions -> Seq({"made", "failed"})] /\ \A v \in Versions : Len(fetched[v]) <= MaxFetches
\* A fetch held is one that was made and has not failed.
ValuesLive ==
  /\ value \in [Versions -> Nat]
  /\ \A v \in Versions : value[v] # 0 => value[v] \in 1..Len(fetched[v]) /\ fetched[v][value[v]] # "failed"
ResolvedLive ==
  /\ resolved \in [version : Versions \cup {0}, fetch : Nat]
  /\ resolved.version # 0 => resolved.fetch \in 1..Len(fetched[resolved.version])
FlagsOfSchemas ==
  {caching, stored, modified, expired, refresh} \subseteq BOOLEAN /\ (stored => caching) /\ (refresh => stored)
SchemasInv == FlagsOfSchemas /\ IdsFit /\ EntryTracks /\ FetchedTyped /\ ValuesLive /\ ResolvedLive

\* What is assumed of the constants.
LEMMA SchemasBounds == 0 \notin Versions /\ CacheMaxSize \in Nat \ {0} /\ MaxFetches \in Nat
BY FetchAssumption

\* The invariant gives the property of the part.
LEMMA SchemasHold == SchemasInv => schemas!TypeOK /\ schemas!VersionsResolved
<1> SUFFICES ASSUME SchemasInv PROVE schemas!TypeOK /\ schemas!VersionsResolved
  OBVIOUS
<1>1. \A v \in Versions : fetched[v] \in Seq({"made", "failed"}) /\ Len(fetched[v]) \in Nat
  BY DEF SchemasInv, FetchedTyped
<1>2. \A v \in Versions : value[v] \in 0..MaxFetches
  BY <1>1, SchemasBounds DEF SchemasInv, ValuesLive, FetchedTyped
<1>3. value \in [Versions -> 0..MaxFetches]
  BY <1>2 DEF SchemasInv, ValuesLive
<1>4. schemas!TypeOK
  BY <1>1, <1>3 DEF SchemasInv, FlagsOfSchemas, IdsFit, schemas!TypeOK
<1>5. resolved.version # 0 => resolved.fetch \in DOMAIN fetched[resolved.version]
  BY <1>1 DEF SchemasInv, ResolvedLive
<1>6. stored => /\ schemas!ToSet(ids) = {v \in Versions : value[v] # 0} /\ Len(ids) <= CacheMaxSize
                /\ \A v \in schemas!ToSet(ids) : fetched[v][value[v]] # "failed"
  BY DEF SchemasInv, EntryTracks, IdsFit, ValuesLive
<1> QED BY <1>4, <1>5, <1>6 DEF schemas!VersionsResolved

\* It holds when a container starts.
LEMMA SchemasInit == schemas!Init => SchemasInv
<1> SUFFICES ASSUME schemas!Init PROVE SchemasInv
  OBVIOUS
<1>1. /\ caching \in BOOLEAN /\ ids = <<>> /\ stored = FALSE /\ value = schemas!NoValue
      /\ modified = FALSE /\ expired = FALSE /\ refresh = FALSE
      /\ fetched = [v \in Versions |-> <<>>] /\ resolved = [version |-> 0, fetch |-> 0]
  BY DEF schemas!Init
<1>2. FlagsOfSchemas
  BY <1>1 DEF FlagsOfSchemas
<1>3. IdsFit
  BY <1>1, SchemasBounds DEF IdsFit, schemas!IsInjective
<1>4. EntryTracks /\ ValuesLive
  BY <1>1 DEF EntryTracks, ValuesLive, schemas!NoValue
<1>5. FetchedTyped /\ ResolvedLive
  BY <1>1, SchemasBounds DEF FetchedTyped, ResolvedLive
<1> QED BY <1>2, <1>3, <1>4, <1>5 DEF SchemasInv

\* The tracked versions are a sequence without repetitions.
LEMMA IdsAre ==
  ASSUME IdsFit
  PROVE  /\ ids \in Seq(Versions) /\ Len(ids) \in Nat /\ Len(ids) <= CacheMaxSize
         /\ \A i, j \in 1..Len(ids) : ids[i] = ids[j] => i = j
         /\ \A w : w \in schemas!ToSet(ids) <=> \E i \in 1..Len(ids) : ids[i] = w
BY DEF IdsFit, schemas!IsInjective, schemas!ToSet

\* The same of any sequence that is to become the ids.
LEMMA IdsBecome ==
  ASSUME NEW t \in Seq(Versions), Len(t) <= CacheMaxSize, ids' = t,
         \A i, j \in 1..Len(t) : t[i] = t[j] => i = j
  PROVE  IdsFit' /\ \A w : w \in schemas!ToSet(t) <=> \E i \in 1..Len(t) : t[i] = w
BY DEF IdsFit, schemas!IsInjective, schemas!ToSet

\* Tracking a version makes room for it.
LEMMA TrackedFits ==
  ASSUME IdsFit, NEW v \in Versions, ids' = schemas!Tracked(v)
  PROVE  IdsFit' /\ v \in schemas!ToSet(ids')
<1>0. CacheMaxSize \in Nat \ {0}
  BY SchemasBounds
<1>1. CASE v \in schemas!ToSet(ids)
  BY <1>1 DEF schemas!Tracked, IdsFit
<1>2. CASE v \notin schemas!ToSet(ids) /\ Len(ids) < CacheMaxSize
  <2> DEFINE t == Append(ids, v)
  <2>1. ids' = t
    BY <1>2 DEF schemas!Tracked
  <2>2. /\ t \in Seq(Versions) /\ Len(t) = Len(ids) + 1 /\ t[Len(ids) + 1] = v
        /\ \A i \in 1..Len(ids) : t[i] = ids[i]
    BY IdsAre
  <2> HIDE DEF t
  <2>3. \A i, j \in 1..Len(t) : t[i] = t[j] => i = j
    BY <1>2, <2>2, IdsAre
  <2> QED BY <1>0, <1>2, <2>1, <2>2, <2>3, IdsAre, IdsBecome
<1>3. CASE v \notin schemas!ToSet(ids) /\ ~(Len(ids) < CacheMaxSize)
  <2> DEFINE t == Append(Tail(ids), v)
  <2>1. ids' = t
    BY <1>3 DEF schemas!Tracked
  <2>2. /\ t \in Seq(Versions) /\ Len(t) = Len(ids) /\ t[Len(ids)] = v
        /\ \A i \in 1..Len(ids) - 1 : t[i] = ids[i + 1]
    BY <1>0, <1>3, IdsAre
  <2> HIDE DEF t
  <2>3. \A i, j \in 1..Len(t) : t[i] = t[j] => i = j
    BY <1>3, <2>2, IdsAre
  <2> QED BY <1>0, <1>3, <2>1, <2>2, <2>3, IdsAre, IdsBecome
<1> QED BY <1>1, <1>2, <1>3

\* A sequence without its n-th element.
LEMMA RemoveAtIs ==
  ASSUME NEW S, NEW s \in Seq(S), NEW n \in 1..Len(s)
  PROVE  \E t \in Seq(S) :
           /\ t = SubSeq(s, 1, n - 1) \o SubSeq(s, n + 1, Len(s)) /\ Len(t) = Len(s) - 1
           /\ \A i \in 1..Len(t) : t[i] = IF i < n THEN s[i] ELSE s[i + 1]
<1>0. Len(s) \in Nat /\ n \in Nat /\ n >= 1 /\ n <= Len(s) /\ \A i \in 1..Len(s) : s[i] \in S
  OBVIOUS
<1> DEFINE p == SubSeq(s, 1, n - 1)
           q == SubSeq(s, n + 1, Len(s))
<1>1. p \in Seq(S) /\ Len(p) = n - 1 /\ \A i \in 1..n - 1 : p[i] = s[i]
  <2>1. \A i \in 1..n - 1 : s[i] \in S
    BY <1>0
  <2>2. 1 \in Int /\ n - 1 \in Int
    BY <1>0
  <2>3. /\ p \in Seq(S) /\ Len(p) = (IF 1 <= n - 1 THEN n - 1 - 1 + 1 ELSE 0)
        /\ \A i \in 1..n - 1 - 1 + 1 : p[i] = s[1 + i - 1]
    BY <2>1, <2>2, SubSeqProperties
  <2> HIDE DEF p
  <2> QED BY <1>0, <2>3
<1>2. q \in Seq(S) /\ Len(q) = Len(s) - n /\ \A i \in 1..Len(s) - n : q[i] = s[n + i]
  <2>1. \A i \in n + 1..Len(s) : s[i] \in S
    BY <1>0
  <2>2. n + 1 \in Int /\ Len(s) \in Int
    BY <1>0
  <2>3. /\ q \in Seq(S) /\ Len(q) = (IF n + 1 <= Len(s) THEN Len(s) - (n + 1) + 1 ELSE 0)
        /\ \A i \in 1..Len(s) - (n + 1) + 1 : q[i] = s[n + 1 + i - 1]
    BY <2>1, <2>2, SubSeqProperties
  <2> HIDE DEF q
  <2> QED BY <1>0, <2>3
<1> DEFINE t == p \o q
<1>3. t = SubSeq(s, 1, n - 1) \o SubSeq(s, n + 1, Len(s))
  OBVIOUS
<1> HIDE DEF p, q
<1>4. /\ t \in Seq(S) /\ Len(t) = Len(p) + Len(q)
      /\ \A i \in 1..Len(p) + Len(q) : t[i] = IF i <= Len(p) THEN p[i] ELSE q[i - Len(p)]
  BY <1>1, <1>2, ConcatProperties
<1> HIDE DEF t
<1>5. Len(p) = n - 1 /\ Len(q) = Len(s) - n 
  BY <1>1, <1>2
<1>6. t \in Seq(S) /\ Len(t) = Len(s) - 1
  BY <1>0, <1>4, <1>5
<1>7. ASSUME NEW i \in 1..Len(t) PROVE t[i] = IF i < n THEN s[i] ELSE s[i + 1]
  <2>1. i \in Nat /\ i >= 1 /\ i <= Len(s) - 1
    BY <1>0, <1>6
  <2>2. t[i] = IF i <= n - 1 THEN p[i] ELSE q[i - (n - 1)]
    BY <1>0, <1>4, <1>5, <2>1
  <2>3. CASE i < n
    BY <1>0, <1>1, <1>5, <2>1, <2>2, <2>3
  <2>4. CASE ~(i < n)
    <3>1. i - (n - 1) \in 1..Len(s) - n /\ n + (i - (n - 1)) = i + 1
      BY <1>0, <1>5, <2>1, <2>4
    <3> QED BY <1>2, <1>5, <2>1, <2>2, <2>4, <3>1
  <2> QED BY <2>3, <2>4
<1> QED BY <1>3, <1>6, <1>7

\* A version that is no longer tracked leaves the others.
LEMMA UntrackedFits ==
  ASSUME IdsFit, NEW v \in schemas!ToSet(ids), ids' = schemas!Untracked(v)
  PROVE  IdsFit' /\ schemas!ToSet(ids') = schemas!ToSet(ids) \ {v}
<1>0. CacheMaxSize \in Nat \ {0}
  BY SchemasBounds
<1> DEFINE n == CHOOSE i \in DOMAIN ids : ids[i] = v
<1>1. n \in 1..Len(ids) /\ ids[n] = v
  BY IdsAre
<1>2. ids' = SubSeq(ids, 1, n - 1) \o SubSeq(ids, n + 1, Len(ids))
  BY DEF schemas!Untracked, schemas!RemoveAt
<1> HIDE DEF n
<1>3. ids \in Seq(Versions)
  BY IdsAre
<1>4. PICK t \in Seq(Versions) :
        /\ t = SubSeq(ids, 1, n - 1) \o SubSeq(ids, n + 1, Len(ids)) /\ Len(t) = Len(ids) - 1
        /\ \A i \in 1..Len(t) : t[i] = IF i < n THEN ids[i] ELSE ids[i + 1]
  BY <1>1, <1>3, RemoveAtIs
<1>5. ids' = t
  BY <1>2, <1>4
<1>6. Len(t) = Len(ids) - 1 /\ \A i \in 1..Len(t) : t[i] = IF i < n THEN ids[i] ELSE ids[i + 1]
  BY <1>4
<1>8. \A i, j \in 1..Len(t) : t[i] = t[j] => i = j
  BY <1>1, <1>6, IdsAre
<1>9. ASSUME NEW w PROVE (\E i \in 1..Len(t) : t[i] = w) <=> w # v /\ \E i \in 1..Len(ids) : ids[i] = w
  <2>1. ASSUME NEW i \in 1..Len(t), t[i] = w PROVE w # v /\ \E j \in 1..Len(ids) : ids[j] = w
    <3>1. CASE i < n
      BY <1>1, <1>6, <2>1, <3>1, IdsAre
    <3>2. CASE ~(i < n)
      <4>1. i + 1 \in 1..Len(ids) /\ ids[i + 1] = w
        BY <1>1, <1>6, <2>1, <3>2, IdsAre
      <4> QED BY <1>1, <3>2, <4>1, IdsAre
    <3> QED BY <3>1, <3>2
  <2>2. ASSUME w # v, NEW j \in 1..Len(ids), ids[j] = w PROVE \E i \in 1..Len(t) : t[i] = w
    <3>1. CASE j < n
      BY <1>1, <1>6, <2>2, <3>1, IdsAre
    <3>2. CASE j > n
      <4>1. j - 1 \in 1..Len(t) /\ t[j - 1] = w
        BY <1>1, <1>6, <2>2, <3>2, IdsAre
      <4> QED BY <4>1
    <3> QED BY <1>1, <2>2, <3>1, <3>2, IdsAre
  <2> QED BY <2>1, <2>2
<1>10. IdsFit' /\ \A w : w \in schemas!ToSet(ids') <=> \E i \in 1..Len(t) : t[i] = w
  BY <1>0, <1>5, <1>6, <1>8, IdsAre, IdsBecome
<1> QED BY <1>9, <1>10, IdsAre

\* Every version tracked gets a fetch, of those that were made or one of its own.
LEMMA FetchesAre ==
  ASSUME FetchedTyped, NEW tracked \in SUBSET Versions, NEW have \in [Versions -> Nat],
         \A w \in Versions : have[w] # 0 => have[w] \in 1..Len(fetched[w]) /\ fetched[w][have[w]] # "failed",
         schemas!FetchRequest(tracked, have)
  PROVE  /\ FetchedTyped' /\ \A w \in Versions : Len(fetched'[w]) >= Len(fetched[w])
         /\ \A w \in tracked : have[w] = 0 => Len(fetched'[w]) \in Nat \ {0}
         /\ schemas!Values(tracked, have) \in [Versions -> Nat]
         /\ {w \in Versions : schemas!Values(tracked, have)[w] # 0} = tracked \cup {w \in Versions : have[w] # 0}
         /\ \A w \in Versions : schemas!Values(tracked, have)[w] # 0 =>
              /\ schemas!Values(tracked, have)[w] \in 1..Len(fetched'[w])
              /\ fetched'[w][schemas!Values(tracked, have)[w]] # "failed"
<1> DEFINE missing == {w \in tracked : have[w] = 0}
           new == schemas!Values(tracked, have)
<1>1. /\ \A w \in missing : Len(fetched[w]) < MaxFetches
      /\ fetched' = [w \in Versions |-> IF w \in missing THEN Append(fetched[w], "made") ELSE fetched[w]]
  BY DEF schemas!FetchRequest
<1>2. \A w \in Versions : fetched[w] \in Seq({"made", "failed"}) /\ Len(fetched[w]) \in Nat
                          /\ Len(fetched[w]) <= MaxFetches
  BY DEF FetchedTyped
<1>3. ASSUME NEW w \in missing
      PROVE  /\ fetched'[w] \in Seq({"made", "failed"}) /\ Len(fetched'[w]) = Len(fetched[w]) + 1
             /\ fetched'[w][Len(fetched[w]) + 1] = "made"
  <2>1. fetched'[w] = Append(fetched[w], "made") /\ fetched[w] \in Seq({"made", "failed"})
    BY <1>1, <1>2
  <2> QED BY <2>1
<1>4. \A w \in Versions \ missing : fetched'[w] = fetched[w]
  BY <1>1
<1>5. FetchedTyped'
  <2>1. \A w \in Versions : fetched'[w] \in Seq({"made", "failed"}) /\ Len(fetched'[w]) <= MaxFetches
    BY <1>1, <1>2, <1>3, <1>4, SchemasBounds
  <2>2. fetched' \in [Versions -> Seq({"made", "failed"})]
    BY <1>1, <2>1
  <2> QED BY <2>1, <2>2 DEF FetchedTyped
<1>6. new = [w \in Versions |-> IF w \in missing THEN Len(fetched'[w]) ELSE have[w]]
  BY DEF schemas!Values
<1> HIDE DEF new, missing
<1>7. missing = {w \in tracked : have[w] = 0}
  BY DEF missing
<1>8. \A w \in Versions : Len(fetched'[w]) >= Len(fetched[w])
  BY <1>2, <1>3, <1>4
<1>9. ASSUME NEW w \in Versions
      PROVE  /\ new[w] \in Nat /\ (new[w] # 0 <=> w \in tracked \/ have[w] # 0)
             /\ new[w] # 0 => new[w] \in 1..Len(fetched'[w]) /\ fetched'[w][new[w]] # "failed"
  <2>1. CASE w \in missing
    <3>1. new[w] = Len(fetched[w]) + 1
      BY <1>3, <1>6, <2>1
    <3> QED BY <1>2, <1>3, <1>7, <2>1, <3>1
  <2>2. CASE w \notin missing
    <3>1. new[w] = have[w] /\ fetched'[w] = fetched[w]
      BY <1>4, <1>6, <2>2
    <3> QED BY <1>7, <2>2, <3>1
  <2> QED BY <2>1, <2>2
<1>10. new \in [Versions -> Nat]
  BY <1>6, <1>9
<1>11. \A w \in tracked : have[w] = 0 => Len(fetched'[w]) \in Nat \ {0}
  BY <1>2, <1>3, <1>7
<1>12. {w \in Versions : new[w] # 0} = tracked \cup {w \in Versions : have[w] # 0}
  BY <1>9
<1> QED BY <1>5, <1>8, <1>9, <1>10, <1>11, <1>12 DEF new

\* What was resolved stays so as long as no fetch is forgotten.
LEMMA StillResolved ==
  ASSUME SchemasInv, FetchedTyped', \A w \in Versions : Len(fetched'[w]) >= Len(fetched[w]), resolved' = resolved
  PROVE  ResolvedLive'
BY SchemasBounds DEF SchemasInv, ResolvedLive, FetchedTyped

\* A caller of resolveSchemaVersion resolves its own version, from the entry or a fetch.
LEMMA ResolvesSchemas ==
  ASSUME SchemasInv, NEW v \in Versions, schemas!ResolveSchemaVersion(v)
  PROVE  SchemasInv'
<1>1. /\ resolved' = [version |-> v, fetch |-> IF caching THEN value'[v] ELSE Len(fetched'[v])]
      /\ modified' = FALSE /\ expired' = FALSE /\ caching' = caching
  BY DEF schemas!ResolveSchemaVersion
<1>2. /\ FlagsOfSchemas /\ IdsFit /\ EntryTracks /\ FetchedTyped /\ ValuesLive /\ ResolvedLive
      /\ \A w \in Versions : Len(fetched[w]) \in Nat
  BY DEF SchemasInv, FetchedTyped
<1> DEFINE Goal == /\ stored' \in BOOLEAN /\ (stored' => caching) /\ refresh' \in BOOLEAN /\ (refresh' => stored')
                   /\ IdsFit' /\ EntryTracks' /\ FetchedTyped' /\ ValuesLive'
                   /\ \A w \in Versions : Len(fetched'[w]) >= Len(fetched[w])
                   /\ IF caching THEN value'[v] # 0 ELSE Len(fetched'[v]) \in Nat \ {0}
<1>3. ASSUME schemas!FromEntry(v) PROVE Goal
  <2> DEFINE kept == [w \in Versions |-> IF w \in schemas!ToSet(schemas!Tracked(v)) THEN value[w] ELSE 0]
  <2>1. stored /\ caching /\ ids' = schemas!Tracked(v) /\ stored' = stored
    BY <1>2, <1>3 DEF schemas!FromEntry, FlagsOfSchemas
  <2>2. IdsFit' /\ v \in schemas!ToSet(ids')
    BY <1>2, <2>1, TrackedFits
  <2>3. schemas!ToSet(ids') \subseteq Versions
    BY <2>2 DEF IdsFit, schemas!ToSet
  <2>4. CASE schemas!Flagged(v)
    <3>1. /\ schemas!FetchRequest(schemas!ToSet(ids'), kept) /\ value' = schemas!Values(schemas!ToSet(ids'), kept)
          /\ refresh' = TRUE
      BY <1>3, <2>1, <2>4 DEF schemas!FromEntry
    <3>2. /\ kept \in [Versions -> Nat]
          /\ \A w \in Versions : kept[w] # 0 => kept[w] = value[w] /\ w \in schemas!ToSet(ids')
      BY <1>2, <2>1 DEF ValuesLive
    <3> HIDE DEF kept
    <3>3. \A w \in Versions : kept[w] # 0 => kept[w] \in 1..Len(fetched[w]) /\ fetched[w][kept[w]] # "failed"
      BY <1>2, <3>2 DEF ValuesLive
    <3> DEFINE new == schemas!Values(schemas!ToSet(ids'), kept)
    <3>8. /\ FetchedTyped' /\ \A w \in Versions : Len(fetched'[w]) >= Len(fetched[w])
          /\ new \in [Versions -> Nat]
          /\ {w \in Versions : new[w] # 0} = schemas!ToSet(ids') \cup {w \in Versions : kept[w] # 0}
          /\ \A w \in Versions : new[w] # 0 => new[w] \in 1..Len(fetched'[w]) /\ fetched'[w][new[w]] # "failed"
      <4>1. FetchedTyped /\ schemas!ToSet(ids') \in SUBSET Versions /\ kept \in [Versions -> Nat]
        BY <1>2, <2>3, <3>2
      <4>2. schemas!FetchRequest(schemas!ToSet(ids'), kept)
        BY <3>1
      <4> QED BY <3>3, <4>1, <4>2, FetchesAre
    <3>9. value' = new
      BY <3>1
    <3> HIDE DEF new
    <3>4. /\ FetchedTyped' /\ \A w \in Versions : Len(fetched'[w]) >= Len(fetched[w])
          /\ value' \in [Versions -> Nat]
          /\ {w \in Versions : value'[w] # 0} = schemas!ToSet(ids') \cup {w \in Versions : kept[w] # 0}
          /\ \A w \in Versions :
               value'[w] # 0 => value'[w] \in 1..Len(fetched'[w]) /\ fetched'[w][value'[w]] # "failed"
      BY <3>8, <3>9
    <3>5. ValuesLive'
      BY <3>4 DEF ValuesLive
    <3>6. {w \in Versions : value'[w] # 0} = schemas!ToSet(ids')
      BY <2>3, <3>2, <3>4
    <3>7. EntryTracks' /\ value'[v] # 0
      BY <2>1, <2>2, <3>6 DEF EntryTracks
    <3> QED BY <2>1, <2>2, <3>1, <3>4, <3>5, <3>7
  <2>5. CASE ~schemas!Flagged(v)
    <3>1. fetched' = fetched /\ value' = value /\ refresh' = refresh
      BY <1>3, <2>5 DEF schemas!FromEntry
    <3>2. v \in schemas!ToSet(ids) /\ ids' = ids
      BY <2>1, <2>5 DEF schemas!Flagged, schemas!Tracked
    <3>3. FetchedTyped' /\ ValuesLive' /\ EntryTracks'
      BY <1>2, <2>1, <3>1, <3>2 DEF FetchedTyped, ValuesLive, EntryTracks
    <3>4. value'[v] # 0
      BY <1>2, <2>1, <3>1, <3>2 DEF EntryTracks
    <3>5. refresh' \in BOOLEAN /\ (refresh' => stored') /\ stored' \in BOOLEAN
      BY <1>2, <2>1, <3>1 DEF FlagsOfSchemas
    <3>6. \A w \in Versions : Len(fetched'[w]) >= Len(fetched[w])
      BY <1>2, <3>1
    <3> QED BY <2>1, <2>2, <3>3, <3>4, <3>5, <3>6
  <2> QED BY <2>4, <2>5
<1>4. ASSUME schemas!Stores(v) PROVE Goal
  <2> DEFINE none == [w \in Versions |-> 0]
  <2>1. /\ ids' = (IF stored THEN schemas!Tracked(v) ELSE <<v>>)
        /\ schemas!FetchRequest(schemas!ToSet(ids'), none) /\ stored' = caching /\ refresh' = caching
        /\ value' = IF caching THEN schemas!Values(schemas!ToSet(ids'), none) ELSE none
    BY <1>4 DEF schemas!Stores, schemas!NoValue
  <2>2. IdsFit' /\ v \in schemas!ToSet(ids')
    <3>1. CASE stored
      BY <1>2, <2>1, <3>1, TrackedFits
    <3>2. CASE ~stored
      <4> DEFINE t == <<v>>
      <4>1. ids' = t /\ t \in Seq(Versions) /\ Len(t) = 1 /\ t[1] = v
        BY <2>1, <3>2
      <4> HIDE DEF t
      <4>2. Len(t) <= CacheMaxSize /\ \A i, j \in 1..Len(t) : t[i] = t[j] => i = j
        BY <4>1, SchemasBounds
      <4>3. IdsFit' /\ \A w : w \in schemas!ToSet(t) <=> \E i \in 1..Len(t) : t[i] = w
        BY <4>1, <4>2, IdsBecome
      <4> QED BY <4>1, <4>3
    <3> QED BY <3>1, <3>2
  <2>3. schemas!ToSet(ids') \subseteq Versions
    BY <2>2 DEF IdsFit, schemas!ToSet
  <2>4. none \in [Versions -> Nat] /\ \A w \in Versions : none[w] = 0
    OBVIOUS
  <2> DEFINE new == schemas!Values(schemas!ToSet(ids'), none)
  <2>5. value' = IF caching THEN new ELSE none
    BY <2>1
  <2> HIDE DEF none
  <2>6. /\ FetchedTyped' /\ \A w \in Versions : Len(fetched'[w]) >= Len(fetched[w])
        /\ \A w \in schemas!ToSet(ids') : none[w] = 0 => Len(fetched'[w]) \in Nat \ {0}
        /\ new \in [Versions -> Nat]
        /\ {w \in Versions : new[w] # 0} = schemas!ToSet(ids') \cup {w \in Versions : none[w] # 0}
        /\ \A w \in Versions : new[w] # 0 => new[w] \in 1..Len(fetched'[w]) /\ fetched'[w][new[w]] # "failed"
    <3>1. /\ FetchedTyped /\ schemas!FetchRequest(schemas!ToSet(ids'), none)
          /\ schemas!ToSet(ids') \in SUBSET Versions /\ none \in [Versions -> Nat]
      BY <1>2, <2>1, <2>3, <2>4
    <3>2. \A w \in Versions : none[w] # 0 => none[w] \in 1..Len(fetched[w]) /\ fetched[w][none[w]] # "failed"
      BY <2>4
    <3> QED BY <3>1, <3>2, FetchesAre
  <2> HIDE DEF new
  <2>7. {w \in Versions : new[w] # 0} = schemas!ToSet(ids')
    BY <2>4, <2>6
  <2>8. ValuesLive'
    BY <2>4, <2>5, <2>6 DEF ValuesLive
  <2>9. EntryTracks'
    BY <2>1, <2>5, <2>7 DEF EntryTracks, none
  <2>10. IF caching THEN value'[v] # 0 ELSE Len(fetched'[v]) \in Nat \ {0}
    BY <2>2, <2>4, <2>5, <2>6, <2>7
  <2>11. caching \in BOOLEAN
    BY <1>2 DEF FlagsOfSchemas
  <2> QED BY <2>1, <2>2, <2>6, <2>8, <2>9, <2>10, <2>11
<1>5. Goal
  BY <1>3, <1>4 DEF schemas!ResolveSchemaVersion
<1> HIDE DEF Goal
<1>6. FlagsOfSchemas'
  BY <1>1, <1>2, <1>5 DEF FlagsOfSchemas, Goal
<1>7. ResolvedLive'
  <2>1. resolved'.fetch \in 1..Len(fetched'[v]) /\ Len(fetched'[v]) \in Nat
    BY <1>1, <1>5 DEF Goal, ValuesLive, FetchedTyped
  <2> QED BY <1>1, <2>1 DEF ResolvedLive
<1> QED BY <1>5, <1>6, <1>7 DEF SchemasInv, Goal

\* Every step of glue-schema-registry keeps the invariant.
LEMMA SchemasNext == SchemasInv /\ schemas!Next => SchemasInv'
<1> SUFFICES ASSUME SchemasInv, schemas!Next PROVE SchemasInv'
  OBVIOUS
<1>0. /\ FlagsOfSchemas /\ IdsFit /\ EntryTracks /\ FetchedTyped /\ ValuesLive /\ ResolvedLive
      /\ \A w \in Versions : Len(fetched[w]) \in Nat
  BY DEF SchemasInv, FetchedTyped
<1>1. ASSUME NEW v \in Versions, schemas!ResolveSchemaVersion(v) PROVE SchemasInv'
  BY <1>1, ResolvesSchemas
<1>2. ASSUME NEW v \in Versions, NEW n \in DOMAIN fetched[v], schemas!Fails(v, n) PROVE SchemasInv'
  <2>1. /\ fetched' = [fetched EXCEPT ![v][n] = "failed"] /\ fetched[v] \in Seq({"made", "failed"})
        /\ n \in 1..Len(fetched[v])
        /\ caching' = caching /\ stored' = stored /\ expired' = expired /\ resolved' = resolved
    BY <1>0, <1>2 DEF schemas!Fails, FetchedTyped
  <2>2. /\ fetched'[v] = [fetched[v] EXCEPT ![n] = "failed"]
        /\ \A w \in Versions \ {v} : fetched'[w] = fetched[w]
    BY <1>0, <2>1 DEF FetchedTyped
  <2>3. fetched'[v] \in Seq({"made", "failed"}) /\ Len(fetched'[v]) = Len(fetched[v])
        /\ \A j \in 1..Len(fetched[v]) : j # n => fetched'[v][j] = fetched[v][j]
    BY <2>1, <2>2
  <2>4. FetchedTyped' /\ \A w \in Versions : Len(fetched'[w]) = Len(fetched[w])
    BY <1>0, <2>1, <2>2, <2>3 DEF FetchedTyped
  <2>5. ResolvedLive'
    BY <1>0, <2>1, <2>4 DEF ResolvedLive
  <2>6. CASE schemas!Holds(v, n)
    <3>1. /\ stored /\ value[v] = n /\ ids' = schemas!Untracked(v) /\ value' = [value EXCEPT ![v] = 0]
          /\ modified' = TRUE /\ refresh' = FALSE
      BY <1>2, <2>6 DEF schemas!Fails, schemas!Holds
    <3>2. v \in schemas!ToSet(ids)
      BY <1>0, <2>1, <3>1 DEF EntryTracks
    <3>3. IdsFit' /\ schemas!ToSet(ids') = schemas!ToSet(ids) \ {v}
      BY <1>0, <3>1, <3>2, UntrackedFits
    <3>4. value' \in [Versions -> Nat] /\ \A w \in Versions : value'[w] = IF w = v THEN 0 ELSE value[w]
      BY <1>0, <3>1 DEF ValuesLive
    <3>5. ValuesLive'
      BY <1>0, <2>2, <3>4 DEF ValuesLive
    <3>6. EntryTracks'
      BY <1>0, <2>1, <3>1, <3>3, <3>4 DEF EntryTracks
    <3>7. FlagsOfSchemas'
      BY <1>0, <2>1, <3>1 DEF FlagsOfSchemas
    <3> QED BY <2>4, <2>5, <3>3, <3>5, <3>6, <3>7 DEF SchemasInv
  <2>7. CASE ~schemas!Holds(v, n)
    <3>1. UNCHANGED <<ids, value, modified, refresh>>
      BY <1>2, <2>7 DEF schemas!Fails
    <3>2. value[v] # n
      BY <1>0, <2>1, <2>7 DEF schemas!Holds, EntryTracks
    <3>3. ValuesLive'
      BY <1>0, <2>2, <2>3, <2>4, <3>1, <3>2 DEF ValuesLive
    <3>4. IdsFit' /\ EntryTracks' /\ FlagsOfSchemas'
      BY <1>0, <2>1, <3>1 DEF IdsFit, EntryTracks, FlagsOfSchemas
    <3> QED BY <2>4, <2>5, <3>3, <3>4 DEF SchemasInv
  <2> QED BY <2>6, <2>7
<1>3. CASE schemas!Refresh
  <2> DEFINE none == [w \in Versions |-> 0]
             new == schemas!Values(schemas!ToSet(ids), none)
  <2>1. /\ refresh /\ schemas!FetchRequest(schemas!ToSet(ids), none) /\ value' = new
        /\ modified' = FALSE /\ expired' = FALSE /\ UNCHANGED <<caching, ids, stored, refresh, resolved>>
    BY <1>3 DEF schemas!Refresh, schemas!NoValue
  <2>2. schemas!ToSet(ids) \subseteq Versions
    BY <1>0 DEF IdsFit, schemas!ToSet
  <2>3. none \in [Versions -> Nat] /\ \A w \in Versions : none[w] = 0
    OBVIOUS
  <2> HIDE DEF none
  <2>4. /\ FetchedTyped' /\ \A w \in Versions : Len(fetched'[w]) >= Len(fetched[w])
        /\ new \in [Versions -> Nat]
        /\ {w \in Versions : new[w] # 0} = schemas!ToSet(ids) \cup {w \in Versions : none[w] # 0}
        /\ \A w \in Versions : new[w] # 0 => new[w] \in 1..Len(fetched'[w]) /\ fetched'[w][new[w]] # "failed"
    BY <1>0, <2>1, <2>2, <2>3, FetchesAre
  <2> HIDE DEF new
  <2>5. ValuesLive'
    BY <2>1, <2>4 DEF ValuesLive
  <2>6. IdsFit' /\ FlagsOfSchemas' /\ stored' = TRUE
    BY <1>0, <2>1 DEF IdsFit, FlagsOfSchemas
  <2>7. EntryTracks'
    BY <2>1, <2>3, <2>4, <2>6 DEF EntryTracks
  <2>8. ResolvedLive'
    BY <2>1, <2>4, StillResolved
  <2> QED BY <2>4, <2>5, <2>6, <2>7, <2>8 DEF SchemasInv
<1>4. CASE schemas!Expire
  BY <1>0, <1>4
  DEF schemas!Expire, SchemasInv, FlagsOfSchemas, IdsFit, EntryTracks, FetchedTyped, ValuesLive, ResolvedLive
<1>5. CASE schemas!Drop
  <2>1. /\ stored' = FALSE /\ value' = [w \in Versions |-> 0] /\ modified' = FALSE /\ expired' = FALSE
        /\ refresh' = FALSE /\ UNCHANGED <<caching, ids, fetched, resolved>>
    BY <1>5 DEF schemas!Drop, schemas!NoValue
  <2>2. ValuesLive' /\ EntryTracks'
    BY <1>0, <2>1 DEF ValuesLive, EntryTracks
  <2>3. FlagsOfSchemas' /\ IdsFit' /\ FetchedTyped' /\ ResolvedLive'
    BY <1>0, <2>1 DEF FlagsOfSchemas, IdsFit, FetchedTyped, ResolvedLive
  <2> QED BY <2>2, <2>3 DEF SchemasInv
<1> QED BY <1>1, <1>2, <1>3, <1>4, <1>5 DEF schemas!Next

\* The invariant depends on no other part.
LEMMA SchemasSame == SchemasInv /\ UNCHANGED schemasVars => SchemasInv'
BY DEF schemasVars, SchemasInv, EntryTracks, IdsFit, FetchedTyped, ValuesLive, ResolvedLive, FlagsOfSchemas

----------------------------------------------------------------------------
(* ConfigSession                                                           *)

\* One fetch is under way at most, and it is the one invocations join.
FetchesTyped ==
  /\ inflight \in 0..2
  /\ fetch \in [1..2 -> [pc : {"none", "session", "latest", "answered"}, token : 0..4, next : 0..4, answer : Nat]]
  /\ \A f \in 1..2 : (fetch[f].pc # "none") <=> (inflight = f)
  /\ \A f \in 1..2 : fetch[f].pc \in {"none", "session"} =>
       fetch[f].token = 0 /\ fetch[f].next = 0 /\ fetch[f].answer = 0
SessionsTyped ==
  /\ tokenCache \in 0..4 /\ tokenExpired \in BOOLEAN
  /\ config \in Nat \ {0} /\ configuration \in Nat /\ session \in [1..4 -> Int]
\* A session had last what is cached, or nothing yet.
Current(t) == t \in 1..4 /\ session[t] \in {0, configuration}
\* Between fetches the cached token is current or has expired; a fetch that has a token of its
\* own to use has the cached one, or that is of no use; and the one it was answered with is
\* current once its answer is cached.
TokensCurrent ==
  /\ inflight = 0 /\ tokenCache # 0 => tokenExpired \/ Current(tokenCache)
  /\ \A f \in 1..2 :
       /\ fetch[f].pc = "session" => tokenCache = 0 \/ tokenExpired
       /\ fetch[f].pc = "latest" => Current(fetch[f].token) /\ fetch[f].next = 0
       /\ fetch[f].pc = "answered" =>
            /\ fetch[f].next \in 1..4
            /\ session[fetch[f].next] = IF fetch[f].answer = 0 THEN configuration ELSE fetch[f].answer
AppInv == FetchesTyped /\ SessionsTyped /\ TokensCurrent

sessionState == <<tokenCache, tokenExpired, configuration, inflight, fetch, config, session>>

\* A fetch that is to send a token has one that is current.
LEMMA AppHolds == AppInv => appconfig!TokensSingleUse
BY DEF AppInv, TokensCurrent, Current, appconfig!TokensSingleUse, appconfig!Fetches

\* It is so when a container starts.
LEMMA AppInit == appconfig!Init => AppInv
<1> SUFFICES ASSUME appconfig!Init PROVE AppInv
  OBVIOUS
<1>1. /\ tokenCache = 0 /\ tokenExpired = FALSE /\ configuration = 0 /\ config = 1 /\ inflight = 0
  BY DEF appconfig!Init, appconfig!NoToken, appconfig!NoFetch
<1>4. /\ fetch = [f \in 1..2 |-> [pc |-> "none", token |-> 0, next |-> 0, answer |-> 0]]
      /\ session = [t \in 1..4 |-> -1]
  BY DEF appconfig!Init, appconfig!NotFetching, appconfig!NoToken, appconfig!Fetches, appconfig!PollTokens,
         appconfig!Void
<1>2. FetchesTyped
  BY <1>1, <1>4 DEF FetchesTyped
<1>5. SessionsTyped
  <2>1. -1 \in Int /\ 0 \in Nat /\ 1 \in Nat \ {0} /\ 0 \in 0..4
    OBVIOUS
  <2> QED BY <1>1, <1>4, <2>1 DEF SessionsTyped
<1>3. TokensCurrent
  BY <1>1, <1>4 DEF TokensCurrent
<1> QED BY <1>2, <1>3, <1>5 DEF AppInv

\* It depends on no more than the session.
LEMMA AppSame == AppInv /\ UNCHANGED sessionState => AppInv'
BY DEF AppInv, FetchesTyped, SessionsTyped, TokensCurrent, Current, sessionState

\* A fetch is joined, or begun with the cached token while that is of use.
LEMMA AppFetches ==
  ASSUME AppInv, NEW who, appconfig!FetchRequest(who),
         UNCHANGED <<tokenCache, tokenExpired, configuration, config, session>>
  PROVE  AppInv'
<1>1. CASE UNCHANGED <<inflight, fetch>>
  BY <1>1, AppSame DEF sessionState
<1>2. CASE ~UNCHANGED <<inflight, fetch>>
  <2>1. PICK f \in 1..2 : inflight = 0 /\ appconfig!Free(f) /\ appconfig!FetchConfiguration(f) /\ inflight' = f
    <3>1. \E f \in 1..2 :
            IF inflight # 0 THEN f = inflight /\ UNCHANGED <<inflight, fetch>>
            ELSE appconfig!Free(f) /\ appconfig!FetchConfiguration(f) /\ inflight' = f
      BY DEF appconfig!FetchRequest, appconfig!Fetches, appconfig!Shared, appconfig!NoFetch
    <3> QED BY <1>2, <3>1
  <2>2. fetch[f] = [pc |-> "none", token |-> 0, next |-> 0, answer |-> 0]
    BY <2>1 DEF appconfig!Free, appconfig!NotFetching, appconfig!NoToken
  <2> DEFINE begun == fetch'[f]
  <2>3. /\ begun.pc \in {"session", "latest"} /\ begun.token \in 0..4 /\ begun.next = 0 /\ begun.answer = 0
        /\ begun \in [pc : {"none", "session", "latest", "answered"}, token : 0..4, next : 0..4, answer : Nat]
        /\ begun.pc = "session" => begun.token = 0 /\ (tokenCache = 0 \/ tokenExpired)
        /\ begun.pc = "latest" => begun.token = tokenCache /\ tokenCache # 0 /\ ~tokenExpired
        /\ fetch' = [fetch EXCEPT ![f] = begun]
    <3> DEFINE r == fetch[f]
               Rec == [pc : {"none", "session", "latest", "answered"}, token : 0..4, next : 0..4, answer : Nat]
    <3>1. r \in Rec /\ r.token = 0 /\ r.next = 0 /\ r.answer = 0 /\ tokenCache \in 0..4
      BY <2>2 DEF AppInv, FetchesTyped, SessionsTyped
    <3>2. /\ fetch' = [fetch EXCEPT ![f] = IF tokenCache # 0 /\ ~tokenExpired
                                          THEN [r EXCEPT !.pc = "latest", !.token = tokenCache]
                                          ELSE [r EXCEPT !.pc = "session"]]
          /\ fetch \in [1..2 -> Rec]
      BY <2>1 DEF appconfig!FetchConfiguration, appconfig!TokenUsable, appconfig!NoToken, AppInv, FetchesTyped
    <3>3. CASE tokenCache # 0 /\ ~tokenExpired
      <4>1. begun = [r EXCEPT !.pc = "latest", !.token = tokenCache] /\ fetch' = [fetch EXCEPT ![f] = begun]
        BY <3>2, <3>3
      <4> HIDE DEF r, begun
      <4> QED BY <3>1, <3>3, <4>1
    <3>4. CASE ~(tokenCache # 0 /\ ~tokenExpired)
      <4>1. begun = [r EXCEPT !.pc = "session"] /\ fetch' = [fetch EXCEPT ![f] = begun]
        BY <3>2, <3>4
      <4> HIDE DEF r, begun
      <4> QED BY <3>1, <3>4, <4>1
    <3> QED BY <3>3, <3>4
  <2> HIDE DEF begun
  <2>4. FetchesTyped'
    BY <2>1, <2>3 DEF AppInv, FetchesTyped, SessionsTyped
  <2>5. SessionsTyped'
    BY DEF AppInv, SessionsTyped
  <2>6. TokensCurrent'
    BY <2>1, <2>3 DEF AppInv, FetchesTyped, SessionsTyped, TokensCurrent, Current
  <2> QED BY <2>4, <2>5, <2>6 DEF AppInv
<1> QED BY <1>1, <1>2

\* There is a token to issue that the process does not know.
LEMMA TokenIsNew ==
  ASSUME AppInv, NEW f \in 1..2, fetch[f].pc \in {"session", "latest"}
  PROVE  appconfig!Issued \in 1..4 \ {tokenCache, fetch[f].token}
<1>1. /\ tokenCache \in 0..4 /\ fetch[f].token \in 0..4
      /\ \A g \in 1..2 : fetch[g].token \in {0, fetch[f].token} /\ fetch[g].next = 0
  BY DEF AppInv, FetchesTyped, SessionsTyped, TokensCurrent
<1> DEFINE known == {tokenCache} \cup {fetch[g].token : g \in 1..2} \cup {fetch[g].next : g \in 1..2}
<1>2. known \subseteq {0, tokenCache, fetch[f].token} /\ {tokenCache, fetch[f].token} \subseteq known
  BY <1>1
<1>3. appconfig!Issued = CHOOSE t \in 1..4 \ known : TRUE
  BY DEF appconfig!Issued, appconfig!PollTokens, appconfig!Fetches
<1> HIDE DEF known
<1>4. \E t \in 1..4 : t \notin known
  BY <1>1, <1>2
<1> QED BY <1>2, <1>3, <1>4

\* The service answers with a fresh token, and with what is cached or newer.
LEMMA AppServes ==
  ASSUME AppInv, NEW f \in 1..2, appconfig!Service(f)
  PROVE  AppInv'
<1>0. /\ FetchesTyped /\ SessionsTyped /\ TokensCurrent
  BY DEF AppInv
<1>1. CASE appconfig!SessionStarted(f)
  <2> DEFINE t == appconfig!Issued
  <2>1. /\ fetch[f].pc = "session"
        /\ fetch' = [fetch EXCEPT ![f].pc = "latest", ![f].token = t] /\ session' = [session EXCEPT ![t] = 0]
        /\ UNCHANGED <<tokenCache, tokenExpired, configuration, inflight, config>>
    BY <1>1 DEF appconfig!SessionStarted
  <2>2. t \in 1..4 /\ t # tokenCache
    BY <2>1, TokenIsNew
  <2> HIDE DEF t
  <2>3. FetchesTyped' /\ SessionsTyped'
    BY <1>0, <2>1, <2>2 DEF FetchesTyped, SessionsTyped
  <2>4. TokensCurrent'
    BY <1>0, <2>1, <2>2 DEF FetchesTyped, SessionsTyped, TokensCurrent, Current
  <2> QED BY <2>3, <2>4 DEF AppInv
<1>2. CASE appconfig!TokenTaken(f)
  <2> DEFINE t == fetch[f].token
             n == appconfig!Issued
  <2>1. /\ fetch[f].pc = "latest" /\ config' \in config..MaxConfig
        /\ fetch' = [fetch EXCEPT ![f].pc = "answered", ![f].next = n,
                                  ![f].answer = IF session[t] = config' THEN 0 ELSE config']
        /\ session' = [session EXCEPT ![t] = -1, ![n] = config']
        /\ UNCHANGED <<tokenCache, tokenExpired, configuration, inflight>>
    BY <1>2 DEF appconfig!TokenTaken, appconfig!Void
  <2>2. n \in 1..4 /\ n # t /\ t \in 1..4 /\ session[t] \in {0, configuration}
    BY <1>0, <2>1, TokenIsNew DEF TokensCurrent, Current
  <2>3. config' \in Nat \ {0}
    BY <1>0, <2>1, FetchAssumption DEF SessionsTyped
  <2> HIDE DEF t, n
  <2>4. FetchesTyped' /\ SessionsTyped'
    BY <1>0, <2>1, <2>2, <2>3 DEF FetchesTyped, SessionsTyped
  <2>5. TokensCurrent'
    BY <1>0, <2>1, <2>2, <2>3 DEF FetchesTyped, SessionsTyped, TokensCurrent, Current
  <2> QED BY <2>4, <2>5 DEF AppInv
<1>3. CASE appconfig!AnswerReceived(f)
  <2>1. /\ fetch[f].pc = "answered" /\ tokenCache' = fetch[f].next /\ tokenExpired' = FALSE
        /\ configuration' = (IF fetch[f].answer = 0 THEN configuration ELSE fetch[f].answer)
        /\ fetch' = [fetch EXCEPT ![f] = [pc |-> "none", token |-> 0, next |-> 0, answer |-> 0]]
        /\ inflight' = (IF inflight = f THEN 0 ELSE inflight) /\ UNCHANGED <<config, session>>
    BY <1>3 DEF appconfig!AnswerReceived, appconfig!Settles, appconfig!NotFetching, appconfig!NoToken,
                appconfig!NoFetch, appconfig!serviceVars
  <2>2. FetchesTyped'
    BY <1>0, <2>1 DEF FetchesTyped
  <2>4. fetch[f].next \in 1..4 /\ fetch[f].answer \in Nat
    BY <1>0, <2>1 DEF FetchesTyped, TokensCurrent
  <2>5. SessionsTyped'
    <3>1. tokenCache' \in 0..4
      BY <2>1, <2>4
    <3>2. tokenExpired' \in BOOLEAN
      BY <2>1
    <3>3. configuration' \in Nat
      BY <1>0, <2>1, <2>4 DEF SessionsTyped
    <3> QED BY <1>0, <2>1, <3>1, <3>2, <3>3 DEF SessionsTyped
  <2>3. TokensCurrent'
    BY <1>0, <2>1 DEF FetchesTyped, SessionsTyped, TokensCurrent, Current
  <2> QED BY <2>2, <2>3, <2>5 DEF AppInv
<1>4. CASE appconfig!FetchFails(f)
  <2>1. /\ fetch[f].pc # "none" /\ tokenCache' = (IF fetch[f].pc = "session" THEN tokenCache ELSE 0)
        /\ tokenExpired' = (tokenExpired /\ tokenCache' # 0)
        /\ fetch' = [fetch EXCEPT ![f] = [pc |-> "none", token |-> 0, next |-> 0, answer |-> 0]]
        /\ inflight' = (IF inflight = f THEN 0 ELSE inflight) /\ UNCHANGED <<configuration, config>>
        /\ session' = [t \in 1..4 |->
                         IF t \in {fetch[f].token, fetch[f].next} \ {tokenCache'} THEN -1 ELSE session[t]]
    BY <1>4 DEF appconfig!FetchFails, appconfig!Settles, appconfig!NotFetching, appconfig!NoToken,
                appconfig!NoFetch, appconfig!TokenDropped, appconfig!Void, appconfig!PollTokens
  <2>2. FetchesTyped' /\ SessionsTyped'
    BY <1>0, <2>1 DEF FetchesTyped, SessionsTyped
  <2>3. TokensCurrent'
    BY <1>0, <2>1 DEF FetchesTyped, SessionsTyped, TokensCurrent, Current
  <2> QED BY <2>2, <2>3 DEF AppInv
<1> QED BY <1>1, <1>2, <1>3, <1>4 DEF appconfig!Service

\* Every step of appconfig keeps the invariant.
LEMMA AppNext == AppInv /\ appconfig!Next => AppInv'
<1> SUFFICES ASSUME AppInv, appconfig!Next PROVE AppInv'
  OBVIOUS
<1>1. ASSUME NEW i \in Invocations, appconfig!Fetch(i) PROVE AppInv'
  <2>1. UNCHANGED <<tokenCache, tokenExpired, configuration, config, session>>
    BY <1>1 DEF appconfig!Fetch, appconfig!serviceVars
  <2>2. appconfig!FetchRequest({i}) \/ UNCHANGED <<inflight, fetch>>
    BY <1>1 DEF appconfig!Fetch
  <2> QED BY <2>1, <2>2, AppFetches, AppSame DEF sessionState
<1>2. ASSUME UNCHANGED appconfig!sessionVars PROVE AppInv'
  BY <1>2, AppSame DEF sessionState, appconfig!sessionVars, appconfig!serviceVars
<1>3. ASSUME NEW i \in Invocations, appconfig!Before(i) \/ appconfig!Goes(i) PROVE AppInv'
  <2>1. CASE appconfig!Before(i)
    BY <1>2, <2>1 DEF appconfig!Before
  <2>2. CASE appconfig!Run(i)
    BY <1>1, <1>2, <2>2 DEF appconfig!Run
  <2>3. CASE appconfig!Resume(i)
    BY <1>1, <1>2, <2>3 DEF appconfig!Resume
  <2> QED BY <1>3, <2>1, <2>2, <2>3 DEF appconfig!Goes
<1>4. ASSUME NEW a, appconfig!Client(a) PROVE AppInv'
  <2>1. CASE appconfig!ClientCreated(a)
    BY <1>2, <2>1 DEF appconfig!ClientCreated
  <2>2. CASE appconfig!ClientFails(a)
    BY <1>2, <2>2 DEF appconfig!ClientFails
  <2> QED BY <1>4, <2>1, <2>2 DEF appconfig!Client
<1>5. ASSUME NEW f \in appconfig!Fetches, appconfig!Service(f) PROVE AppInv'
  BY <1>5, AppServes DEF appconfig!Fetches
<1>6. CASE appconfig!Refresh
  <2>1. appconfig!FetchRequest({}) /\ UNCHANGED <<tokenCache, tokenExpired, configuration, config, session>>
    BY <1>6 DEF appconfig!Refresh, appconfig!serviceVars
  <2> QED BY <2>1, AppFetches
<1>7. CASE appconfig!TokenExpires
  BY <1>7 DEF appconfig!TokenExpires, AppInv, FetchesTyped, SessionsTyped, TokensCurrent, Current,
              appconfig!NoToken, appconfig!NoFetch, appconfig!Void
<1> QED BY <1>3, <1>4, <1>5, <1>6, <1>7 DEF appconfig!Next

----------------------------------------------------------------------------
(* The memo of the client, of appconfig                                   *)

\* What an invocation, and an attempt to create a client, is in the middle of.
Invoked == [pc : {"idle", "before", "client", "created", "fetch"}, creds : Int, of : Int, with : Int]
Attempted == [creds : Int, pc : {"none", "creating", "created"}]
ClientsTyped ==
  /\ assumeRole \in BOOLEAN /\ creds \in Nat /\ credentials \in Nat /\ pending \in Nat /\ client \in Int
  /\ inv \in [Invocations -> Invoked] /\ attempts \in [appconfig!Attempts -> Attempted]
\* The memo holds an attempt for the credentials it is kept for, and none that has failed.
MemoTracks ==
  pending # 0 => /\ pending \in appconfig!Attempts /\ attempts[pending].creds = credentials
                 /\ attempts[pending].pc \in {"creating", "created"}
\* Without a role to assume there are no credentials but the function's own.
OwnOnly ==
  assumeRole = FALSE =>
    creds = 0 /\ client \in {-1, 0} /\ \A i \in Invocations : inv[i].pc # "idle" => inv[i].creds = 0
\* An invocation waits for an attempt that is under way, with its own credentials.
Asks(i) ==
  /\ inv[i].pc # "idle" => inv[i].creds \in Nat
  /\ inv[i].pc = "client" => inv[i].of \in appconfig!Attempts /\ attempts[inv[i].of].pc = "creating"
  /\ inv[i].pc \in {"client", "created"} => inv[i].with = inv[i].creds
\* What is being created is waited for, so that there are never more attempts than invocations.
AwaitedFor ==
  \A a \in appconfig!Attempts :
    attempts[a].pc = "creating" => \E i \in Invocations : inv[i].pc = "client" /\ inv[i].of = a
ClientsInv == ClientsTyped /\ MemoTracks /\ OwnOnly /\ AwaitedFor /\ \A i \in Invocations : Asks(i)

\* A container starts with no client being created.
LEMMA ClientsInit == appconfig!Init => ClientsInv
<1> SUFFICES ASSUME appconfig!Init PROVE ClientsInv
  OBVIOUS
<1>1. /\ assumeRole \in BOOLEAN /\ creds = (IF assumeRole THEN 1 ELSE 0)
      /\ credentials = 0 /\ pending = 0 /\ client \in {-1, 0}
      /\ \A i \in Invocations : inv[i] = appconfig!Idle
      /\ \A a \in appconfig!Attempts : attempts[a] = appconfig!NotMade
      /\ inv = [i \in Invocations |-> appconfig!Idle] /\ attempts = [a \in appconfig!Attempts |-> appconfig!NotMade]
  BY DEF appconfig!Init, appconfig!Own, appconfig!NoAttempt, appconfig!None
<1>2. appconfig!Idle \in Invoked /\ appconfig!Idle.pc = "idle"
  BY DEF appconfig!Idle, Invoked, appconfig!None
<1>3. appconfig!NotMade \in Attempted /\ appconfig!NotMade.pc = "none"
  BY DEF appconfig!NotMade, Attempted, appconfig!None
<1>4. ClientsTyped
  <2>1. creds \in Nat /\ client \in Int
    BY <1>1
  <2> QED BY <1>1, <1>2, <1>3, <2>1 DEF ClientsTyped
<1>5. OwnOnly
  BY <1>1, <1>2 DEF OwnOnly
<1> QED BY <1>1, <1>2, <1>3, <1>4, <1>5 DEF ClientsInv, MemoTracks, AwaitedFor, Asks

\* There are more places for attempts than there are invocations to wait for them.
LEMMA AttemptIsFree ==
  ASSUME ClientsInv, NEW i \in Invocations, inv[i].pc # "client"
  PROVE  \E a \in appconfig!Attempts : attempts[a].pc # "creating"
<1> SUFFICES ASSUME \A a \in appconfig!Attempts : attempts[a].pc = "creating" PROVE FALSE
  OBVIOUS
<1> DEFINE n == Cardinality(Invocations)
           waits == [a \in 1..n + 1 |-> CHOOSE j \in Invocations : inv[j].pc = "client" /\ inv[j].of = a]
<1>1. n \in Nat /\ appconfig!Attempts = 1..n + 1
  <2>1. appconfig!Cardinality(Invocations) = Cardinality(Invocations)
    BY DEF appconfig!Cardinality, Cardinality
  <2> QED BY <2>1, FetchAssumption, FS_CardinalityType DEF appconfig!Attempts
<1>2. \A a \in 1..n + 1 : waits[a] \in Invocations /\ inv[waits[a]].of = a
  BY <1>1 DEF ClientsInv, AwaitedFor
<1>3. waits \in [1..n + 1 -> Invocations]
  BY <1>2
<1> HIDE DEF waits
<1>4. IsFiniteSet(1..n + 1) /\ Cardinality(1..n + 1) = n + 1
  <2> HIDE DEF n
  <2>1. 1 \in Int /\ n + 1 \in Int /\ ~(1 > n + 1) /\ (n + 1) - 1 + 1 = n + 1
    BY <1>1
  <2> QED BY <2>1, FS_Interval
<1>5. \E a, b \in 1..n + 1 : a # b /\ waits[a] = waits[b]
  <2>1. IsFiniteSet(Invocations)
    BY FetchAssumption
  <2> QED BY <1>1, <1>3, <1>4, <2>1, FS_PigeonHole
<1> QED BY <1>2, <1>5

\* Who goes on to fetch, or returns, waits for no client.
LEMMA FetchesOn ==
  ASSUME ClientsInv, UNCHANGED <<assumeRole, creds, credentials, pending, attempts>>, client' \in Int,
         assumeRole = FALSE => client' \in {-1, 0},
         inv' \in [Invocations -> Invoked],
         \A j \in Invocations :
           \/ inv'[j] = inv[j]
           \/ inv[j].pc # "client" /\ inv'[j].pc = "idle"
           \/ inv[j].pc \notin {"client", "idle"} /\ inv'[j].pc = "fetch" /\ inv'[j].creds = inv[j].creds
  PROVE  ClientsInv'
<1>1. ClientsTyped' /\ MemoTracks'
  <2>1. ClientsTyped'
    BY DEF ClientsInv, ClientsTyped
  <2>2. MemoTracks'
    BY DEF ClientsInv, MemoTracks
  <2> QED BY <2>1, <2>2
<1>2. OwnOnly'
  BY DEF ClientsInv, OwnOnly
<1>3. AwaitedFor'
  <2> SUFFICES ASSUME NEW a \in appconfig!Attempts, attempts[a].pc = "creating"
               PROVE  \E i \in Invocations : inv'[i].pc = "client" /\ inv'[i].of = a
    BY DEF AwaitedFor
  <2>1. PICK i \in Invocations : inv[i].pc = "client" /\ inv[i].of = a
    BY DEF ClientsInv, AwaitedFor
  <2>2. inv'[i] = inv[i]
    BY <2>1
  <2> QED BY <2>1, <2>2
<1>4. \A j \in Invocations : Asks(j)'
  <2> SUFFICES ASSUME NEW j \in Invocations PROVE Asks(j)'
    OBVIOUS
  <2>1. Asks(j) /\ attempts' = attempts
    BY DEF ClientsInv
  <2> QED BY <2>1 DEF Asks
<1> QED BY <1>1, <1>2, <1>3, <1>4 DEF ClientsInv

\* What processCache does with the invocation i.
LEMMA FetchIs ==
  ASSUME ClientsInv, NEW i \in Invocations, appconfig!Fetch(i)
  PROVE  /\ inv' \in [Invocations -> Invoked] /\ \A j \in Invocations : j # i => inv'[j] = inv[j]
         /\ inv'[i].pc \in {"idle", "fetch"} /\ (inv'[i].pc = "fetch" => inv'[i].creds = inv[i].creds)
<1>1. inv \in [Invocations -> Invoked]
  BY DEF ClientsInv, ClientsTyped
<1>2. CASE appconfig!FetchRequest({i})
  <2>1. PICK f \in 1..2 :
          inv' = [j \in Invocations |->
                    IF j \in {i} THEN [inv[j] EXCEPT !.pc = "fetch", !.of = f, !.with = -1] ELSE inv[j]]
    BY <1>2 DEF appconfig!FetchRequest, appconfig!Fetches, appconfig!None
  <2> DEFINE v == [inv[i] EXCEPT !.pc = "fetch", !.of = f, !.with = -1]
  <2>2. inv[i] \in Invoked /\ f \in Int /\ -1 \in Int
    BY <1>1
  <2>3. v \in Invoked /\ v.pc = "fetch"
    BY <2>2 DEF Invoked
  <2>4. v.creds = inv[i].creds
    BY <2>2, Zenon DEF Invoked
  <2> QED BY <1>1, <2>1, <2>2, <2>3, <2>4
<1>3. CASE inv' = [inv EXCEPT ![i] = appconfig!Idle]
  <2>1. appconfig!Idle \in Invoked /\ appconfig!Idle.pc = "idle"
    BY DEF appconfig!Idle, Invoked, appconfig!None
  <2> QED BY <1>1, <1>3, <2>1
<1> QED BY <1>2, <1>3 DEF appconfig!Fetch

\* It fetches or returns, with the client that is current.
LEMMA FetchKeeps ==
  ASSUME ClientsInv, NEW i \in Invocations, appconfig!Fetch(i), inv[i].pc \in {"before", "created"},
         client' \in {client, inv[i].creds}, UNCHANGED <<assumeRole, creds, credentials, pending, attempts>>
  PROVE  ClientsInv'
<1>1. client' \in Int /\ (assumeRole = FALSE => client' \in {-1, 0})
  <2>1. inv[i].creds \in Int /\ client \in Int
    BY DEF ClientsInv, ClientsTyped, Invoked
  <2>2. assumeRole = FALSE => client \in {-1, 0} /\ inv[i].creds = 0
    BY DEF ClientsInv, OwnOnly
  <2> QED BY <2>1, <2>2
<1> QED BY <1>1, FetchIs, FetchesOn

\* The sts middleware has run.
LEMMA BeforeKeeps == ASSUME ClientsInv, NEW i \in Invocations, appconfig!Before(i) PROVE ClientsInv'
<1> DEFINE v == [appconfig!Idle EXCEPT !.pc = "before", !.creds = creds']
<1>1. /\ inv[i].pc = "idle" /\ creds' \in (IF assumeRole THEN creds..MaxCreds ELSE {creds})
      /\ inv' = [inv EXCEPT ![i] = v] /\ UNCHANGED <<assumeRole, credentials, pending, attempts, client>>
  BY DEF appconfig!Before, appconfig!clientVars
<1>2. creds' \in Nat /\ (assumeRole = FALSE => creds' = creds)
  BY <1>1, FetchAssumption DEF ClientsInv, ClientsTyped
<1>3. v \in Invoked /\ v.pc = "before" /\ v.creds = creds'
  <2>1. appconfig!Idle \in Invoked
    BY DEF appconfig!Idle, Invoked, appconfig!None
  <2>2. creds' \in Int
    BY <1>2
  <2>3. v \in Invoked
    BY <2>1, <2>2 DEF Invoked
  <2>4. v.pc = "before"
    BY <2>1, Zenon DEF Invoked
  <2>5. v.creds = creds'
    BY <2>1, Zenon DEF Invoked
  <2> QED BY <2>3, <2>4, <2>5
<1> HIDE DEF v
<1>4. inv' \in [Invocations -> Invoked] /\ inv'[i] = v /\ \A j \in Invocations : j # i => inv'[j] = inv[j]
  BY <1>1, <1>3 DEF ClientsInv, ClientsTyped
<1>5. ClientsTyped' /\ MemoTracks'
  <2>1. ClientsTyped'
    BY <1>1, <1>2, <1>4 DEF ClientsInv, ClientsTyped
  <2>2. MemoTracks'
    BY <1>1 DEF ClientsInv, MemoTracks
  <2> QED BY <2>1, <2>2
<1>6. OwnOnly'
  BY <1>1, <1>2, <1>3, <1>4 DEF ClientsInv, OwnOnly
<1>7. AwaitedFor'
  BY <1>1, <1>4 DEF ClientsInv, AwaitedFor
<1>8. \A j \in Invocations : Asks(j)'
  BY <1>1, <1>2, <1>3, <1>4 DEF ClientsInv, Asks
<1> QED BY <1>5, <1>6, <1>7, <1>8 DEF ClientsInv

\* What becomes of the attempts when an invocation asks for a client: it is given one that is
\* for its credentials and has not failed, and whatever is under way stays so.
LEMMA MemoIs ==
  ASSUME ClientsInv, NEW i \in Invocations, inv[i].pc = "before", appconfig!ClientInit(i)
  PROVE  /\ pending' \in appconfig!Attempts /\ attempts' \in [appconfig!Attempts -> Attempted]
         /\ attempts'[pending'].creds = inv[i].creds /\ attempts'[pending'].pc \in {"creating", "created"}
         /\ \A b \in appconfig!Attempts : attempts[b].pc = "creating" => attempts'[b].pc = "creating"
         /\ \A b \in appconfig!Attempts \ {pending'} : attempts'[b].pc = "creating" => attempts[b].pc = "creating"
<1>0. attempts \in [appconfig!Attempts -> Attempted] /\ inv[i].creds \in Int
  BY DEF ClientsInv, ClientsTyped, Invoked
<1>1. CASE appconfig!PendingFor(i) = 0
  <2> DEFINE a == CHOOSE b \in appconfig!Attempts : attempts[b].pc # "creating"
             made == [creds |-> inv[i].creds, pc |-> "creating"]
  <2>1. a \in appconfig!Attempts /\ attempts[a].pc # "creating"
    BY AttemptIsFree
  <2>2. attempts' = appconfig!Forget([attempts EXCEPT ![a] = made], a) /\ pending' = a
    BY <1>1 DEF appconfig!ClientInit, appconfig!CreateClient, appconfig!NoAttempt
  <2> HIDE DEF a
  <2>3. made \in Attempted /\ appconfig!NotMade \in Attempted /\ appconfig!NotMade.pc = "none"
    BY <1>0 DEF Attempted, appconfig!NotMade, appconfig!None
  <2>4. made.creds = inv[i].creds /\ made.pc = "creating"
    OBVIOUS
  <2> HIDE DEF made
  <2>5. attempts' = [b \in appconfig!Attempts |->
                       IF b = a THEN made ELSE IF attempts[b].pc = "creating" THEN attempts[b] ELSE appconfig!NotMade]
    BY <1>0, <2>1, <2>2 DEF appconfig!Forget
  <2> QED BY <1>0, <2>1, <2>2, <2>3, <2>4, <2>5
<1>2. CASE appconfig!PendingFor(i) # 0
  <2>1. pending' = pending /\ attempts' = attempts /\ pending # 0 /\ inv[i].creds = credentials
    BY <1>2 DEF appconfig!ClientInit, appconfig!PendingFor, appconfig!NoAttempt
  <2> QED BY <1>0, <2>1 DEF ClientsInv, MemoTracks
<1> QED BY <1>1, <1>2

\* It waits for that attempt, or goes on at once.
LEMMA AskIs ==
  ASSUME ClientsInv, NEW i \in Invocations, inv[i].pc = "before", appconfig!ClientInit(i)
  PROVE  /\ inv' \in [Invocations -> Invoked] /\ \A j \in Invocations : j # i => inv'[j] = inv[j]
         /\ inv'[i].pc = (IF attempts'[pending'].pc = "creating" THEN "client" ELSE "created")
         /\ inv'[i].of = pending' /\ inv'[i].with = inv[i].creds /\ inv'[i].creds = inv[i].creds
<1>1. /\ inv \in [Invocations -> Invoked] /\ attempts'[pending'].creds = inv[i].creds
      /\ attempts'[pending'].pc \in {"creating", "created"} /\ pending' \in Int
  BY MemoIs DEF ClientsInv, ClientsTyped, appconfig!Attempts
<1> DEFINE pc == IF attempts'[pending'].pc = "creating" THEN "client" ELSE "created"
           v == [inv[i] EXCEPT !.pc = pc, !.of = pending', !.with = inv[i].creds]
<1>2. inv' = [inv EXCEPT ![i] = v]
  <2>1. inv' = [inv EXCEPT ![i].pc = IF attempts'[pending'].pc = "creating" THEN "client" ELSE attempts'[pending'].pc,
                           ![i].of = pending', ![i].with = attempts'[pending'].creds]
    BY DEF appconfig!ClientInit
  <2> QED BY <1>1, <2>1
<1>3. pc \in {"client", "created"}
  OBVIOUS
<1> HIDE DEF pc
<1>4. inv[i] \in Invoked /\ inv[i].creds \in Int
  BY <1>1 DEF Invoked
<1>5. v \in Invoked
  BY <1>1, <1>3, <1>4 DEF Invoked
<1>6. v.pc = pc /\ v.of = pending'
  BY <1>4, Zenon DEF Invoked
<1>7. v.with = inv[i].creds /\ v.creds = inv[i].creds
  BY <1>4, Zenon DEF Invoked
<1> HIDE DEF v
<1>8. inv' \in [Invocations -> Invoked] /\ inv'[i] = v /\ \A j \in Invocations : j # i => inv'[j] = inv[j]
  BY <1>1, <1>2, <1>5
<1> QED BY <1>6, <1>7, <1>8 DEF pc

\* An invocation that asks for a client.
LEMMA AskKeeps ==
  ASSUME ClientsInv, NEW i \in Invocations, inv[i].pc = "before", appconfig!ClientInit(i),
         UNCHANGED <<assumeRole, creds>>
  PROVE  ClientsInv'
<1>1. credentials' = inv[i].creds /\ client' = client /\ inv[i].creds \in Nat
  BY DEF appconfig!ClientInit, ClientsInv, Asks
<1>2. ClientsTyped' /\ MemoTracks'
  <2>1. pending' \in Nat
    BY MemoIs DEF appconfig!Attempts
  <2>2. ClientsTyped'
    BY <1>1, <2>1, MemoIs, AskIs DEF ClientsInv, ClientsTyped
  <2>3. MemoTracks'
    BY <1>1, MemoIs DEF MemoTracks
  <2> QED BY <2>2, <2>3
<1>3. OwnOnly'
  BY <1>1, AskIs DEF ClientsInv, OwnOnly
<1>4. AwaitedFor'
  <2> SUFFICES ASSUME NEW a \in appconfig!Attempts, attempts'[a].pc = "creating"
               PROVE  \E j \in Invocations : inv'[j].pc = "client" /\ inv'[j].of = a
    BY DEF AwaitedFor
  <2>1. CASE a = pending'
    BY <2>1, AskIs
  <2>2. CASE a # pending'
    <3>1. PICK j \in Invocations : inv[j].pc = "client" /\ inv[j].of = a
      BY <2>2, MemoIs DEF ClientsInv, AwaitedFor
    <3>2. inv'[j] = inv[j]
      BY <3>1, AskIs
    <3> QED BY <3>1, <3>2
  <2> QED BY <2>1, <2>2
<1>5. ASSUME NEW j \in Invocations PROVE Asks(j)'
  <2>1. Asks(j)
    BY DEF ClientsInv
  <2>2. CASE j = i
    BY <1>1, <2>2, MemoIs, AskIs DEF Asks
  <2>3. CASE j # i
    BY <2>1, <2>3, MemoIs, AskIs DEF Asks
  <2> QED BY <2>2, <2>3
<1> QED BY <1>2, <1>3, <1>4, <1>5 DEF ClientsInv

\* An attempt is over, and so is the waiting for it.
LEMMA AttemptEnds ==
  ASSUME ClientsInv, NEW a \in appconfig!Attempts, UNCHANGED <<assumeRole, creds, credentials, client>>,
         attempts' \in [appconfig!Attempts -> Attempted], attempts'[a].pc # "creating", pending' \in Nat, MemoTracks',
         \A b \in appconfig!Attempts \ {a} : attempts'[b].pc = "creating" <=> attempts[b].pc = "creating",
         inv' \in [Invocations -> Invoked],
         \A j \in Invocations :
           IF inv[j].pc = "client" /\ inv[j].of = a
           THEN inv'[j].pc = "idle" \/ inv'[j] = [inv[j] EXCEPT !.pc = "created"]
           ELSE inv'[j] = inv[j]
  PROVE  ClientsInv'
<1>1. \A j \in Invocations : inv[j] \in Invoked
  BY DEF ClientsInv, ClientsTyped
<1>2. \A j \in Invocations : LET v == [inv[j] EXCEPT !.pc = "created"]
                             IN  v.pc = "created" /\ v.creds = inv[j].creds /\ v.with = inv[j].with
  BY <1>1 DEF Invoked
<1>3. ClientsTyped'
  BY DEF ClientsInv, ClientsTyped
<1>4. OwnOnly'
  BY <1>2 DEF ClientsInv, OwnOnly
<1>5. AwaitedFor'
  <2> SUFFICES ASSUME NEW b \in appconfig!Attempts, attempts'[b].pc = "creating"
               PROVE  \E j \in Invocations : inv'[j].pc = "client" /\ inv'[j].of = b
    BY DEF AwaitedFor
  <2>1. b # a /\ attempts[b].pc = "creating"
    OBVIOUS
  <2>2. PICK j \in Invocations : inv[j].pc = "client" /\ inv[j].of = b
    BY <2>1 DEF ClientsInv, AwaitedFor
  <2>3. inv'[j] = inv[j]
    BY <2>1, <2>2
  <2> QED BY <2>2, <2>3
<1>6. ASSUME NEW j \in Invocations PROVE Asks(j)'
  <2>1. Asks(j)
    BY DEF ClientsInv
  <2>2. CASE inv'[j].pc = "idle"
    BY <2>2 DEF Asks
  <2>3. CASE inv'[j] = [inv[j] EXCEPT !.pc = "created"] /\ inv[j].pc = "client"
    <3>1. inv'[j].pc = "created" /\ inv'[j].creds = inv[j].creds /\ inv'[j].with = inv[j].with
      BY <1>2, <2>3
    <3> QED BY <2>1, <2>3, <3>1 DEF Asks
  <2>4. CASE inv'[j] = inv[j] /\ ~(inv[j].pc = "client" /\ inv[j].of = a)
    <3>1. inv[j].pc = "client" => inv[j].of # a
      BY <2>4
    <3> QED BY <2>1, <2>4, <3>1 DEF Asks
  <2> QED BY <2>2, <2>3, <2>4
<1> QED BY <1>3, <1>4, <1>5, <1>6 DEF ClientsInv

\* A client is created: who waited for it goes on.
LEMMA CreatedKeeps == ASSUME ClientsInv, NEW a \in appconfig!Attempts, appconfig!ClientCreated(a) PROVE ClientsInv'
<1>1. /\ attempts[a].pc = "creating" /\ UNCHANGED <<assumeRole, creds, credentials, pending, client>>
      /\ attempts' = appconfig!Forget([attempts EXCEPT ![a].pc = "created"], pending)
      /\ inv' = [i \in Invocations |->
                   IF i \in appconfig!Waiting("client", a) THEN [inv[i] EXCEPT !.pc = "created"] ELSE inv[i]]
  BY DEF appconfig!ClientCreated, appconfig!Wake
<1>2. attempts \in [appconfig!Attempts -> Attempted] /\ inv \in [Invocations -> Invoked]
  BY DEF ClientsInv, ClientsTyped
<1> DEFINE v == [attempts[a] EXCEPT !.pc = "created"]
<1>3. v \in Attempted /\ v.pc = "created" /\ v.creds = attempts[a].creds
  BY <1>2 DEF Attempted
<1>4. [attempts EXCEPT ![a].pc = "created"] = [attempts EXCEPT ![a] = v]
  OBVIOUS
<1> HIDE DEF v
<1>5. appconfig!NotMade \in Attempted /\ appconfig!NotMade.pc = "none"
  BY DEF Attempted, appconfig!NotMade, appconfig!None
<1>6. /\ attempts' \in [appconfig!Attempts -> Attempted] /\ attempts'[a] \in {v, appconfig!NotMade}
      /\ a = pending => attempts'[a] = v
      /\ \A b \in appconfig!Attempts \ {a} : /\ attempts'[b] = attempts[b]
                                                \/ (attempts[b].pc # "creating" /\ attempts'[b] = appconfig!NotMade)
                                             /\ b = pending => attempts'[b] = attempts[b]
  BY <1>1, <1>2, <1>3, <1>4, <1>5 DEF appconfig!Forget
<1>7. MemoTracks'
  BY <1>1, <1>3, <1>6 DEF ClientsInv, MemoTracks
<1>8. \A b \in appconfig!Attempts \ {a} : attempts'[b].pc = "creating" <=> attempts[b].pc = "creating"
  BY <1>5, <1>6
<1>9. inv' \in [Invocations -> Invoked]
  BY <1>1, <1>2 DEF Invoked
<1>10. \A j \in Invocations :
         IF inv[j].pc = "client" /\ inv[j].of = a THEN inv'[j] = [inv[j] EXCEPT !.pc = "created"] ELSE inv'[j] = inv[j]
  BY <1>1 DEF appconfig!Waiting
<1>11. attempts'[a].pc # "creating" /\ pending' \in Nat
  BY <1>1, <1>3, <1>5, <1>6 DEF ClientsInv, ClientsTyped
<1> QED BY <1>1, <1>6, <1>7, <1>8, <1>9, <1>10, <1>11, AttemptEnds

\* A client cannot be created: who waited for it is told, and the memo forgets it.
LEMMA FailsKeeps == ASSUME ClientsInv, NEW a \in appconfig!Attempts, appconfig!ClientFails(a) PROVE ClientsInv'
<1>1. /\ attempts[a].pc = "creating" /\ UNCHANGED <<assumeRole, creds, credentials, client>>
      /\ pending' = (IF pending = a THEN 0 ELSE pending)
      /\ attempts' = appconfig!Forget([attempts EXCEPT ![a].pc = "failed"], pending')
      /\ inv' = [i \in Invocations |-> IF i \in appconfig!Waiting("client", a) THEN appconfig!Idle ELSE inv[i]]
  BY DEF appconfig!ClientFails, appconfig!Wake, appconfig!PendingAfter, appconfig!NoAttempt
<1>2. attempts \in [appconfig!Attempts -> Attempted] /\ inv \in [Invocations -> Invoked] /\ pending \in Nat
  BY DEF ClientsInv, ClientsTyped
<1>3. appconfig!NotMade \in Attempted /\ appconfig!NotMade.pc = "none"
  BY DEF Attempted, appconfig!NotMade, appconfig!None
<1>4. a # pending' /\ pending' \in Nat
  BY <1>1, <1>2 DEF appconfig!Attempts
<1>5. [attempts[a] EXCEPT !.pc = "failed"].pc = "failed"
  BY <1>2 DEF Attempted
<1>6. /\ attempts' \in [appconfig!Attempts -> Attempted] /\ attempts'[a] = appconfig!NotMade
      /\ \A b \in appconfig!Attempts \ {a} : /\ attempts'[b] = attempts[b]
                                                \/ (attempts[b].pc # "creating" /\ attempts'[b] = appconfig!NotMade)
                                             /\ b = pending' => attempts'[b] = attempts[b]
  BY <1>1, <1>2, <1>3, <1>4, <1>5 DEF appconfig!Forget
<1>7. MemoTracks'
  BY <1>1, <1>4, <1>6 DEF ClientsInv, MemoTracks
<1>8. \A b \in appconfig!Attempts \ {a} : attempts'[b].pc = "creating" <=> attempts[b].pc = "creating"
  BY <1>3, <1>6
<1>9. appconfig!Idle \in Invoked /\ appconfig!Idle.pc = "idle"
  BY DEF appconfig!Idle, Invoked, appconfig!None
<1>10. inv' \in [Invocations -> Invoked]
  BY <1>1, <1>2, <1>9
<1>11. \A j \in Invocations :
         IF inv[j].pc = "client" /\ inv[j].of = a THEN inv'[j].pc = "idle" ELSE inv'[j] = inv[j]
  BY <1>1, <1>9 DEF appconfig!Waiting
<1> QED BY <1>1, <1>3, <1>4, <1>6, <1>7, <1>8, <1>10, <1>11, AttemptEnds

\* Its state is known before an invocation goes on.
LEMMA RunIs ==
  ASSUME ClientsInv, NEW i \in Invocations, appconfig!Run(i)
  PROVE  /\ inv[i].pc = "before" /\ UNCHANGED <<assumeRole, creds>>
         /\ \/ /\ appconfig!Fetch(i) /\ UNCHANGED <<credentials, pending, attempts, client>>
               /\ client = inv[i].creds
            \/ appconfig!ClientInit(i)
<1>1. appconfig!ClientStays => client = 0 /\ inv[i].creds = 0
  BY DEF appconfig!ClientStays, appconfig!None, appconfig!Run, ClientsInv, OwnOnly
<1> QED BY <1>1 DEF appconfig!Run, appconfig!clientVars

\* The client it waited for was created with its own credentials.
LEMMA ResumeIs ==
  ASSUME ClientsInv, NEW i \in Invocations, appconfig!Resume(i)
  PROVE  /\ inv[i].pc = "created" /\ client' = inv[i].creds /\ appconfig!Fetch(i)
         /\ UNCHANGED <<assumeRole, creds, credentials, pending, attempts>>
<1>1. inv[i].pc # "failed"
  BY DEF ClientsInv, ClientsTyped, Invoked
<1> QED BY <1>1 DEF appconfig!Resume, ClientsInv, Asks

\* The service answers, or the refresh timer fires: no client is created for that.
LEMMA ServiceKeeps ==
  ASSUME ClientsInv,
         \/ \E f \in appconfig!Fetches : appconfig!Service(f)
         \/ appconfig!Refresh \/ appconfig!TokenExpires \/ UNCHANGED appconfigVars
  PROVE  ClientsInv'
<1>1. inv \in [Invocations -> Invoked] /\ client \in Int /\ (assumeRole = FALSE => client \in {-1, 0})
  BY DEF ClientsInv, ClientsTyped, OwnOnly
<1>2. appconfig!Idle \in Invoked /\ appconfig!Idle.pc = "idle"
  BY DEF appconfig!Idle, Invoked, appconfig!None
<1>3. ASSUME NEW f, appconfig!Settles(f), UNCHANGED <<assumeRole, creds, appconfig!clientVars>> PROVE ClientsInv'
  <2>1. inv' = [i \in Invocations |-> IF i \in appconfig!Waiting("fetch", f) THEN appconfig!Idle ELSE inv[i]]
    BY <1>3 DEF appconfig!Settles, appconfig!Wake
  <2>2. inv' \in [Invocations -> Invoked]
    BY <1>1, <1>2, <2>1
  <2>3. \A j \in Invocations : inv'[j] = inv[j] \/ (inv[j].pc # "client" /\ inv'[j].pc = "idle")
    BY <1>2, <2>1 DEF appconfig!Waiting
  <2> QED BY <1>1, <1>3, <2>2, <2>3, FetchesOn DEF appconfig!clientVars
<1>4. ASSUME UNCHANGED <<assumeRole, creds, inv, appconfig!clientVars>> PROVE ClientsInv'
  BY <1>1, <1>4, FetchesOn DEF appconfig!clientVars
<1>5. ASSUME NEW f \in appconfig!Fetches, appconfig!Service(f) PROVE ClientsInv'
  <2>1. CASE appconfig!SessionStarted(f) \/ appconfig!TokenTaken(f)
    BY <1>4, <2>1 DEF appconfig!SessionStarted, appconfig!TokenTaken
  <2>2. CASE appconfig!AnswerReceived(f) \/ appconfig!FetchFails(f)
    BY <1>3, <2>2 DEF appconfig!AnswerReceived, appconfig!FetchFails
  <2> QED BY <1>5, <2>1, <2>2 DEF appconfig!Service
<1>6. CASE appconfig!Refresh
  <2>1. inv' = inv
    BY <1>1, <1>6 DEF appconfig!Refresh, appconfig!FetchRequest
  <2> QED BY <1>4, <1>6, <2>1 DEF appconfig!Refresh
<1>7. CASE appconfig!TokenExpires \/ UNCHANGED appconfigVars
  BY <1>4, <1>7 DEF appconfig!TokenExpires, appconfigVars, appconfig!clientVars
<1> QED BY <1>5, <1>6, <1>7

\* Every step keeps the invariant.
LEMMA ClientsNext == ClientsInv /\ appconfig!Next => ClientsInv'
<1> SUFFICES ASSUME ClientsInv, appconfig!Next PROVE ClientsInv'
  OBVIOUS
<1>1. ASSUME NEW i \in Invocations, appconfig!Run(i) PROVE ClientsInv'
  BY <1>1, RunIs, FetchKeeps, AskKeeps
<1>2. ASSUME NEW i \in Invocations, appconfig!Resume(i) PROVE ClientsInv'
  BY <1>2, ResumeIs, FetchKeeps
<1> QED BY <1>1, <1>2, BeforeKeeps, CreatedKeeps, FailsKeeps, ServiceKeeps
        DEF appconfig!Next, appconfig!Goes, appconfig!Client

\* It depends on the variables of appconfig only.
LEMMA ClientsSame == ClientsInv /\ UNCHANGED appconfigVars => ClientsInv'
BY ServiceKeeps

\* An invocation asks for a client for its own credentials, and fetches with that one.
ClientIsOwn(i) ==
  /\ inv[i].pc = "before" /\ inv'[i].pc \in {"client", "created", "failed"} =>
       inv'[i].with = inv[i].creds /\ inv'[i].pc # "failed"
  /\ inv[i].pc # "fetch" /\ inv'[i].pc = "fetch" => client' = inv[i].creds

\* So it is in every step.
LEMMA ClientsHold ==
  ASSUME ClientsInv, appconfig!Next \/ UNCHANGED appconfigVars, NEW i \in Invocations PROVE ClientIsOwn(i)
<1>1. ASSUME inv'[i] = inv[i] PROVE ClientIsOwn(i)
  BY <1>1 DEF ClientIsOwn
<1>2. ASSUME NEW j \in Invocations, appconfig!Fetch(j), client' = inv[j].creds, inv[j].pc \in {"before", "created"}
      PROVE  ClientIsOwn(i)
  BY <1>2, FetchIs DEF ClientIsOwn
<1>3. ASSUME NEW j \in Invocations, appconfig!Run(j) PROVE ClientIsOwn(i)
  <2>1. CASE appconfig!ClientInit(j)
    BY <1>3, <2>1, RunIs, AskIs DEF ClientIsOwn
  <2>2. CASE ~appconfig!ClientInit(j)
    BY <1>2, <1>3, <2>2, RunIs
  <2> QED BY <2>1, <2>2
<1>4. ASSUME NEW j \in Invocations, appconfig!Resume(j) PROVE ClientIsOwn(i)
  BY <1>2, <1>4, ResumeIs
<1>5. ASSUME NEW j \in Invocations, appconfig!Before(j) PROVE ClientIsOwn(i)
  BY <1>5 DEF appconfig!Before, appconfig!Idle, ClientIsOwn, ClientsInv, ClientsTyped
<1>6. ASSUME NEW n, NEW pc, pc \in {"client", "fetch"}, NEW v, v.pc \notin {"fetch"},
             inv' = [j \in Invocations |-> IF j \in appconfig!Waiting(pc, n) THEN v ELSE inv[j]]
      PROVE  ClientIsOwn(i)
  BY <1>6 DEF appconfig!Waiting, ClientIsOwn
<1>7. ASSUME NEW a, appconfig!Client(a) PROVE ClientIsOwn(i)
  <2>1. CASE appconfig!ClientCreated(a)
    <3>1. inv' = [j \in Invocations |->
                    IF j \in appconfig!Waiting("client", a) THEN [inv[j] EXCEPT !.pc = "created"] ELSE inv[j]]
      BY <2>1 DEF appconfig!ClientCreated, appconfig!Wake
    <3>2. [inv[i] EXCEPT !.pc = "created"].pc = "created"
      BY DEF ClientsInv, ClientsTyped, Invoked
    <3> QED BY <3>1, <3>2 DEF appconfig!Waiting, ClientIsOwn
  <2>2. CASE appconfig!ClientFails(a)
    <3>1. inv' = [j \in Invocations |-> IF j \in appconfig!Waiting("client", a) THEN appconfig!Idle ELSE inv[j]]
      BY <2>2 DEF appconfig!ClientFails, appconfig!Wake
    <3> QED BY <1>6, <3>1 DEF appconfig!Idle
  <2> QED BY <1>7, <2>1, <2>2 DEF appconfig!Client
<1>8. ASSUME NEW f \in appconfig!Fetches, appconfig!Service(f) PROVE ClientIsOwn(i)
  <2>1. CASE appconfig!SessionStarted(f) \/ appconfig!TokenTaken(f)
    BY <1>1, <2>1 DEF appconfig!SessionStarted, appconfig!TokenTaken
  <2>2. CASE appconfig!AnswerReceived(f) \/ appconfig!FetchFails(f)
    <3>1. appconfig!Settles(f)
      BY <2>2 DEF appconfig!AnswerReceived, appconfig!FetchFails
    <3>2. inv' = [j \in Invocations |-> IF j \in appconfig!Waiting("fetch", f) THEN appconfig!Idle ELSE inv[j]]
      BY <3>1 DEF appconfig!Settles, appconfig!Wake
    <3> QED BY <1>6, <3>2 DEF appconfig!Idle
  <2> QED BY <1>8, <2>1, <2>2 DEF appconfig!Service
<1>9. CASE appconfig!Refresh
  <2>1. inv' = inv
    BY <1>9 DEF appconfig!Refresh, appconfig!FetchRequest, ClientsInv, ClientsTyped
  <2> QED BY <1>1, <2>1
<1>10. CASE appconfig!TokenExpires \/ UNCHANGED appconfigVars
  BY <1>1, <1>10 DEF appconfig!TokenExpires, appconfigVars
<1> QED BY <1>3, <1>4, <1>5, <1>7, <1>8, <1>9, <1>10 DEF appconfig!Next, appconfig!Goes

\* createClientInit: an invocation is given a client created with its own credentials, and
\* no attempt that had failed before it asked, however many invocations share the memo.
THEOREM ClientsAreCurrent == FetchSpec => ClientIsCurrent
<1>1. FetchInit => ClientsInv
  BY ClientsInit DEF FetchInit
<1>2. [FetchNext]_fetchVars => appconfig!Next \/ UNCHANGED appconfigVars
  BY DEF FetchNext, Follows, fetchVars
<1>3. ClientsInv /\ [FetchNext]_fetchVars => ClientsInv'
  BY <1>2, ClientsNext, ClientsSame
<1>4. ClientsInv /\ [FetchNext]_fetchVars => [\A i \in Invocations : ClientIsOwn(i)]_appconfig!vars
  BY <1>2, ClientsHold
<1>5. [\A i \in Invocations : ClientIsOwn(i)]_appconfig!vars <=>
      [\A i \in Invocations :
         /\ inv[i].pc = "before" /\ inv'[i].pc \in {"client", "created", "failed"} =>
              inv'[i].with = inv[i].creds /\ inv'[i].pc # "failed"
         /\ inv[i].pc # "fetch" /\ inv'[i].pc = "fetch" => client' = inv[i].creds]_appconfig!vars
  BY DEF ClientIsOwn
<1> QED BY <1>1, <1>3, <1>4, <1>5, PTL DEF FetchSpec, ClientIsCurrent, appconfig!ClientIsCurrent

----------------------------------------------------------------------------
(* ServiceFetch                                                            *)

\* What a promise may resolve to.
OwnOf(k) == IF middleware = "dynamodb" THEN {0, k} ELSE {k}
\* The fetched keys and pages of a request.
RequestTyped(r) ==
  /\ r \in [call : 1..2, keys : SUBSET service!Keys, step : {"token", "describe", "get", "body", "refused"},
            retried : BOOLEAN, kept : {{}, {1}}]
  /\ r.keys # {} /\ Cardinality(r.keys) <= AwsRequestLimit
ServiceTyped ==
  /\ middleware \in service!Middlewares
  /\ entry \in [service!Keys -> 0..2]
  /\ promise \in [1..2 -> [service!Keys -> {"none", "pending", "ok", "failed"}]]
  /\ got \in [1..2 -> [service!Keys -> 0..4]]
  /\ rejected \in [1..2 -> SUBSET service!Keys]
  /\ \A r \in requests : RequestTyped(r)
CallersTyped ==
  /\ caller[1].pc = "idle" => caller[2].pc = "idle"
  /\ caller \in [1..2 -> [pc : {"idle", "prefetched", "awaits", "resolved", "rejected"},
                          holds : [service!Keys -> 0..2]]]
\* A pending promise is one of exactly one request.
Pends ==
  /\ \A i \in 1..2, k \in service!Keys : promise[i][k] = "pending" <=> \E r \in requests : r.call = i /\ k \in r.keys
  /\ \A r, q \in requests : r.call = q.call /\ r.keys \cap q.keys # {} => r = q
\* The entry holds every promise that has not failed, and no other.
Held == \A i \in 1..2, k \in service!Keys : promise[i][k] \in {"pending", "ok"} <=> entry[k] = i
\* A promise fails for a refusal, and is followed by another only if it did.
Failing ==
  /\ \A i \in 1..2, k \in service!Keys : promise[i][k] = "failed" => k \in rejected[i]
  /\ \A k \in service!Keys : promise[1][k] # "none" /\ promise[2][k] # "none" => promise[1][k] = "failed"
Gets == \A i \in 1..2, k \in service!Keys : promise[i][k] = "ok" => got[i][k] \in OwnOf(k)
\* An invocation that has begun holds a promise for each key; the ones of a resolved one are.
Holding ==
  /\ \A i \in 1..2, k \in service!Keys :
       IF caller[i].pc = "idle" THEN promise[i][k] = "none"
       ELSE /\ caller[i].holds[k] # 0 /\ promise[caller[i].holds[k]][k] # "none"
            /\ caller[i].pc = "resolved" => promise[caller[i].holds[k]][k] = "ok"
ServiceInv == ServiceTyped /\ CallersTyped /\ Pends /\ Held /\ Failing /\ Gets /\ Holding

\* Cardinality is the same in the instance.
LEMMA Counts == \A S : service!Cardinality(S) = Cardinality(S)
BY DEF service!Cardinality, Cardinality

\* Promises resolve to values of their own keys, and fail for them.
LEMMA ServiceHolds == ServiceInv => service!FetchedIsOwn
<1> SUFFICES ASSUME ServiceInv PROVE service!FetchedIsOwn
  OBVIOUS
<1>1. service!OwnValue
  <2> SUFFICES ASSUME NEW i \in 1..2, NEW k \in service!Keys, caller[i].pc = "resolved"
               PROVE  LET n == caller[i].holds[k]
                      IN  /\ n # 0 /\ promise[n][k] = "ok"
                          /\ got[n][k] \in IF middleware = "dynamodb" THEN {0, k} ELSE {k}
    BY DEF service!OwnValue, service!Callers
  <2> DEFINE n == caller[i].holds[k]
  <2>1. n \in 0..2
    BY DEF ServiceInv, CallersTyped
  <2>2. n # 0 /\ promise[n][k] = "ok"
    BY DEF ServiceInv, Holding
  <2> HIDE DEF n
  <2>3. got[n][k] \in OwnOf(k)
    BY <2>1, <2>2 DEF ServiceInv, Gets
  <2> QED BY <2>2, <2>3 DEF OwnOf, n
<1>2. service!FailsAlone
  BY DEF ServiceInv, Held, Failing, service!FailsAlone, service!Callers
<1>3. service!UnderWay
  <2>1. \A r \in requests : Cardinality(r.keys) <= AwsRequestLimit
    BY DEF ServiceInv, ServiceTyped, RequestTyped
  <2>2. \A i \in 1..2, k \in service!Keys :
          promise[i][k] = "pending" <=> \E r \in requests : r.call = i /\ k \in r.keys
    BY DEF ServiceInv, Pends
  <2> QED BY <2>1, <2>2, Counts DEF service!UnderWay, service!Callers
<1> QED BY <1>1, <1>2, <1>3 DEF service!FetchedIsOwn

\* There are few keys, and paths are keys.
LEMMA KeysAre == service!Keys \subseteq 1..4 /\ service!Paths \subseteq service!Keys
BY DEF service!Keys, service!Paths, service!Ssm

\* Nothing is asked for when a container starts.
LEMMA ServiceInit == service!Init => ServiceInv
<1> SUFFICES ASSUME service!Init PROVE ServiceInv
  OBVIOUS
<1>1. /\ middleware \in service!Middlewares /\ requests = {}
      /\ entry = [k \in service!Keys |-> 0] /\ promise = [i \in 1..2 |-> [k \in service!Keys |-> "none"]]
      /\ got = [i \in 1..2 |-> [k \in service!Keys |-> 0]] /\ rejected = [i \in 1..2 |-> {}]
      /\ caller = [i \in 1..2 |-> [pc |-> "idle", holds |-> [k \in service!Keys |-> 0]]]
  BY DEF service!Init, service!Callers
<1>2. ServiceTyped
  BY <1>1 DEF ServiceTyped
<1>3. CallersTyped
  BY <1>1 DEF CallersTyped
<1>4. Pends /\ Held /\ Failing /\ Gets /\ Holding
  BY <1>1 DEF Pends, Held, Failing, Gets, Holding
<1> QED BY <1>2, <1>3, <1>4 DEF ServiceInv

\* The invariant depends on no other part.
LEMMA ServiceSame == ServiceInv /\ UNCHANGED serviceVars => ServiceInv'
<1> SUFFICES ASSUME ServiceInv, UNCHANGED serviceVars PROVE ServiceInv'
  OBVIOUS
<1>0. UNCHANGED <<middleware, entry, requests, promise, got, caller, rejected>> /\ service!Keys' = service!Keys
  BY DEF serviceVars, service!Keys
<1>1. ServiceTyped'
  BY <1>0 DEF ServiceInv, ServiceTyped, RequestTyped
<1>2. CallersTyped' /\ Pends' /\ Held' /\ Failing' /\ Holding'
  BY <1>0 DEF ServiceInv, CallersTyped, Pends, Held, Failing, Holding
<1>3. Gets'
  BY <1>0 DEF ServiceInv, Gets, OwnOf
<1> QED BY <1>1, <1>2, <1>3 DEF ServiceInv

----------------------------------------------------------------------------
\* Numbers in the same batch are less than a batch apart.
LEMMA SameBatch ==
  ASSUME NEW L \in Nat \ {0}, NEW a \in Nat
  PROVE  L * (a \div L) \in Nat /\ L * (a \div L) <= a /\ a < L * (a \div L) + L
OBVIOUS

\* A batch has names, awsRequestLimit at most, and each name is in one.
LEMMA BatchesAre ==
  ASSUME NEW names \in SUBSET (1..4), NEW B \in service!Batches(names)
  PROVE  B \subseteq names /\ B # {} /\ Cardinality(B) <= AwsRequestLimit
<1> DEFINE Below(k) == {j \in names : j < k}
           N(k) == Cardinality(Below(k))
           L == AwsRequestLimit
<1>1. L \in Nat \ {0}
  BY FetchAssumption
<1>2. IsFiniteSet(names)
  <2>1. IsFiniteSet(1..4)
    <3>1. 1 \in Int /\ 4 \in Int
      OBVIOUS
    <3> QED BY <3>1, FS_Interval
  <2> QED BY <2>1, FS_Subset
<1>3. ASSUME NEW k \in names PROVE IsFiniteSet(Below(k)) /\ N(k) \in Nat
  <2>1. Below(k) \in SUBSET names
    OBVIOUS
  <2> HIDE DEF Below
  <2>2. IsFiniteSet(Below(k))
    BY <1>2, <2>1, FS_Subset
  <2> QED BY <2>2, FS_CardinalityType
<1>4. ASSUME NEW j \in names, NEW k \in names, j < k PROVE N(j) < N(k)
  <2>1. Below(j) \cup {j} \subseteq Below(k) /\ j \notin Below(j)
    <3>1. \A x \in names : x \in Nat
      OBVIOUS
    <3>2. ASSUME NEW x \in Below(j) \cup {j} PROVE x \in Below(k)
      <4>1. x \in Nat /\ j \in Nat /\ k \in Nat /\ x \in names /\ (x < j \/ x = j)
        BY <3>1
      <4> QED BY <1>4, <4>1
    <3>3. j \notin Below(j)
      <4>1. j \in Nat
        BY <3>1
      <4> QED BY <4>1
    <3> QED BY <3>2, <3>3
  <2>4. IsFiniteSet(Below(j)) /\ IsFiniteSet(Below(k)) /\ N(j) \in Nat /\ N(k) \in Nat
    BY <1>3
  <2>5. N(j) = Cardinality(Below(j)) /\ N(k) = Cardinality(Below(k))
    OBVIOUS
  <2> HIDE DEF Below, N
  <2>2. Cardinality(Below(j) \cup {j}) = N(j) + 1
    BY <2>1, <2>4, <2>5, FS_AddElement
  <2>3. Cardinality(Below(j) \cup {j}) <= N(k)
    BY <2>1, <2>4, <2>5, FS_Subset
  <2> QED BY <2>2, <2>3, <2>4
<1>5. PICK m \in names : B = {k \in names : N(k) \div L = N(m) \div L}
  <2>1. PICK m \in names : B = {k \in names : service!BatchOf(names, k) = service!BatchOf(names, m)}
    BY DEF service!Batches
  <2>2. \A k : service!BatchOf(names, k) = N(k) \div L
    BY Counts DEF service!BatchOf
  <2> QED BY <2>1, <2>2
<1> HIDE DEF N
<1> DEFINE low == L * (N(m) \div L)
<1>6. low \in Nat /\ \A k \in B : N(k) \in low..low + L - 1
  <2>1. low \in Nat
    BY <1>1, <1>3, SameBatch
  <2>2. ASSUME NEW k \in B PROVE N(k) \in low..low + L - 1
    <3>1. L * (N(k) \div L) = low /\ N(k) \in Nat
      BY <1>3, <1>5
    <3>2. L * (N(k) \div L) <= N(k) /\ N(k) < L * (N(k) \div L) + L
      BY <1>1, <3>1, SameBatch
    <3> QED BY <1>1, <2>1, <3>1, <3>2
  <2> QED BY <2>1, <2>2
<1> HIDE DEF low, L
<1> DEFINE f == [k \in B |-> N(k)]
<1>7. f \in Injection(B, low..low + L - 1)
  <2>1. ASSUME NEW j \in B, NEW k \in B, f[j] = f[k] PROVE j = k
    <3>1. j \in names /\ k \in names /\ j \in Nat /\ k \in Nat
      BY <1>5
    <3>2. N(j) = N(k)
      BY <2>1
    <3>3. ~(j < k) /\ ~(k < j)
      <4>1. N(j) \in Nat
        BY <1>3, <3>1
      <4>2. j < k => N(j) < N(k)
        BY <1>4, <3>1
      <4>3. k < j => N(k) < N(j)
        BY <1>4, <3>1
      <4> QED BY <3>2, <4>1, <4>2, <4>3
    <3> QED BY <3>1, <3>3
  <2>2. f \in [B -> low..low + L - 1]
    BY <1>6
  <2> QED BY <2>1, <2>2 DEF Injection, IsInjective
<1>8. IsFiniteSet(low..low + L - 1) /\ Cardinality(low..low + L - 1) = L
  BY <1>1, <1>6, FS_Interval DEF L
<1>9. Cardinality(B) <= L
  BY <1>7, <1>8, FS_Injection
<1> QED BY <1>5, <1>9 DEF L

\* No name is in two batches.
LEMMA EachInOneBatch ==
  ASSUME NEW names \in SUBSET (1..4)
  PROVE  /\ UNION service!Batches(names) = names
         /\ \A B, C \in service!Batches(names) : B \cap C # {} => B = C
BY DEF service!Batches

\* The requests of a call are for the keys it misses, each in one of them.
LEMMA AskedAre ==
  ASSUME NEW missing \in SUBSET service!Keys
  PROVE  /\ UNION service!Asked(missing) = missing
         /\ \A B, C \in service!Asked(missing) : B \cap C # {} => B = C
         /\ \A B \in service!Asked(missing) : B \subseteq missing /\ B # {} /\ Cardinality(B) <= AwsRequestLimit
<1>1. missing \ service!Paths \in SUBSET (1..4) /\ missing \in SUBSET (1..4)
  BY KeysAre
<1>2. \A k : Cardinality({k}) <= AwsRequestLimit
  <2>1. \A k : Cardinality({k}) = 1
    BY FS_Singleton
  <2> QED BY <2>1, FetchAssumption
<1>3. CASE middleware \in service!Ssm
  <2> DEFINE batches == service!Batches(missing \ service!Paths)
             paths == {{k} : k \in missing \cap service!Paths}
  <2>1. service!Asked(missing) = batches \cup paths
    BY <1>3 DEF service!Asked
  <2>2. /\ UNION batches = missing \ service!Paths
        /\ \A B, C \in batches : B \cap C # {} => B = C
        /\ \A B \in batches : B # {} /\ Cardinality(B) <= AwsRequestLimit
    BY <1>1, EachInOneBatch, BatchesAre
  <2> HIDE DEF batches
  <2>3. UNION service!Asked(missing) = missing
    <3>1. UNION paths = missing \cap service!Paths
      OBVIOUS
    <3>2. UNION (batches \cup paths) = (UNION batches) \cup (UNION paths)
      OBVIOUS
    <3> QED BY <2>1, <2>2, <3>1, <3>2
  <2>4. ASSUME NEW B \in batches \cup paths, NEW C \in batches \cup paths, B \cap C # {} PROVE B = C
    <3>1. \A X \in batches : X \subseteq UNION batches
      OBVIOUS
    <3>2. CASE B \in batches /\ C \in batches
      BY <2>2, <2>4, <3>2
    <3>3. CASE B \in paths /\ C \in paths
      BY <2>4, <3>3
    <3>4. CASE B \in batches /\ C \in paths
      BY <2>2, <2>4, <3>1, <3>4
    <3>5. CASE B \in paths /\ C \in batches
      BY <2>2, <2>4, <3>1, <3>5
    <3> QED BY <3>2, <3>3, <3>4, <3>5
  <2>5. ASSUME NEW B \in batches \cup paths PROVE B \subseteq missing /\ B # {} /\ Cardinality(B) <= AwsRequestLimit
    <3>1. CASE B \in batches
      BY <2>2, <3>1
    <3>2. CASE B \in paths
      BY <1>2, <3>2
    <3> QED BY <3>1, <3>2
  <2> QED BY <2>1, <2>3, <2>4, <2>5
<1>4. CASE middleware \notin service!Ssm
  BY <1>2, <1>4 DEF service!Asked
<1> QED BY <1>3, <1>4

----------------------------------------------------------------------------
\* The requests after a step have the calls and keys of those before it, one each.
LEMMA PendsOn ==
  ASSUME Pends, UNCHANGED <<middleware, promise>>,
         \A s \in requests' : \E q \in requests : s.call = q.call /\ s.keys = q.keys,
         \A q \in requests : \E s \in requests' : s.call = q.call /\ s.keys = q.keys,
         \A s, t \in requests' : s.call = t.call /\ s.keys \cap t.keys # {} => s = t
  PROVE  Pends'
<1>1. service!Keys' = service!Keys
  BY DEF service!Keys
<1> QED BY <1>1 DEF Pends

\* A request that goes on to its next step changes nothing else.
LEMMA RequestGoesOn ==
  ASSUME ServiceInv, NEW r \in requests, NEW s, service!Becomes(r, s), RequestTyped(s),
         s.call = r.call, s.keys = r.keys
  PROVE  ServiceInv'
<1>0. /\ requests' = (requests \ {r}) \cup {s} /\ UNCHANGED <<middleware, entry, promise, got, caller, rejected>>
      /\ service!Keys' = service!Keys
  BY DEF service!Becomes, service!Keys
<1>1. ServiceTyped'
  BY <1>0 DEF ServiceInv, ServiceTyped, RequestTyped
<1>2. Pends'
  <2>1. Pends /\ \A q, t \in requests : q.call = t.call /\ q.keys \cap t.keys # {} => q = t
    BY DEF ServiceInv, Pends
  <2>2. \A p, t \in requests' : p.call = t.call /\ p.keys \cap t.keys # {} => p = t
    BY <1>0, <2>1
  <2> QED BY <1>0, <2>1, <2>2, PendsOn
<1>3. CallersTyped' /\ Held' /\ Failing' /\ Holding'
  BY <1>0 DEF ServiceInv, CallersTyped, Held, Failing, Holding
<1>4. Gets'
  BY <1>0 DEF ServiceInv, Gets, OwnOf
<1> QED BY <1>1, <1>2, <1>3, <1>4 DEF ServiceInv

\* A request is answered: failed keys are refused and leave the entry, the others have a value.
LEMMA RequestSettles ==
  ASSUME ServiceInv, NEW r \in requests, NEW failed \in SUBSET r.keys, NEW val, service!Settle(r, failed, val),
         \A k \in r.keys \ failed : val[k] \in OwnOf(k) \cap 0..4,
         rejected' \in [1..2 -> SUBSET service!Keys], \A i \in 1..2 : rejected[i] \subseteq rejected'[i],
         failed \subseteq rejected'[r.call]
  PROVE  ServiceInv'
<1> DEFINE c == r.call
           ks == r.keys
<1>0. /\ requests' = requests \ {r} /\ UNCHANGED <<middleware, caller>> /\ service!Keys' = service!Keys
      /\ promise' = [promise EXCEPT ![c] =
           [k \in service!Keys |-> IF k \in failed THEN "failed" ELSE IF k \in ks THEN "ok" ELSE promise[c][k]]]
      /\ got' = [got EXCEPT ![c] = [k \in service!Keys |-> IF k \in ks \ failed THEN val[k] ELSE got[c][k]]]
      /\ entry' = [k \in service!Keys |-> IF k \in failed /\ entry[k] = c THEN 0 ELSE entry[k]]
  BY DEF service!Settle, service!Keys
<1>1. ServiceTyped /\ CallersTyped /\ Pends /\ Held /\ Failing /\ Gets /\ Holding
  BY DEF ServiceInv
<1>2. c \in 1..2 /\ ks \subseteq service!Keys /\ ks # {} /\ failed \subseteq ks
  BY <1>1 DEF ServiceTyped, RequestTyped
<1>3. \A k \in ks : promise[c][k] = "pending" /\ entry[k] = c
  BY <1>1, <1>2 DEF Pends, Held
<1>4. \A k \in ks \ failed : val[k] \in OwnOf(k) /\ val[k] \in 0..4
  OBVIOUS
<1> HIDE DEF c, ks
<1>5. \A i \in 1..2, k \in service!Keys :
        /\ promise'[i][k] = IF i = c /\ k \in failed THEN "failed"
                            ELSE IF i = c /\ k \in ks THEN "ok" ELSE promise[i][k]
        /\ got'[i][k] = IF i = c /\ k \in ks \ failed THEN val[k] ELSE got[i][k]
        /\ entry'[k] = IF k \in failed THEN 0 ELSE entry[k]
  BY <1>0, <1>1, <1>2, <1>3 DEF ServiceTyped
<1>6. ServiceTyped'
  <2>1. \A q \in requests' : RequestTyped(q)'
    BY <1>0, <1>1 DEF ServiceTyped, RequestTyped
  <2>2. entry' \in [service!Keys -> 0..2]
    BY <1>0, <1>1 DEF ServiceTyped
  <2>3. promise' \in [1..2 -> [service!Keys -> {"none", "pending", "ok", "failed"}]]
    BY <1>0, <1>1, <1>2 DEF ServiceTyped
  <2>4. got' \in [1..2 -> [service!Keys -> 0..4]]
    BY <1>0, <1>1, <1>2, <1>4 DEF ServiceTyped
  <2> QED BY <1>0, <1>1, <2>1, <2>2, <2>3, <2>4 DEF ServiceTyped
<1>7. CallersTyped'
  BY <1>0, <1>1 DEF CallersTyped
<1>8. Pends'
  <2>1. \A q \in requests : q.call = c /\ q.keys \cap ks # {} => q = r
    BY <1>1 DEF Pends, c, ks
  <2>2. ASSUME NEW i \in 1..2, NEW k \in service!Keys
        PROVE  promise'[i][k] = "pending" <=> \E q \in requests' : q.call = i /\ k \in q.keys
    <3>1. promise[i][k] = "pending" <=> \E q \in requests : q.call = i /\ k \in q.keys
      BY <1>1 DEF Pends
    <3>2. CASE i = c /\ k \in ks
      <4>1. \A q \in requests' : ~(q.call = i /\ k \in q.keys)
        BY <1>0, <2>1, <3>2
      <4> QED BY <1>5, <3>2, <4>1
    <3>3. CASE ~(i = c /\ k \in ks)
      <4>1. promise'[i][k] = promise[i][k]
        BY <1>2, <1>5, <3>3
      <4>2. ~(r.call = i /\ k \in r.keys)
        BY <3>3 DEF c, ks
      <4> QED BY <1>0, <3>1, <4>1, <4>2
    <3> QED BY <3>2, <3>3
  <2> QED BY <1>0, <1>1, <2>2 DEF Pends
<1>9. Held'
  BY <1>0, <1>1, <1>2, <1>3, <1>5 DEF Held
<1>10. Failing'
  BY <1>0, <1>1, <1>2, <1>3, <1>5 DEF Failing, c
<1>11. Gets'
  <2>1. \A k : OwnOf(k)' = OwnOf(k)
    BY <1>0 DEF OwnOf
  <2>2. ASSUME NEW i \in 1..2, NEW k \in service!Keys, promise'[i][k] = "ok" PROVE got'[i][k] \in OwnOf(k)
    <3>1. CASE i = c /\ k \in ks \ failed
      BY <1>4, <1>5, <3>1
    <3>2. CASE ~(i = c /\ k \in ks \ failed)
      <4>1. promise[i][k] = "ok" /\ got'[i][k] = got[i][k]
        BY <1>2, <1>5, <2>2, <3>2
      <4> QED BY <1>1, <4>1 DEF Gets
    <3> QED BY <3>1, <3>2
  <2> QED BY <1>0, <2>1, <2>2 DEF Gets
<1>12. Holding'
  <2>1. ASSUME NEW i \in 1..2, NEW k \in service!Keys, caller[i].pc # "idle"
        PROVE  /\ caller[i].holds[k] # 0 /\ promise'[caller[i].holds[k]][k] # "none"
               /\ caller[i].pc = "resolved" => promise'[caller[i].holds[k]][k] = "ok"
    <3> DEFINE n == caller[i].holds[k]
    <3>1. n \in 0..2 /\ n # 0 /\ promise[n][k] # "none" /\ (caller[i].pc = "resolved" => promise[n][k] = "ok")
      BY <1>1, <2>1 DEF CallersTyped, Holding
    <3> HIDE DEF n
    <3>2. n \in 1..2
      BY <3>1
    <3> QED BY <1>2, <1>3, <1>5, <3>1, <3>2 DEF n
  <2>2. ASSUME NEW i \in 1..2, NEW k \in service!Keys, caller[i].pc = "idle" PROVE promise'[i][k] = "none"
    BY <1>1, <1>2, <1>3, <1>5, <2>2 DEF Holding
  <2> QED BY <1>0, <2>1, <2>2 DEF Holding
<1> QED BY <1>6, <1>7, <1>8, <1>9, <1>10, <1>11, <1>12 DEF ServiceInv

\* A key's own name is what it may resolve to.
LEMMA OwnIsOwn == \A k \in service!Keys : k \in OwnOf(k) \cap 0..4 /\ service!Own[k] = k
<1> TAKE k \in service!Keys
<1>1. k \in 1..4
  BY KeysAre
<1>2. k \in OwnOf(k)
  BY DEF OwnOf
<1>3. service!Own[k] = k
  BY DEF service!Own
<1> QED BY <1>1, <1>2, <1>3

\* A request resolves: every key has a value of its own.
LEMMA RequestResolves ==
  ASSUME ServiceInv, NEW r \in requests, service!Resolves(r)
  PROVE  ServiceInv'
<1>1. service!Settle(r, {}, service!Own) /\ rejected' = rejected
  BY DEF service!Resolves
<1>2. r.keys \subseteq service!Keys /\ rejected \in [1..2 -> SUBSET service!Keys]
  BY DEF ServiceInv, ServiceTyped, RequestTyped
<1>3. \A k \in r.keys \ {} : service!Own[k] \in OwnOf(k) \cap 0..4
  BY <1>2, OwnIsOwn
<1> HIDE DEF service!Own
<1> QED BY <1>1, <1>2, <1>3, RequestSettles

\* A request is rejected: every key of it fails, and the entry forgets them.
LEMMA RequestRejects ==
  ASSUME ServiceInv, NEW r \in requests, service!Rejects(r)
  PROVE  ServiceInv'
<1>1. service!Settle(r, r.keys, service!Own) /\ rejected' = [rejected EXCEPT ![r.call] = @ \cup r.keys]
  BY DEF service!Rejects
<1>2. r.keys \subseteq service!Keys /\ rejected \in [1..2 -> SUBSET service!Keys] /\ r.call \in 1..2
  BY DEF ServiceInv, ServiceTyped, RequestTyped
<1>3. /\ rejected' \in [1..2 -> SUBSET service!Keys] /\ \A i \in 1..2 : rejected[i] \subseteq rejected'[i]
      /\ r.keys \subseteq rejected'[r.call]
  BY <1>1, <1>2
<1> QED BY <1>1, <1>3, RequestSettles

\* A request is sent once more with a new signature.
LEMMA RequestRetries ==
  ASSUME ServiceInv, NEW r \in requests, service!RetriesSignature(r)
  PROVE  ServiceInv'
<1>1. service!Becomes(r, [r EXCEPT !.retried = TRUE])
  BY DEF service!RetriesSignature
<1>2. RequestTyped(r)
  BY DEF ServiceInv, ServiceTyped
<1>3. PICK s : s = [r EXCEPT !.retried = TRUE]
  OBVIOUS
<1>4. RequestTyped(s) /\ s.call = r.call /\ s.keys = r.keys
  BY <1>2, <1>3 DEF RequestTyped
<1> QED BY <1>1, <1>3, <1>4, RequestGoesOn

\* A request of the same call for the same keys may have any further step, and pages.
LEMMA RequestMoves ==
  ASSUME ServiceInv, NEW r \in requests, NEW s, service!Becomes(r, s),
         \E st \in {"token", "describe", "get", "body", "refused"}, b \in BOOLEAN, p \in {{}, {1}} :
           s = [r EXCEPT !.step = st, !.retried = b, !.kept = p]
  PROVE  ServiceInv'
<1>1. RequestTyped(r)
  BY DEF ServiceInv, ServiceTyped
<1>2. RequestTyped(s) /\ s.call = r.call /\ s.keys = r.keys
  BY <1>1 DEF RequestTyped
<1> QED BY <1>2, RequestGoesOn

\* GetParameters refuses invalid names and resolves the others.
LEMMA ParametersAre ==
  ASSUME ServiceInv, NEW r \in requests, service!GetParameters(r)
  PROVE  ServiceInv'
<1>1. ASSUME NEW invalid \in SUBSET r.keys, service!Settle(r, service!InvalidParameters(r, invalid), service!Own),
             rejected' = [rejected EXCEPT ![r.call] = @ \cup invalid]
      PROVE  ServiceInv'
  <2>1. r.keys \subseteq service!Keys /\ rejected \in [1..2 -> SUBSET service!Keys] /\ r.call \in 1..2
    BY DEF ServiceInv, ServiceTyped, RequestTyped
  <2>2. /\ rejected' \in [1..2 -> SUBSET service!Keys] /\ \A i \in 1..2 : rejected[i] \subseteq rejected'[i]
        /\ invalid \subseteq rejected'[r.call]
    BY <1>1, <2>1
  <2>3. \A k \in r.keys \ invalid : service!Own[k] \in OwnOf(k) \cap 0..4
    BY <2>1, OwnIsOwn
  <2>4. service!Settle(r, invalid, service!Own)
    BY <1>1 DEF service!InvalidParameters
  <2> HIDE DEF service!Own
  <2> QED BY <2>2, <2>3, <2>4, RequestSettles
<1> QED BY <1>1, RequestRetries, RequestRejects DEF service!GetParameters

\* Each page is kept with those before it.
LEMMA PagesAre ==
  ASSUME ServiceInv, NEW r \in requests, service!GetParametersByPath(r)
  PROVE  ServiceInv'
<1> DEFINE page == Cardinality(r.kept) + 1
<1>1. RequestTyped(r)
  BY DEF ServiceInv, ServiceTyped
<1>2. r.kept = {} \/ r.kept = {1}
  BY <1>1 DEF RequestTyped
<1>3. Cardinality({}) = 0 /\ Cardinality({1}) = 1 /\ IsFiniteSet({1})
  BY FS_EmptySet, FS_Singleton
<1>4. Cardinality({1} \cup {2}) = 2
  BY <1>3, FS_AddElement
<1>5. /\ r.kept = {} => page = 1 /\ service!AddPage(r, page) = {1}
      /\ r.kept = {1} => page = 2 /\ service!AddPage(r, page) = {1} \cup {2}
  BY <1>3 DEF service!AddPage
<1>6. Cardinality(service!AddPage(r, page)) = page
  BY <1>2, <1>3, <1>4, <1>5
<1>7. CASE page < service!Pages /\ service!Becomes(r, [r EXCEPT !.kept = service!AddPage(r, page), !.retried = FALSE])
  <2>1. service!AddPage(r, page) = {1}
    BY <1>2, <1>5, <1>7 DEF service!Pages
  <2>2. PICK s : s = [r EXCEPT !.kept = {1}, !.retried = FALSE]
    OBVIOUS
  <2>3. RequestTyped(s) /\ s.call = r.call /\ s.keys = r.keys
    BY <1>1, <2>2 DEF RequestTyped
  <2>4. service!Becomes(r, s)
    BY <1>7, <2>1, <2>2
  <2> QED BY <2>3, <2>4, RequestGoesOn
<1>8. CASE /\ service!Settle(r, {}, [k \in service!Keys |->
                                       IF Cardinality(service!AddPage(r, page)) = page THEN k ELSE 0])
           /\ UNCHANGED rejected
  <2> DEFINE val == [k \in service!Keys |-> IF Cardinality(service!AddPage(r, page)) = page THEN k ELSE 0]
  <2>1. r.keys \subseteq service!Keys /\ rejected \in [1..2 -> SUBSET service!Keys]
    BY DEF ServiceInv, ServiceTyped, RequestTyped
  <2>2. \A k \in r.keys \ {} : val[k] \in OwnOf(k) \cap 0..4
    <3>1. \A k \in service!Keys : val[k] = k
      BY <1>6
    <3> HIDE DEF val
    <3> QED BY <2>1, <3>1, OwnIsOwn
  <2>3. service!Settle(r, {}, val) /\ rejected' = rejected
    BY <1>8
  <2> HIDE DEF val
  <2> QED BY <2>1, <2>2, <2>3, RequestSettles
<1> HIDE DEF page
<1>9. page = service!Cardinality(r.kept) + 1
  BY Counts DEF page
<1> QED BY <1>7, <1>8, <1>9, Counts, RequestRetries, RequestRejects DEF service!GetParametersByPath

\* A request to an extension has the session token it reads.
LEMMA TokenIsThere ==
  ASSUME ServiceInv, NEW r \in requests, service!SessionToken(r)
  PROVE  ServiceInv'
<1>1. PICK next \in {"get", "refused"} :
        requests' = {IF q.call = r.call THEN [q EXCEPT !.step = next] ELSE q : q \in requests}
  BY DEF service!SessionToken
<1>0. UNCHANGED <<middleware, entry, promise, got, caller, rejected>> /\ service!Keys' = service!Keys
  BY DEF service!SessionToken, service!Keys
<1> DEFINE F(q) == IF q.call = r.call THEN [q EXCEPT !.step = next] ELSE q
<1>2. ASSUME NEW q \in requests PROVE RequestTyped(F(q)) /\ F(q).call = q.call /\ F(q).keys = q.keys
  <2>1. RequestTyped(q)
    BY DEF ServiceInv, ServiceTyped
  <2> QED BY <2>1 DEF RequestTyped
<1>3. requests' = {F(q) : q \in requests}
  BY <1>1
<1> HIDE DEF F
<1>4. ServiceTyped'
  <2>1. \A s \in requests' : RequestTyped(s)'
    BY <1>0, <1>2, <1>3 DEF RequestTyped
  <2> QED BY <1>0, <2>1 DEF ServiceInv, ServiceTyped
<1>5. Pends'
  <2>1. Pends /\ \A q, t \in requests : q.call = t.call /\ q.keys \cap t.keys # {} => q = t
    BY DEF ServiceInv, Pends
  <2>2. /\ \A s \in requests' : \E q \in requests : s.call = q.call /\ s.keys = q.keys
        /\ \A q \in requests : \E s \in requests' : s.call = q.call /\ s.keys = q.keys
    BY <1>2, <1>3
  <2>3. \A s, t \in requests' : s.call = t.call /\ s.keys \cap t.keys # {} => s = t
    BY <1>2, <1>3, <2>1
  <2> QED BY <1>0, <2>1, <2>2, <2>3, PendsOn
<1>6. CallersTyped' /\ Held' /\ Failing' /\ Holding'
  BY <1>0 DEF ServiceInv, CallersTyped, Held, Failing, Holding
<1>7. Gets'
  BY <1>0 DEF ServiceInv, Gets, OwnOf
<1> QED BY <1>4, <1>5, <1>6, <1>7 DEF ServiceInv

\* Whatever a service answers to a request keeps the invariant.
LEMMA ServiceAnswers ==
  ASSUME ServiceInv, NEW r \in requests, service!Service(r)
  PROVE  ServiceInv'
<1>1. CASE service!GetParameters(r)
  BY <1>1, ParametersAre
<1>2. CASE service!GetParametersByPath(r)
  BY <1>2, PagesAre
<1>3. CASE service!SessionToken(r)
  BY <1>3, TokenIsThere
<1>4. RequestTyped(r)
  BY DEF ServiceInv, ServiceTyped
<1>5. ASSUME NEW s, service!Becomes(r, s),
             s = [r EXCEPT !.step = "get", !.retried = FALSE] \/ s = [r EXCEPT !.step = "body"]
      PROVE  ServiceInv'
  <2>1. RequestTyped(s) /\ s.call = r.call /\ s.keys = r.keys
    BY <1>4, <1>5 DEF RequestTyped
  <2> QED BY <1>5, <2>1, RequestGoesOn
<1>6. CASE service!SecretsManager(r)
  BY <1>5, <1>6, RequestRetries, RequestRejects, RequestResolves DEF service!SecretsManager
<1>7. CASE service!S3(r)
  BY <1>5, <1>7, RequestRetries, RequestRejects, RequestResolves DEF service!S3
<1>8. CASE service!DynamoDb(r)
  <2>1. CASE service!Settle(r, {}, [k \in service!Keys |-> 0]) /\ UNCHANGED rejected
    <3> DEFINE val == [k \in service!Keys |-> 0]
    <3>1. r.keys \subseteq service!Keys /\ rejected \in [1..2 -> SUBSET service!Keys]
      BY DEF ServiceInv, ServiceTyped, RequestTyped
    <3>2. \A k \in r.keys \ {} : val[k] \in OwnOf(k) \cap 0..4
      BY <1>8, <3>1 DEF OwnOf, service!DynamoDb
    <3>3. service!Settle(r, {}, val) /\ rejected' = rejected
      BY <2>1
    <3> HIDE DEF val
    <3> QED BY <3>1, <3>2, <3>3, RequestSettles
  <2> QED BY <1>8, <2>1, RequestRetries, RequestRejects, RequestResolves DEF service!DynamoDb
<1>9. CASE service!Sts(r) \/ service!Kms(r) \/ service!ServiceDiscovery(r) \/ service!GlueSchemaRegistry(r)
  BY <1>9, RequestRetries, RequestRejects, RequestResolves
  DEF service!Sts, service!Kms, service!ServiceDiscovery, service!GlueSchemaRegistry
<1>10. CASE service!SsmExtension(r) \/ service!SecretsManagerExtension(r) \/ service!AppConfigExtension(r)
  BY <1>10, RequestRejects, RequestResolves
  DEF service!SsmExtension, service!SecretsManagerExtension, service!AppConfigExtension, service!Extension
<1>11. CASE service!RdsSigner(r) \/ service!DsqlSigner(r)
  BY <1>11, RequestRejects, RequestResolves DEF service!RdsSigner, service!DsqlSigner
<1> QED BY <1>1, <1>2, <1>3, <1>6, <1>7, <1>8, <1>9, <1>10, <1>11 DEF service!Service

\* An invocation asks for the keys the entry does not hold, and holds a promise for each.
LEMMA CacheProcessed ==
  ASSUME ServiceInv, NEW i \in 1..2, NEW next \in {"prefetched", "awaits"}, service!ProcessCache(i, next)
  PROVE  ServiceInv'
<1> DEFINE missing == {k \in service!Keys : entry[k] = 0}
           asked == service!Asked(missing)
           New(ks) == [call |-> i, keys |-> ks, step |-> service!FirstStep(CHOOSE k \in ks : TRUE),
                       retried |-> FALSE, kept |-> {}]
<1>0. /\ caller[i].pc = "idle" /\ UNCHANGED <<middleware, got, rejected>> /\ service!Keys' = service!Keys
      /\ \A j \in 1..i - 1 : caller[j].pc # "idle"
      /\ requests' = requests \cup {New(ks) : ks \in asked}
      /\ promise' = [promise EXCEPT ![i] = [k \in service!Keys |-> IF k \in UNION asked THEN "pending" ELSE "none"]]
      /\ entry' = [k \in service!Keys |-> IF promise'[i][k] = "pending" THEN i ELSE entry[k]]
      /\ caller' = [caller EXCEPT ![i] = [pc |-> next, holds |-> entry']]
  BY DEF service!ProcessCache, service!FetchRequest, service!Missing, service!Keys
<1>1. ServiceTyped /\ CallersTyped /\ Pends /\ Held /\ Failing /\ Gets /\ Holding
  BY DEF ServiceInv
<1>2. /\ UNION asked = missing /\ \A B, C \in asked : B \cap C # {} => B = C
      /\ \A B \in asked : B \subseteq missing /\ B # {} /\ Cardinality(B) <= AwsRequestLimit
  <2>1. missing \in SUBSET service!Keys
    OBVIOUS
  <2> HIDE DEF missing
  <2> QED BY <2>1, AskedAre
<1>3. \A ks : service!FirstStep(ks) \in {"token", "describe", "get", "body", "refused"}
  BY DEF service!FirstStep
<1>4. \A k \in service!Keys : promise[i][k] = "none"
  BY <1>0, <1>1 DEF Holding
<1>5. \A q \in requests : q.call # i
  <2>1. \A q \in requests : q.keys \subseteq service!Keys /\ q.keys # {}
    BY <1>1 DEF ServiceTyped, RequestTyped
  <2> QED BY <1>1, <1>4, <2>1 DEF Pends
<1> HIDE DEF asked
<1>6. ASSUME NEW B \in asked
      PROVE  RequestTyped(New(B)) /\ New(B).call = i /\ New(B).keys = B
  <2> DEFINE st == service!FirstStep(CHOOSE k \in B : TRUE)
  <2>1. st \in {"token", "describe", "get", "body", "refused"}
    BY <1>3
  <2>2. New(B) = [call |-> i, keys |-> B, step |-> st, retried |-> FALSE, kept |-> {}]
    OBVIOUS
  <2>3. B \subseteq service!Keys /\ B # {} /\ Cardinality(B) <= AwsRequestLimit
    BY <1>2
  <2> HIDE DEF st, New
  <2> QED BY <2>1, <2>2, <2>3 DEF RequestTyped
<1> HIDE DEF New
<1>7. \A j \in 1..2, k \in service!Keys :
        /\ promise'[j][k] = IF j = i /\ k \in missing THEN "pending" ELSE promise[j][k]
        /\ entry'[k] = IF k \in missing THEN i ELSE entry[k]
  BY <1>0, <1>1, <1>2, <1>4 DEF ServiceTyped
<1>8. \A k \in service!Keys : k \in missing <=> entry[k] = 0
  OBVIOUS
<1> HIDE DEF missing
<1>9. ServiceTyped'
  <2>1. \A q \in requests' : RequestTyped(q)'
    <3> SUFFICES ASSUME NEW q \in requests' PROVE RequestTyped(q) /\ RequestTyped(q)' = RequestTyped(q)
      OBVIOUS
    <3>1. RequestTyped(q)
      <4>1. CASE q \in requests
        BY <1>1, <4>1 DEF ServiceTyped
      <4>2. CASE \E B \in asked : q = New(B)
        BY <1>6, <4>2
      <4> QED BY <1>0, <4>1, <4>2
    <3>2. RequestTyped(q)' = RequestTyped(q)
      BY <1>0 DEF RequestTyped
    <3> QED BY <3>1, <3>2
  <2>2. promise' \in [1..2 -> [service!Keys -> {"none", "pending", "ok", "failed"}]]
    BY <1>0, <1>1 DEF ServiceTyped
  <2>3. entry' \in [service!Keys -> 0..2]
    BY <1>0, <1>1 DEF ServiceTyped
  <2> QED BY <1>0, <1>1, <2>1, <2>2, <2>3 DEF ServiceTyped
<1>10. CallersTyped'
  BY <1>0, <1>1, <1>9 DEF CallersTyped, ServiceTyped
<1>11. Pends'
  <2>1. ASSUME NEW j \in 1..2, NEW k \in service!Keys
        PROVE  promise'[j][k] = "pending" <=> \E q \in requests' : q.call = j /\ k \in q.keys
    <3>1. promise[j][k] = "pending" <=> \E q \in requests : q.call = j /\ k \in q.keys
      BY <1>1 DEF Pends
    <3>2. CASE j = i
      <4>1. promise'[j][k] = "pending" <=> k \in missing
        BY <1>4, <1>7, <3>2
      <4>2. (\E q \in requests' : q.call = j /\ k \in q.keys) <=> \E B \in asked : k \in B
        BY <1>0, <1>5, <1>6, <3>2
      <4> QED BY <1>2, <4>1, <4>2
    <3>3. CASE j # i
      <4>1. promise'[j][k] = promise[j][k]
        BY <1>7, <3>3
      <4>2. (\E q \in requests' : q.call = j /\ k \in q.keys) <=> \E q \in requests : q.call = j /\ k \in q.keys
        BY <1>0, <1>6, <3>3
      <4> QED BY <3>1, <4>1, <4>2
    <3> QED BY <3>2, <3>3
  <2>2. ASSUME NEW p \in requests', NEW q \in requests', p.call = q.call, p.keys \cap q.keys # {} PROVE p = q
    <3>1. CASE p \in requests /\ q \in requests
      BY <1>1, <2>2, <3>1 DEF Pends
    <3>2. CASE ~(p \in requests /\ q \in requests)
      <4>1. PICK B \in asked, C \in asked : p = New(B) /\ q = New(C)
        BY <1>0, <1>5, <1>6, <2>2, <3>2
      <4> QED BY <1>2, <1>6, <2>2, <4>1
    <3> QED BY <3>1, <3>2
  <2> QED BY <1>0, <2>1, <2>2 DEF Pends
<1>12. Held'
  BY <1>0, <1>1, <1>4, <1>7, <1>8 DEF Held, ServiceTyped
<1>13. Failing'
  <2>1. \A j \in 1..2, k \in service!Keys : promise'[j][k] = "failed" => promise[j][k] = "failed"
    BY <1>7
  <2>2. ASSUME NEW k \in service!Keys, promise'[1][k] # "none", promise'[2][k] # "none"
        PROVE  promise'[1][k] = "failed"
    <3>1. CASE i = 1
      <4>2. promise[2][k] # "none" /\ promise[1][k] = "none"
        BY <1>4, <1>7, <2>2, <3>1
      <4> QED BY <1>0, <1>1, <4>2, <3>1 DEF CallersTyped, Holding
    <3>2. CASE i = 2
      <4>1. promise[1][k] # "none" /\ k \in missing
        BY <1>4, <1>7, <2>2, <3>2
      <4>2. promise[1][k] \notin {"pending", "ok"}
        BY <1>1, <1>8, <4>1 DEF Held
      <4> QED BY <1>1, <1>7, <3>2, <4>1, <4>2 DEF ServiceTyped
    <3> QED BY <3>1, <3>2
  <2> QED BY <1>0, <1>1, <2>1, <2>2 DEF Failing
<1>14. Gets'
  <2>1. \A k : OwnOf(k)' = OwnOf(k)
    BY <1>0 DEF OwnOf
  <2> QED BY <1>0, <1>1, <1>7, <2>1 DEF Gets
<1>15. Holding'
  <2>1. ASSUME NEW j \in 1..2, NEW k \in service!Keys
        PROVE  IF caller'[j].pc = "idle" THEN promise'[j][k] = "none"
               ELSE /\ caller'[j].holds[k] # 0 /\ promise'[caller'[j].holds[k]][k] # "none"
                    /\ caller'[j].pc = "resolved" => promise'[caller'[j].holds[k]][k] = "ok"
    <3>1. CASE j = i
      <4>1. caller'[j].pc = next /\ caller'[j].holds[k] = entry'[k]
        BY <1>0, <1>1, <3>1 DEF CallersTyped
      <4>2. CASE k \in missing
        BY <1>7, <4>1, <4>2
      <4>3. CASE k \notin missing
        <5>1. entry'[k] = entry[k] /\ entry[k] \in 1..2
          BY <1>1, <1>7, <1>8, <4>3 DEF ServiceTyped
        <5>2. promise[entry[k]][k] \in {"pending", "ok"}
          BY <1>1, <5>1 DEF Held
        <5>3. promise'[entry[k]][k] = promise[entry[k]][k]
          BY <1>7, <4>3, <5>1
        <5> QED BY <4>1, <5>1, <5>2, <5>3
      <4> QED BY <4>2, <4>3
    <3>2. CASE j # i
      <4>1. caller'[j] = caller[j] /\ promise'[j][k] = promise[j][k]
        BY <1>0, <1>1, <1>7, <3>2 DEF CallersTyped
      <4>2. CASE caller[j].pc = "idle"
        BY <1>1, <4>1, <4>2 DEF Holding
      <4>3. CASE caller[j].pc # "idle"
        <5> DEFINE n == caller[j].holds[k]
        <5>1. n \in 1..2 /\ promise[n][k] # "none" /\ (caller[j].pc = "resolved" => promise[n][k] = "ok")
          BY <1>1, <4>3 DEF CallersTyped, Holding
        <5>2. n # i
          BY <1>4, <5>1
        <5> HIDE DEF n
        <5>3. promise'[n][k] = promise[n][k]
          BY <1>7, <5>1, <5>2
        <5> QED BY <4>1, <4>3, <5>1, <5>3 DEF n
      <4> QED BY <4>2, <4>3
    <3> QED BY <3>1, <3>2
  <2> QED BY <1>0, <2>1 DEF Holding
<1> QED BY <1>9, <1>10, <1>11, <1>12, <1>13, <1>14, <1>15 DEF ServiceInv

\* Every step of a fetch middleware keeps the invariant.
LEMMA ServiceNext == ServiceInv /\ service!Next => ServiceInv'
<1> SUFFICES ASSUME ServiceInv, service!Next PROVE ServiceInv'
  OBVIOUS
<1>1. ASSUME NEW r \in requests, service!Service(r) PROVE ServiceInv'
  BY <1>1, ServiceAnswers
<1>2. ASSUME NEW i \in 1..2, service!GetInternal(i) PROVE ServiceInv'
  <2>1. /\ caller[i].pc = "awaits" /\ UNCHANGED <<middleware, entry, requests, promise, got, rejected>>
        /\ \A k \in service!Keys : caller[i].holds[k] # 0 => promise[caller[i].holds[k]][k] # "pending"
        /\ caller' = [caller EXCEPT ![i].pc = IF service!Failed(i) = {} THEN "resolved" ELSE "rejected"]
        /\ service!Keys' = service!Keys
    BY <1>2 DEF service!GetInternal, service!Keys
  <2>2. ServiceTyped /\ CallersTyped /\ Pends /\ Held /\ Failing /\ Gets /\ Holding
    BY DEF ServiceInv
  <2>3. /\ caller'[i].pc = (IF service!Failed(i) = {} THEN "resolved" ELSE "rejected")
        /\ caller'[i].holds = caller[i].holds /\ \A j \in 1..2 \ {i} : caller'[j] = caller[j]
    BY <2>1, <2>2 DEF CallersTyped
  <2>4. ServiceTyped' /\ Pends' /\ Held' /\ Failing'
    BY <2>1, <2>2 DEF ServiceTyped, RequestTyped, Pends, Held, Failing
  <2>5. Gets'
    BY <2>1, <2>2 DEF Gets, OwnOf
  <2>6. CallersTyped'
    BY <2>1, <2>2 DEF CallersTyped
  <2>7. ASSUME NEW k \in service!Keys, service!Failed(i) = {} PROVE promise[caller[i].holds[k]][k] = "ok"
    <3> DEFINE n == caller[i].holds[k]
    <3>1. n \in 1..2 /\ promise[n][k] # "none" /\ promise[n][k] # "pending"
      BY <2>1, <2>2 DEF CallersTyped, Holding
    <3>2. promise[n][k] # "failed"
      BY <2>7, <3>1 DEF service!Failed
    <3> HIDE DEF n
    <3> QED BY <2>2, <3>1, <3>2 DEF ServiceTyped, n
  <2>8. Holding'
    BY <2>1, <2>2, <2>3, <2>7 DEF Holding
  <2> QED BY <2>4, <2>5, <2>6, <2>8 DEF ServiceInv
<1>3. ASSUME service!Prefetch PROVE ServiceInv'
  BY <1>3, CacheProcessed DEF service!Prefetch
<1>4. ASSUME NEW i \in 1..2, service!Before(i) PROVE ServiceInv'
  BY <1>4, CacheProcessed DEF service!Before
<1> QED BY <1>1, <1>2, <1>3, <1>4 DEF service!Next, service!Goes, service!Callers

----------------------------------------------------------------------------
(* SharedCache                                                             *)

\* Among natural numbers there is a least one.
LEMMA Least ==
  ASSUME NEW S, S \subseteq Nat, S # {}
  PROVE  \E m \in S : \A q \in S : m <= q
<1>1. PICK m \in S : \A q \in S : ~(<<q, m>> \in OpToRel(<, Nat))
  BY WFMin, NatLessThanWellFounded
<1>2. ASSUME NEW q \in S PROVE m <= q
  <2>1. q \in Nat /\ m \in Nat
    OBVIOUS
  <2>2. ~(q < m)
    BY <1>1, <2>1 DEF OpToRel
  <2> QED BY <2>1, <2>2
<1> QED BY <1>2

OptionsTyped ==
  /\ instances \in [1..3 -> [key : {"a", "b", "c"}, source : {"p", "q"}, cacheExpiry : Nat, cacheMaxSize : Nat]]
\* A timer is one of a middleware whose entries expire.
Timer == [of : {m \in 1..3 : instances[m].cacheExpiry \in Nat \ {0}}, due : Nat]
\* The timers of an entry refresh its own key.
Timed(e) == \A t \in e.refresh : instances[t.of].key = e.key
Entry == {e \in [key : {"a", "b", "c"}, source : {"p", "q"}, expires : Nat, refresh : SUBSET Timer] : Timed(e)}
\* A Map holds one entry per key.
Map(c) == c \in Seq(Entry) /\ \A i, j \in 1..Len(c) : c[i].key = c[j].key => i = j
TimersOf(c) == UNION {c[n].refresh : n \in 1..Len(c)}
Bound(n) == \E m \in 1..3 : n <= instances[m].cacheMaxSize
SharingInv == OptionsTyped /\ Map(entries) /\ timers = TimersOf(entries) /\ Bound(Len(entries)) /\ sharing!OwnIsCached

\* A timer of a Map is one of some entry.
LEMMA TimersAre == ASSUME NEW c, NEW t PROVE t \in TimersOf(c) <=> \E n \in 1..Len(c) : t \in c[n].refresh
BY DEF TimersOf

\* The invariant gives the property of the part.
LEMMA SharingHolds == SharingInv => sharing!CacheIsShared
<1> SUFFICES ASSUME SharingInv PROVE sharing!CacheIsShared
  OBVIOUS
<1>1. DOMAIN entries = 1..Len(entries)
  BY DEF SharingInv, Map
<1> QED BY <1>1 DEF SharingInv, TimersOf, Bound, sharing!CacheIsShared, sharing!Bounded, sharing!Middlewares

\* The cache is empty when a container starts.
LEMMA SharingInit == sharing!Init => SharingInv
<1> SUFFICES ASSUME sharing!Init PROVE SharingInv
  OBVIOUS
<1>1. entries = <<>> /\ timers = {} /\ served = {}
  BY DEF sharing!Init
<1>2. OptionsTyped
  <2>1. /\ instances \in [1..3 -> UNION {sharing!Options(m) : m \in 1..3}]
        /\ \A m \in 1..3 : instances[m] \in sharing!Options(m)
    BY DEF sharing!Init, sharing!Middlewares
  <2>2. ASSUME NEW m \in 1..3
        PROVE  instances[m] \in [key : {"a", "b", "c"}, source : {"p", "q"}, cacheExpiry : Nat, cacheMaxSize : Nat]
    <3>1. instances[m] \in sharing!Options(m)
      BY <2>1
    <3>2. CASE m = 1
      BY <3>1, <3>2 DEF sharing!Options, sharing!Forever
    <3>3. CASE m = 2
      BY <3>1, <3>3 DEF sharing!Options, sharing!Forever
    <3>4. CASE m = 3
      BY <3>1, <3>4 DEF sharing!Options, sharing!Forever
    <3> QED BY <3>2, <3>3, <3>4
  <2> QED BY <2>1, <2>2 DEF OptionsTyped
<1>3. Map(entries) /\ timers = TimersOf(entries)
  BY <1>1 DEF Map, TimersOf
<1>4. Bound(Len(entries))
  BY <1>1, <1>2 DEF Bound, OptionsTyped
<1>5. sharing!OwnIsCached
  BY <1>1 DEF sharing!OwnIsCached
<1> QED BY <1>2, <1>3, <1>4, <1>5 DEF SharingInv

\* What a Map is, spelled out.
LEMMA MapIs ==
  ASSUME NEW c, Map(c)
  PROVE  /\ c \in Seq(Entry) /\ Len(c) \in Nat /\ DOMAIN c = 1..Len(c) /\ \A n \in 1..Len(c) : c[n] \in Entry
         /\ \A i, j \in 1..Len(c) : c[i].key = c[j].key => i = j
BY DEF Map

\* No timer is of two entries.
LEMMA Apart ==
  ASSUME OptionsTyped, NEW c, Map(c), NEW i \in 1..Len(c), NEW j \in 1..Len(c), i # j
  PROVE  c[i].refresh \cap c[j].refresh = {}
<1>1. c[i] \in Entry /\ c[j] \in Entry /\ c[i].key # c[j].key
  BY MapIs
<1> QED BY <1>1 DEF Entry, Timed

\* A Map without its v-th entry.
LEMMA Removed ==
  ASSUME OptionsTyped, NEW c, Map(c), NEW v \in 1..Len(c), NEW d, d = sharing!RemoveAt(c, v)
  PROVE  /\ Map(d) /\ Len(d) = Len(c) - 1 /\ TimersOf(d) = TimersOf(c) \ c[v].refresh
         /\ \A i \in 1..Len(c) : i # v => \E j \in 1..Len(d) : d[j] = c[i]
<1>1. c \in Seq(Entry) /\ Len(c) \in Nat /\ \A i, j \in 1..Len(c) : c[i].key = c[j].key => i = j
  BY MapIs
<1>2. PICK t \in Seq(Entry) :
        /\ t = SubSeq(c, 1, v - 1) \o SubSeq(c, v + 1, Len(c)) /\ Len(t) = Len(c) - 1
        /\ \A i \in 1..Len(t) : t[i] = IF i < v THEN c[i] ELSE c[i + 1]
  <2>1. c \in Seq(Entry) /\ v \in 1..Len(c)
    BY <1>1
  <2> QED BY <2>1, RemoveAtIs
<1>3. d = t
  BY <1>2 DEF sharing!RemoveAt
<1>4. d \in Seq(Entry) /\ Len(d) = Len(c) - 1 /\ \A i \in 1..Len(d) : d[i] = IF i < v THEN c[i] ELSE c[i + 1]
  BY <1>2, <1>3
<1>5. \A i \in 1..Len(d) : \E j \in 1..Len(c) : j # v /\ d[i] = c[j]
  <2> TAKE i \in 1..Len(d)
  <2>1. CASE i < v
    <3>1. i \in 1..Len(c) /\ i # v /\ d[i] = c[i]
      BY <1>1, <1>4, <2>1
    <3> QED BY <3>1
  <2>2. CASE ~(i < v)
    <3>1. i + 1 \in 1..Len(c) /\ i + 1 # v /\ d[i] = c[i + 1]
      BY <1>1, <1>4, <2>2
    <3> QED BY <3>1
  <2> QED BY <2>1, <2>2
<1>6. \A i \in 1..Len(c) : i # v => \E j \in 1..Len(d) : d[j] = c[i]
  <2> TAKE i \in 1..Len(c)
  <2>1. CASE i < v
    <3>1. i \in 1..Len(d) /\ d[i] = c[i]
      BY <1>1, <1>4, <2>1
    <3> QED BY <3>1
  <2>2. CASE i > v
    <3>1. i - 1 \in 1..Len(d) /\ d[i - 1] = c[i]
      BY <1>1, <1>4, <2>2
    <3> QED BY <3>1
  <2> QED BY <1>1, <2>1, <2>2
<1>7. ASSUME NEW i \in 1..Len(d), NEW j \in 1..Len(d), d[i].key = d[j].key PROVE i = j
  <2> DEFINE At(k) == IF k < v THEN k ELSE k + 1
  <2>1. \A k \in 1..Len(d) : At(k) \in 1..Len(c) /\ d[k] = c[At(k)]
    BY <1>1, <1>4
  <2>2. At(i) = At(j)
    <3> HIDE DEF At
    <3>1. At(i) \in 1..Len(c) /\ At(j) \in 1..Len(c) /\ d[i] = c[At(i)] /\ d[j] = c[At(j)]
      BY <2>1
    <3>2. \A m, n \in 1..Len(c) : c[m].key = c[n].key => m = n
      BY <1>1
    <3> QED BY <1>7, <3>1, <3>2
  <2> QED BY <2>2
<1>8. TimersOf(d) = TimersOf(c) \ c[v].refresh
  <2>1. ASSUME NEW t1 \in TimersOf(d) PROVE t1 \in TimersOf(c) \ c[v].refresh
    <3>1. PICK i \in 1..Len(d) : t1 \in d[i].refresh
      BY DEF TimersOf
    <3>2. PICK j \in 1..Len(c) : j # v /\ d[i] = c[j]
      BY <1>5
    <3>3. t1 \notin c[v].refresh
      BY <3>1, <3>2, Apart
    <3> QED BY <3>1, <3>2, <3>3 DEF TimersOf
  <2>2. ASSUME NEW t1 \in TimersOf(c), t1 \notin c[v].refresh PROVE t1 \in TimersOf(d)
    <3>1. PICK i \in 1..Len(c) : t1 \in c[i].refresh
      BY DEF TimersOf
    <3>2. PICK j \in 1..Len(d) : d[j] = c[i]
      BY <1>6, <2>2, <3>1
    <3> QED BY <3>1, <3>2 DEF TimersOf
  <2> QED BY <2>1, <2>2
<1>9. Map(d)
  BY <1>4, <1>7 DEF Map
<1> QED BY <1>4, <1>6, <1>8, <1>9

\* evictCache chooses another entry than the one inserted, when there is one.
LEMMA VictimIs ==
  ASSUME NEW c, Map(c), c # <<>>, NEW inserted
  PROVE  /\ sharing!Victim(c, inserted) \in 1..Len(c)
         /\ (\E n \in 1..Len(c) : c[n].key # inserted) => c[sharing!Victim(c, inserted)].key # inserted
<1> DEFINE from == sharing!Candidates(c, inserted)
           Soonest(n) == \A o \in from :
             c[n].expires < c[o].expires \/ (c[n].expires = c[o].expires /\ n <= o)
<1>1. /\ from \subseteq 1..Len(c) /\ from # {}
      /\ (\E n \in 1..Len(c) : c[n].key # inserted) => \A n \in from : c[n].key # inserted
  <2>1. DOMAIN c = 1..Len(c) /\ Len(c) \in Nat
    BY MapIs
  <2>2. Len(c) # 0
    BY MapIs
  <2> QED BY <2>1, <2>2 DEF sharing!Candidates
<1>2. ASSUME NEW n \in from PROVE c[n].expires \in Nat /\ n \in Nat
  <2>1. Len(c) \in Nat /\ n \in 1..Len(c) /\ c[n] \in Entry
    BY <1>1, MapIs
  <2> QED BY <2>1 DEF Entry
<1> HIDE DEF from
<1>3. \E n \in from : Soonest(n)
  <2> DEFINE E == {c[n].expires : n \in from}
  <2>1. E \subseteq Nat /\ E # {}
    BY <1>1, <1>2
  <2>2. PICK e \in E : \A q \in E : e <= q
    BY <2>1, Least
  <2> DEFINE P == {n \in from : c[n].expires = e}
  <2>3. P \subseteq Nat /\ P # {}
    BY <1>2, <2>2
  <2>4. PICK n \in P : \A o \in P : n <= o
    BY <2>3, Least
  <2>5. Soonest(n)
    <3> SUFFICES ASSUME NEW o \in from PROVE c[n].expires < c[o].expires \/ (c[n].expires = c[o].expires /\ n <= o)
      OBVIOUS
    <3>1. c[n].expires = e /\ e <= c[o].expires /\ e \in Nat /\ c[o].expires \in Nat
      BY <1>2, <2>1, <2>2, <2>4
    <3>2. CASE c[o].expires = e
      BY <2>4, <3>1, <3>2
    <3>3. CASE c[o].expires # e
      BY <3>1, <3>3
    <3> QED BY <3>2, <3>3
  <2> QED BY <2>4, <2>5
<1>4. sharing!Victim(c, inserted) = CHOOSE n \in from : Soonest(n)
  BY DEF sharing!Victim, from
<1> HIDE DEF Soonest
<1>5. sharing!Victim(c, inserted) \in from
  BY <1>3, <1>4
<1> QED BY <1>1, <1>5

\* What the Map becomes when evictCache has seen to its size.
LEMMA Evicted ==
  ASSUME OptionsTyped, NEW c, Map(c), NEW m \in 1..3, NEW e, e.key = instances[m].key,
         NEW i \in 1..Len(c), c[i] = e, Bound(Len(c) - 1),
         sharing!EvictCache(c, TimersOf(c), instances[m].cacheMaxSize, instances[m].key)
  PROVE  /\ Map(entries') /\ timers' = TimersOf(entries') /\ Bound(Len(entries'))
         /\ instances[m].cacheMaxSize > 0 => \E n \in 1..Len(entries') : entries'[n] = e
<1> DEFINE size == instances[m].cacheMaxSize
           key == instances[m].key
<1>0. size \in Nat /\ Len(c) \in Nat /\ c # <<>> /\ \A j \in 1..3 : instances[j].cacheMaxSize \in Nat
  BY MapIs DEF OptionsTyped
<1>1. CASE Len(c) <= size
  <2>1. entries' = c /\ timers' = TimersOf(c)
    BY <1>1 DEF sharing!EvictCache
  <2>2. Bound(Len(c))
    BY <1>1 DEF Bound
  <2> QED BY <2>1, <2>2
<1>2. CASE ~(Len(c) <= size)
  <2> DEFINE v == sharing!Victim(c, key)
  <2>1. entries' = sharing!RemoveAt(c, v) /\ timers' = TimersOf(c) \ c[v].refresh
    BY <1>2 DEF sharing!EvictCache
  <2>2. v \in 1..Len(c) /\ ((\E n \in 1..Len(c) : c[n].key # key) => c[v].key # key)
    BY <1>0, VictimIs
  <2> HIDE DEF v
  <2>3. /\ Map(entries') /\ Len(entries') = Len(c) - 1 /\ timers' = TimersOf(entries')
        /\ \A j \in 1..Len(c) : j # v => \E n \in 1..Len(entries') : entries'[n] = c[j]
    <3>1. \A d : d = sharing!RemoveAt(c, v) =>
            /\ Map(d) /\ Len(d) = Len(c) - 1 /\ TimersOf(d) = TimersOf(c) \ c[v].refresh
            /\ \A j \in 1..Len(c) : j # v => \E n \in 1..Len(d) : d[n] = c[j]
      BY <2>2, Removed
    <3>2. PICK d : d = entries'
      OBVIOUS
    <3>3. /\ Map(d) /\ Len(d) = Len(c) - 1 /\ TimersOf(d) = TimersOf(c) \ c[v].refresh
          /\ \A j \in 1..Len(c) : j # v => \E n \in 1..Len(d) : d[n] = c[j]
      BY <2>1, <3>1, <3>2
    <3> QED BY <2>1, <3>2, <3>3
  <2>4. ASSUME size > 0 PROVE \E n \in 1..Len(entries') : entries'[n] = e
    <3>1. Len(c) >= 2
      BY <1>0, <1>2, <2>4
    <3>2. \E n \in 1..Len(c) : n # i
      BY <1>0, <3>1
    <3>3. \E n \in 1..Len(c) : c[n].key # key
      BY <3>2, MapIs
    <3>4. i # v
      BY <2>2, <3>3
    <3> QED BY <2>3, <3>4
  <2>5. Bound(Len(entries'))
    BY <2>3
  <2> QED BY <2>3, <2>4, <2>5
<1> QED BY <1>1, <1>2

\* What is stored has no timers but those of its entries, and is there unless nothing fits.
LEMMA Stored ==
  ASSUME SharingInv, NEW m \in 1..3, NEW armed \in SUBSET timers,
         \A t \in timers \ armed : instances[t.of].key = instances[m].key,
         instances[m].cacheExpiry # 0, sharing!Store(m, armed), UNCHANGED instances
  PROVE  /\ Map(entries') /\ timers' = TimersOf(entries') /\ Bound(Len(entries'))
         /\ instances[m].cacheMaxSize > 0 =>
              \E n \in 1..Len(entries') : /\ entries'[n].key = instances[m].key
                                          /\ entries'[n].source = instances[m].source /\ entries'[n].expires > 0
<1> DEFINE key == instances[m].key
           new == [key |-> key, source |-> instances[m].source, expires |-> instances[m].cacheExpiry,
                   refresh |-> sharing!ScheduleRefresh(m)]
           places == sharing!Indices(key)
           rearmed == (armed \ UNION {x.refresh : x \in sharing!Entries(key)}) \cup new.refresh
           map == IF places = {} THEN Append(entries, new)
                  ELSE [n \in DOMAIN entries |-> IF n \in places THEN new ELSE entries[n]]
<1>0. /\ OptionsTyped /\ Map(entries) /\ timers = TimersOf(entries) /\ Bound(Len(entries))
      /\ instances[m].cacheMaxSize \in Nat /\ \A j \in 1..3 : instances[j].cacheMaxSize \in Nat
  BY DEF SharingInv, OptionsTyped
<1>1. sharing!EvictCache(map, rearmed, instances[m].cacheMaxSize, key)
  BY DEF sharing!Store, sharing!Caches
<1>2. new \in Entry /\ new.key = key /\ new.source = instances[m].source /\ new.expires > 0
      /\ \A t \in new.refresh : instances[t.of].key = key
  <2>1. instances[m] \in [key : {"a", "b", "c"}, source : {"p", "q"}, cacheExpiry : Nat, cacheMaxSize : Nat]
    BY <1>0 DEF OptionsTyped
  <2>2. instances[m].cacheExpiry \in Nat \ {0}
    BY <2>1
  <2>3. sharing!ScheduleRefresh(m) \in SUBSET Timer /\ \A t \in sharing!ScheduleRefresh(m) : t.of = m
    BY <2>2 DEF sharing!ScheduleRefresh, Timer
  <2>4. new \in [key : {"a", "b", "c"}, source : {"p", "q"}, expires : Nat, refresh : SUBSET Timer]
    BY <2>1, <2>3
  <2>5. \A t \in new.refresh : instances[t.of].key = key
    BY <2>3
  <2> QED BY <2>2, <2>4, <2>5 DEF Entry, Timed
<1>3. places = {n \in 1..Len(entries) : entries[n].key = key} /\ DOMAIN entries = 1..Len(entries)
  BY <1>0, MapIs DEF sharing!Indices
<1> DEFINE mine == UNION {entries[n].refresh : n \in places}
           others == UNION {entries[n].refresh : n \in 1..Len(entries) \ places}
<1>4. UNION {x.refresh : x \in sharing!Entries(key)} = mine
  BY DEF sharing!Entries
<1>9. \A t : /\ t \in mine <=> \E n \in places : t \in entries[n].refresh
             /\ t \in others <=> \E n \in 1..Len(entries) \ places : t \in entries[n].refresh
  OBVIOUS
<1>10. rearmed = (armed \ mine) \cup new.refresh
  BY <1>4
<1> HIDE DEF new, places, mine, others, rearmed
<1>5. /\ Map(map) /\ Bound(Len(map) - 1) /\ \E i \in 1..Len(map) : map[i] = new
      /\ TimersOf(map) = others \cup new.refresh
  <2>1. CASE places = {}
    <3>1. map = Append(entries, new)
      BY <2>1
    <3> HIDE DEF map
    <3>2. /\ map \in Seq(Entry) /\ Len(map) = Len(entries) + 1 /\ map[Len(entries) + 1] = new
          /\ \A n \in 1..Len(entries) : map[n] = entries[n]
      BY <1>0, <1>2, <3>1, MapIs
    <3>3. \A i, j \in 1..Len(map) : map[i].key = map[j].key => i = j
      <4>1. Len(entries) \in Nat /\ \A n \in 1..Len(entries) : map[n].key # key
        BY <1>0, <1>3, <2>1, <3>2, MapIs
      <4>2. map[Len(entries) + 1].key = key
        BY <1>2, <3>2
      <4>3. \A i, j \in 1..Len(entries) : map[i].key = map[j].key => i = j
        BY <1>0, <3>2, MapIs
      <4>4. \A i \in 1..Len(map) : i \in 1..Len(entries) \/ i = Len(entries) + 1
        BY <3>2, <4>1
      <4> QED BY <4>1, <4>2, <4>3, <4>4
    <3>4. TimersOf(map) = TimersOf(entries) \cup new.refresh
      <4>1. ASSUME NEW t \in TimersOf(map) PROVE t \in TimersOf(entries) \cup new.refresh
        <5>1. PICK n \in 1..Len(map) : t \in map[n].refresh
          BY DEF TimersOf
        <5>2. n \in 1..Len(entries) \/ n = Len(entries) + 1
          BY <1>0, <3>2, MapIs
        <5> QED BY <3>2, <5>1, <5>2 DEF TimersOf
      <4>2. ASSUME NEW t \in TimersOf(entries) \cup new.refresh PROVE t \in TimersOf(map)
        <5>1. CASE t \in new.refresh
          <6>1. Len(entries) + 1 \in 1..Len(map)
            BY <1>0, <3>2, MapIs
          <6> QED BY <3>2, <5>1, <6>1 DEF TimersOf
        <5>2. CASE t \in TimersOf(entries)
          <6>1. PICK n \in 1..Len(entries) : t \in entries[n].refresh
            BY <5>2 DEF TimersOf
          <6>2. n \in 1..Len(map) /\ map[n] = entries[n]
            BY <1>0, <3>2, MapIs
          <6> QED BY <6>1, <6>2 DEF TimersOf
        <5> QED BY <5>1, <5>2
      <4> QED BY <4>1, <4>2
    <3>5. Len(entries) + 1 \in 1..Len(map) /\ Len(map) - 1 = Len(entries)
      BY <1>0, <3>2, MapIs
    <3>6. Map(map)
      BY <3>2, <3>3 DEF Map
    <3>7. TimersOf(entries) = others
      BY <2>1 DEF TimersOf, others
    <3>8. \E i \in 1..Len(map) : map[i] = new
      BY <3>2, <3>5
    <3>9. Bound(Len(map) - 1)
      BY <1>0, <3>5
    <3> QED BY <3>4, <3>6, <3>7, <3>8, <3>9
  <2>2. CASE places # {}
    <3>1. map = [n \in 1..Len(entries) |-> IF n \in places THEN new ELSE entries[n]]
      BY <1>3, <2>2
    <3> HIDE DEF map
    <3>2. Len(entries) \in Nat /\ \A n \in 1..Len(entries) : entries[n] \in Entry
      BY <1>0, MapIs
    <3>3. map \in Seq(Entry) /\ Len(map) = Len(entries)
          /\ \A n \in 1..Len(entries) : map[n] = IF n \in places THEN new ELSE entries[n]
      BY <1>2, <3>1, <3>2
    <3>4. \A n \in 1..Len(map) : map[n].key = entries[n].key
      BY <1>2, <1>3, <3>3
    <3>5. Map(map)
      BY <1>0, <3>3, <3>4 DEF Map
    <3>6. Bound(Len(map) - 1)
      BY <1>0, <3>2, <3>3 DEF Bound
    <3>7. \E i \in 1..Len(map) : map[i] = new
      BY <1>3, <2>2, <3>3
    <3>8. TimersOf(map) = others \cup new.refresh
      <4>1. ASSUME NEW t PROVE t \in TimersOf(map) <=> t \in others \/ t \in new.refresh
        <5>1. t \in TimersOf(map) <=> \E n \in 1..Len(entries) : t \in map[n].refresh
          BY <3>3, TimersAre
        <5>2. places # {} /\ places \subseteq 1..Len(entries)
          BY <1>3, <2>2
        <5> QED BY <1>9, <3>3, <5>1, <5>2
      <4> QED BY <4>1
    <3> QED BY <3>5, <3>6, <3>7, <3>8
  <2> QED BY <2>1, <2>2
<1>6. rearmed = TimersOf(map)
  <2>1. ASSUME NEW t \in others PROVE t \in armed /\ t \notin mine
    <3>1. PICK n \in 1..Len(entries) \ places : t \in entries[n].refresh
      BY <1>9
    <3>2. t \in timers /\ entries[n].key # key /\ entries[n] \in Entry
      BY <1>0, <1>3, <3>1, MapIs, TimersAre
    <3>3. instances[t.of].key # key
      BY <3>1, <3>2 DEF Entry, Timed
    <3>4. \A k \in places : t \notin entries[k].refresh
      <4> TAKE k \in places
      <4>1. entries[k] \in Entry /\ entries[k].key = key
        BY <1>0, <1>3, MapIs
      <4> QED BY <3>3, <4>1 DEF Entry, Timed
    <3> QED BY <1>9, <3>2, <3>3, <3>4
  <2>2. ASSUME NEW t \in armed, t \notin mine PROVE t \in others
    <3>1. t \in TimersOf(entries)
      BY <1>0
    <3>2. PICK n \in 1..Len(entries) : t \in entries[n].refresh
      BY <3>1, TimersAre
    <3> QED BY <1>9, <2>2, <3>2
  <2>3. armed \ mine = others
    BY <2>1, <2>2
  <2> QED BY <1>5, <1>10, <2>3
<1> HIDE DEF map
<1>7. PICK i \in 1..Len(map) : map[i] = new
  BY <1>5
<1>8. /\ Map(entries') /\ timers' = TimersOf(entries') /\ Bound(Len(entries'))
      /\ instances[m].cacheMaxSize > 0 => \E n \in 1..Len(entries') : entries'[n] = new
  BY <1>0, <1>1, <1>2, <1>5, <1>6, <1>7, Evicted
<1> QED BY <1>2, <1>8

\* A timer of an entry has options that make timers, and its own key.
LEMMA TimerIs ==
  ASSUME SharingInv, NEW t \in timers
  PROVE  /\ t \in Timer /\ t.of \in 1..3 /\ instances[t.of].cacheExpiry # 0
         /\ \E n \in 1..Len(entries) : t \in entries[n].refresh /\ entries[n].key = instances[t.of].key
<1>1. PICK n \in 1..Len(entries) : t \in entries[n].refresh
  BY TimersAre DEF SharingInv
<1>2. entries[n] \in Entry
  BY MapIs DEF SharingInv
<1>3. t \in Timer /\ instances[t.of].key = entries[n].key
  BY <1>1, <1>2 DEF Entry, Timed
<1>4. t.of \in {m \in 1..3 : instances[m].cacheExpiry \in Nat \ {0}}
  BY <1>3 DEF Timer
<1> QED BY <1>1, <1>3, <1>4

\* What is stored keeps the invariant.
LEMMA StoredHolds ==
  ASSUME SharingInv, UNCHANGED instances, NEW m \in 1..3, NEW armed \in SUBSET timers,
         \A t \in timers \ armed : instances[t.of].key = instances[m].key,
         instances[m].cacheExpiry # 0, sharing!Store(m, armed),
         served' = {[to |-> m, source |-> instances[m].source, stored |-> TRUE]}
  PROVE  SharingInv'
<1>1. /\ Map(entries') /\ timers' = TimersOf(entries') /\ Bound(Len(entries'))
      /\ instances[m].cacheMaxSize > 0 =>
           \E n \in 1..Len(entries') : /\ entries'[n].key = instances[m].key
                                       /\ entries'[n].source = instances[m].source /\ entries'[n].expires > 0
  BY Stored
<1>2. OptionsTyped'
  BY DEF SharingInv, OptionsTyped
<1>3. Map(entries)' /\ (timers = TimersOf(entries))' /\ Bound(Len(entries))'
  BY <1>1 DEF Map, Entry, Timer, Timed, TimersOf, Bound
<1>4. DOMAIN entries' = 1..Len(entries')
  BY <1>1, MapIs
<1>5. sharing!OwnIsCached'
  BY <1>1, <1>4 DEF sharing!OwnIsCached, sharing!Entries, sharing!Indices
<1> QED BY <1>2, <1>3, <1>5 DEF SharingInv

\* So does what leaves the cache as it is, and hands out nothing that would be new in it.
LEMMA UnchangedHolds ==
  ASSUME SharingInv, UNCHANGED <<instances, entries, timers>>,
         \A s \in served' : s.source = instances[s.to].source /\ ~s.stored
  PROVE  SharingInv'
<1>0. instances' = instances /\ entries' = entries /\ timers' = timers
  OBVIOUS
<1>1. OptionsTyped' /\ Map(entries)' /\ (timers = TimersOf(entries))' /\ Bound(Len(entries))'
  <2>1. OptionsTyped' /\ Bound(Len(entries))'
    BY <1>0 DEF SharingInv, OptionsTyped, Bound
  <2>2. Map(entries)'
    BY <1>0 DEF SharingInv, Map, Entry, Timer, Timed
  <2>3. (timers = TimersOf(entries))'
    BY <1>0 DEF SharingInv, TimersOf
  <2> QED BY <2>1, <2>2, <2>3
<1>2. sharing!OwnIsCached'
  BY DEF sharing!OwnIsCached
<1> QED BY <1>1, <1>2 DEF SharingInv

\* processCache keeps the invariant, whether it throws, hits or fetches.
LEMMA SharingServes ==
  ASSUME SharingInv, UNCHANGED instances, NEW m \in 1..3, sharing!ProcessCache(m)
  PROVE  SharingInv'
<1>1. CASE sharing!Caches(m) /\ sharing!Foreign(m) /\ served' = {} /\ UNCHANGED <<entries, timers>>
  <2>1. \A s \in served' : s.source = instances[s.to].source /\ ~s.stored
    BY <1>1
  <2> QED BY <1>1, <2>1, UnchangedHolds
<1>2. CASE /\ sharing!Caches(m) /\ ~sharing!Foreign(m) /\ sharing!Fresh(m)
           /\ served' = {[to |-> m, source |-> e.source, stored |-> FALSE] : e \in sharing!Entries(instances[m].key)}
           /\ UNCHANGED <<entries, timers>>
  <2>1. \A e \in sharing!Entries(instances[m].key) : e.source = instances[m].source
    BY <1>2 DEF sharing!Foreign
  <2>2. \A s \in served' : s.source = instances[s.to].source /\ ~s.stored
    <3> SUFFICES ASSUME NEW s \in served' PROVE s.source = instances[s.to].source /\ ~s.stored
      OBVIOUS
    <3>1. PICK e \in sharing!Entries(instances[m].key) : s = [to |-> m, source |-> e.source, stored |-> FALSE]
      BY <1>2
    <3>2. s.to = m /\ s.source = e.source /\ s.stored = FALSE
      BY <3>1
    <3> QED BY <2>1, <3>2
  <2> QED BY <1>2, <2>2, UnchangedHolds
<1>3. CASE /\ sharing!Caches(m) => ~sharing!Foreign(m) /\ ~sharing!Fresh(m)
           /\ served' = {[to |-> m, source |-> instances[m].source, stored |-> sharing!Caches(m)]}
           /\ sharing!Store(m, timers)
  <2>1. CASE instances[m].cacheExpiry # 0
    <3>1. sharing!Caches(m) = TRUE
      BY <2>1 DEF sharing!Caches
    <3>2. served' = {[to |-> m, source |-> instances[m].source, stored |-> TRUE]}
      BY <1>3, <3>1
    <3>3. \A t \in timers \ timers : instances[t.of].key = instances[m].key
      OBVIOUS
    <3> QED BY <1>3, <2>1, <3>2, <3>3, StoredHolds
  <2>2. CASE instances[m].cacheExpiry = 0
    <3>1. sharing!Caches(m) = FALSE
      BY <2>2 DEF sharing!Caches
    <3>2. UNCHANGED <<entries, timers>>
      BY <1>3, <3>1 DEF sharing!Store
    <3>3. \A s \in served' : s.source = instances[s.to].source /\ ~s.stored
      BY <1>3, <3>1
    <3> QED BY <3>2, <3>3, UnchangedHolds
  <2> QED BY <2>1, <2>2
<1> QED BY <1>1, <1>2, <1>3 DEF sharing!ProcessCache

\* So does a timer that fires.
LEMMA SharingRefreshes ==
  ASSUME SharingInv, UNCHANGED instances, NEW t \in timers, sharing!Refresh(t) PROVE SharingInv'
<1>1. t.of \in 1..3 /\ instances[t.of].cacheExpiry # 0
  BY TimerIs
<1>2. /\ served' = {[to |-> t.of, source |-> instances[t.of].source, stored |-> TRUE]}
      /\ sharing!Store(t.of, timers \ {t})
  BY DEF sharing!Refresh
<1>3. \A o \in timers \ (timers \ {t}) : instances[o.of].key = instances[t.of].key
  OBVIOUS
<1> QED BY <1>1, <1>2, <1>3, StoredHolds

\* clearCache of one key takes the timer of its entry along.
LEMMA SharingClears ==
  ASSUME SharingInv, UNCHANGED instances, NEW k, sharing!ClearKey(k) PROVE SharingInv'
<1> DEFINE cleared == sharing!Indices(k)
<1>0. /\ OptionsTyped /\ Map(entries) /\ timers = TimersOf(entries) /\ Bound(Len(entries))
      /\ DOMAIN entries = 1..Len(entries) /\ Len(entries) \in Nat
      /\ \A m \in 1..3 : instances[m].cacheMaxSize \in Nat
  BY MapIs DEF SharingInv, OptionsTyped
<1>1. /\ entries' = (IF cleared = {} THEN entries ELSE sharing!RemoveAt(entries, CHOOSE n \in cleared : TRUE))
      /\ timers' = timers \ UNION {e.refresh : e \in UNION {sharing!Entries(key) : key \in {k}}}
      /\ served' = {}
  BY DEF sharing!ClearKey, sharing!Disarm
<1>2. UNION {e.refresh : e \in UNION {sharing!Entries(key) : key \in {k}}}
        = UNION {entries[n].refresh : n \in cleared}
  BY DEF sharing!Entries
<1>3. cleared = {n \in 1..Len(entries) : entries[n].key = k}
  BY <1>0 DEF sharing!Indices
<1> HIDE DEF cleared
<1>4. CASE cleared = {}
  <2>1. UNCHANGED <<entries, timers>>
    BY <1>1, <1>2, <1>4
  <2> QED BY <1>1, <2>1, UnchangedHolds
<1>5. CASE cleared # {}
  <2>1. PICK v : v = CHOOSE n \in cleared : TRUE
    OBVIOUS
  <2>2. v \in 1..Len(entries) /\ cleared = {v}
    <3>1. v \in cleared
      BY <1>5, <2>1
    <3>2. \A n \in cleared : n = v
      BY <1>0, <1>3, <3>1, MapIs
    <3> QED BY <1>3, <3>1, <3>2
  <2>3. PICK d : d = entries'
    OBVIOUS
  <2>4. d = sharing!RemoveAt(entries, v) /\ timers' = timers \ entries[v].refresh
    <3>1. d = sharing!RemoveAt(entries, v)
      BY <1>1, <1>5, <2>1, <2>3
    <3>2. UNION {entries[n].refresh : n \in cleared} = entries[v].refresh
      BY <2>2
    <3>3. timers' = timers \ entries[v].refresh
      BY <1>1, <1>2, <3>2
    <3> QED BY <3>1, <3>3
  <2>5. Map(d) /\ Len(d) = Len(entries) - 1 /\ TimersOf(d) = TimersOf(entries) \ entries[v].refresh
    BY <1>0, <2>2, <2>4, Removed
  <2>6. Map(entries') /\ timers' = TimersOf(entries') /\ Bound(Len(entries'))
    BY <1>0, <2>3, <2>4, <2>5 DEF Bound
  <2>7. OptionsTyped' /\ Map(entries)' /\ (timers = TimersOf(entries))' /\ Bound(Len(entries))'
    BY <1>0, <2>6 DEF OptionsTyped, Map, Entry, Timer, Timed, TimersOf, Bound
  <2>8. sharing!OwnIsCached'
    BY <1>1 DEF sharing!OwnIsCached
  <2> QED BY <2>7, <2>8 DEF SharingInv
<1> QED BY <1>4, <1>5

\* clearCache of all keys takes all of them along.
LEMMA SharingEmpties ==
  ASSUME SharingInv, UNCHANGED instances, sharing!ClearCache PROVE SharingInv'
<1>0. /\ OptionsTyped /\ Map(entries) /\ timers = TimersOf(entries)
      /\ DOMAIN entries = 1..Len(entries) /\ \A m \in 1..3 : instances[m].cacheMaxSize \in Nat
  BY MapIs DEF SharingInv, OptionsTyped
<1>1. /\ entries' = <<>> /\ served' = {}
      /\ timers' = timers \ UNION {e.refresh : e \in UNION {sharing!Entries(key) :
                                     key \in {entries[n].key : n \in DOMAIN entries}}}
  BY DEF sharing!ClearCache, sharing!Disarm
<1>2. timers' = {}
  <2>1. ASSUME NEW t \in timers
        PROVE  t \in UNION {e.refresh : e \in UNION {sharing!Entries(key) :
                                     key \in {entries[n].key : n \in DOMAIN entries}}}
    <3>1. PICK n \in 1..Len(entries) : t \in entries[n].refresh
      BY <1>0, TimersAre
    <3>2. entries[n] \in sharing!Entries(entries[n].key)
      BY <1>0 DEF sharing!Entries, sharing!Indices
    <3> QED BY <1>0, <3>1, <3>2
  <2> QED BY <1>1, <2>1
<1>3. OptionsTyped' /\ Map(entries)' /\ (timers = TimersOf(entries))' /\ Bound(Len(entries))'
  <2>1. OptionsTyped'
    BY <1>0 DEF OptionsTyped
  <2>2. entries' \in Seq(Entry') /\ Len(entries') = 0
    BY <1>1
  <2>3. Map(entries)'
    BY <2>2 DEF Map
  <2>4. (timers = TimersOf(entries))'
    BY <1>2, <2>2 DEF TimersOf
  <2>5. Bound(Len(entries))'
    BY <1>0, <2>2 DEF Bound
  <2> QED BY <2>1, <2>3, <2>4, <2>5
<1>4. sharing!OwnIsCached'
  BY <1>1 DEF sharing!OwnIsCached
<1> QED BY <1>3, <1>4 DEF SharingInv

\* As time passes, entries and timers grow old together.
LEMMA SharingAges ==
  ASSUME SharingInv, UNCHANGED instances, sharing!Tick PROVE SharingInv'
<1>0. /\ OptionsTyped /\ Map(entries) /\ timers = TimersOf(entries) /\ Bound(Len(entries))
      /\ DOMAIN entries = 1..Len(entries) /\ Len(entries) \in Nat
  BY MapIs DEF SharingInv
<1>1. /\ entries' = [n \in 1..Len(entries) |->
                       [entries[n] EXCEPT !.expires = sharing!Elapsed(@), !.refresh = sharing!Later(@)]]
      /\ timers' = sharing!Later(timers) /\ served' = {}
  BY <1>0 DEF sharing!Tick
<1>2. \A n \in Nat : sharing!Elapsed(n) \in Nat
  BY DEF sharing!Elapsed
<1>3. ASSUME NEW n \in 1..Len(entries)
      PROVE  /\ entries'[n] \in Entry /\ entries'[n].key = entries[n].key
             /\ entries'[n].refresh = sharing!Later(entries[n].refresh)
  <2>1. entries[n] \in [key : {"a", "b", "c"}, source : {"p", "q"}, expires : Nat, refresh : SUBSET Timer]
        /\ Timed(entries[n])
    BY <1>0, MapIs DEF Entry
  <2>2. entries'[n] = [entries[n] EXCEPT !.expires = sharing!Elapsed(@), !.refresh = sharing!Later(@)]
    BY <1>1
  <2>3. ASSUME NEW t \in sharing!Later(entries[n].refresh)
        PROVE  t \in Timer /\ instances[t.of].key = entries[n].key
    <3>1. PICK o \in entries[n].refresh : t = [o EXCEPT !.due = sharing!Elapsed(@)]
      BY DEF sharing!Later
    <3>2. o \in [of : {m \in 1..3 : instances[m].cacheExpiry \in Nat \ {0}}, due : Nat]
      BY <2>1 DEF Timer
    <3>3. t.of = o.of /\ t \in [of : {m \in 1..3 : instances[m].cacheExpiry \in Nat \ {0}}, due : Nat]
      BY <1>2, <3>1, <3>2
    <3>4. instances[o.of].key = entries[n].key
      BY <2>1 DEF Timed
    <3> QED BY <3>3, <3>4 DEF Timer
  <2>4. /\ entries'[n].key = entries[n].key /\ entries'[n].refresh = sharing!Later(entries[n].refresh)
        /\ entries'[n] \in [key : {"a", "b", "c"}, source : {"p", "q"}, expires : Nat, refresh : SUBSET Timer]
    BY <1>2, <2>1, <2>2, <2>3
  <2>5. Timed(entries'[n])
    BY <2>3, <2>4 DEF Timed
  <2> QED BY <2>4, <2>5 DEF Entry
<1>4. Len(entries') = Len(entries) /\ entries' \in Seq(Entry) /\ Map(entries')
  <2>1. entries' \in [1..Len(entries) -> Entry]
    BY <1>1, <1>3
  <2>2. entries' \in Seq(Entry) /\ Len(entries') = Len(entries)
    BY <1>0, <2>1
  <2> QED BY <1>0, <1>3, <2>2, MapIs DEF Map
<1>5. timers' = TimersOf(entries')
  <2>1. ASSUME NEW t PROVE t \in timers' <=> t \in TimersOf(entries')
    <3>1. t \in timers' <=> \E o \in timers : t = [o EXCEPT !.due = sharing!Elapsed(@)]
      BY <1>1 DEF sharing!Later
    <3>2. t \in TimersOf(entries') <=> \E n \in 1..Len(entries) : t \in sharing!Later(entries[n].refresh)
      BY <1>3, <1>4, TimersAre
    <3>3. \A n \in 1..Len(entries) : t \in sharing!Later(entries[n].refresh)
            <=> \E o \in entries[n].refresh : t = [o EXCEPT !.due = sharing!Elapsed(@)]
      BY DEF sharing!Later
    <3>4. \A o : o \in timers <=> \E n \in 1..Len(entries) : o \in entries[n].refresh
      BY <1>0, TimersAre
    <3> QED BY <3>1, <3>2, <3>3, <3>4
  <2> QED BY <2>1
<1>6. OptionsTyped' /\ Map(entries)' /\ (timers = TimersOf(entries))' /\ Bound(Len(entries))'
  BY <1>0, <1>4, <1>5 DEF OptionsTyped, Map, Entry, Timer, Timed, TimersOf, Bound
<1>7. sharing!OwnIsCached'
  BY <1>1 DEF sharing!OwnIsCached
<1> QED BY <1>6, <1>7 DEF SharingInv

\* Every step on the shared cache keeps the invariant.
LEMMA SharingNext == SharingInv /\ sharing!Next => SharingInv'
<1> SUFFICES ASSUME SharingInv, sharing!Next PROVE SharingInv'
  OBVIOUS
<1>1. UNCHANGED instances
  BY DEF sharing!Next
<1>2. \/ \E m \in 1..3 : sharing!ProcessCache(m)
      \/ \E t \in timers : sharing!Refresh(t)
      \/ \E k \in {"a", "b"} : sharing!ClearKey(k)
      \/ sharing!ClearCache \/ sharing!Tick
  BY DEF sharing!Next, sharing!Middlewares
<1> QED BY <1>1, <1>2, SharingServes, SharingRefreshes, SharingClears, SharingEmpties, SharingAges

\* The invariant depends on no other part.
LEMMA SharingSame == SharingInv /\ UNCHANGED sharingVars => SharingInv'
BY DEF sharingVars, SharingInv, OptionsTyped, Map, Entry, Timer, Timed, TimersOf, Bound,
       sharing!OwnIsCached, sharing!Entries, sharing!Indices

----------------------------------------------------------------------------
(* JwksResolver                                                            *)

\* What the constants are.
LEMMA JwksConstants ==
  /\ MaxKeys \in Nat \ {0} /\ CacheMaxAge \in Nat /\ Cooldown \in Nat /\ Timeout \in Nat /\ Horizon \in Nat
BY FetchAssumption

\* Keys are published one after the other.
Rotated ==
  \A a, b \in 1..jwks!Published : rotatedAt[a] \in 0..now /\ (a <= b => rotatedAt[a] <= rotatedAt[b])
\* The keyset v was published at the time, or later.
Since(v, time) == v = jwks!Published \/ rotatedAt[v + 1] >= time
\* A fetch in flight is the last one, is within its timeout, and can be answered with what was
\* published since.
InFlight ==
  jwksFetch # jwks!NoFetch =>
    /\ jwksFetch.from \in 1..jwks!Published /\ jwksFetch.since = lastFetchTime
    /\ jwksFetch.since <= now /\ now <= jwksFetch.since + Timeout
    /\ Since(jwksFetch.from, jwksFetch.since)
\* A cached keyset was published when it was cached, but for the time of its fetch, and since
\* the last fetch began, unless that is in flight or has failed.
InCache ==
  /\ cacheTime <= now /\ lastFetchTime <= now
  /\ cache # jwks!None => Since(cache, cacheTime - Timeout)
  /\ cache # jwks!None /\ jwksFetch = jwks!NoFetch /\ ~lastFetchFailed => Since(cache, lastFetchTime)
  /\ cache = jwks!None /\ lastError # jwks!None => lastFetchFailed
FailedLately == lastFetchFailed /\ jwks!Recent(lastFetchTime)
\* What an awaited fetch has settled with is of now.
Awaited(t) ==
  /\ verify[t].pc \in {"first", "again"} => verify[t].signer \in jwks!Known
  /\ verify[t].doc \in {jwks!Failed, jwks!TimedOut} => FailedLately
  /\ verify[t].doc > 0 => FailedLately \/ verify[t].doc = jwks!Published \/ jwks!Recent(rotatedAt[verify[t].doc + 1])
JwksInv == jwks!TypeOK /\ Rotated /\ InFlight /\ InCache /\ \A t \in Tokens : Awaited(t)

\* A key that has the id of an older one took it over.
LEMMA KidIsKept ==
  ASSUME MaxKeys \in Nat, NEW a \in jwks!Keys, NEW b \in jwks!Keys, a < b, jwks!KidOf[a] = jwks!KidOf[b]
  PROVE  jwks!KeepsKid(b)
<1>1. SUFFICES ASSUME b \notin KeptKids PROVE FALSE
  BY DEF jwks!KeepsKid
<1> DEFINE A == (1..a) \ KeptKids
           B == (1..b) \ KeptKids
<1>2. IsFiniteSet(1..a) /\ IsFiniteSet(1..b)
  BY FS_Interval DEF jwks!Keys
<1>3. IsFiniteSet(A) /\ IsFiniteSet(B)
  BY <1>2, FS_Subset
<1>4. A \cup {b} \subseteq B /\ b \notin A
  BY <1>1 DEF jwks!Keys
<1>5. Cardinality(A \cup {b}) = Cardinality(A) + 1
  BY <1>3, <1>4, FS_AddElement
<1>6. Cardinality(A \cup {b}) <= Cardinality(B)
  BY <1>3, <1>4, FS_Subset
<1>7. Cardinality(A) = Cardinality(B) /\ Cardinality(A) \in Nat
  <2>1. \A S : jwks!Cardinality(S) = Cardinality(S)
    BY DEF jwks!Cardinality, Cardinality
  <2> QED BY <1>3, <2>1, FS_CardinalityType DEF jwks!KidOf
<1> QED BY <1>5, <1>6, <1>7

\* What is answered for a token is true of the keys, as far as they are known.
LEMMA FindAnswers ==
  ASSUME JwksInv, NEW t \in Tokens, NEW signer \in jwks!Known, NEW doc \in 1..jwks!Published,
         NEW refetched \in BOOLEAN,
         jwks!Find(t, signer, doc, refetched), jwks!Answered(t),
         \/ FailedLately \/ doc = jwks!Published \/ jwks!Recent(rotatedAt[doc + 1])
         \/ ~refetched /\ jwks!Cached(rotatedAt[doc + 1])
  PROVE  jwks!AnswersByPublishedKeys(t)
<1>1. jwks!Published \in 1..MaxKeys /\ signer \in jwks!Keys /\ doc \in jwks!Keys /\ now \in Int
            /\ signer <= jwks!Published + 1
  BY JwksConstants DEF JwksInv, jwks!TypeOK, jwks!Known, jwks!Keys
<1>2. ~(jwks!KidOf[doc] # jwks!KidOf[signer] /\ ~refetched)
  <2>1. SUFFICES ASSUME jwks!KidOf[doc] # jwks!KidOf[signer] /\ ~refetched PROVE FALSE
    OBVIOUS
  <2>2. verify'[t].pc = "again"
    BY <2>1 DEF jwks!Find, jwks!FetchJwks, JwksInv, jwks!TypeOK
  <2> QED BY <2>2 DEF jwks!Answered, jwks!Answers
<1>3. verify'[t] = [pc |-> IF doc = signer THEN "verified" ELSE "401", signer |-> signer, doc |-> jwks!None]
  BY <1>2 DEF jwks!Find, JwksInv, jwks!TypeOK
<1>4. CASE FailedLately
  BY <1>4 DEF FailedLately, jwks!AnswersByPublishedKeys
<1>5. CASE ~FailedLately /\ doc = signer
  <2>1. verify'[t].signer = signer /\ verify'[t].pc = "verified"
    BY <1>3, <1>5
  <2>2. signer = jwks!Published \/ jwks!Cached(rotatedAt[signer + 1])
    BY <1>5 DEF jwks!Cached
  <2> QED BY <1>1, <1>5, <2>1, <2>2 DEF jwks!AnswersByPublishedKeys
<1>6. CASE ~FailedLately /\ doc # signer
  <2>1. verify'[t].signer = signer /\ verify'[t].pc = "401"
    BY <1>3, <1>6
  <2>2. CASE signer # jwks!Published
    BY <2>1, <2>2 DEF jwks!AnswersByPublishedKeys
  <2>3. CASE signer = jwks!Published
    <3>1. doc < signer /\ doc + 1 \in 1..jwks!Published
      BY <1>1, <1>6, <2>3
    <3>2. rotatedAt[doc + 1] <= rotatedAt[signer] /\ rotatedAt[doc + 1] \in 0..now /\ rotatedAt[signer] \in 0..now
      BY <1>1, <2>3, <3>1 DEF JwksInv, Rotated
    <3>3. CASE jwks!Recent(rotatedAt[doc + 1])
      <4>1. jwks!Recent(rotatedAt[signer])
        BY <1>1, <3>2, <3>3, JwksConstants DEF jwks!Recent
      <4> QED BY <2>1, <4>1 DEF jwks!AnswersByPublishedKeys
    <3>4. CASE ~refetched /\ jwks!Cached(rotatedAt[doc + 1])
      <4>1. jwks!KeepsKid(signer)
        BY <1>1, <1>2, <3>1, <3>4, KidIsKept, JwksConstants
      <4>2. jwks!Cached(rotatedAt[signer])
        BY <1>1, <3>2, <3>4, JwksConstants DEF jwks!Cached, jwks!Recent
      <4> QED BY <2>1, <4>1, <4>2 DEF jwks!AnswersByPublishedKeys
    <3> QED BY <1>6, <2>3, <3>3, <3>4
  <2> QED BY <2>2, <2>3
<1> QED BY <1>4, <1>5, <1>6

\* A fetch is answered with a key of the cache at least as young as the cache is.
LEMMA CachedSince ==
  ASSUME JwksInv, cache # jwks!None, jwks!Fresh
  PROVE  cache = jwks!Published \/ jwks!Cached(rotatedAt[cache + 1])
<1>1. Since(cache, cacheTime - Timeout) /\ cache \in 1..jwks!Published /\ now \in Int /\ cacheTime \in Int
  BY DEF JwksInv, InCache, jwks!TypeOK, jwks!None
<1>2. CASE cache # jwks!Published
  <2>1. cache + 1 \in 1..jwks!Published
    BY <1>1, <1>2 DEF JwksInv, jwks!TypeOK
  <2>2. rotatedAt[cache + 1] \in Int /\ rotatedAt[cache + 1] >= cacheTime - Timeout
    BY <1>1, <1>2, <2>1 DEF Since, JwksInv, Rotated
  <2> QED BY <1>1, <2>2, JwksConstants DEF jwks!Fresh, jwks!Cached
<1> QED BY <1>2

\* What a step answers, it answers by the keys.
LEMMA AnswersHold ==
  ASSUME JwksInv, [jwks!Next]_jwks!vars, NEW t \in Tokens, jwks!Answered(t)
  PROVE jwks!AnswersByPublishedKeys(t)
<1>1. verify[t].pc \in {"idle", "first", "again"} /\ verify[t].doc \in Int /\ verify[t].doc <= jwks!Published
  BY DEF jwks!Answered, JwksInv, jwks!TypeOK, jwks!Answers
<1>2. ASSUME NEW u \in Tokens, jwks!GetJwk(u) PROVE jwks!AnswersByPublishedKeys(t)
  <2>1. PICK signer \in jwks!Known : IF jwks!Fresh THEN jwks!Find(u, signer, cache, FALSE) 
                                         ELSE jwks!FetchJwks(u, signer, "first")
    BY <1>2 DEF jwks!GetJwk
  <2>2. CASE jwks!Fresh
    <3>1. cache \in 1..jwks!Published
      BY <2>2 DEF jwks!Fresh, JwksInv, jwks!TypeOK, jwks!None
    <3>2. u = t
      BY <2>1, <2>2 DEF jwks!Find, jwks!FetchJwks, JwksInv, jwks!TypeOK, jwks!Answered
    <3> QED BY <2>1, <2>2, <3>1, <3>2, CachedSince, FindAnswers DEF jwks!Fresh
  <2>3. CASE ~jwks!Fresh
    <3>1. verify' = [verify EXCEPT ![u] = [pc |-> "first", signer |-> signer, doc |-> jwks!Settled]]
      BY <2>1, <2>3 DEF jwks!FetchJwks
    <3>2. verify'[t].pc \in {"first", verify[t].pc}
      BY <3>1 DEF JwksInv, jwks!TypeOK
    <3> QED BY <3>2 DEF jwks!Answered, jwks!Answers
  <2> QED BY <2>2, <2>3
<1>3. ASSUME NEW u \in Tokens, jwks!Resume(u) PROVE jwks!AnswersByPublishedKeys(t)
  <2> DEFINE doc == verify[u].doc
  <2>1. doc # jwks!None /\ doc \in -2..jwks!Published /\ Awaited(u) /\ verify[u].pc \in {"first", "again"}
    BY <1>3 DEF jwks!Resume, JwksInv, jwks!TypeOK
  <2>2. CASE doc = jwks!Failed \/ doc = jwks!TimedOut
    BY <2>1, <2>2 DEF Awaited, FailedLately, jwks!AnswersByPublishedKeys
  <2>3. CASE doc # jwks!Failed /\ doc # jwks!TimedOut
    <3>1. jwks!Find(u, verify[u].signer, doc, verify[u].pc = "again") /\ doc \in 1..jwks!Published
      BY <1>3, <2>1, <2>3 DEF jwks!Resume, jwks!Failed, jwks!TimedOut, jwks!None
    <3>2. u = t
      BY <3>1 DEF jwks!Find, jwks!FetchJwks, JwksInv, jwks!TypeOK, jwks!Answered
    <3>3. verify[u].signer \in jwks!Known
      BY <2>1 DEF Awaited
    <3>4. FailedLately \/ doc = jwks!Published \/ jwks!Recent(rotatedAt[doc + 1])
      BY <2>1, <3>1 DEF Awaited
    <3>5. (verify[u].pc = "again") \in BOOLEAN
      OBVIOUS
    <3> HIDE DEF doc
    <3> QED BY <3>1, <3>2, <3>3, <3>4, <3>5, FindAnswers
  <2> QED BY <2>2, <2>3
<1>4. ASSUME NEW u \in Tokens, jwks!Return(u) PROVE FALSE
  BY <1>1, <1>4 DEF jwks!Return, jwks!Answered, jwks!Answers, jwks!Idle, JwksInv, jwks!TypeOK
<1>5. ASSUME verify' = [u \in Tokens |-> jwks!Returned(u)] PROVE FALSE
  BY <1>1, <1>5 DEF jwks!Returned, jwks!Answered, jwks!Answers
<1>6. ASSUME NEW outcome, jwks!Wake(outcome) PROVE FALSE
  BY <1>1, <1>6 DEF jwks!Wake, jwks!Returned, jwks!Answered, jwks!Answers, JwksInv, jwks!TypeOK
<1>7. ASSUME verify' = verify PROVE FALSE
  BY <1>1, <1>7 DEF jwks!Answered
<1> QED BY <1>2, <1>3, <1>4, <1>5, <1>6, <1>7
        DEF jwks!Next, jwks!Warm, jwks!FetchAnswered, jwks!FetchFails, jwks!TimesOut, jwks!Rotate, jwks!Tick, jwks!vars

\* The fetch that may begin with a step, the last of all.
LEMMA FetchBegins ==
  ASSUME JwksInv, jwks!Fetches,
         UNCHANGED <<now, rotatedAt, cache, cacheTime, lastError, lastFetchFailed>>
  PROVE  /\ Rotated' /\ InFlight' /\ InCache'
         /\ lastFetchTime' \in {lastFetchTime, now}
         /\ jwksFetch' \in [since : 0..Horizon, from : 0..jwks!Published]
         /\ FailedLately => FailedLately'
<1>1. now \in 0..Horizon /\ jwks!Published \in 1..MaxKeys /\ lastFetchTime \in Int /\ cacheTime \in Int
  BY JwksConstants DEF JwksInv, jwks!TypeOK
<1>2. CASE UNCHANGED <<lastFetchTime, jwksFetch>>
  <2>1. Rotated' /\ InFlight'
    BY <1>2 DEF JwksInv, Rotated, InFlight, Since, jwks!Published
  <2>2. InCache'
    BY <1>2 DEF JwksInv, InCache, Since, jwks!Published
  <2>3. FailedLately => FailedLately'
    BY <1>2 DEF FailedLately, jwks!Recent
  <2> QED BY <1>2, <2>1, <2>2, <2>3 DEF JwksInv, jwks!TypeOK
<1>3. CASE lastFetchTime' = now /\ jwksFetch' = [since |-> now, from |-> jwks!Published]
  <2>1. Rotated'
    BY DEF JwksInv, Rotated, jwks!Published
  <2>2. jwksFetch'.from = jwks!Published /\ jwksFetch'.since = now /\ jwks!Published' = jwks!Published
              /\ jwksFetch' # jwks!NoFetch
    BY <1>1, <1>3 DEF jwks!NoFetch, jwks!Published
  <2>3. InFlight'
    BY <1>1, <1>3, <2>2, JwksConstants DEF InFlight, Since
  <2>4. InCache'
    BY <1>1, <1>3, <2>2 DEF JwksInv, InCache, Since
  <2>5. FailedLately => FailedLately'
    BY <1>1, <1>3, JwksConstants DEF FailedLately, jwks!Recent
  <2> QED BY <1>1, <1>3, <2>1, <2>3, <2>4, <2>5
<1> QED BY <1>2, <1>3 DEF jwks!Fetches

\* A request that asks for a keyset waits for the fetch, or is handed what the last one gave.
LEMMA FetchJwksKeeps ==
  ASSUME JwksInv, NEW u \in Tokens, NEW signer \in jwks!Known, NEW await \in {"first", "again"},
         jwks!FetchJwks(u, signer, await), UNCHANGED <<now, rotatedAt>>
  PROVE  JwksInv'
<1>1. /\ verify' = [verify EXCEPT ![u] = [pc |-> await, signer |-> signer, doc |-> jwks!Settled]]
      /\ jwks!Fetches /\ UNCHANGED <<cache, cacheTime, lastError, lastFetchFailed>>
  BY DEF jwks!FetchJwks
<1>2. /\ Rotated' /\ InFlight' /\ InCache'
      /\ lastFetchTime' \in {lastFetchTime, now} /\ jwksFetch' \in [since : 0..Horizon, from : 0..jwks!Published]
      /\ FailedLately => FailedLately'
  BY <1>1, FetchBegins
<1>3. now \in 0..Horizon /\ jwks!Published \in 1..MaxKeys /\ jwks!Published' = jwks!Published
            /\ jwks!Known' = jwks!Known
  BY DEF JwksInv, jwks!TypeOK, jwks!Published, jwks!Known
<1>4. jwks!Settled \in -2..jwks!Published
  BY <1>3 DEF JwksInv, jwks!TypeOK, jwks!Settled, jwks!None, jwks!Failed, jwks!TimedOut
<1>5. signer \in 0..MaxKeys
  BY JwksConstants DEF jwks!Known, jwks!Keys
<1>6. jwks!TypeOK'
  <2>1. verify' \in [Tokens -> [pc : {"idle", "first", "again"} \cup jwks!Answers, 
                                   signer : 0..MaxKeys, doc : -2..jwks!Published]]
    BY <1>1, <1>4, <1>5 DEF JwksInv, jwks!TypeOK
  <2>2. lastFetchFailed' \in BOOLEAN
    BY <1>1 DEF JwksInv, jwks!TypeOK
  <2>3. lastFetchTime' \in -Cooldown..Horizon
    BY <1>2, <1>3, JwksConstants DEF JwksInv, jwks!TypeOK
  <2> QED BY <1>1, <1>2, <1>3, <2>1, <2>2, <2>3 DEF JwksInv, jwks!TypeOK
<1>7. \A t \in Tokens : t # u => verify'[t] = verify[t]
  BY <1>1 DEF JwksInv, jwks!TypeOK
<1>8. verify'[u] = [pc |-> await, signer |-> signer, doc |-> jwks!Settled]
  BY <1>1 DEF JwksInv, jwks!TypeOK
<1>9. ASSUME NEW t \in Tokens, t # u PROVE Awaited(t)'
  <2>1. Awaited(t)
    BY DEF JwksInv
  <2> QED BY <1>2, <1>3, <1>7, <1>9, <2>1 DEF Awaited, jwks!Recent
<1>10. Awaited(u)'
  <2>1. CASE jwksFetch # jwks!NoFetch \/ now - lastFetchTime >= Cooldown
    BY <1>3, <1>8, <2>1 DEF jwks!Settled, Awaited, jwks!None, jwks!Failed, jwks!TimedOut
  <2>2. CASE jwksFetch = jwks!NoFetch /\ ~(now - lastFetchTime >= Cooldown)
    <3>1. jwks!Recent(lastFetchTime)
      BY <1>3, <2>2, JwksConstants DEF jwks!Recent, JwksInv, jwks!TypeOK
    <3>2. CASE cache = jwks!None
      <4>1. jwks!Settled = lastError /\ lastError \in {jwks!None, jwks!Failed, jwks!TimedOut}
        BY <2>2, <3>2 DEF jwks!Settled, JwksInv, jwks!TypeOK
      <4>2. lastError # jwks!None => FailedLately
        BY <3>1, <3>2 DEF JwksInv, InCache, FailedLately
      <4> QED BY <1>2, <1>3, <1>8, <4>1, <4>2 DEF Awaited, jwks!None, jwks!Failed, jwks!TimedOut
    <3>3. CASE cache # jwks!None
      <4>1. jwks!Settled = cache /\ cache \in 1..jwks!Published
        BY <2>2, <3>3 DEF jwks!Settled, JwksInv, jwks!TypeOK, jwks!None
      <4>2. FailedLately \/ cache = jwks!Published \/ jwks!Recent(rotatedAt[cache + 1])
        <5>1. CASE lastFetchFailed
          BY <3>1, <5>1 DEF FailedLately
        <5>2. CASE ~lastFetchFailed
          <6>1. Since(cache, lastFetchTime)
            BY <2>2, <3>3, <5>2 DEF JwksInv, InCache
          <6>2. CASE cache # jwks!Published
            <7>1. rotatedAt[cache + 1] \in Int /\ rotatedAt[cache + 1] >= lastFetchTime
              BY <1>3, <4>1, <6>1, <6>2 DEF Since, JwksInv, Rotated
            <7>2. now \in Int /\ lastFetchTime \in Int /\ Cooldown \in Int
              BY JwksConstants DEF JwksInv, jwks!TypeOK
            <7>3. now - rotatedAt[cache + 1] < Cooldown
              BY <2>2, <7>1, <7>2
            <7> QED BY <7>3 DEF jwks!Recent
          <6> QED BY <6>2
        <5> QED BY <5>1, <5>2
      <4>3. jwks!Recent(rotatedAt[cache + 1]) => jwks!Recent(rotatedAt[cache + 1])'
        BY <1>1 DEF jwks!Recent
      <4> QED BY <1>1, <1>2, <1>3, <1>8, <4>1, <4>2, <4>3 DEF Awaited, jwks!Failed, jwks!TimedOut, jwks!Recent
    <3> QED BY <3>2, <3>3
  <2> QED BY <2>1, <2>2 DEF JwksInv, jwks!TypeOK
<1> QED BY <1>2, <1>6, <1>9, <1>10 DEF JwksInv

Verifying == [pc : {"idle", "first", "again"} \cup jwks!Answers, signer : 0..MaxKeys, doc : -2..jwks!Published]

\* A request that is answered, or over, waits for nothing.
LEMMA RequestsOnly ==
  ASSUME JwksInv, UNCHANGED <<now, rotatedAt, jwks!resolverVars>>,
         \A t \in Tokens :
           verify'[t] = verify[t] \/ (verify'[t].doc = jwks!None /\ verify'[t].pc \notin {"first", "again"}),
         verify' \in [Tokens -> Verifying]
  PROVE  JwksInv'
<1>1. jwks!Published' = jwks!Published /\ jwks!Known' = jwks!Known
  BY DEF jwks!Published, jwks!Known
<1>2. jwks!TypeOK'
  <2>1. lastFetchFailed' \in BOOLEAN
    BY DEF JwksInv, jwks!TypeOK, jwks!resolverVars
  <2> QED BY <1>1, <2>1 DEF JwksInv, jwks!TypeOK, Verifying, jwks!resolverVars
<1>3. Rotated' /\ InFlight'
  BY <1>1 DEF JwksInv, Rotated, InFlight, Since, jwks!resolverVars
<1>4. InCache'
  BY <1>1 DEF JwksInv, InCache, Since, jwks!resolverVars
<1>5. ASSUME NEW t \in Tokens PROVE Awaited(t)'
  <2>1. FailedLately => FailedLately'
    BY DEF FailedLately, jwks!Recent, jwks!resolverVars
  <2>2. CASE verify'[t] = verify[t]
    BY <1>1, <2>1, <2>2 DEF JwksInv, Awaited, jwks!Recent
  <2>3. CASE verify'[t].doc = jwks!None /\ verify'[t].pc \notin {"first", "again"}
    BY <2>3 DEF Awaited, jwks!None, jwks!Failed, jwks!TimedOut
  <2> QED BY <2>2, <2>3
<1> QED BY <1>2, <1>3, <1>4, <1>5 DEF JwksInv

\* A request is answered, or asks for the keyset once more.
LEMMA FindKeeps ==
  ASSUME JwksInv, NEW t \in Tokens, NEW signer \in jwks!Known, NEW doc, NEW refetched,
         jwks!Find(t, signer, doc, refetched), UNCHANGED <<now, rotatedAt>>
  PROVE  JwksInv'
<1>1. CASE jwks!FetchJwks(t, signer, "again")
  BY <1>1, FetchJwksKeeps
<1>2. CASE /\ verify' = [verify EXCEPT ![t] = [pc |-> IF doc = signer THEN "verified" ELSE "401",
                                               signer |-> signer, doc |-> jwks!None]]
           /\ UNCHANGED jwks!resolverVars
  <2>1. verify' \in [Tokens -> Verifying]
    BY <1>2, JwksConstants DEF JwksInv, jwks!TypeOK, Verifying, jwks!Answers, jwks!Known, jwks!Keys, jwks!None
  <2>2. \A u \in Tokens :
           verify'[u] = verify[u] \/ (verify'[u].doc = jwks!None /\ verify'[u].pc \notin {"first", "again"})
    BY <1>2 DEF JwksInv, jwks!TypeOK
  <2> QED BY <1>2, <2>1, <2>2, RequestsOnly
<1> QED BY <1>1, <1>2 DEF jwks!Find

\* A request that has been handed a keyset goes on with it.
LEMMA ResumeKeeps == ASSUME JwksInv, NEW t \in Tokens, jwks!Resume(t) PROVE JwksInv'
<1>1. /\ UNCHANGED <<now, rotatedAt>> /\ verify[t].pc \in {"first", "again"} /\ verify[t].signer \in jwks!Known
      /\ verify[t] \in Verifying
  BY DEF jwks!Resume, JwksInv, Awaited, jwks!TypeOK, Verifying
<1>2. ASSUME NEW answer \in {"502", "504"}, jwks!Answer(t, answer) PROVE JwksInv'
  <2>1. verify' \in [Tokens -> Verifying]
    <3>1. [verify[t] EXCEPT !.pc = answer, !.doc = jwks!None] \in Verifying
      <4>1. jwks!Published \in 1..MaxKeys /\ jwks!None \in -2..jwks!Published
        BY JwksConstants DEF jwks!None, JwksInv, jwks!TypeOK
      <4>2. answer \in jwks!Answers
        BY <1>2 DEF jwks!Answers
      <4> QED BY <1>1, <4>1, <4>2 DEF Verifying
    <3>2. verify' = [verify EXCEPT ![t] = [verify[t] EXCEPT !.pc = answer, !.doc = jwks!None]]
      BY <1>2 DEF jwks!Answer
    <3>3. verify \in [Tokens -> Verifying]
      BY DEF JwksInv, jwks!TypeOK, Verifying
    <3> QED BY <3>1, <3>2, <3>3
  <2>2. \A u \in Tokens :
           verify'[u] = verify[u] \/ (verify'[u].doc = jwks!None /\ verify'[u].pc \notin {"first", "again"})
    BY <1>1, <1>2 DEF jwks!Answer, JwksInv, jwks!TypeOK
  <2> QED BY <1>1, <1>2, <2>1, <2>2, RequestsOnly DEF jwks!Answer
<1>3. CASE jwks!Find(t, verify[t].signer, verify[t].doc, verify[t].pc = "again")
  BY <1>1, <1>3, FindKeeps
<1> QED BY <1>2, <1>3 DEF jwks!Resume

\* Whoever waited for the fetch in flight has been handed its outcome.
LEMMA WakeKeeps ==
  ASSUME JwksInv, NEW outcome \in -2..jwks!Published, jwks!Wake(outcome), jwks!Continued,
         UNCHANGED <<now, rotatedAt>>, outcome # jwks!None,
         outcome \in {jwks!Failed, jwks!TimedOut} => FailedLately',
         outcome > 0 => outcome = jwks!Published \/ jwks!Recent(rotatedAt[outcome + 1])
  PROVE  verify' \in [Tokens -> Verifying] /\ \A t \in Tokens : Awaited(t)'
<1>1. \A t \in Tokens : /\ verify[t] \in Verifying /\ verify[t].doc = jwks!None
                        /\ verify[t].pc \in {"first", "again"} => verify[t].signer \in jwks!Known
  BY DEF JwksInv, jwks!TypeOK, Verifying, jwks!Continued, Awaited
<1>2. jwks!Idle \in Verifying
  BY JwksConstants DEF jwks!Idle, Verifying, JwksInv, jwks!TypeOK, jwks!None
<1>3. verify' \in [Tokens -> Verifying]
  BY <1>1, <1>2 DEF jwks!Wake, jwks!Returned, Verifying
<1>4. ASSUME NEW t \in Tokens PROVE Awaited(t)'
  <2>1. jwks!Published' = jwks!Published /\ jwks!Known' = jwks!Known
    BY DEF jwks!Published, jwks!Known
  <2>2. CASE verify[t].pc \in {"first", "again"}
    <3>1. verify'[t] = [verify[t] EXCEPT !.doc = outcome]
      BY <1>1, <2>2 DEF jwks!Wake
    <3>2. verify'[t].doc = outcome /\ verify'[t].signer \in jwks!Known
      BY <1>1, <2>2, <3>1 DEF Verifying
    <3> QED BY <2>1, <3>2 DEF Awaited, jwks!Recent
  <2>3. CASE verify[t].pc \notin {"first", "again"}
    <3>1. verify'[t] \in {jwks!Idle, verify[t]}
      BY <1>1, <2>3 DEF jwks!Wake, jwks!Returned
    <3>2. verify'[t].doc = jwks!None /\ verify'[t].pc \notin {"first", "again"}
      BY <1>1, <2>3, <3>1 DEF jwks!Idle, jwks!None
    <3> QED BY <3>2 DEF Awaited, jwks!None, jwks!Failed, jwks!TimedOut
  <2> QED BY <2>2, <2>3
<1> QED BY <1>3, <1>4

\* The keyset that arrives is one that was published while the fetch was under way.
LEMMA FetchAnsweredKeeps == ASSUME JwksInv, jwks!FetchAnswered PROVE JwksInv'
<1>1. PICK doc \in jwksFetch.from .. jwks!Published : cache' = doc /\ jwks!Wake(doc)
  BY DEF jwks!FetchAnswered
<1>2. /\ jwksFetch # jwks!NoFetch /\ jwks!Continued /\ jwksFetch' = jwks!NoFetch /\ cacheTime' = now
      /\ lastFetchFailed' = FALSE /\ UNCHANGED <<now, rotatedAt, lastFetchTime, lastError>>
  BY DEF jwks!FetchAnswered
<1>3. /\ now \in 0..Horizon /\ jwks!Published \in 1..MaxKeys /\ jwks!Published' = jwks!Published
      /\ jwksFetch.from \in 1..jwks!Published /\ jwksFetch.since = lastFetchTime /\ lastFetchTime \in Int
      /\ lastFetchTime <= now /\ now <= lastFetchTime + Timeout /\ Since(jwksFetch.from, lastFetchTime)
  BY <1>2 DEF JwksInv, jwks!TypeOK, InFlight, jwks!Published
<1>4. doc \in 1..jwks!Published
  BY <1>3
<1>5. Since(doc, lastFetchTime)
  <2>1. CASE doc # jwks!Published
    <3>1. jwksFetch.from + 1 \in 1..jwks!Published /\ doc + 1 \in 1..jwks!Published /\ jwksFetch.from + 1 <= doc + 1
      BY <1>3, <1>4, <2>1
    <3>2. rotatedAt[jwksFetch.from + 1] >= lastFetchTime /\ rotatedAt[jwksFetch.from + 1] <= rotatedAt[doc + 1]
      BY <1>3, <1>4, <2>1, <3>1 DEF Since, JwksInv, Rotated
    <3>3. rotatedAt[jwksFetch.from + 1] \in Int /\ rotatedAt[doc + 1] \in Int
      BY <3>1 DEF JwksInv, Rotated
    <3> QED BY <1>3, <3>2, <3>3 DEF Since
  <2> QED BY <2>1 DEF Since
<1>6. doc = jwks!Published \/ (rotatedAt[doc + 1] \in Int /\ rotatedAt[doc + 1] >= lastFetchTime)
  BY <1>3, <1>4, <1>5 DEF Since, JwksInv, Rotated
<1>7. doc = jwks!Published \/ jwks!Recent(rotatedAt[doc + 1])
  BY <1>3, <1>6, JwksConstants DEF jwks!Recent
<1>8. verify' \in [Tokens -> Verifying] /\ \A t \in Tokens : Awaited(t)'
  BY <1>1, <1>2, <1>3, <1>4, <1>7, WakeKeeps DEF jwks!None, jwks!Failed, jwks!TimedOut
<1>9. Rotated' /\ InFlight'
  BY <1>2, <1>3 DEF JwksInv, Rotated, InFlight
<1>10. InCache'
  <2>1. doc = jwks!Published \/ rotatedAt[doc + 1] >= now - Timeout
    BY <1>3, <1>6, JwksConstants
  <2> QED BY <1>1, <1>2, <1>3, <1>4, <1>5, <2>1 DEF InCache, Since, jwks!None
<1>11. jwks!TypeOK'
  <2>1. jwks!NoFetch \in [since : 0..Horizon, from : 0..jwks!Published]
    BY <1>3, JwksConstants DEF jwks!NoFetch
  <2>2. lastFetchFailed' \in BOOLEAN
    BY <1>2
  <2> QED BY <1>1, <1>2, <1>3, <1>4, <1>8, <2>1, <2>2 DEF JwksInv, jwks!TypeOK, Verifying
<1> QED BY <1>8, <1>9, <1>10, <1>11 DEF JwksInv

\* A fetch that fails leaves the keyset that is cached.
LEMMA FetchFailsKeeps ==
  ASSUME JwksInv, NEW error \in {jwks!Failed, jwks!TimedOut}, jwks!FetchFails(error)
  PROVE  JwksInv'
<1>1. /\ jwksFetch # jwks!NoFetch /\ jwks!Continued /\ jwksFetch' = jwks!NoFetch /\ lastError' = error
      /\ jwks!Wake(error)
      /\ lastFetchFailed' = TRUE /\ UNCHANGED <<now, rotatedAt, cache, cacheTime, lastFetchTime>>
  BY DEF jwks!FetchFails
<1>2. /\ now \in 0..Horizon /\ jwks!Published \in 1..MaxKeys /\ jwks!Published' = jwks!Published
      /\ lastFetchTime \in Int
      /\ lastFetchTime <= now /\ now <= lastFetchTime + Timeout
  BY <1>1 DEF JwksInv, jwks!TypeOK, InFlight, jwks!Published
<1>3. FailedLately'
  BY <1>1, <1>2, JwksConstants DEF FailedLately, jwks!Recent
<1>4. error \in -2..jwks!Published /\ error # jwks!None /\ ~(error > 0)
  BY <1>2 DEF jwks!Failed, jwks!TimedOut, jwks!None
<1>5. verify' \in [Tokens -> Verifying] /\ \A t \in Tokens : Awaited(t)'
  BY <1>1, <1>3, <1>4, WakeKeeps
<1>6. Rotated' /\ InFlight'
  BY <1>1, <1>2 DEF JwksInv, Rotated, InFlight
<1>7. InCache'
  BY <1>1, <1>2 DEF JwksInv, InCache, Since
<1>8. jwks!TypeOK'
  <2>1. jwks!NoFetch \in [since : 0..Horizon, from : 0..jwks!Published]
    BY <1>2, JwksConstants DEF jwks!NoFetch
  <2>2. lastFetchFailed' \in BOOLEAN
    BY <1>1
  <2> QED BY <1>1, <1>2, <1>5, <2>1, <2>2 DEF JwksInv, jwks!TypeOK, Verifying
<1> QED BY <1>5, <1>6, <1>7, <1>8 DEF JwksInv

\* A new key withdraws the one before from now on only.
LEMMA RotateKeeps == ASSUME JwksInv, jwks!Rotate PROVE JwksInv'
<1>1. /\ jwks!Published < MaxKeys /\ jwks!Quiet /\ rotatedAt' = Append(rotatedAt, now)
      /\ UNCHANGED <<now, jwks!resolverVars, verify>>
  BY DEF jwks!Rotate
<1>2. /\ rotatedAt \in Seq(0..Horizon) /\ now \in 0..Horizon /\ jwks!Published \in 1..MaxKeys
      /\ jwks!Published = Len(rotatedAt)
      /\ lastFetchTime \in Int /\ cacheTime \in Int
  BY DEF JwksInv, jwks!TypeOK, jwks!Published
<1>3. /\ rotatedAt' \in Seq(0..Horizon) /\ jwks!Published' = jwks!Published + 1
      /\ rotatedAt'[jwks!Published + 1] = now
      /\ \A a \in 1..jwks!Published : rotatedAt'[a] = rotatedAt[a]
  BY <1>1, <1>2 DEF jwks!Published
<1>4. Rotated'
  <2> SUFFICES ASSUME NEW a \in 1..jwks!Published + 1, NEW b \in 1..jwks!Published + 1
               PROVE  rotatedAt'[a] \in 0..now /\ (a <= b => rotatedAt'[a] <= rotatedAt'[b])
    BY <1>1, <1>3 DEF Rotated
  <2>1. \A n \in 1..jwks!Published : rotatedAt'[n] \in 0..now
    BY <1>3 DEF JwksInv, Rotated
  <2>2. CASE b = jwks!Published + 1
    BY <1>2, <1>3, <2>1, <2>2
  <2>3. CASE b # jwks!Published + 1
    <3>1. b \in 1..jwks!Published /\ (a \in 1..jwks!Published \/ (a = jwks!Published + 1 /\ ~(a <= b)))
      BY <1>2, <2>3
    <3> QED BY <1>2, <1>3, <2>1, <3>1 DEF JwksInv, Rotated
  <2> QED BY <2>2, <2>3
<1>5. ASSUME NEW v \in 1..jwks!Published, NEW time \in Int, time <= now, Since(v, time)
      PROVE  rotatedAt'[v + 1] >= time
  <2>1. CASE v = jwks!Published
    BY <1>2, <1>3, <1>5, <2>1
  <2>2. CASE v # jwks!Published
    <3>1. v + 1 \in 1..jwks!Published
      BY <1>2, <2>2
    <3> QED BY <1>3, <1>5, <2>2, <3>1 DEF Since
  <2> QED BY <2>1, <2>2
<1>6. InFlight'
  BY <1>1, <1>2, <1>3, <1>5 DEF JwksInv, InFlight, Since, jwks!resolverVars
<1>7. InCache'
  <2>1. cache # jwks!None => cache \in 1..jwks!Published
    BY DEF JwksInv, jwks!TypeOK, jwks!None
  <2>2. cacheTime - Timeout <= now /\ cacheTime - Timeout \in Int /\ lastFetchTime <= now /\ cacheTime <= now
    BY <1>2, JwksConstants DEF JwksInv, InCache
  <2>3. cache # jwks!None => rotatedAt'[cache + 1] >= cacheTime - Timeout
    BY <1>5, <2>1, <2>2 DEF JwksInv, InCache
  <2>4. cache # jwks!None /\ jwksFetch = jwks!NoFetch /\ ~lastFetchFailed => rotatedAt'[cache + 1] >= lastFetchTime
    BY <1>2, <1>5, <2>1, <2>2 DEF JwksInv, InCache
  <2> QED BY <1>1, <2>2, <2>3, <2>4 DEF JwksInv, InCache, Since, jwks!resolverVars
<1>8. jwks!Known \subseteq jwks!Known'
  BY <1>2, <1>3, JwksConstants DEF jwks!Known, jwks!Keys
<1>9. \A t \in Tokens : Awaited(t)'
  BY <1>1, <1>8 DEF JwksInv, Awaited, jwks!Quiet, jwks!Continued, jwks!None, jwks!Failed, jwks!TimedOut
<1>10. jwks!TypeOK'
  <2>1. lastFetchFailed' \in BOOLEAN
    BY <1>1 DEF JwksInv, jwks!TypeOK, jwks!resolverVars
  <2>2. verify' \in [Tokens -> [pc : {"idle", "first", "again"} \cup jwks!Answers, 
                                   signer : 0..MaxKeys, doc : -2..jwks!Published']]
    <3>1. -2..jwks!Published \subseteq -2..jwks!Published'
      BY <1>2, <1>3
    <3>2. verify' = verify
      BY <1>1
    <3> QED BY <3>1, <3>2 DEF JwksInv, jwks!TypeOK
  <2>3. cache' \in 0..jwks!Published' /\ jwksFetch' \in [since : 0..Horizon, from : 0..jwks!Published']
    BY <1>1, <1>2, <1>3 DEF JwksInv, jwks!TypeOK, jwks!resolverVars
  <2>4. jwks!Published' \in 1..MaxKeys
    BY <1>1, <1>2, <1>3, JwksConstants
  <2> QED BY <1>1, <1>3, <2>1, <2>2, <2>3, <2>4 DEF JwksInv, jwks!TypeOK, jwks!resolverVars
<1> QED BY <1>4, <1>6, <1>7, <1>9, <1>10 DEF JwksInv

\* Time passes when nothing else is due.
LEMMA TickKeeps == ASSUME JwksInv, jwks!Tick PROVE JwksInv'
<1>1. /\ now < Horizon /\ jwks!Continued /\ (jwksFetch # jwks!NoFetch => now < jwksFetch.since + Timeout)
      /\ now' = now + 1 /\ verify' = [t \in Tokens |-> jwks!Returned(t)]
      /\ UNCHANGED <<rotatedAt, jwks!resolverVars>>
  BY DEF jwks!Tick
<1>2. /\ now \in Nat /\ jwks!Published' = jwks!Published /\ jwks!Known' = jwks!Known
      /\ jwks!Published \in 1..MaxKeys
      /\ lastFetchTime \in Int /\ cacheTime \in Int
  BY <1>1 DEF JwksInv, jwks!TypeOK, jwks!Published, jwks!Known
<1>3. \A t \in Tokens : verify'[t] \in {jwks!Idle, verify[t]} /\ verify[t].doc = jwks!None
  BY <1>1 DEF jwks!Returned, jwks!Continued
<1>4. \A t \in Tokens : Awaited(t)'
  BY <1>2, <1>3 DEF JwksInv, Awaited, jwks!Idle, jwks!None, jwks!Failed, jwks!TimedOut
<1>5. Rotated'
  BY <1>1, <1>2 DEF JwksInv, Rotated
<1>6. InFlight'
  <2>1. jwksFetch # jwks!NoFetch => jwksFetch.since \in Int
    BY DEF JwksInv, jwks!TypeOK
  <2> QED BY <1>1, <1>2, <2>1, JwksConstants DEF JwksInv, InFlight, Since, jwks!resolverVars
<1>7. InCache'
  BY <1>1, <1>2 DEF JwksInv, InCache, Since, jwks!resolverVars
<1>8. jwks!TypeOK'
  <2>1. lastFetchFailed' \in BOOLEAN
    BY <1>1 DEF JwksInv, jwks!TypeOK, jwks!resolverVars
  <2>2. jwks!Idle \in Verifying
    BY <1>2, JwksConstants DEF jwks!Idle, Verifying, jwks!None
  <2>3. verify' \in [Tokens -> Verifying]
    BY <1>1, <1>3, <2>2 DEF JwksInv, jwks!TypeOK, Verifying
  <2>4. now' \in 0..Horizon
    BY <1>1, <1>2, JwksConstants
  <2> QED BY <1>1, <1>2, <2>1, <2>3, <2>4 DEF JwksInv, jwks!TypeOK, Verifying, jwks!resolverVars
<1> QED BY <1>4, <1>5, <1>6, <1>7, <1>8 DEF JwksInv

\* Every step keeps the invariant.
LEMMA JwksSteps == ASSUME JwksInv, [jwks!Next]_jwks!vars PROVE JwksInv'
<1>1. ASSUME NEW t \in Tokens, jwks!GetJwk(t) PROVE JwksInv'
  <2>1. PICK signer \in jwks!Known : IF jwks!Fresh THEN jwks!Find(t, signer, cache, FALSE) 
                                         ELSE jwks!FetchJwks(t, signer, "first")
    BY <1>1 DEF jwks!GetJwk
  <2>2. UNCHANGED <<now, rotatedAt>>
    BY <1>1 DEF jwks!GetJwk
  <2> QED BY <2>1, <2>2, FindKeeps, FetchJwksKeeps
<1>2. ASSUME NEW t \in Tokens, jwks!Return(t) PROVE JwksInv'
  <2>1. verify' = [verify EXCEPT ![t] = jwks!Idle] /\ UNCHANGED <<now, rotatedAt, jwks!resolverVars>>
    BY <1>2 DEF jwks!Return
  <2>2. jwks!Idle \in Verifying /\ jwks!Idle.doc = jwks!None /\ jwks!Idle.pc = "idle"
    BY JwksConstants DEF jwks!Idle, Verifying, jwks!None, JwksInv, jwks!TypeOK
  <2>3. verify' \in [Tokens -> Verifying]
    BY <2>1, <2>2 DEF JwksInv, jwks!TypeOK, Verifying
  <2>4. \A u \in Tokens :
           verify'[u] = verify[u] \/ (verify'[u].doc = jwks!None /\ verify'[u].pc \notin {"first", "again"})
    BY <2>1, <2>2 DEF JwksInv, jwks!TypeOK
  <2> QED BY <2>1, <2>3, <2>4, RequestsOnly
<1>3. CASE jwks!Warm
  <2>1. jwks!Fetches /\ UNCHANGED <<now, rotatedAt, cache, cacheTime, lastError, verify, lastFetchFailed>>
    BY <1>3 DEF jwks!Warm
  <2>2. /\ Rotated' /\ InFlight' /\ InCache'
        /\ lastFetchTime' \in {lastFetchTime, now}
        /\ jwksFetch' \in [since : 0..Horizon, from : 0..jwks!Published]
        /\ FailedLately => FailedLately'
    BY <2>1, FetchBegins
  <2>3. jwks!Published' = jwks!Published /\ jwks!Known' = jwks!Known
    BY <2>1 DEF jwks!Published, jwks!Known
  <2>4. \A t \in Tokens : Awaited(t)'
    BY <2>1, <2>2, <2>3 DEF JwksInv, Awaited, jwks!Recent
  <2>5. jwks!TypeOK'
    <3>1. lastFetchFailed' \in BOOLEAN /\ lastFetchTime' \in -Cooldown..Horizon
      BY <2>1, <2>2, JwksConstants DEF JwksInv, jwks!TypeOK
    <3> QED BY <2>1, <2>2, <2>3, <3>1 DEF JwksInv, jwks!TypeOK
  <2> QED BY <2>2, <2>4, <2>5 DEF JwksInv
<1>4. CASE UNCHANGED jwks!vars
  <2>1. verify \in [Tokens -> Verifying]
    BY DEF JwksInv, jwks!TypeOK, Verifying
  <2> QED BY <1>4, <2>1, RequestsOnly DEF jwks!vars, jwks!resolverVars
<1> QED BY <1>1, <1>2, <1>3, <1>4, ResumeKeeps, FetchAnsweredKeeps, FetchFailsKeeps, RotateKeeps, TickKeeps
        DEF jwks!Next, jwks!TimesOut

\* The invariant holds when the middleware is created.
LEMMA JwksStarts == ASSUME jwks!Init PROVE JwksInv
<1>1. /\ now = 0 /\ rotatedAt = <<0>> /\ jwks!Published = 1 /\ cache = jwks!None /\ cacheTime = 0
      /\ lastFetchTime = -Cooldown
      /\ lastError = jwks!None /\ jwksFetch = jwks!NoFetch /\ lastFetchFailed = FALSE
  BY DEF jwks!Init, jwks!Published
<1>2. \A t \in Tokens : verify[t] = jwks!Idle
  BY DEF jwks!Init
<1>3. jwks!TypeOK
  <2>1. jwks!Idle \in [pc : {"idle", "first", "again"} \cup jwks!Answers, signer : 0..MaxKeys, doc : -2..jwks!Published]
    BY <1>1, JwksConstants DEF jwks!Idle, jwks!None
  <2>2. lastFetchFailed \in BOOLEAN
    BY <1>1
  <2>3. jwks!NoFetch \in [since : 0..Horizon, from : 0..jwks!Published]
    BY <1>1, JwksConstants DEF jwks!NoFetch
  <2>4. rotatedAt \in Seq(0..Horizon)
    BY <1>1, JwksConstants
  <2> QED BY <1>1, <2>1, <2>2, <2>3, <2>4, JwksConstants DEF jwks!Init, jwks!TypeOK, jwks!None
<1>4. Rotated
  BY <1>1 DEF Rotated
<1>5. InFlight /\ InCache
  BY <1>1, JwksConstants DEF InFlight, InCache
<1>6. \A t \in Tokens : Awaited(t)
  BY <1>2 DEF Awaited, jwks!Idle, jwks!None, jwks!Failed, jwks!TimedOut
<1> QED BY <1>3, <1>4, <1>5, <1>6 DEF JwksInv

\* It depends on the variables of http-jwt only.
LEMMA JwksSame == JwksInv /\ UNCHANGED jwksVars => JwksInv'
BY JwksSteps DEF jwksVars, jwks!vars

\* http-jwt: a token gets the answer the keys published now call for, but for a key published
\* within the cooldown, or the time of a fetch, or withdrawn within the life of the cache, or
\* shortly after the identity provider failed; for any keys, any cache age, cooldown and timeout
\* (whichever is longer), and any requests.
THEOREM TokensAnswered == FetchSpec => KeysRefetched
<1>1. FetchInit => JwksInv
  BY JwksStarts DEF FetchInit
<1>2. [FetchNext]_fetchVars => [jwks!Next]_jwks!vars
  BY DEF FetchNext, Follows, fetchVars, jwksVars, jwks!vars
<1>3. JwksInv /\ [FetchNext]_fetchVars => JwksInv'
  BY <1>2, JwksSteps
<1>4. JwksInv /\ [FetchNext]_fetchVars => [\A t \in Tokens :
            jwks!Answered(t) => jwks!AnswersByPublishedKeys(t)]_jwks!vars
  BY <1>2, AnswersHold
<1> QED BY <1>1, <1>3, <1>4, PTL DEF FetchSpec, KeysRefetched, jwks!KeysRefetched

----------------------------------------------------------------------------
(* The parts together                                                      *)

FetchInv == AppInv /\ ServiceInv /\ SchemasInv /\ SharingInv

\* A step of one part keeps the invariants of all.
LEMMA FetchNextKeeps == FetchInv /\ [FetchNext]_fetchVars => FetchInv'
<1> SUFFICES ASSUME FetchInv, [FetchNext]_fetchVars PROVE FetchInv'
  OBVIOUS
<1>1. CASE Follows("appconfig") /\ appconfig!Next
  BY <1>1, AppNext, ServiceSame, SchemasSame, SharingSame DEF FetchInv, Follows
<1>2. CASE Follows("service") /\ service!Next
  BY <1>2, AppSame, ServiceNext, SchemasSame, SharingSame DEF FetchInv, Follows, appconfigVars, sessionState
<1>3. CASE Follows("schemas") /\ schemas!Next
  BY <1>3, AppSame, ServiceSame, SchemasNext, SharingSame DEF FetchInv, Follows, appconfigVars, sessionState
<1>4. CASE Follows("sharing") /\ sharing!Next
  BY <1>4, AppSame, ServiceSame, SchemasSame, SharingNext DEF FetchInv, Follows, appconfigVars, sessionState
<1>5. CASE Follows("http-jwt") /\ jwks!Next
  BY <1>5, AppSame, ServiceSame, SchemasSame, SharingSame DEF FetchInv, Follows, appconfigVars, sessionState
<1>6. CASE UNCHANGED fetchVars
  BY <1>6, AppSame, ServiceSame, SchemasSame, SharingSame DEF FetchInv, fetchVars, appconfigVars, sessionState
<1> QED BY <1>1, <1>2, <1>3, <1>4, <1>5, <1>6 DEF FetchNext

\* Whatever awsRequestLimit, the schema versions and cacheMaxSize are, and however long the
\* container lives: what a fetch middleware hands out is what was asked for.
THEOREM FetchedIsOwnAlways == FetchSpec => []FetchedIsOwn
<1>1. FetchInit => FetchInv
  BY AppInit, ServiceInit, SchemasInit, SharingInit DEF FetchInit, FetchInv
<1>2. FetchInv => FetchedIsOwn
  BY AppHolds, ServiceHolds, SchemasHold, SharingHolds DEF FetchInv, FetchedIsOwn
<1> QED BY <1>1, <1>2, FetchNextKeeps, PTL DEF FetchSpec
=============================================================================
