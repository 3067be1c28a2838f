--------------------------- MODULE SchemaVersions ---------------------------
(***************************************************************************)
(* resolveSchemaVersion of @middy/glue-schema-registry: the schema versions *)
(* a stream names are resolved one at a time and share one entry of the     *)
(* cache, which holds cacheMaxSize of them.  Next to the entry the module   *)
(* keeps the ids it tracks; the entry expires, is refreshed, is evicted for *)
(* other middlewares or cleared, and its fetches fail, without asking it.   *)
(*                                                                         *)
(* A fetch of version v is named by its number among them, and 0 is none.   *)
(* One that never fails succeeds, which changes nothing.                    *)
(***************************************************************************)
EXTENDS Naturals, SequencesExt

CONSTANTS
  Versions,
  CacheMaxSize,  \* cacheMaxSize
  MaxFetches     \* bound: the fetches of a version

VARIABLES
  caching,   \* cacheExpiry is not 0
  ids,       \* resolvedIds: the ids tracked, oldest first
  stored,    \* the cache has the entry
  value,     \* its value: the fetch of each version
  modified, expired, refresh,
  fetched,   \* fetched[v]: the fetches of v in their order, "made" or "failed"
  resolved   \* history: the last version resolved and the fetch its caller was given

vars == <<caching, ids, stored, value, modified, expired, refresh, fetched, resolved>>

NoValue == [v \in Versions |-> 0]

Init ==
  /\ caching \in BOOLEAN /\ ids = <<>>
  /\ stored = FALSE /\ value = NoValue /\ modified = FALSE /\ expired = FALSE /\ refresh = FALSE
  /\ fetched = [v \in Versions |-> <<>>] /\ resolved = [version |-> 0, fetch |-> 0]

----------------------------------------------------------------------------
\* The fetchRequest of resolveSchemaVersion, for the versions that have no value in have.
FetchRequest(tracked, have) ==
  LET missing == {v \in tracked : have[v] = 0}
  IN  /\ \A v \in missing : Len(fetched[v]) < MaxFetches
      /\ fetched' = [v \in Versions |-> IF v \in missing THEN Append(fetched[v], "made") ELSE fetched[v]]
Values(tracked, have) ==
  [v \in Versions |-> IF v \in tracked /\ have[v] = 0 THEN Len(fetched'[v]) ELSE have[v]]

\* Fault: the entry does not learn that a version is missing.
AsItWas(v) == modified
\* The entry is flagged when the version is not one of those it holds.
Flagged(v) == modified \/ v \notin ToSet(ids)
\* Fault: the entry is never full.
KeepsOldest(v) == IF v \in ToSet(ids) THEN ids ELSE Append(ids, v)
\* The ids with v, which takes the place of the oldest when the entry is full.
Tracked(v) ==
  IF v \in ToSet(ids) THEN ids
  ELSE IF Len(ids) < CacheMaxSize THEN Append(ids, v) ELSE Append(Tail(ids), v)

\* What processCache answers out of an unexpired entry.
FromEntry(v) ==
  LET kept == [w \in Versions |-> IF w \in ToSet(Tracked(v)) THEN value[w] ELSE 0]
  IN  /\ stored /\ ~expired /\ ids' = Tracked(v)
      /\ IF Flagged(v)
         THEN FetchRequest(ToSet(ids'), kept) /\ value' = Values(ToSet(ids'), kept) /\ refresh' = TRUE
         ELSE UNCHANGED <<fetched, value, refresh>>
      /\ UNCHANGED stored
\* An entry that expired is fetched again with all of its versions, the new one among them;
\* without an entry only the version asked for is.
Stores(v) ==
  /\ ~stored \/ expired
  /\ ids' = IF stored THEN Tracked(v) ELSE <<v>>
  /\ FetchRequest(ToSet(ids'), NoValue)
  /\ stored' = caching /\ refresh' = caching
  /\ value' = IF caching THEN Values(ToSet(ids'), NoValue) ELSE NoValue
ResolveSchemaVersion(v) ==
  /\ FromEntry(v) \/ Stores(v)
  /\ resolved' = [version |-> v, fetch |-> IF caching THEN value'[v] ELSE Len(fetched'[v])]
  /\ modified' = FALSE /\ expired' = FALSE /\ UNCHANGED caching

\* scheduleRefresh: the entry is fetched again in the background.
Refresh ==
  /\ refresh /\ FetchRequest(ToSet(ids), NoValue)
  /\ value' = Values(ToSet(ids), NoValue) /\ modified' = FALSE /\ expired' = FALSE
  /\ UNCHANGED <<caching, ids, stored, refresh, resolved>>
Expire ==
  /\ stored /\ ~expired /\ expired' = TRUE
  /\ UNCHANGED <<caching, ids, stored, value, modified, refresh, fetched, resolved>>
\* clearCache, or evictCache for an entry of another middleware.
Drop ==
  /\ stored /\ stored' = FALSE /\ value' = NoValue
  /\ modified' = FALSE /\ expired' = FALSE /\ refresh' = FALSE
  /\ UNCHANGED <<caching, ids, fetched, resolved>>

\* Fault: a version whose fetch failed stays among the ids.
StillTracked(v) == ids
Untracked(v) == RemoveAt(ids, CHOOSE n \in DOMAIN ids : ids[n] = v)
Holds(v, n) == stored /\ value[v] = n
\* The version is forgotten, while the entry still holds this fetch of it.
Fails(v, n) ==
  /\ fetched[v][n] # "failed" /\ fetched' = [fetched EXCEPT ![v][n] = "failed"]
  /\ IF Holds(v, n)
     THEN /\ ids' = Untracked(v) /\ value' = [value EXCEPT ![v] = 0]
          /\ modified' = TRUE /\ refresh' = FALSE
     ELSE UNCHANGED <<ids, value, modified, refresh>>
  /\ UNCHANGED <<caching, stored, expired, resolved>>

Next ==
  \/ \E v \in Versions : ResolveSchemaVersion(v) \/ \E n \in DOMAIN fetched[v] : Fails(v, n)
  \/ Refresh \/ Expire \/ Drop
Spec == Init /\ [][Next]_vars

----------------------------------------------------------------------------
TypeOK ==
  /\ {caching, stored, modified, expired, refresh} \subseteq BOOLEAN
  /\ ids \in Seq(Versions) /\ IsInjective(ids)
  /\ value \in [Versions -> 0..MaxFetches]
  /\ \A v \in Versions : fetched[v] \in Seq({"made", "failed"})

\* A caller is given a fetch of the version it asked for, no entry keeps a fetch that failed
\* or more versions than cacheMaxSize, and the ids tracked are the versions of the entry: a
\* version that failed is fetched again for who asks for it, and for nobody else.
VersionsResolved ==
  /\ resolved.version # 0 => resolved.fetch \in DOMAIN fetched[resolved.version]
  /\ stored =>
       /\ ToSet(ids) = {v \in Versions : value[v] # 0} /\ Len(ids) <= CacheMaxSize
       /\ \A v \in ToSet(ids) : fetched[v][value[v]] # "failed"
=============================================================================
