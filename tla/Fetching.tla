------------------------------ MODULE Fetching ------------------------------
(***************************************************************************)
(* What middlewares fetch from services, and what they hand out of it: the  *)
(* configuration session of appconfig, the batches of the fetch             *)
(* middlewares, the schema versions of glue-schema-registry, the keysets of *)
(* http-jwt, and the cache most of them share.  Each is followed by itself; *)
(* Container follows the other parts of middy in the same way.              *)
(***************************************************************************)
EXTENDS Integers, Sequences, FiniteSets

CONSTANTS Invocations, MaxCreds, MaxConfig                        \* see ConfigSession
CONSTANTS AwsRequestLimit, Versions, CacheMaxSize, MaxFetches     \* see ServiceFetch, SchemaVersions
CONSTANTS Tokens, MaxKeys, KeptKids, CacheMaxAge, Cooldown, Timeout, Horizon  \* see JwksResolver
ASSUME FetchAssumption ==
  /\ Invocations # {} /\ IsFiniteSet(Invocations) /\ 0 \notin Versions
  /\ {MaxCreds, MaxConfig, AwsRequestLimit, CacheMaxSize} \subseteq Nat \ {0} /\ MaxFetches \in Nat
  /\ Tokens # {} /\ MaxKeys \in Nat \ {0} /\ KeptKids \subseteq 2..MaxKeys
  /\ {CacheMaxAge, Cooldown, Timeout, Horizon} \subseteq Nat

VARIABLE part  \* the part that is followed

VARIABLES assumeRole, creds, inv, credentials, pending, attempts, client
VARIABLES tokenCache, tokenExpired, configuration, inflight, fetch, config, session
VARIABLES middleware, entry, requests, promise, got, caller, rejected
VARIABLES caching, ids, stored, value, modified, expired, refresh, fetched, resolved
VARIABLES instances, entries, timers, served
VARIABLES now, rotatedAt, cache, cacheTime, lastFetchTime, lastError, jwksFetch, verify, lastFetchFailed

appconfig == INSTANCE ConfigSession
service == INSTANCE ServiceFetch WITH refused <- rejected
schemas == INSTANCE SchemaVersions
sharing == INSTANCE SharedCache WITH options <- instances, cache <- entries
jwks == INSTANCE JwksResolver WITH inflight <- jwksFetch

appconfigVars == <<assumeRole, creds, inv, credentials, pending, attempts, client, tokenCache, tokenExpired,
                   configuration, inflight, fetch, config, session>>
serviceVars == <<middleware, entry, requests, promise, got, caller, rejected>>
schemasVars == <<caching, ids, stored, value, modified, expired, refresh, fetched, resolved>>
sharingVars == <<instances, entries, timers, served>>
jwksVars == <<now, rotatedAt, cache, cacheTime, lastFetchTime, lastError, jwksFetch, verify, lastFetchFailed>>
fetchVars == <<part, appconfigVars, serviceVars, schemasVars, sharingVars, jwksVars>>

FetchParts == {"appconfig", "service", "schemas", "sharing", "http-jwt"}

\* How a part is configured is of no interest to the others.
FetchInit ==
  /\ appconfig!Init
  /\ part # "appconfig" => assumeRole
  /\ part # "service" => middleware = "kms"
  /\ service!Init
  /\ schemas!Init
  /\ part # "schemas" => caching
  /\ part # "sharing" => instances = [m \in sharing!Middlewares |-> CHOOSE o \in sharing!Options(m) : TRUE]
  /\ sharing!Init
  /\ jwks!Init

\* No part but p takes a step.
Follows(p) ==
  /\ part = p /\ UNCHANGED part
  /\ p # "appconfig" => UNCHANGED appconfigVars
  /\ p # "service" => UNCHANGED serviceVars
  /\ p # "schemas" => UNCHANGED schemasVars
  /\ p # "sharing" => UNCHANGED sharingVars
  /\ p # "http-jwt" => UNCHANGED jwksVars
FetchNext ==
  \/ Follows("appconfig") /\ appconfig!Next
  \/ Follows("service") /\ service!Next
  \/ Follows("schemas") /\ schemas!Next
  \/ Follows("sharing") /\ sharing!Next
  \/ Follows("http-jwt") /\ jwks!Next
FetchSpec == FetchInit /\ [][FetchNext]_fetchVars

----------------------------------------------------------------------------
\* What a fetch middleware hands out is what was asked for.  A configuration token of
\* AppConfig is never used twice or after a day, and the service answers "unchanged" only
\* about the configuration that is cached.  Every key has the value of its own name, all
\* pages of it, or fails for its own name or request, while no key of another batch or
\* invocation fails or is fetched with it; no request exceeds awsRequestLimit, and what is
\* waited for is under way.  A caller gets the schema version it names, and the versions
\* tracked are those the entry holds, none of them failed, cacheMaxSize at most.  What a
\* middleware has just stored in the cache it shares with others is there, whatever had to go
\* for it, an entry is never another source's, and what was evicted is not refetched.
FetchedIsOwn ==
  /\ part = "appconfig" => appconfig!TokensSingleUse
  /\ part = "service" => service!FetchedIsOwn
  /\ part = "schemas" => schemas!VersionsResolved
  /\ part = "sharing" => sharing!CacheIsShared

\* createClientInit: an invocation is given a client created with its own credentials, and
\* no attempt that had failed before it asked.
ClientIsCurrent == appconfig!ClientIsCurrent

\* http-jwt: a token gets the answer the keys published now call for, but for a key
\* published within the cooldown or withdrawn within the life of the cache, or shortly
\* after the identity provider failed.
KeysRefetched == jwks!KeysRefetched
=============================================================================
