---------------------------- MODULE ServiceFetch ----------------------------
(***************************************************************************)
(* What a fetch middleware asks its service for, and what the invocations   *)
(* waiting for it get.  Two invocations share the entry of the cache, which *)
(* does not expire here (FetchCache has the rest of its life): the second   *)
(* comes while requests of the first are under way, or after some failed.   *)
(*                                                                         *)
(* The call of fetchRequest by invocation i is call i; promise[i][k] is its *)
(* promise for the key k of fetchData, got[i][k] the key whose value it has *)
(* resolved to, or 0 for undefined.                                         *)
(***************************************************************************)
EXTENDS Naturals, FiniteSets

CONSTANT AwsRequestLimit  \* options.awsRequestLimit of ssm

VARIABLES
  middleware, \* whose fetchRequest it is
  entry,      \* the entry: per key the call whose promise it holds, or 0
  requests,   \* requests under way
  promise,    \* "none", "pending", "ok" or "failed"
  got,
  caller,     \* the invocations: pc, and the promises they hold, per key
  refused     \* history: the keys the service refused each call, by name or with the whole request

vars == <<middleware, entry, requests, promise, got, caller, refused>>

Callers == 1..2
PerKey == {"dynamodb", "kms", "s3", "service-discovery", "glue-schema-registry", "sts"}
Extensions == {"ssm-extension", "secrets-manager-extension", "appconfig-extension"}
Signers == {"rds-signer", "dsql-signer"}
\* "ssm" has names only, "ssm-path" a path among the names.
Ssm == {"ssm", "ssm-path"}
Middlewares == Ssm \cup {"secrets-manager"} \cup PerKey \cup Extensions \cup Signers
Keys == IF middleware \in Ssm THEN 1..4 ELSE 1..2
Paths == IF middleware = "ssm-path" THEN {2} ELSE {}
Pages == 2

Init ==
  /\ middleware \in Middlewares
  /\ entry = [k \in Keys |-> 0] /\ requests = {}
  /\ promise = [i \in Callers |-> [k \in Keys |-> "none"]] /\ got = [i \in Callers |-> [k \in Keys |-> 0]]
  /\ caller = [i \in Callers |-> [pc |-> "idle", holds |-> [k \in Keys |-> 0]]]
  /\ refused = [i \in Callers |-> {}]

----------------------------------------------------------------------------
(* fetchRequest                                                            *)

\* The batch a name falls into, by the names before it.
BatchOf(names, k) == Cardinality({j \in names : j < k}) \div AwsRequestLimit
\* Fault: names that do not fill a batch are left over.
FullBatches(names) ==
  {B \in {{k \in names : BatchOf(names, k) = b} : b \in {BatchOf(names, k) : k \in names}} :
     Cardinality(B) = AwsRequestLimit}
\* The names in their order, awsRequestLimit to a batch.
Batches(names) == {{k \in names : BatchOf(names, k) = b} : b \in {BatchOf(names, k) : k \in names}}

\* The first thing asked for a key.
FirstStep(k) ==
  CASE middleware \in {"ssm-extension", "secrets-manager-extension"} -> "token"
    [] middleware = "secrets-manager" /\ k = 1 -> "describe"
    [] OTHER -> "get"
Asked(missing) ==
  IF middleware \in Ssm THEN Batches(missing \ Paths) \cup {{k} : k \in missing \cap Paths} ELSE {{k} : k \in missing}
FetchRequest(i, missing) ==
  /\ requests' = requests \cup
       {[call |-> i, keys |-> ks, step |-> FirstStep(CHOOSE k \in ks : TRUE), retried |-> FALSE, kept |-> {}] :
          ks \in Asked(missing)}
  /\ promise' = [promise EXCEPT ![i] = [k \in Keys |-> IF k \in UNION Asked(missing) THEN "pending" ELSE "none"]]

\* Fault: an invocation that misses a key asks for all of them.
AllKeys(have) == IF \E k \in Keys : have[k] = 0 THEN Keys ELSE {}
Missing(have) == {k \in Keys : have[k] = 0}
\* The before hook: a fetch of what the entry does not hold.
ProcessCache(i, pc) ==
  /\ caller[i].pc = "idle" /\ \A j \in 1..i - 1 : caller[j].pc # "idle"
  /\ FetchRequest(i, Missing(entry))
  /\ entry' = [k \in Keys |-> IF promise'[i][k] = "pending" THEN i ELSE entry[k]]
  /\ caller' = [caller EXCEPT ![i] = [pc |-> pc, holds |-> entry']]
  /\ UNCHANGED <<middleware, got, refused>>
\* canPrefetch: the first call may be made at startup, and nobody waits for it.
Prefetch == ProcessCache(1, "prefetched")
Before(i) == ProcessCache(i, "awaits")

----------------------------------------------------------------------------
(* The service answers                                                     *)

\* failed: the keys of r the service refuses; the rest resolve to value.  Each failed key
\* evicts itself, unless the entry holds another promise.
Settle(r, failed, value) ==
  /\ requests' = requests \ {r}
  /\ promise' = [promise EXCEPT ![r.call] =
       [k \in Keys |-> IF k \in failed THEN "failed" ELSE IF k \in r.keys THEN "ok" ELSE @[k]]]
  /\ got' = [got EXCEPT ![r.call] = [k \in Keys |-> IF k \in r.keys \ failed THEN value[k] ELSE @[k]]]
  /\ entry' = [k \in Keys |-> IF k \in failed /\ entry[k] = r.call THEN 0 ELSE entry[k]]
  /\ UNCHANGED <<middleware, caller>>
Own == [k \in Keys |-> k]
Resolves(r) == Settle(r, {}, Own) /\ UNCHANGED refused
Rejects(r) == Settle(r, r.keys, Own) /\ refused' = [refused EXCEPT ![r.call] = @ \cup r.keys]
Becomes(r, s) ==
  requests' = (requests \ {r}) \cup {s} /\ UNCHANGED <<middleware, entry, promise, got, caller, refused>>
\* catchInvalidSignatureException: sent once more.
RetriesSignature(r) == ~r.retried /\ Becomes(r, [r EXCEPT !.retried = TRUE])

\* Fault: an invalid name fails its batch.
WholeBatch(r, invalid) == IF invalid = {} THEN {} ELSE r.keys
InvalidParameters(r, invalid) == invalid
GetParameters(r) ==
  /\ middleware \in Ssm /\ r.keys \cap Paths = {}
  /\ \/ RetriesSignature(r) \/ Rejects(r)
     \/ \E invalid \in SUBSET r.keys :
          /\ Settle(r, InvalidParameters(r, invalid), Own)
          /\ refused' = [refused EXCEPT ![r.call] = @ \cup invalid]
\* Fault: every page starts over.
OnlyPage(r, page) == {page}
AddPage(r, page) == r.kept \cup {page}
\* Page after page, until one has no NextToken; what is missing shows as undefined.
GetParametersByPath(r) ==
  /\ r.keys \subseteq Paths
  /\ LET page == Cardinality(r.kept) + 1
     IN  \/ RetriesSignature(r) \/ Rejects(r)
         \/ page < Pages /\ Becomes(r, [r EXCEPT !.kept = AddPage(r, page), !.retried = FALSE])
         \/ /\ Settle(r, {}, [k \in Keys |-> IF Cardinality(AddPage(r, page)) = page THEN k ELSE 0])
            /\ UNCHANGED refused

\* The rotation date is learned before the secret is fetched.
SecretsManager(r) ==
  /\ middleware = "secrets-manager"
  /\ \/ RetriesSignature(r) \/ Rejects(r)
     \/ r.step = "describe" /\ Becomes(r, [r EXCEPT !.step = "get", !.retried = FALSE])
     \/ r.step = "get" /\ Resolves(r)

\* A role that is assumed expires with its credentials; an answer without any rejects.
Sts(r) == middleware = "sts" /\ (RetriesSignature(r) \/ Rejects(r) \/ Resolves(r))
\* An item that does not exist resolves to undefined.
DynamoDb(r) ==
  /\ middleware = "dynamodb"
  /\ RetriesSignature(r) \/ Rejects(r) \/ Resolves(r) \/ (Settle(r, {}, [k \in Keys |-> 0]) /\ UNCHANGED refused)
Kms(r) == middleware = "kms" /\ (RetriesSignature(r) \/ Rejects(r) \/ Resolves(r))
\* The body is read in a step of its own; without one the promise rejects.
S3(r) ==
  /\ middleware = "s3"
  /\ \/ r.step = "get" /\ (RetriesSignature(r) \/ Becomes(r, [r EXCEPT !.step = "body"]))
     \/ r.step = "body" /\ Resolves(r)
     \/ Rejects(r)
ServiceDiscovery(r) == middleware = "service-discovery" /\ (RetriesSignature(r) \/ Rejects(r) \/ Resolves(r))
GlueSchemaRegistry(r) == middleware = "glue-schema-registry" /\ (RetriesSignature(r) \/ Rejects(r) \/ Resolves(r))

\* One session token for the keys of a call; a missing one fails each of them.
SessionToken(r) ==
  /\ r.step = "token"
  /\ \E next \in {"get", "refused"} :
       requests' = {IF q.call = r.call THEN [q EXCEPT !.step = next] ELSE q : q \in requests}
  /\ UNCHANGED <<middleware, entry, promise, got, caller, refused>>
Extension(r) == r.step # "token" /\ (Rejects(r) \/ (r.step = "get" /\ Resolves(r)))
SsmExtension(r) == middleware = "ssm-extension" /\ Extension(r)
SecretsManagerExtension(r) == middleware = "secrets-manager-extension" /\ Extension(r)
AppConfigExtension(r) == middleware = "appconfig-extension" /\ (Rejects(r) \/ Resolves(r))
\* A token that is not signed with a session is refused.
RdsSigner(r) == middleware = "rds-signer" /\ (Rejects(r) \/ Resolves(r))
DsqlSigner(r) == middleware = "dsql-signer" /\ (Rejects(r) \/ Resolves(r))

Service(r) ==
  \/ GetParameters(r) \/ GetParametersByPath(r) \/ SecretsManager(r) \/ Sts(r)
  \/ DynamoDb(r) \/ Kms(r) \/ S3(r) \/ ServiceDiscovery(r) \/ GlueSchemaRegistry(r)
  \/ SessionToken(r) \/ SsmExtension(r) \/ SecretsManagerExtension(r) \/ AppConfigExtension(r)
  \/ RdsSigner(r) \/ DsqlSigner(r)

\* getInternal, or the assignment to the context: every value, or every error.
Failed(i) == {k \in Keys : caller[i].holds[k] # 0 /\ promise[caller[i].holds[k]][k] = "failed"}
GetInternal(i) ==
  /\ caller[i].pc = "awaits"
  /\ \A k \in Keys : caller[i].holds[k] # 0 => promise[caller[i].holds[k]][k] # "pending"
  /\ caller' = [caller EXCEPT ![i].pc = IF Failed(i) = {} THEN "resolved" ELSE "rejected"]
  /\ UNCHANGED <<middleware, entry, requests, promise, got, refused>>

Goes == (\E r \in requests : Service(r)) \/ (\E i \in Callers : GetInternal(i))
Next == Goes \/ Prefetch \/ (\E i \in Callers : Before(i))
Spec == Init /\ [][Next]_vars

----------------------------------------------------------------------------
TypeOK ==
  /\ middleware \in Middlewares /\ entry \in [Keys -> 0..2]
  /\ promise \in [Callers -> [Keys -> {"none", "pending", "ok", "failed"}]] /\ got \in [Callers -> [Keys -> 0..4]]
  /\ \A r \in requests : r.call \in Callers /\ r.keys \subseteq Keys /\ r.keys # {}

\* An invocation that resolves has the value of each key's own name, all of its pages; only
\* DynamoDB knows a name without a value.
OwnValue ==
  \A i \in Callers, k \in Keys :
    caller[i].pc = "resolved" =>
      LET n == caller[i].holds[k]
      IN  n # 0 /\ promise[n][k] = "ok" /\ got[n][k] \in IF middleware = "dynamodb" THEN {0, k} ELSE {k}
\* A key fails for its own name or with its request, and neither a key that did not fail is
\* fetched again nor one that failed is kept.
FailsAlone ==
  \A k \in Keys :
    /\ \A i \in Callers : promise[i][k] = "failed" => k \in refused[i] /\ entry[k] # i
    /\ promise[1][k] # "none" /\ promise[2][k] # "none" => promise[1][k] = "failed"
\* No request exceeds what the service takes, and what is waited for is under way.
UnderWay ==
  /\ \A r \in requests : Cardinality(r.keys) <= AwsRequestLimit
  /\ \A i \in Callers, k \in Keys :
       promise[i][k] = "pending" <=> \E r \in requests : r.call = i /\ k \in r.keys
FetchedIsOwn == OwnValue /\ FailsAlone /\ UnderWay
=============================================================================
