--------------------------- MODULE ConfigSession ---------------------------
(***************************************************************************)
(* @middy/appconfig: the session that fetches one configuration, and the    *)
(* client it is fetched with (createClientInit of @middy/util, which every  *)
(* fetch middleware uses).                                                  *)
(*                                                                         *)
(* The service (external) takes a token once and answers with the next one, *)
(* and with the configuration only if it is not the one the session had     *)
(* last.  A request that is refused for its signature is sent again, with   *)
(* the client shared by then, like the later request of a session; what it  *)
(* is signed with is not told apart, so it has no step.  Identifiers of     *)
(* attempts, fetches and tokens are used again once nothing refers to them. *)
(* Nothing depends on continuations of a settled promise running at once,   *)
(* so they are steps like any other.                                        *)
(* FetchCache models when an entry is fetched; here any invocation may.     *)
(***************************************************************************)
EXTENDS Integers, FiniteSets

CONSTANTS
  Invocations,  \* invocations in flight at a time
  MaxCreds,     \* bound: how often sts fetches credentials
  MaxConfig     \* bound: how often the configuration changes

VARIABLES
  assumeRole,      \* awsClientAssumeRole is set
  creds,           \* what sts has stored last, or Own without it
  inv,             \* the invocations
  credentials, pending,  \* the memo of createClientInit
  attempts,        \* the clients being created, and the one the memo holds
  client,          \* what the shared client was created with, or None
  tokenCache,      \* configurationTokenCache[internalKey], or NoToken
  tokenExpired,    \* its expiry has passed
  configuration,   \* configurationCache[internalKey], or 0
  inflight,        \* inflight[internalKey], or NoFetch
  fetch,           \* the fetches in flight
  config,          \* the configuration the service holds
  session          \* the configuration the session of a token had last, or Void

clientVars == <<credentials, pending, attempts, client>>
serviceVars == <<config, session>>
sessionVars == <<tokenCache, tokenExpired, configuration, inflight, fetch, serviceVars>>
vars == <<assumeRole, creds, inv, clientVars, sessionVars>>

Own == 0           \* the credentials of the function itself
None == -1
Void == -1         \* of a token that was spent, has expired or was never issued
NoAttempt == 0
NoFetch == 0
NoToken == 0
Attempts == 1 .. Cardinality(Invocations) + 1
Fetches == 1..2
PollTokens == 1..4
Idle == [pc |-> "idle", creds |-> None, of |-> 0, with |-> None]
NotMade == [creds |-> None, pc |-> "none"]
NotFetching == [pc |-> "none", token |-> NoToken, next |-> NoToken, answer |-> 0]

Init ==
  /\ assumeRole \in BOOLEAN /\ creds = (IF assumeRole THEN 1 ELSE Own)
  /\ inv = [i \in Invocations |-> Idle]
  /\ credentials = Own /\ pending = NoAttempt /\ attempts = [a \in Attempts |-> NotMade]
  /\ client \in {None, Own} /\ (assumeRole => client = None)  \* canPrefetch
  /\ tokenCache = NoToken /\ tokenExpired = FALSE /\ configuration = 0
  /\ inflight = NoFetch /\ fetch = [f \in Fetches |-> NotFetching]
  /\ config = 1 /\ session = [t \in PollTokens |-> Void]

----------------------------------------------------------------------------
\* Fault: the memo is kept whatever the credentials.
PendingForAll(i) == pending
PendingFor(i) == IF inv[i].creds = credentials THEN pending ELSE NoAttempt
\* A created client is forgotten with the memo.
Forget(A, memo) == [a \in Attempts |-> IF a # memo /\ A[a].pc # "creating" THEN NotMade ELSE A[a]]
CreateClient(i, a) ==
  /\ attempts' = Forget([attempts EXCEPT ![a] = [creds |-> inv[i].creds, pc |-> "creating"]], a)
  /\ pending' = a
ClientInit(i) ==
  /\ credentials' = inv[i].creds
  /\ IF PendingFor(i) = NoAttempt
     THEN CreateClient(i, CHOOSE a \in Attempts : attempts[a].pc # "creating")
     ELSE pending' = PendingFor(i) /\ UNCHANGED attempts
  /\ LET attempt == attempts'[pending']
     IN  inv' = [inv EXCEPT ![i].pc = IF attempt.pc = "creating" THEN "client" ELSE attempt.pc,
                            ![i].of = pending', ![i].with = attempt.creds]
  /\ UNCHANGED client

\* Who awaits the attempt or the fetch n at pc goes on from there as F(i).
Waiting(pc, n) == {i \in Invocations : inv[i].pc = pc /\ inv[i].of = n}
Wake(pc, n, F(_)) == inv' = [i \in Invocations |-> IF i \in Waiting(pc, n) THEN F(i) ELSE inv[i]]
ClientCreated(a) ==
  /\ attempts[a].pc = "creating"
  /\ attempts' = Forget([attempts EXCEPT ![a].pc = "created"], pending)
  /\ Wake("client", a, LAMBDA i : [inv[i] EXCEPT !.pc = "created"])
  /\ UNCHANGED <<assumeRole, creds, credentials, pending, client, sessionVars>>
\* Fault: a failed attempt is handed out for good.
StillPending(a) == pending
PendingAfter(a) == IF pending = a THEN NoAttempt ELSE pending
ClientFails(a) ==
  /\ attempts[a].pc = "creating"
  /\ pending' = PendingAfter(a)
  /\ attempts' = Forget([attempts EXCEPT ![a].pc = "failed"], pending')
  /\ Wake("client", a, LAMBDA i : Idle)
  /\ UNCHANGED <<assumeRole, creds, credentials, client, sessionVars>>

----------------------------------------------------------------------------
\* Fault: every fetch asks the service itself.
Unshared == NoFetch
Shared == inflight
\* Fault: the age of the token is not looked at.
AnyToken == tokenCache # NoToken
TokenUsable == tokenCache # NoToken /\ ~tokenExpired
\* fetchConfigurationRequest
FetchConfiguration(f) ==
  fetch' = [fetch EXCEPT ![f] = IF TokenUsable THEN [@ EXCEPT !.pc = "latest", !.token = tokenCache]
                                ELSE [@ EXCEPT !.pc = "session"]]
\* The first place for a fetch that has none.
Free(f) == fetch[f] = NotFetching /\ \A g \in 1..f - 1 : fetch[g] # NotFetching
\* fetchRequest: the invocations who are given the promise of a fetch.
FetchRequest(who) ==
  \E f \in Fetches :
    /\ IF Shared # NoFetch THEN f = Shared /\ UNCHANGED <<inflight, fetch>>
       ELSE Free(f) /\ FetchConfiguration(f) /\ inflight' = f
    /\ inv' = [i \in Invocations |->
                 IF i \in who THEN [inv[i] EXCEPT !.pc = "fetch", !.of = f, !.with = None] ELSE inv[i]]

\* processCache with the client there: a hit, or a fetch.
Fetch(i) ==
  /\ FetchRequest({i}) \/ (inv' = [inv EXCEPT ![i] = Idle] /\ UNCHANGED <<inflight, fetch>>)
  /\ UNCHANGED <<tokenCache, tokenExpired, configuration, serviceVars>>

\* The sts middleware has stored the credentials in request.internal, newer ones than it had
\* if it has refetched them.
Before(i) ==
  /\ inv[i].pc = "idle"
  /\ creds' \in IF assumeRole THEN creds..MaxCreds ELSE {creds}
  /\ inv' = [inv EXCEPT ![i] = [Idle EXCEPT !.pc = "before", !.creds = creds']]
  /\ UNCHANGED <<assumeRole, clientVars, sessionVars>>
\* Fault: a client that is there is used.
AnyClient == client # None
ClientStays == client # None /\ ~assumeRole
\* appConfigMiddlewareBefore
Run(i) ==
  /\ inv[i].pc = "before"
  /\ IF ClientStays THEN Fetch(i) /\ UNCHANGED clientVars
     ELSE ClientInit(i) /\ UNCHANGED sessionVars
  /\ UNCHANGED <<assumeRole, creds>>
Resume(i) ==
  /\ inv[i].pc \in {"created", "failed"}
  /\ IF inv[i].pc = "created" THEN client' = inv[i].with /\ Fetch(i)
     ELSE inv' = [inv EXCEPT ![i] = Idle] /\ UNCHANGED <<client, sessionVars>>
  /\ UNCHANGED <<assumeRole, creds, credentials, pending, attempts>>
\* The prefetch and the refresh timer fetch for no invocation.
Refresh ==
  /\ client # None /\ inflight = NoFetch /\ FetchRequest({})
  /\ UNCHANGED <<assumeRole, creds, clientVars, tokenCache, tokenExpired, configuration, serviceVars>>

----------------------------------------------------------------------------
\* A token nothing in the process refers to.
Issued ==
  LET known == {tokenCache} \cup {fetch[f].token : f \in Fetches} \cup {fetch[f].next : f \in Fetches}
  IN  CHOOSE t \in PollTokens \ known : TRUE

SessionStarted(f) ==
  /\ fetch[f].pc = "session"
  /\ fetch' = [fetch EXCEPT ![f].pc = "latest", ![f].token = Issued]
  /\ session' = [session EXCEPT ![Issued] = 0]
  /\ UNCHANGED <<assumeRole, creds, inv, clientVars, tokenCache, tokenExpired, configuration, inflight, config>>
\* The service takes the token; another configuration may have been deployed by then.
TokenTaken(f) ==
  LET t == fetch[f].token
  IN  /\ fetch[f].pc = "latest" /\ session[t] # Void /\ config' \in config..MaxConfig
      /\ fetch' = [fetch EXCEPT ![f].pc = "answered", ![f].next = Issued,
                                ![f].answer = IF session[t] = config' THEN 0 ELSE config']
      /\ session' = [session EXCEPT ![t] = Void, ![Issued] = config']
      /\ UNCHANGED <<assumeRole, creds, inv, clientVars, tokenCache, tokenExpired, configuration, inflight>>
\* The promise of f settles and its invocations return.
Settles(f) ==
  /\ fetch' = [fetch EXCEPT ![f] = NotFetching]
  /\ inflight' = (IF inflight = f THEN NoFetch ELSE inflight)
  /\ Wake("fetch", f, LAMBDA i : Idle)
AnswerReceived(f) ==
  /\ fetch[f].pc = "answered"
  /\ tokenCache' = fetch[f].next /\ tokenExpired' = FALSE
  /\ configuration' = (IF fetch[f].answer = 0 THEN configuration ELSE fetch[f].answer)
  /\ Settles(f)
  /\ UNCHANGED <<assumeRole, creds, clientVars, serviceVars>>
\* Fault: the token outlives the fetch that used it.
TokenKept(f) == tokenCache
TokenDropped(f) == IF fetch[f].pc = "session" THEN tokenCache ELSE NoToken
\* The request fails, or its answer is lost, and with it the next token.
FetchFails(f) ==
  /\ fetch[f].pc # "none"
  /\ tokenCache' = TokenDropped(f) /\ tokenExpired' = (tokenExpired /\ tokenCache' # NoToken) /\ Settles(f)
  /\ session' = [t \in PollTokens |-> IF t \in {fetch[f].token, fetch[f].next} \ {tokenCache'}
                                  THEN Void ELSE session[t]]
  /\ UNCHANGED <<assumeRole, creds, clientVars, configuration, config>>

\* A day passes: no request takes that long.
TokenExpires ==
  /\ tokenCache # NoToken /\ ~tokenExpired /\ inflight = NoFetch
  /\ tokenExpired' = TRUE /\ session' = [session EXCEPT ![tokenCache] = Void]
  /\ UNCHANGED <<assumeRole, creds, inv, clientVars, tokenCache, configuration, inflight, fetch, config>>

Goes(i) == Run(i) \/ Resume(i)
Client(a) == ClientCreated(a) \/ ClientFails(a)
Service(f) == SessionStarted(f) \/ TokenTaken(f) \/ AnswerReceived(f) \/ FetchFails(f)
Next ==
  \/ \E i \in Invocations : Before(i) \/ Goes(i)
  \/ (\E a \in Attempts : Client(a)) \/ (\E f \in Fetches : Service(f))
  \/ Refresh \/ TokenExpires
Spec == Init /\ [][Next]_vars

----------------------------------------------------------------------------
TypeOK ==
  /\ assumeRole \in BOOLEAN /\ creds \in Own..MaxCreds
  /\ inv \in [Invocations -> [pc : {"idle", "before", "client", "created", "fetch"},
                              creds : None..MaxCreds, with : None..MaxCreds,
                              of : 0..Cardinality(Invocations) + 1]]
  /\ credentials \in Own..MaxCreds /\ pending \in Attempts \cup {NoAttempt} /\ client \in None..MaxCreds
  /\ attempts \in [Attempts -> [creds : None..MaxCreds, pc : {"none", "creating", "created"}]]
  /\ tokenCache \in PollTokens \cup {NoToken} /\ tokenExpired \in BOOLEAN /\ configuration \in 0..MaxConfig
  /\ inflight \in Fetches \cup {NoFetch}
  /\ fetch \in [Fetches -> [pc : {"none", "session", "latest", "answered"},
                            token : PollTokens \cup {NoToken}, next : PollTokens \cup {NoToken}, answer : 0..MaxConfig]]
  /\ config \in 1..MaxConfig /\ session \in [PollTokens -> Void..MaxConfig]

\* A token in use was never used before and has not expired, and the service answers
\* "unchanged" only about the configuration that is cached.
TokensSingleUse ==
  \A f \in Fetches : fetch[f].pc = "latest" => session[fetch[f].token] \in {0, configuration}
\* An invocation waits for a client created with its own credentials, and makes it the shared
\* one before it fetches; it is never handed an attempt that had failed before it asked.
ClientIsCurrent ==
  [][\A i \in Invocations :
       /\ inv[i].pc = "before" /\ inv'[i].pc \in {"client", "created", "failed"} =>
            inv'[i].with = inv[i].creds /\ inv'[i].pc # "failed"
       /\ inv[i].pc # "fetch" /\ inv'[i].pc = "fetch" => client' = inv[i].creds]_vars
=============================================================================
