---------------------------- MODULE ObjectResponse ----------------------------
(***************************************************************************)
(* @middy/s3-object-response: before the handler the original object is     *)
(* asked for at the presigned URL of the event, after it what the handler   *)
(* returned is written to the route of the event, with a client that is     *)
(* kept from one invocation to the next.  Invocations overlap where the     *)
(* host lets them, and replace the client of one another.  A host name is   *)
(* the sequence of its labels.                                              *)
(***************************************************************************)
EXTENDS Integers, SequencesExt

CONSTANTS MaxBudget, MinWait, Margin  \* times in units of 500 ms

VARIABLES
  role,     \* awsClientAssumeRole is given
  pc,       \* where each invocation is
  url,      \* inputS3Url, or NoUrl
  budget,   \* getRemainingTimeInMillis at the start
  elapsed,  \* the time since
  get,      \* the object asked for: "none", "pending", "arrived" or "aborted"
  creds,    \* the credentials sts has put into each invocation
  client,   \* the client kept: the credentials it was made with, or NoClient
  input,    \* what the handler returned: a body, or an object of fields with a route of its own
  command,  \* the WriteGetObjectResponse of each invocation, or Unsent
  resent,   \* what it was signed with when it was sent again, or NoClient
  since     \* history: who sent from its first time to its second, itself included

vars == <<role, pc, url, budget, elapsed, get, creds, client, input, command, resent, since>>

Overlapping == {1, 2}
NoClient == 0
FunctionCreds == 3
NoUrl == [scheme |-> "none", port |-> "", host |-> <<>>]
Unsent == [with |-> NoClient, route |-> 0, body |-> "none"]
\* An entry with stars, as the defaults are, and one without.
AllowedHosts == {<<"*", "s3-accesspoint", "*", "aws">>, <<"bucket", "aws">>}
AccessPoint == <<"point", "s3-accesspoint", "eu", "aws">>
Hosts == {AccessPoint, <<"bucket", "aws">>, <<"sub", "bucket", "aws">>, <<"mybucket", "aws">>, <<"aws">>,
          <<"point", "ec2", "eu", "aws">>, <<"", "s3-accesspoint", "eu", "aws">>, <<"s3-accesspoint", "eu", "aws">>,
          <<"sub", "point", "s3-accesspoint", "eu", "aws">>}
Presigned == [scheme |-> "https", port |-> "", host |-> AccessPoint]
Urls == [scheme : {"https"}, port : {""}, host : Hosts]
        \cup {[Presigned EXCEPT !.scheme = "http"], [Presigned EXCEPT !.port = "8443"], NoUrl}
Ordinary == [url |-> Presigned, budget |-> MaxBudget]
Short == [url |-> NoUrl, budget |-> 1]
Events ==
  {Short} \cup {[Ordinary EXCEPT !.url = u] : u \in Urls} \cup {[Ordinary EXCEPT !.budget = b] : b \in 1..MaxBudget}

Init ==
  /\ role \in BOOLEAN /\ pc = [i \in Overlapping |-> "idle"] /\ url = [i \in Overlapping |-> NoUrl]
  /\ budget = [i \in Overlapping |-> 0] /\ elapsed = budget /\ creds = budget
  /\ get = [i \in Overlapping |-> "none"]
  /\ client \in IF role THEN {NoClient} ELSE {NoClient, FunctionCreds}  \* prefetched, or not
  /\ input = [i \in Overlapping |-> "body"] /\ command = [i \in Overlapping |-> Unsent]
  /\ resent = [i \in Overlapping |-> NoClient] /\ since = [i \in Overlapping |-> {}]

----------------------------------------------------------------------------
HasSuffix(host, domain) ==
  Len(host) >= Len(domain) /\ SubSeq(host, Len(host) - Len(domain) + 1, Len(host)) = domain
\* Fault: labels are compared from the end.
FromTheEnd(host, allowed) ==
  LET rest == Len(host) - Len(allowed)
  IN  rest >= 0 /\ \A k \in DOMAIN allowed : allowed[k] \in {"*", host[rest + k]}
HostMatches(host, allowed) ==
  IF Contains(allowed, "*")
  THEN /\ Len(host) = Len(allowed)
       /\ \A k \in DOMAIN allowed : IF allowed[k] = "*" THEN host[k] # "" ELSE host[k] = allowed[k]
  ELSE HasSuffix(host, allowed)
AssertAllowedInputUrl(u) ==
  u.scheme = "https" /\ u.port = "" /\ \E allowed \in AllowedHosts : HostMatches(u.host, allowed)

\* Fault: the GET has all the time there is.
AllTheTime(time) == time
Wait(time) == IF time - Margin > MinWait THEN time - Margin ELSE MinWait
\* sts has run if it is used; it may have fetched new credentials since the other invocation.
Before(i, event) ==
  /\ pc[i] = "idle" /\ (i = 1 \/ event = Short)
  /\ url' = [url EXCEPT ![i] = event.url] /\ budget' = [budget EXCEPT ![i] = event.budget]
  /\ \E c \in IF role THEN {1, 2} ELSE {FunctionCreds} : creds' = [creds EXCEPT ![i] = c]
  /\ IF event.url = NoUrl \/ AssertAllowedInputUrl(event.url)
     THEN /\ pc' = [pc EXCEPT ![i] = "handler"]
          /\ get' = [get EXCEPT ![i] = IF event.url = NoUrl THEN "none" ELSE "pending"]
     ELSE pc' = [pc EXCEPT ![i] = "refused"] /\ UNCHANGED get
  /\ UNCHANGED <<role, elapsed, client, input, command, resent, since>>
Arrive(i) ==
  /\ get[i] = "pending" /\ pc[i] # "cut" /\ get' = [get EXCEPT ![i] = "arrived"]
  /\ UNCHANGED <<role, pc, url, budget, elapsed, creds, client, input, command, resent, since>>
\* Time passes: the GET is aborted, and Lambda cuts the invocation off.
Pass(i) ==
  /\ pc[i] \in {"handler", "client", "sent", "resent"}
  /\ elapsed' = [elapsed EXCEPT ![i] = @ + 1]
  /\ get' = [get EXCEPT ![i] = IF @ = "pending" /\ elapsed[i] + 1 >= Wait(budget[i]) THEN "aborted" ELSE @]
  /\ pc' = [pc EXCEPT ![i] = IF elapsed[i] + 1 = budget[i] THEN "cut" ELSE @]
  /\ UNCHANGED <<role, url, budget, creds, client, input, command, resent, since>>

----------------------------------------------------------------------------
\* The handler awaits what it needs of the object, if anything.
Handle(i) ==
  /\ pc[i] = "handler" /\ pc' = [pc EXCEPT ![i] = "client"]
  /\ \E r \in {"body", "fields"} : input' = [input EXCEPT ![i] = r]
  /\ UNCHANGED <<role, url, budget, elapsed, get, creds, client, command, resent, since>>
HandlerFails(i) ==
  /\ pc[i] = "handler" /\ get[i] = "aborted" /\ pc' = [pc EXCEPT ![i] = "failed"]
  /\ UNCHANGED <<role, url, budget, elapsed, get, creds, client, input, command, resent, since>>

\* Fault: the client is there already.
OnceMade(i) == IF client = NoClient THEN creds[i] ELSE client
ClientFor(i) == IF client = NoClient \/ role THEN creds[i] ELSE client
\* Fault: the handler's fields come last.
FieldsLast(i) == IF input[i] = "fields" THEN 0 ELSE i
Route(i) == i
\* Fault: whatever is an object has its fields taken.
Spread(i) == IF input[i] = "fields" THEN "body" ELSE "characters"
Body(i) == "body"
\* Fault: the client of the first stays.
KeepsFirst(i) == IF client = NoClient THEN ClientFor(i) ELSE client
Keeps(i) == ClientFor(i)
\* The after hook once the client is there: nothing comes between it and send.
Send(i) ==
  /\ pc[i] = "client" /\ pc' = [pc EXCEPT ![i] = "sent"]
  /\ client' = Keeps(i)
  /\ command' = [command EXCEPT ![i] = [with |-> ClientFor(i), route |-> Route(i), body |-> Body(i)]]
  /\ since' = [j \in Overlapping |-> IF j = i THEN {i} ELSE IF pc[j] = "sent" THEN since[j] \cup {i} ELSE since[j]]
  /\ UNCHANGED <<role, url, budget, elapsed, get, creds, input, resent>>
\* catchInvalidSignatureException: the same command once more, by the client kept by then.
Resend(i) ==
  /\ pc[i] = "sent" /\ pc' = [pc EXCEPT ![i] = "resent"]
  /\ resent' = [resent EXCEPT ![i] = client]
  /\ UNCHANGED <<role, url, budget, elapsed, get, creds, client, input, command, since>>
\* It is written, or refused for any other reason, or once more.
Answered(i) ==
  /\ pc[i] \in {"sent", "resent"} /\ \E end \in {"done", "failed"} : pc' = [pc EXCEPT ![i] = end]
  /\ UNCHANGED <<role, url, budget, elapsed, get, creds, client, input, command, resent, since>>

Next == \E i \in Overlapping :
  \/ \E event \in Events : Before(i, event)
  \/ Arrive(i) \/ Pass(i) \/ Handle(i) \/ HandlerFails(i) \/ Send(i) \/ Resend(i) \/ Answered(i)
Spec == Init /\ [][Next]_vars

----------------------------------------------------------------------------
TypeOK ==
  /\ pc \in [Overlapping -> {"idle", "refused", "handler", "failed", "client", "sent", "resent", "done", "cut"}]
  /\ {budget, elapsed} \subseteq [Overlapping -> 0..MaxBudget] /\ Range(creds) \subseteq 0..FunctionCreds
  /\ get \in [Overlapping -> {"none", "pending", "arrived", "aborted"}] /\ client \in 0..FunctionCreds
  /\ Range(resent) \subseteq 0..FunctionCreds /\ Range(since) \subseteq SUBSET Overlapping

\* The object is asked for by https at an access point, or in the domain allowed, only, and
\* what hangs is aborted while there is time left to fail, but for an invocation too short.
AskedInTime == \A i \in Overlapping : get[i] # "none" =>
  LET host == url[i].host
  IN  /\ url[i].scheme = "https" /\ host \in {AccessPoint, <<"bucket", "aws">>, <<"sub", "bucket", "aws">>}
      /\ get[i] = "pending" /\ budget[i] >= MinWait + Margin => budget[i] - elapsed[i] > Margin
\* What is written for an invocation is its own body, whole, to its own route, signed with its
\* own credentials, however it overlaps with another; but what is sent again, after its
\* signature was refused, may be signed with those of an invocation that has sent meanwhile.
WrittenAsOwn == \A i \in Overlapping : command[i] # Unsent =>
  /\ command[i] = [with |-> creds[i], route |-> i, body |-> "body"]
  /\ resent[i] # NoClient => \E j \in since[i] : resent[i] = creds[j]
=============================================================================
