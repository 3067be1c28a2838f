--------------------------- MODULE Authorization ---------------------------
(***************************************************************************)
(* The token of one request: verified by http-jwt, with configured keys or  *)
(* with the keys of its issuer, or by http-paseto, and bound to its sender   *)
(* by http-dpop, registered after them.  What the resolver of an issuer      *)
(* answers is the subject of JwksResolver; jose and paseto (external) check  *)
(* the algorithm, the key, the signature and the claims, in this order.      *)
(*                                                                         *)
(* A token is the key that signed it and whether its claims hold.            *)
(***************************************************************************)
EXTENDS Naturals, Sequences, FiniteSets

VARIABLES
  pc,       \* "verify", "dpop", "handler" or "refused"
  verifier, \* "issuers" or "internalKey" of http-jwt, or "http-paseto"
  keys,     \* the keys the verifier tries
  algs,     \* options.algorithm
  token,    \* the token
  sender,   \* what http-dpop reads, see Senders
  answer    \* the error thrown

vars == <<pc, verifier, keys, algs, token, sender, answer>>

Algs == {"ES256", "RS256", "HS256"}
\* Two elliptic keys, an RSA key, a secret, and an elliptic key nobody configures.
Keys == 1..4
AlgOf == <<"ES256", "ES256", "RS256", "HS256", "ES256">>
\* How internalKey holds them; 0 is a key of an unsupported shape.
Shape(k) == IF k = 0 THEN "unsupported" ELSE <<"KeyObject", "kms", "kms", "string">>[k]
Configurations == {<<>>} \cup {<<j>> : j \in 0..4} \cup {<<j, k>> : j \in 0..4, k \in 0..4}
SignedTokens == [signer : 1..5, claims : BOOLEAN, expected : BOOLEAN]
NoToken == [signer |-> 0, claims |-> FALSE, expected |-> FALSE]
\* confirmed: the key of the cnf claim, or 0.  The Authorization header: its scheme, and whether
\* it has the verified token.  by: the key of the only DPoP header, or 0; sound: it is a proof
\* and recent; request: of this request; ath: of the token presented.
Senders == [required : BOOLEAN, confirmed : 0..2, scheme : {"none", "Bearer", "DPoP"}, same : BOOLEAN,
            by : 0..2, sound : BOOLEAN, request : BOOLEAN, ath : BOOLEAN]
NoSender == [required |-> FALSE, confirmed |-> 0, scheme |-> "none", same |-> FALSE,
             by |-> 0, sound |-> FALSE, request |-> FALSE, ath |-> FALSE]
NoAnswer == [status |-> 0, challenge |-> "none", reason |-> "none"]

Init ==
  /\ pc = "verify" /\ verifier \in {"issuers", "internalKey", "http-paseto"}
  /\ keys = <<>> /\ algs = {} /\ token = NoToken /\ sender = NoSender /\ answer = NoAnswer

Refuse(status, challenge, reason) ==
  pc' = "refused" /\ answer' = [status |-> status, challenge |-> challenge, reason |-> reason]
Unauthorized(reason) == Refuse(401, "invalid_token", reason)
Passes(next) == pc' = next /\ UNCHANGED answer

----------------------------------------------------------------------------
(* http-jwt and http-paseto                                                *)

\* No source has a token, or it is malformed.
NoTokenFound ==
  /\ pc = "verify" /\ (Refuse(401, "Bearer", "none") \/ Unauthorized("malformed"))
  /\ UNCHANGED <<verifier, keys, algs, token, sender>>

\* The algorithms key k may be used with.
Usable(k) == IF Shape(k) = "kms" THEN algs' \cap {AlgOf[k]} ELSE algs'
\* http-jwt takes a string for HS* only.
JwtKey(k) == CASE Shape(k) = "kms" -> Usable(k) # {} [] Shape(k) = "string" -> algs' = {"HS256"} [] OTHER -> k # 0
\* http-paseto takes elliptic keys only.
PasetoKey(k) == k \in {1, 2}
Importable(k) == IF verifier = "http-paseto" THEN PasetoKey(k) ELSE JwtKey(k)

\* What jose or paseto says of the token and the key k.
Verdict(k, usable) ==
  LET alg == AlgOf[token'.signer]
  IN  IF alg \notin usable THEN "alg"
      ELSE IF AlgOf[k] # alg THEN "key"
      ELSE IF k # token'.signer THEN "signature"
      ELSE IF ~token'.claims THEN "claims" ELSE "verified"

\* Fault: what the first key says is reported.
FirstSays(verdicts) == verdicts[1]
\* A signature miss is outranked by whatever another key says.
Failure(verdicts) ==
  LET said == {i \in DOMAIN verdicts : verdicts[i] # "signature"}
  IN  IF said = {} THEN "signature" ELSE verdicts[CHOOSE i \in said : \A j \in said : i <= j]
\* The keys are tried in order, the first success wins.
TryKeys(verdicts) ==
  IF \A i \in DOMAIN verdicts : verdicts[i] # "verified" THEN Unauthorized(Failure(verdicts))
  ELSE IF ~token'.expected THEN Unauthorized("expected")
  ELSE Passes("dpop")

\* internalKey
VerifyWithKeys ==
  /\ pc = "verify" /\ verifier # "issuers" /\ UNCHANGED <<verifier, sender>>
  /\ keys' \in Configurations /\ token' \in SignedTokens
  /\ algs' \in IF verifier = "http-paseto" THEN {{"ES256"}} ELSE SUBSET Algs \ {{}}
  /\ verifier = "http-paseto" => token'.signer \in {1, 2, 5}
  /\ IF keys' = <<>> \/ (\E i \in DOMAIN keys' : ~Importable(keys'[i])) THEN Refuse(500, "none", "keys")
     ELSE TryKeys([i \in DOMAIN keys' |-> Verdict(keys'[i], Usable(keys'[i]))])

\* Fault: the algorithm of the token is taken when the JWK has none.
TokensAlg(declared, k) == IF declared # "none" THEN algs' \cap {declared} ELSE algs' \cap {AlgOf[token'.signer]}
\* The algorithm the JWK declares, or the only one that is allowed.
JwkAlg(declared, k) ==
  IF declared # "none" THEN algs' \cap {declared} ELSE IF Cardinality(algs') = 1 THEN algs' ELSE {}
\* issuers: one key, by the key id; the resolver may have none, or fail.
VerifyWithIssuer ==
  /\ pc = "verify" /\ verifier = "issuers" /\ UNCHANGED <<verifier, sender>>
  /\ algs' \in SUBSET Algs \ {{}} /\ token' \in SignedTokens
  /\ \/ keys' = <<>> /\ (Unauthorized("issuer") \/ Unauthorized("kid"))
     \/ keys' = <<>> /\ \E s \in {502, 504} : Refuse(s, "none", "fetch")
     \/ \E k \in 1..3 : \E declared \in {"none", AlgOf[k]} :
          /\ keys' = <<k>>
          /\ IF JwkAlg(declared, k) = {} THEN Unauthorized("alg")
             ELSE IF JwkAlg(declared, k) # {AlgOf[k]} THEN Unauthorized("import")
             ELSE TryKeys(<<Verdict(k, JwkAlg(declared, k))>>)

----------------------------------------------------------------------------
(* http-dpop                                                               *)

ProofRefused(reason) == Refuse(401, "DPoP", reason)
\* verifyDpopProof, against the token of the Authorization header.
VerifyDpopProof(s) == s.sound /\ s.request /\ s.ath
\* Fault: a proof by any key will do.
AnyProof(s) == VerifyDpopProof(s)
ProvenBy(s) == VerifyDpopProof(s) /\ s.by = s.confirmed
\* Fault: whichever token the header has.
AnyToken(s) == s.scheme = "DPoP"
Presented(s) == s.scheme = "DPoP" /\ s.same
\* The request URI and the method may be unknown, which is the operator's mistake.
Dpop ==
  /\ pc = "dpop" /\ sender' \in Senders /\ UNCHANGED <<verifier, token>> /\ keys' = <<>> /\ algs' = {}
  /\ LET s == sender'
     IN  IF s.confirmed = 0 THEN IF s.required THEN ProofRefused("bearer") ELSE Passes("handler")
         ELSE IF ~Presented(s) THEN ProofRefused("token")
         ELSE IF s.by = 0 THEN ProofRefused("proof")
         ELSE \/ Refuse(500, "none", "request")
              \/ IF ProvenBy(s) THEN Passes("handler") ELSE ProofRefused("proof")

Next == NoTokenFound \/ VerifyWithKeys \/ VerifyWithIssuer \/ Dpop
Spec == Init /\ [][Next]_vars

----------------------------------------------------------------------------
TypeOK ==
  /\ pc \in {"verify", "dpop", "handler", "refused"} /\ keys \in Configurations /\ algs \subseteq Algs
  /\ token \in SignedTokens \cup {NoToken} /\ sender \in Senders \cup {NoSender}
  /\ answer.status \in {0, 401, 500, 502, 504}

\* A configured key that may be used with its algorithm has signed the token.
SignedByKey == AlgOf[token.signer] \in algs /\ \E i \in DOMAIN keys : keys[i] = token.signer
\* The verifier lets through a token one of its keys has signed, whose claims hold, and with
\* configured keys every such token, in whatever order they are; a token refused although one
\* of the keys has signed it is refused for what that key says of it.
VerifiedByItsKey ==
  /\ pc = "dpop" => SignedByKey /\ token.claims /\ token.expected
  /\ pc = "refused" /\ answer.status = 401 /\ keys # <<>> /\ verifier # "issuers" /\ SignedByKey =>
       /\ ~(token.claims /\ token.expected)
       /\ (\A i \in DOMAIN keys : AlgOf[keys[i]] = AlgOf[token.signer]) =>
            answer.reason = IF token.claims THEN "expected" ELSE "claims"
\* A token bound to a key reaches the handler with a proof by that key of this request and of
\* the token that was verified.
SenderProven ==
  pc = "handler" /\ (sender.required \/ sender.confirmed # 0) =>
    /\ sender.confirmed # 0 /\ sender.by = sender.confirmed
    /\ sender.scheme = "DPoP" /\ sender.same /\ sender.sound /\ sender.request /\ sender.ath
\* Who is refused is told how to do better, or that the fault is not with the token.
Challenged == pc = "refused" => (answer.status = 401 <=> answer.challenge # "none")
TokenProven == VerifiedByItsKey /\ SenderProven /\ Challenged
=============================================================================
