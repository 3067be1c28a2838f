---------------------------- MODULE HttpResponse ----------------------------
(***************************************************************************)
(* One HTTP request through the response middlewares, in the order their    *)
(* documentation registers them, with @middy/http-x402 at any place among   *)
(* them.  runRequest calls the before hooks in that order, the after and    *)
(* onError hooks in the reverse one; a hook that throws ends the chain and  *)
(* drops the response.                                                      *)
(*                                                                         *)
(* A response is its status and what else is true of it.  Whether a header  *)
(* is single- or multi-valued is left out.                                  *)
(*                                                                         *)
(* And the price of http-x402: given as a number or as text, it becomes the *)
(* amount, in the asset's smallest unit, that every challenge of the        *)
(* container asks for and every payment is compared with.  A number is its  *)
(* significant digits and the place of the decimal point (0.d1d2... times   *)
(* 10^point), and is written as JavaScript writes it.  An explicit amount,  *)
(* which is taken as it is, is left out.                                    *)
(***************************************************************************)
EXTENDS Integers, SequencesExt

CONSTANTS
  MaxSignificant, \* digits a double is written with (17)
  PlainUpTo,      \* digits of the largest number written without an exponent (21)
  PlainDownTo,    \* zeros after the point of the smallest one (5)
  MaxDecimals

VARIABLES
  stack,    \* the middlewares, as they were registered
  versions, \* options.versions of http-x402
  phase,    \* "before", "handler", "after", "onError", "answered" or "rejected"
  at,       \* the middleware whose hook is called next
  response, \* request.response
  error,    \* request.error: its status, or NoError
  payment,  \* request.internal.x402, and what became of it
  early     \* history: a before hook has answered
VARIABLES
  price,    \* as it is configured: [number] or [text]
  terms     \* the amount the factory made of it, Refused, or Unmade

vars == <<stack, versions, phase, at, response, error, payment, early>>

Registered == <<"http-security-headers", "http-cors", "http-content-encoding",
                "http-response-serializer", "validator", "http-error-handler">>
Stacks == {InsertAt(Registered, i, "http-x402") : i \in 1..Len(Registered) + 1}
Is(name) == stack[at] = name

NoError == 0
Bare == 0      \* a value with neither status nor headers nor body
NoStatus == 1  \* a response without statusCode
NoReceipt == [says |-> "none", version |-> 0]
\* body; encoded: it is compressed; base64: isBase64Encoded; contentType: who set it;
\* contentEncoding, contentLength: the header is set; policy: the middlewares whose headers it
\* has; content: some of it is the handler's; challenge: the versions it asks a payment in;
\* receipt: what the header for a settlement says, and of which version it is.
Undefined == [status |-> NoStatus, body |-> "none", encoded |-> FALSE, base64 |-> FALSE,
              contentType |-> "none", contentEncoding |-> FALSE, contentLength |-> FALSE,
              policy |-> {}, content |-> FALSE, challenge |-> {}, receipt |-> NoReceipt]
NoPayment == [is |-> "none", version |-> 0]
\* What handlers return; a body that is not plain text comes with the headers it needs.
Content == [Undefined EXCEPT !.content = TRUE]
Typed == [Content EXCEPT !.status = 200, !.contentType = "handler"]
HandlerResponses ==
  {Undefined,
   [Content EXCEPT !.status = Bare, !.body = "object"],
   [Content EXCEPT !.status = 200, !.body = "object"],
   [Content EXCEPT !.status = 404, !.body = "text"],
   [Typed EXCEPT !.body = "text", !.contentLength = TRUE],
   [Typed EXCEPT !.body = "stream"],
   [Typed EXCEPT !.body = "binary", !.base64 = TRUE],
   [Typed EXCEPT !.body = "text", !.encoded = TRUE, !.base64 = TRUE, !.contentEncoding = TRUE]}

Init ==
  /\ stack \in Stacks /\ versions \in SUBSET {1, 2} \ {{}} /\ phase = "before" /\ at = 1
  /\ response = Undefined /\ error = NoError /\ payment = NoPayment /\ early = FALSE

----------------------------------------------------------------------------
(* runRequest                                                              *)

AnswerEarly(r) ==
  /\ response' = r /\ early' = TRUE /\ phase' = "answered"
  /\ UNCHANGED <<stack, versions, at, error, payment>>
Throw(status) ==
  /\ response' = Undefined /\ error' = status
  /\ IF phase = "onError" THEN phase' = "rejected" /\ UNCHANGED at ELSE phase' = "onError" /\ at' = Len(stack)
  /\ UNCHANGED <<stack, versions, payment, early>>
NextBefore ==
  /\ IF at = Len(stack) THEN phase' = "handler" /\ UNCHANGED at ELSE at' = at + 1 /\ UNCHANGED phase
  /\ UNCHANGED <<stack, versions, response, error, early>>
\* The hook of an after or onError chain has left the response r.
NextAfter(r) ==
  /\ response' = r
  /\ IF at = 1 THEN phase' = "answered" /\ UNCHANGED at ELSE at' = at - 1 /\ UNCHANGED phase
  /\ UNCHANGED <<stack, versions, error, early>>

\* The handler, or timeoutEarlyResponse in its place.
Handler ==
  /\ phase = "handler"
  /\ \/ \E r \in HandlerResponses :
          /\ response' = r /\ phase' = "after" /\ at' = Len(stack)
          /\ UNCHANGED <<stack, versions, error, payment, early>>
     \/ \E status \in {400, 500} : Throw(status)

Normalize(r) ==
  [r EXCEPT !.status = CASE r.status = Bare -> 200 [] r.status = NoStatus -> 500 [] OTHER -> r.status]

----------------------------------------------------------------------------
(* before                                                                  *)

NoBefore ==
  /\ phase = "before" /\ NextBefore /\ UNCHANGED payment
  /\ stack[at] \in {"http-security-headers", "http-content-encoding",
                   "http-response-serializer", "http-error-handler"}
\* A preflight request is answered, accepted or not.
CorsBefore ==
  /\ phase = "before" /\ Is("http-cors")
  /\ (NextBefore /\ UNCHANGED payment) \/ AnswerEarly([Undefined EXCEPT !.status = 204, !.policy = {"http-cors"}])
\* The event or the context is refused.
ValidatorBefore ==
  /\ phase = "before" /\ Is("validator")
  /\ (NextBefore /\ UNCHANGED payment) \/ \E status \in {400, 500} : Throw(status)

\* 402, as JSON, in PAYMENT-REQUIRED (2) or in the body (1).
PaymentRequired(asked) ==
  [Undefined EXCEPT !.status = 402, !.body = "text", !.contentType = "json", !.challenge = asked]
Verified(version) == payment' = [is |-> "verified", version |-> version] /\ NextBefore
\* The facilitator does not verify the payment, or it does not get that far.
V2Before == Verified(2) \/ AnswerEarly(PaymentRequired({2}))
V1Before == Verified(1) \/ AnswerEarly(PaymentRequired({1}))
\* Fault: a header of any version is taken.
AnyVersion(headers) == headers
Offered(headers) == headers \cap versions
\* What human() says of the request decides, and must not be a promise.  headers: the versions
\* the client sends a payment header of.
X402Before ==
  /\ phase = "before" /\ Is("http-x402")
  /\ \/ payment' = [is |-> "human", version |-> 0] /\ NextBefore
     \/ Throw(500)
     \/ \E headers \in SUBSET {1, 2} :
          CASE 2 \in Offered(headers)  -> V2Before
            [] Offered(headers) = {1}  -> V1Before
            [] OTHER                   -> AnswerEarly(PaymentRequired(versions))

----------------------------------------------------------------------------
(* after and onError                                                       *)

Receipt(says) == [says |-> says, version |-> payment.version]
\* Fault: the 402 is written over the response.
Patched(r) == [r EXCEPT !.status = 402, !.body = "text", !.contentType = "json", !.receipt = Receipt("failure")]
\* Only policy headers are kept.
SettlementRefused(r) == [PaymentRequired({}) EXCEPT !.policy = r.policy, !.receipt = Receipt("failure")]
\* Fault: whatever the handler answers is paid for.
AnyResponse(r) == payment.is = "verified"
Settles(r) == payment.is = "verified" /\ r.status < 400
X402After ==
  /\ phase = "after" /\ Is("http-x402")
  /\ LET r == IF payment.is = "verified" THEN Normalize(response) ELSE response
     IN  IF Settles(r)
         THEN \/ NextAfter([r EXCEPT !.receipt = Receipt("success")]) /\ payment' = [payment EXCEPT !.is = "settled"]
              \/ NextAfter(SettlementRefused(r)) /\ payment' = [payment EXCEPT !.is = "refused"]
         ELSE NextAfter(r) /\ UNCHANGED payment

\* These hooks run in either chain, but for an error nobody has shaped a response for.
Shapes(name) == Is(name) /\ (phase = "after" \/ (phase = "onError" /\ response # Undefined))

WithPolicy(name) == NextAfter([Normalize(response) EXCEPT !.policy = @ \cup {name}]) /\ UNCHANGED payment
SecurityHeaders == Shapes("http-security-headers") /\ WithPolicy("http-security-headers")
Cors == Shapes("http-cors") /\ WithPolicy("http-cors")

Encodable(r) == r.body \in {"text", "stream"} /\ ~r.base64 /\ ~r.contentEncoding
\* Fault: Content-Length is kept.
StillMeasured(r) == [r EXCEPT !.contentEncoding = TRUE]
MarkEncoded(r) == [r EXCEPT !.contentEncoding = TRUE, !.contentLength = FALSE]
\* A client may prefer no encoding, and compressed text may not be smaller.
ContentEncoding ==
  /\ Shapes("http-content-encoding") /\ UNCHANGED payment
  /\ LET r == Normalize(response)
     IN  \/ NextAfter(r)
         \/ /\ Encodable(r)
            /\ NextAfter([MarkEncoded(r) EXCEPT !.encoded = TRUE, !.base64 = (r.body = "text")])

\* Fault: Content-Type does not matter.
Always(r) == TRUE
Serializable(r) == r.contentType = "none"
Serialized(r) == [r EXCEPT !.contentType = "json", !.body = IF @ = "none" THEN @ ELSE "text"]
\* No serializer may match; the one that does may throw.
ResponseSerializer ==
  /\ Shapes("http-response-serializer") /\ UNCHANGED payment
  /\ LET r == Normalize(response)
     IN  NextAfter(r) \/ (Serializable(r) /\ (NextAfter(Serialized(r)) \/ Throw(500)))

\* The error is exposed or replaced; an exposed one may have no message.
ErrorHandler ==
  /\ phase = "onError" /\ Is("http-error-handler") /\ UNCHANGED payment
  /\ IF response # Undefined THEN NextAfter(response)
     ELSE \E r \in {[Undefined EXCEPT !.body = "text", !.contentType = "text"], Undefined} :
            NextAfter([r EXCEPT !.status = error])

\* The validator refuses a response.
Validator == phase = "after" /\ Is("validator") /\ (NextAfter(response) \/ Throw(500)) /\ UNCHANGED payment

\* No such hook, or nothing to do for it.
Skip ==
  /\ \/ phase = "after" /\ Is("http-error-handler")
     \/ phase = "onError" /\ (Is("validator") \/ Is("http-x402"))
     \/ phase = "onError" /\ response = Undefined /\ ~Is("http-error-handler")
  /\ NextAfter(response) /\ UNCHANGED payment

Next ==
  \/ NoBefore \/ CorsBefore \/ ValidatorBefore \/ X402Before \/ Handler
  \/ X402After \/ SecurityHeaders \/ Cors \/ ContentEncoding \/ ResponseSerializer \/ ErrorHandler
  \/ Validator \/ Skip
Spec == Init /\ [][Next]_vars

----------------------------------------------------------------------------
TypeOK ==
  /\ stack \in Stacks /\ phase \in {"before", "handler", "after", "onError", "answered", "rejected"}
  /\ versions \in SUBSET {1, 2} /\ at \in 1..Len(stack) /\ error \in {NoError, 400, 500} /\ early \in BOOLEAN
  /\ payment \in [is : {"none", "human", "verified", "settled", "refused"}, version : 0..2]
  /\ response.status \in {Bare, NoStatus, 200, 204, 400, 402, 404, 500}
  /\ response.challenge \subseteq {1, 2} /\ response.receipt.version \in 0..2

\* What the handler made is answered only to a human, for a settled payment or as an error,
\* and nothing of it when the settlement is refused.
PaidFor ==
  phase = "answered" /\ response.content =>
    payment.is # "refused" /\ (response.status >= 400 \/ payment.is \in {"human", "settled"})
\* Only enabled versions are asked for and taken.  Unless a later hook throws, the client hears
\* of a settlement, in its version, and it pays for no error.
ReceiptIsTrue ==
  /\ response.challenge \subseteq versions
  /\ payment.is \in {"verified", "settled", "refused"} => payment.version \in versions
  /\ phase = "answered" /\ error = NoError =>
       /\ payment.is = "settled" <=> response.receipt = Receipt("success")
       /\ payment.is = "refused" <=> response.receipt = Receipt("failure")
       /\ payment.is = "settled" => response.status < 400
\* The headers are true of the body.
Described ==
  phase = "answered" =>
    /\ response.contentEncoding = response.encoded
    /\ response.contentLength => ~response.encoded
    /\ response.base64 => response.encoded \/ response.body = "binary"
    /\ response.contentType = "json" => response.body \in {"text", "none"}
\* Every answer that is not early has the policy headers, an error or a refusal included.
PolicyKept == phase = "answered" /\ ~early => {"http-security-headers", "http-cors"} \subseteq response.policy
AnswerIsTrue == PaidFor /\ ReceiptIsTrue /\ Described /\ PolicyKept

----------------------------------------------------------------------------
(* The price of http-x402                                                  *)

Zeros(n) == [i \in 1..n |-> 0]
ValueOf(digits) == FoldLeft(LAMBDA v, d : 10 * v + d, 0, digits)
Digits(n) == [1..n -> {0, 1, 5}]
Text(whole, fraction) == [whole |-> whole, fraction |-> fraction]

Numbers ==
  {n \in [digits : UNION {Digits(k) : k \in 1..MaxSignificant},
          point : (-PlainDownTo - 2)..(PlainUpTo + 2)] :
     n.digits[1] # 0 /\ Last(n.digits) # 0}
Texts ==
  {Text(w, f) : w \in UNION {Digits(k) : k \in 0..1}, f \in UNION {Digits(k) : k \in 0..(MaxDecimals + 1)}}
Nothing == [is |-> "text", text |-> Text(<<>>, <<>>)]
Prices ==
  [is : {"number"}, number : Numbers] \cup [is : {"text"}, text : Texts]
\* Whether a protocol version is enabled, and no payment flow but the default one asked for.
Configurations == [price : Prices, decimals : 0..MaxDecimals, serves : BOOLEAN]

----------------------------------------------------------------------------
\* String(n): with an exponent when the number is large or small (external).
Exponential(n) == n.point > PlainUpTo \/ n.point < -PlainDownTo
Written(n) ==
  LET k == Len(n.digits)
  IN  IF Exponential(n) THEN [whole |-> <<n.digits[1]>>, fraction |-> Tail(n.digits), exponent |-> n.point - 1]
      ELSE CASE n.point >= k -> [whole |-> n.digits \o Zeros(n.point - k), fraction |-> <<>>, exponent |-> 0]
             [] n.point \in 1..(k - 1) -> [whole |-> SubSeq(n.digits, 1, n.point),
                                           fraction |-> SubSeq(n.digits, n.point + 1, k), exponent |-> 0]
             [] OTHER -> [whole |-> <<0>>, fraction |-> Zeros(-n.point) \o n.digits, exponent |-> 0]

\* Fault: the exponent counts the zeros.
ExponentZeros(w) ==
  LET digits == w.whole \o w.fraction
  IN  IF w.exponent < 0 THEN Text(<<0>>, Zeros(-w.exponent) \o digits)
      ELSE Text(digits \o Zeros(w.exponent), <<>>)
Expanded(w) ==
  LET digits == w.whole \o w.fraction
      point == Len(w.whole) + w.exponent
  IN  IF point <= 0 THEN Text(<<0>>, Zeros(-point) \o digits)
      ELSE Text(digits \o Zeros(point - Len(digits)), <<>>)
ExpandExponential(n) ==
  LET w == Written(n)
  IN  IF Exponential(n) THEN Expanded(w) ELSE Text(w.whole, w.fraction)

\* Fault: the digits are put together as they are.
Unpadded(fraction, decimals) == fraction
PadEnd(fraction, decimals) == fraction \o Zeros(decimals - Len(fraction))
Unmade == -2
Refused == -1
PriceText(p) == IF p.is = "number" THEN ExpandExponential(p.number) ELSE p.text
ToAtomicAmount(p, decimals) ==
  LET text == PriceText(p)
  IN  IF (text.whole = <<>> /\ text.fraction = <<>>) \/ Len(text.fraction) > decimals THEN Refused
      ELSE ValueOf(text.whole \o PadEnd(text.fraction, decimals))

TermsInit == price \in Configurations /\ terms = Unmade
\* The factory.
HttpX402Middleware ==
  /\ terms = Unmade
  /\ terms' = IF ~price.serves THEN Refused ELSE ToAtomicAmount(price.price, price.decimals)
  /\ UNCHANGED price
TermsNext == HttpX402Middleware

TermsTypeOK == price \in Configurations /\ terms \in Int

\* Digits after the last one that counts, up to the asset's decimals.
Scale == IF price.price.is = "number"
         THEN price.decimals + price.price.number.point - Len(price.price.number.digits)
         ELSE price.decimals - Len(price.price.text.fraction)
Significand == IF price.price.is = "number" THEN ValueOf(price.price.number.digits)
               ELSE ValueOf(price.price.text.whole \o price.price.text.fraction)
\* The amount is the price to the last digit, however small or large the number; a price
\* with more fractional digits than the asset has decimals is refused, never rounded.
AmountExact ==
  terms # Unmade /\ price.serves /\ price.price # Nothing =>
    IF Scale >= 0 THEN terms = Significand * 10^Scale ELSE terms = Refused
=============================================================================
