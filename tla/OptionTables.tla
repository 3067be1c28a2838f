----------------------------- MODULE OptionTables -----------------------------
(***************************************************************************)
(* The options of the middlewares, routers and runners of middy: what their*)
(* rules mean, and what they are.                                          *)
(***************************************************************************)
EXTENDS Integers, SequencesExt, FiniteSets

----------------------------------------------------------------------------
(***************************************************************************)
(* validateOptions of @middy/util: values of options, the rules of schemas, *)
(* and when a value fits a rule.                                            *)
(*                                                                         *)
(* A rule is a record with the keywords the code looks for.  Schemas in the *)
(* older flat form, type specs with "?" and predicates, which no package of *)
(* middy uses, are left out, and with them what a malformed schema throws.  *)
(* A string is known by what rules tell apart, a number by its place among  *)
(* the bounds that schemas name.                                            *)
(***************************************************************************)

\* 24 h in ms and, in their order, two bounds too large for TLC: 2001-01-01 and MAX_SAFE_INTEGER.
Day == 86400000
MinTimestamp == 1000000000
MaxSafe == 2000000000

----------------------------------------------------------------------------
(* Values                                                                  *)

NoFields == [k \in {} |-> 0]
Value(is, n) == [is |-> is, n |-> n, items |-> <<>>, fields |-> NoFields]
Undefined == Value("undefined", 0)
Null == Value("null", 0)
\* 0: the empty string; 1: one that fits every enum and pattern it meets; 2: another; 3: one
\* longer than every maxLength
Text(n) == Value("string", n)
Num(n) == Value("integer", n)
Half(n) == Value("fraction", n)   \* n + 1/2, or Infinity for n = MaxSafe
NaN == Value("NaN", 0)
No == Value("boolean", 0)
Yes == Value("boolean", 1)
Function(n) == Value("function", n)
RegExp == Value("RegExp", 0)
Arr(items) == [Value("array", 0) EXCEPT !.items = items]
Obj(fields) == [Value("object", 0) EXCEPT !.fields = fields]

----------------------------------------------------------------------------
(* Rules                                                                   *)

Typed(type) == [type |-> type]
Str == Typed("string")
Bool == Typed("boolean")
Anything == [allowed |-> TRUE]   \* additionalProperties: true
Nothing == [allowed |-> FALSE]
Fn == [instanceof |-> "function"]
Pattern == [instanceof |-> "RegExp"]
OneOf(rules) == [oneOf |-> rules]
Listed == [type |-> "string", enum |-> {Text(1)}]
Matching == [type |-> "string", pattern |-> TRUE]
AtLeast(least) == [type |-> "integer", minimum |-> least]
Between(least, most) == [type |-> "integer", minimum |-> least, maximum |-> most]
SafeNumber(least) == [type |-> "number", minimum |-> least, maximum |-> MaxSafe]
SafeInteger(least) == Between(least, MaxSafe)
ArrayOf(rule) == [type |-> "array", items |-> rule]
SetOf(rule) == [type |-> "array", items |-> rule, uniqueItems |-> TRUE]
Object == Typed("object")
MapOf(rule) == [type |-> "object", additionalProperties |-> rule]
Shape(properties, required, additional) ==
  [type |-> "object", properties |-> properties, required |-> required, additionalProperties |-> additional]
Closed(properties) == Shape(properties, {}, Nothing)

\* validateOptionsTypeCheckers
Is(type, v) ==
  CASE type = "number" -> v.is \in {"integer", "fraction"}
    [] type = "object" -> v.is \in {"object", "RegExp"}
    [] OTHER           -> v.is = type

InBounds(rule, v) ==
  /\ "minimum" \in DOMAIN rule => v.n >= rule.minimum
  /\ "maximum" \in DOMAIN rule => v.n < rule.maximum \/ (v.is = "integer" /\ v.n = rule.maximum)
  /\ "exclusiveMinimum" \in DOMAIN rule =>
       v.n > rule.exclusiveMinimum \/ (v.is = "fraction" /\ v.n = rule.exclusiveMinimum)
  /\ "pattern" \in DOMAIN rule => v.n = 1
  /\ "minLength" \in DOMAIN rule => v.n # 0
  /\ "maxLength" \in DOMAIN rule => v.n # 3

\* Fault: the first alternative that fits will do.
AtLeastOne(verdicts) == \E i \in DOMAIN verdicts : verdicts[i]
ExactlyOne(verdicts) == Cardinality({i \in DOMAIN verdicts : verdicts[i]}) = 1

\* Fault: items are compared as they are.
AsTheyAre(v) == v
\* stableStringify: the order of keys does not count, and functions are skipped.
StableForm(v) ==
  LET kept == {k \in DOMAIN v.fields : v.fields[k].is # "function"}
  IN  IF v.is = "object" THEN Obj([k \in kept |-> v.fields[k]]) ELSE v
UniqueItems(v) == \A i, j \in DOMAIN v.items : i # j => StableForm(v.items[i]) # StableForm(v.items[j])

\* Fault: an unknown key is passed over.
Tolerated(rule, keys) == TRUE
\* An object schema without properties and additionalProperties takes any key.
KnownKeys(rule, keys) ==
  \/ keys = {} \/ {"properties", "additionalProperties"} \cap DOMAIN rule = {}
  \/ "additionalProperties" \in DOMAIN rule /\ rule.additionalProperties # Nothing

\* checkRule, with Within for the rules that a rule holds.  Only a rule with a type asks for a value
\* that is not undefined; an object skips the undefined values of its properties, whose presence
\* is up to "required".
ObjectFits(rule, v, Within(_, _)) ==
  LET properties == IF "properties" \in DOMAIN rule THEN rule.properties ELSE NoFields
      others == DOMAIN v.fields \ DOMAIN properties
  IN  /\ "required" \in DOMAIN rule => \A k \in rule.required : k \in DOMAIN v.fields /\ v.fields[k] # Undefined
      /\ KnownKeys(rule, others)
      /\ \A k \in others :
           "additionalProperties" \in DOMAIN rule =>
             rule.additionalProperties \in {Anything, Nothing} \/ Within(rule.additionalProperties, v.fields[k])
      /\ \A k \in DOMAIN v.fields \ others : v.fields[k] = Undefined \/ Within(properties[k], v.fields[k])
CheckRule(rule, v, Within(_, _)) ==
  IF v = Undefined THEN "type" \notin DOMAIN rule
  ELSE
  CASE "const" \in DOMAIN rule      -> v = rule.const
    [] "allOf" \in DOMAIN rule      -> \A i \in DOMAIN rule.allOf : Within(rule.allOf[i], v)
    [] "oneOf" \in DOMAIN rule      -> ExactlyOne([i \in DOMAIN rule.oneOf |-> Within(rule.oneOf[i], v)])
    [] "instanceof" \in DOMAIN rule -> v.is = rule.instanceof
    [] "enum" \in DOMAIN rule       -> ("type" \in DOMAIN rule => Is(rule.type, v)) /\ v \in rule.enum
    [] OTHER ->
         /\ Is(rule.type, v) /\ InBounds(rule, v)
         /\ rule.type = "array" /\ "items" \in DOMAIN rule => \A i \in DOMAIN v.items : Within(rule.items, v.items[i])
         /\ rule.type = "array" /\ "uniqueItems" \in DOMAIN rule => UniqueItems(v)
         /\ rule.type = "object" => ObjectFits(rule, v, Within)
\* No schema of middy has rules on more levels than these.
TooDeep(rule) == Assert(FALSE, "a rule within more rules than there are levels")
Fits1(rule, v) == CheckRule(rule, v, LAMBDA r, w : TooDeep(r))
Fits2(rule, v) == CheckRule(rule, v, Fits1)
Fits3(rule, v) == CheckRule(rule, v, Fits2)
Fits4(rule, v) == CheckRule(rule, v, Fits3)
Fits5(rule, v) == CheckRule(rule, v, Fits4)
Fits(rule, v) == CheckRule(rule, v, Fits5)
ValidateOptions(schema, options) == options.is = "object" /\ Fits(schema, options)

----------------------------------------------------------------------------
(***************************************************************************)
(* The options of the middlewares, routers and runners of middy: the rules  *)
(* of each optionSchema, and the defaults they are spread over.             *)
(*                                                                         *)
(* Names of strings, functions and classes do not matter: a default string  *)
(* is Text(1), a default function or class Function(0).  "minItems" and     *)
(* "maxProperties", which two of the schemas name, are no keywords the      *)
(* validation knows, and have no effect.                                    *)
(***************************************************************************)

Empty == Obj(NoFields)
Text1 == Text(1)
Fn0 == Function(0)
Middleware(properties, required, defaults) ==
  [schema |-> Shape(properties, required, Nothing), defaults |-> defaults]
Unset(names) == [k \in names |-> Undefined]

----------------------------------------------------------------------------
(* Middlewares that fetch                                                  *)

\* What every one of them copies.
CacheRules ==
  [disablePrefetch |-> Bool, cacheKey |-> Str, cacheKeyExpiry |-> MapOf(SafeNumber(-1)),
   cacheExpiry |-> SafeNumber(-1), cacheMaxSize |-> SafeInteger(1)]
CacheDefaults == [disablePrefetch |-> No, cacheKey |-> Text1, cacheKeyExpiry |-> Empty, cacheExpiry |-> Num(-1)]
SignerClientRules == [AwsClient |-> Fn, awsClientOptions |-> Object]
SignerClientDefaults == [AwsClient |-> Fn0, awsClientOptions |-> Empty]
ClientRules == SignerClientRules @@ [awsClientAssumeRole |-> Str, awsClientCapture |-> Fn]
ClientDefaults == SignerClientDefaults @@ Unset({"awsClientAssumeRole", "awsClientCapture"})
FetchRules(each) == CacheRules @@ [fetchData |-> MapOf(each), setToContext |-> Bool, contextKey |-> Str]
FetchDefaults == CacheDefaults @@ [fetchData |-> Empty, setToContext |-> No, contextKey |-> Text1]
Fetching(each) == Middleware(FetchRules(each) @@ ClientRules, {}, FetchDefaults @@ ClientDefaults)
Request(required, optional) == Shape([k \in required |-> Str] @@ optional, required, Anything)

AppConfigExtension ==
  LET flag == OneOf(<<Str, ArrayOf(Str)>>)
      each == [application |-> Str, environment |-> Str, configuration |-> Str, flag |-> flag]
  IN  Middleware(FetchRules(Shape(each, DOMAIN each \ {"flag"}, Nothing)), {}, FetchDefaults)
AppConfig ==
  Fetching(Request({"ApplicationIdentifier", "ConfigurationProfileIdentifier", "EnvironmentIdentifier"},
                   [RequiredMinimumPollIntervalInSeconds |-> SafeNumber(15)]))
DynamoDB ==
  Fetching(Shape([TableName |-> Str, Key |-> MapOf(Anything), AttributesToGet |-> ArrayOf(Str),
                  ConsistentRead |-> Bool, ReturnConsumedCapacity |-> Listed, ProjectionExpression |-> Str,
                  ExpressionAttributeNames |-> MapOf(Str)],
                 {"TableName", "Key"}, Anything))
S3 ==
  LET Strings == {"IfMatch", "IfNoneMatch", "Range", "ResponseContentType", "VersionId"}
  IN  Fetching(Request({"Bucket", "Key"},
                       [k \in Strings |-> Str]
                         @@ [RequestPayer |-> Listed, PartNumber |-> Between(1, 10000), ChecksumMode |-> Listed]))
Ssm ==
  Middleware(FetchRules(Str) @@ ClientRules @@ [awsRequestLimit |-> Between(1, 10)], {},
             FetchDefaults @@ ClientDefaults @@ [awsRequestLimit |-> Num(10)])
SecretsManager ==
  Middleware(FetchRules(Str) @@ ClientRules @@ [fetchRotationDate |-> OneOf(<<Bool, MapOf(Bool)>>)], {},
             FetchDefaults @@ ClientDefaults @@ [fetchRotationDate |-> No])
Kms == Fetching(Str)
Sts ==
  LET Strings == {"RoleSessionName", "ExternalId", "Policy", "SerialNumber", "TokenCode"}
      each == Request({"RoleArn"}, [k \in Strings |-> Str]
                                     @@ [DurationSeconds |-> Between(900, 43200), TransitiveTagKeys |-> ArrayOf(Str)])
  IN  Middleware(FetchRules(each) @@ ClientRules, {},
                 FetchDefaults @@ SignerClientDefaults @@ Unset({"awsClientCapture"}))
ServiceDiscovery ==
  Fetching(Request({"NamespaceName", "ServiceName"},
                   [MaxResults |-> AtLeast(1), QueryParameters |-> MapOf(Str), OptionalParameters |-> MapOf(Str),
                    HealthStatus |-> Listed]))
Signing(each) ==
  Middleware(FetchRules(Shape(each, {}, Anything)) @@ SignerClientRules, {}, FetchDefaults @@ SignerClientDefaults)
RdsSigner == Signing([hostname |-> Str, port |-> Between(1, 65535), username |-> Str])
DsqlSigner == Signing([hostname |-> Matching, username |-> Str])
SsmExtension == Middleware(FetchRules(Str) @@ [awsSessionToken |-> Fn], {}, FetchDefaults)
SecretsManagerExtension == Middleware(FetchRules(Str) @@ [awsSessionToken |-> Fn], {}, FetchDefaults)
\* By the id of a version, or by the id of a schema and perhaps the number of a version.
GlueSchemaRegistry ==
  LET id == Shape([SchemaName |-> Str, RegistryName |-> Str, SchemaArn |-> Str], {}, Anything)
      number == Shape([VersionNumber |-> AtLeast(1), LatestVersion |-> Bool], {}, Anything)
  IN  Fetching(OneOf(<<Request({"SchemaVersionId"}, NoFields),
                       Shape([SchemaId |-> id, SchemaVersionNumber |-> number], {"SchemaId"}, Anything)>>))
Connecting(host) ==
  LET config == [host |-> host, username |-> Str, database |-> Str, port |-> Between(1, 65535)]
  IN  CacheRules @@ [client |-> Fn, config |-> Shape(config, {"host"}, Anything), contextKey |-> Str,
                     internalKey |-> Str]
Connection(host) == Shape(Connecting(host), {"client", "config"}, Nothing)
RdsSchema == Connection(Str)
RdsDefaults == CacheDefaults @@ [contextKey |-> Text1] @@ Unset({"client", "config", "internalKey"})
DsqlSchema == Connection(Matching)
DsqlDefaults == CacheDefaults @@ [contextKey |-> Text1] @@ Unset({"client", "config", "internalKey"})
S3ObjectResponse ==
  Middleware(ClientRules @@ [disablePrefetch |-> Bool, contextKey |-> Str, allowedHosts |-> ArrayOf(Str)], {},
             ClientDefaults @@ [disablePrefetch |-> No, contextKey |-> Text1,
                                allowedHosts |-> Arr([i \in 1 .. 6 |-> Text1])])
WsResponseSchema == Closed(ClientRules @@ [disablePrefetch |-> Bool])
WsResponseDefaults == ClientDefaults @@ [disablePrefetch |-> No]

----------------------------------------------------------------------------
(* Tokens and payments                                                     *)

Strings == OneOf(<<Str, ArrayOf(Str)>>)
NullableStrings == OneOf(<<Str, ArrayOf(Str), [const |-> Null]>>)
Scalar == OneOf(<<Str, Typed("number"), Bool>>)
TokenKeys == {"internalKey", "tokenCookieName", "tokenHeaderName", "tokenQueryStringName", "tokenKey"}
TokenRules ==
  [k \in TokenKeys \cup {"payloadKey"} |-> Str]
    @@ [clockTolerance |-> SafeNumber(0), expectedClaims |-> MapOf(Scalar), setToContext |-> Bool]
TokenDefaults ==
  [payloadKey |-> Text1, setToContext |-> No]
    @@ Unset(TokenKeys \cup {"audience", "issuer", "expectedClaims", "maxTokenAge"})
HttpJwtDefaults ==
  TokenDefaults @@ Unset({"issuers", "algorithm", "cacheExpiry", "cooldownDuration"})
    @@ [typ |-> Text1, clockTolerance |-> Num(0), requireExp |-> Yes, jwksTimeoutMs |-> Num(5000),
        disablePrefetch |-> No]
HttpJwtSchema ==
  LET typ == OneOf(<<Str, [const |-> Null]>>)
      issuer == [jwksUri |-> Str, audience |-> NullableStrings, algorithm |-> Strings, typ |-> typ]
  IN  Closed(TokenRules @@
             [issuers |-> MapOf(Shape(issuer, {"jwksUri"}, Nothing)), algorithm |-> Strings,
              audience |-> NullableStrings, issuer |-> Strings, typ |-> typ, requireExp |-> Bool,
              maxTokenAge |-> OneOf(<<Str, Typed("number")>>),
              cacheExpiry |-> SafeNumber(0), cooldownDuration |-> SafeNumber(0), jwksTimeoutMs |-> SafeInteger(1),
              disablePrefetch |-> Bool])
HttpPaseto ==
  Middleware(TokenRules @@ [audience |-> Str, issuer |-> Str, maxTokenAge |-> SafeNumber(0)], {},
             TokenDefaults @@ Unset({"clockTolerance"}))
HttpDpop ==
  Middleware([k \in {"payloadKey", "tokenKey", "proofKey", "confirmationClaim", "origin"} |-> Str]
               @@ [algorithm |-> Strings, maxAge |-> SafeNumber(0), maxProofLength |-> SafeNumber(1),
                   required |-> Bool, setToContext |-> Bool], {},
             [k \in {"payloadKey", "proofKey", "confirmationClaim"} |-> Text1]
               @@ [maxAge |-> Num(60), maxProofLength |-> Num(8192), required |-> No, setToContext |-> No]
               @@ Unset({"tokenKey", "origin", "algorithm"}))
HttpX402 ==
  Middleware([k \in {"facilitatorUrl", "amount", "network", "payTo", "asset", "description", "mimeType"} |-> Str]
               @@ [FacilitatorClient |-> Fn, versions |-> ArrayOf([enum |-> {Num(1), Num(2)}]),
                   price |-> OneOf(<<[type |-> "number", exclusiveMinimum |-> 0, maximum |-> MaxSafe], Str>>),
                   decimals |-> Typed("integer"), extra |-> Object, human |-> Fn],
             {"payTo", "asset"},
             [k \in {"facilitatorUrl", "network", "mimeType"} |-> Text1]
               @@ [FacilitatorClient |-> Fn0, versions |-> Arr(<<Num(2)>>), decimals |-> Num(6),
                   description |-> Text(0)]
               @@ Unset({"price", "amount", "payTo", "asset", "extra", "human"}))

----------------------------------------------------------------------------
(* HTTP                                                                    *)

Flags(names) == [k \in names |-> Bool]
AllNo(names) == [k \in names |-> No]
HttpContentEncoding ==
  LET encodings == {"br", "deflate", "gzip", "zstd"}
      context == {"contextKeyHttpContentNegotiation"}
  IN  Middleware([k \in encodings |-> OneOf(<<Bool, Object>>)] @@ [k \in context |-> Str]
                   @@ [overridePreferredEncoding |-> ArrayOf(Listed)], {},
                 Unset(encodings \cup {"overridePreferredEncoding"}) @@ [k \in context |-> Text1])
HttpContentNegotiation ==
  LET parse == {"parseCharsets", "parseEncodings", "parseLanguages", "parseMediaTypes"}
      first == {"defaultToFirstCharset", "defaultToFirstEncoding", "defaultToFirstLanguage",
                "defaultToFirstMediaType"}
      available == {"availableCharsets", "availableLanguages", "availableMediaTypes"}
  IN  Middleware(Flags(parse \cup first \cup {"failOnMismatch"}) @@ [k \in available |-> ArrayOf(Str)]
                   @@ [availableEncodings |-> ArrayOf(Listed), contextKey |-> Str], {},
                 [k \in parse \cup {"failOnMismatch"} |-> Yes] @@ AllNo(first)
                   @@ Unset(available \cup {"availableEncodings"}) @@ [contextKey |-> Text1])
HttpCorsSchema ==
  Closed([k \in {"headers", "origin", "exposeHeaders", "cacheControl", "vary"} |-> Str]
           @@ [disableBeforePreflightResponse |-> Bool, getOrigin |-> Fn, credentials |-> OneOf(<<Bool, Str>>),
               methods |-> Matching, origins |-> ArrayOf(Str), maxAge |-> OneOf(<<AtLeast(0), Str>>),
               requestHeaders |-> ArrayOf(Str), requestMethods |-> ArrayOf(Listed)])
HttpCorsDefaults ==
  [disableBeforePreflightResponse |-> Yes, origins |-> Arr(<<>>)]
    @@ Unset({"getOrigin", "credentials", "headers", "methods", "origin", "exposeHeaders", "maxAge", "requestHeaders",
              "requestMethods", "cacheControl", "vary"})
HttpEventNormalizer == Middleware(NoFields, {}, NoFields)
HttpUrlencodePathParser == Middleware(NoFields, {}, NoFields)
HttpHeaderNormalizerSchema ==
  Closed([canonical |-> Bool, defaultHeaders |-> MapOf(OneOf(<<Str, ArrayOf(Str)>>)), normalizeHeaderKey |-> Fn])
HttpHeaderNormalizerDefaults == [canonical |-> No, defaultHeaders |-> Empty, normalizeHeaderKey |-> Fn0]
ContentTypeFlags == {"disableContentTypeCheck", "disableContentTypeError"}
HttpJsonBodyParser == Middleware(Flags(ContentTypeFlags) @@ [reviver |-> Fn], {}, NoFields)
HttpUrlencodeBodyParser == Middleware(Flags(ContentTypeFlags) @@ [maxKeys |-> SafeInteger(1)], {}, NoFields)
HttpMultipartBodyParser ==
  LET limits == {"fieldNameSize", "fieldSize", "fields", "fileSize", "files", "parts", "headerPairs"}
      busboy == [headers |-> MapOf(Anything), highWaterMark |-> AtLeast(1), fileHwm |-> AtLeast(1),
                 defCharset |-> Str, defParamCharset |-> Str, preservePath |-> Bool, isPartAFile |-> Fn,
                 limits |-> Shape([k \in limits |-> AtLeast(0)], {}, Anything)]
  IN  Middleware(Flags(ContentTypeFlags) @@ [busboy |-> Shape(busboy, {}, Anything), charset |-> Str], {},
                 AllNo(ContentTypeFlags) @@ [busboy |-> Empty, charset |-> Text1])
HttpPartialResponse == Middleware([filteringKeyName |-> Str], {}, [filteringKeyName |-> Text1])
HttpResponseSerializerSchema ==
  LET serializer == Shape([regex |-> Pattern, serializer |-> Fn], {"regex", "serializer"}, Nothing)
  IN  Closed([serializers |-> ArrayOf(serializer), defaultContentType |-> Str,
              contextKeyHttpContentNegotiation |-> Str])
HttpResponseSerializerDefaults ==
  [serializers |-> Arr(<<>>), defaultContentType |-> Undefined, contextKeyHttpContentNegotiation |-> Text1]
HttpErrorHandler ==
  Middleware([logger |-> OneOf(<<Fn, [const |-> No]>>), fallbackMessage |-> Str, omitPaths |-> ArrayOf(Str),
              mask |-> Str], {},
             [logger |-> Fn0] @@ Unset({"fallbackMessage", "omitPaths", "mask"}))

\* A policy of http-security-headers is switched by a boolean or configured by an object.
HttpSecurityHeadersSchema ==
  LET Switched(rule) == OneOf(<<Bool, rule>>)
      policy == Closed([policy |-> Str])
      listed == Closed([policy |-> Listed])
      action == Closed([action |-> Str])
      transport == [maxAge |-> SafeNumber(0), includeSubDomains |-> Bool, preload |-> Bool]
      open == {"contentSecurityPolicy", "permissionsPolicy", "reportingEndpoints", "reportTo"}
      policies == {"crossOriginEmbedderPolicy", "crossOriginOpenerPolicy", "crossOriginResourcePolicy"}
      actions == {"contentTypeOptions", "downloadOptions", "frameOptions"}
  IN  Closed([k \in open |-> Switched(Object)]
               @@ [k \in policies |-> Switched(policy)]
               @@ [k \in {"permittedCrossDomainPolicies", "referrerPolicy"} |-> Switched(listed)]
               @@ [k \in actions |-> Switched(action)]
               @@ [k \in {"originAgentCluster", "xssProtection"} |-> Switched(MapOf(Nothing))]
               @@ [dnsPrefetchControl |-> Switched(Closed([allow |-> Bool])), strictTransportSecurity |->
                     Switched(Closed(transport))]
               @@ Flags({"contentSecurityPolicyReportOnly", "poweredBy"}))
HttpSecurityHeadersDefaults ==
  LET One(key) == Obj([k \in {key} |-> Text1])
      Empties(keys) == [k \in keys |-> Text(0)]
      directives == {"default-src", "base-uri", "form-action", "frame-ancestors", "report-to",
                     "require-trusted-types-for"}
      \* Empty, so that nobody may use them.
      features ==
        {"accelerometer", "all-screens-capture", "ambient-light-sensor", "autoplay", "battery", "camera",
         "clipboard-read", "clipboard-write", "conversion-measurement", "cross-origin-isolated",
         "display-capture", "document-domain", "encrypted-media", "execution-while-not-rendered",
         "execution-while-out-of-viewport", "focus-without-user-activation", "fullscreen", "gamepad",
         "geolocation", "gyroscope", "hid", "idle-detection", "interest-cohort", "keyboard-map", "magnetometer",
         "microphone", "midi", "monetization", "navigation-override", "payment", "picture-in-picture",
         "publickey-credentials-get", "screen-wake-lock", "serial", "speaker-selection", "sync-script",
         "sync-xhr", "trust-token-redemption", "usb", "vertical-scroll", "web-share", "window-placement",
         "xr-spatial-tracking"}
      policies == {"crossOriginEmbedderPolicy", "crossOriginOpenerPolicy", "crossOriginResourcePolicy",
                   "permittedCrossDomainPolicies", "referrerPolicy"}
      transport == [maxAge |-> Num(15552000), includeSubDomains |-> Yes, preload |-> Yes]
  IN  [k \in policies |-> One("policy")]
        @@ [k \in {"contentTypeOptions", "downloadOptions", "frameOptions"} |-> One("action")]
        @@ [k \in {"dnsPrefetchControl", "originAgentCluster", "reportingEndpoints"} |-> Empty]
        @@ [contentSecurityPolicy |->
              Obj([k \in directives |-> Text1] @@ Empties({"sandbox", "upgrade-insecure-requests"})),
            permissionsPolicy |-> Obj(Empties(features)), poweredBy |-> Yes,
            reportTo |-> Obj([maxAge |-> Num(31536000), includeSubDomains |-> Yes]),
            strictTransportSecurity |-> Obj(transport)]
        @@ AllNo({"contentSecurityPolicyReportOnly", "xssProtection"})

----------------------------------------------------------------------------
(* Routers, bodies and metrics                                             *)

Routing(properties) ==
  Middleware([routes |-> SetOf(Shape(properties @@ [handler |-> Fn], DOMAIN properties \cup {"handler"}, Nothing)),
              notFoundResponse |-> Fn], {}, [routes |-> Arr(<<>>), notFoundResponse |-> Fn0])
CloudformationRouter == Routing([requestType |-> Listed])
HttpRouterOptions == Routing([method |-> Listed, path |-> [allOf |-> <<Matching, Matching>>]])
WsRouter == Routing([routeKey |-> Str])
CloudformationResponse == Middleware([sendResponse |-> Bool], {}, [sendResponse |-> Yes])
CloudwatchMetrics ==
  LET set == MapOf([type |-> "string", minLength |-> 1, maxLength |-> 1024])
  IN  Middleware([namespace |-> [type |-> "string", minLength |-> 1, maxLength |-> 256],
                  dimensions |-> OneOf(<<set, ArrayOf(set)>>), onFlushError |-> Fn, contextKey |-> Str], {},
                 [onFlushError |-> Undefined, contextKey |-> Text1])
WsJsonBodyParser == Middleware([reviver |-> Fn], {}, NoFields)
ValidatorSchema ==
  Closed([k \in {"eventSchema", "contextSchema", "responseSchema"} |-> Fn]
           @@ [k \in {"defaultLanguage", "contextKeyHttpContentNegotiation"} |-> Str]
           @@ [languages |-> MapOf(Fn)])
ValidatorDefaults ==
  [defaultLanguage |-> Text1, languages |-> Empty, contextKeyHttpContentNegotiation |-> Text1]
    @@ Unset({"eventSchema", "contextSchema", "responseSchema"})
Validator == [schema |-> ValidatorSchema, defaults |-> ValidatorDefaults]
Warmup == Middleware([isWarmingUp |-> Fn], {}, [isWarmingUp |-> Fn0])

----------------------------------------------------------------------------
(* Logs and batches                                                        *)

LoggerRules == [logger |-> Fn, omitPaths |-> ArrayOf(Str), mask |-> Str]
LoggerDefaults == [logger |-> Fn0] @@ Unset({"omitPaths", "mask"})
ErrorLogger == Middleware(LoggerRules, {}, LoggerDefaults)
EventLogger == Middleware(LoggerRules, {}, LoggerDefaults)
\* 200 MiB
ResponseLogger ==
  Middleware(LoggerRules @@ [maxBodyBytes |-> AtLeast(1)], {}, LoggerDefaults @@ [maxBodyBytes |-> Num(209715200)])
SqsPartialBatchFailure ==
  Middleware([logger |-> OneOf(<<Fn, [const |-> No]>>), omitPaths |-> ArrayOf(Str), mask |-> Str], {}, LoggerDefaults)
EventBatchHandler == Middleware([concurrency |-> AtLeast(1)], {}, NoFields)
EventBatchParser ==
  Middleware([k \in {"key", "value", "body", "data"} |-> Fn]
               @@ [disableEventSourceError |-> Bool, maxDecompressedBytes |-> AtLeast(1)], {}, NoFields)
EventNormalizer ==
  Middleware([wrapNumbers |-> Bool, maxDecompressedBytes |-> AtLeast(1)], {},
             [wrapNumbers |-> Undefined, maxDecompressedBytes |-> Num(10485760)])

----------------------------------------------------------------------------
(* The request engine and the runners of ECS                               *)

CoreSchema ==
  Closed([k \in {"beforePrefetch", "requestStart", "beforeMiddleware", "afterMiddleware", "beforeHandler",
                 "afterHandler", "requestEnd", "timeoutEarlyResponse", "executionMode"} |-> Fn]
           @@ [internal |-> MapOf(Anything), timeoutEarlyInMillis |-> AtLeast(0)])
CoreDefaults == [timeoutEarlyInMillis |-> Num(5), timeoutEarlyResponse |-> Fn0, executionMode |-> Fn0]
ContextOverride == Closed([awsRequestId |-> Fn])
EcsTask ==
  Middleware([handler |-> Fn, eventEnv |-> Str, eventArg |-> Bool, timeout |-> AtLeast(0), stopTimeout |-> AtLeast(0),
              onSuccess |-> Fn, onFailure |-> Fn, contextOverride |-> ContextOverride], {"handler"},
             [eventEnv |-> Text1, eventArg |-> Yes, timeout |-> Num(60000), stopTimeout |-> Num(30000)])
EcsHttp ==
  Middleware([k \in {"workers"} |-> AtLeast(1)]
               @@ [k \in {"timeout", "bodyLimit", "trustedProxies", "gracefulShutdownMs"} |-> AtLeast(0)]
               @@ [handler |-> Fn, loadHandler |-> Fn, port |-> Between(0, 65535), host |-> Str,
                   eventVersion |-> Listed, requestContext |-> MapOf(Anything), contextOverride |-> ContextOverride],
             {},
             [port |-> Num(80), eventVersion |-> Text1, requestContext |-> Empty, timeout |-> Num(60000),
              bodyLimit |-> Num(10485760), trustedProxies |-> Num(1), gracefulShutdownMs |-> Num(25000)])
EcsBatch ==
  LET poller == Shape([source |-> Str, poll |-> Fn, acknowledge |-> Fn], {"source", "poll", "acknowledge"}, Anything)
  IN  Middleware([handler |-> Fn, poller |-> poller, workers |-> AtLeast(1), timeout |-> AtLeast(0),
                  gracefulShutdownMs |-> AtLeast(0), onError |-> Fn, contextOverride |-> ContextOverride],
                 {"handler", "poller"}, [timeout |-> Num(60000), gracefulShutdownMs |-> Num(25000)])
Poller(strings, others, required) ==
  Middleware([k \in strings |-> Str] @@ others @@ [client |-> MapOf(Anything)], required, NoFields)
Retries == [maxRetryAttempts |-> Between(-1, 10000), retryDelayMs |-> AtLeast(0)]
Window == [batchSize |-> AtLeast(1), batchWindowMs |-> AtLeast(0), connect |-> Fn]
PollSqs ==
  Poller({"queueUrl", "eventSourceArn", "awsRegion"},
         [maxNumberOfMessages |-> Between(1, 10), waitTimeSeconds |-> Between(0, 20),
          visibilityTimeout |-> AtLeast(0)],
         {"queueUrl"})
PollKinesis ==
  Poller({"streamName", "streamArn", "shardId", "startingSequenceNumber", "awsRegion"},
         Retries @@ [shardIteratorType |-> Listed, timestamp |-> Typed("number"), limit |-> Between(1, 10000),
                     pollingDelay |-> AtLeast(0)], {"streamName", "shardId"})
PollDynamoDBStreams ==
  Poller({"streamArn", "shardId", "sequenceNumber", "awsRegion"},
         Retries @@ [shardIteratorType |-> Listed, limit |-> Between(1, 1000), pollingDelay |-> AtLeast(0)],
         {"streamArn", "shardId"})
PollKafka ==
  Poller({"clientId", "groupId", "eventSourceArn"},
         Retries @@ Flags({"fromBeginning", "ssl", "selfManaged"})
           @@ [brokers |-> ArrayOf(Str), topics |-> ArrayOf(Str), consumer |-> MapOf(Anything),
               heartbeatIntervalMs |-> AtLeast(1)], {"brokers", "groupId", "topics"})
PollAmq ==
  Poller({"destination", "eventSourceArn"},
         Window @@ [connectOptions |-> MapOf(Anything), ackMode |-> Listed], {"connectOptions", "destination"})
PollRmqRules ==
  [k \in {"url", "queue", "vhost", "eventSourceArn"} |-> Str] @@ Window
    @@ [prefetch |-> AtLeast(1), connection |-> MapOf(Anything), channel |-> MapOf(Anything)]
PollRmq == Middleware(PollRmqRules, {"queue"}, NoFields)

----------------------------------------------------------------------------
Pair(schema, defaults) == [schema |-> schema, defaults |-> defaults]
Fetchers ==
  ("appconfig-extension" :> AppConfigExtension) @@ ("appconfig" :> AppConfig) @@ ("dynamodb" :> DynamoDB)
    @@ ("s3" :> S3) @@ ("ssm" :> Ssm) @@ ("secrets-manager" :> SecretsManager) @@ ("kms" :> Kms) @@ ("sts" :> Sts)
    @@ ("service-discovery" :> ServiceDiscovery) @@ ("rds-signer" :> RdsSigner) @@ ("dsql-signer" :> DsqlSigner)
    @@ ("ssm-extension" :> SsmExtension) @@ ("secrets-manager-extension" :> SecretsManagerExtension)
    @@ ("glue-schema-registry" :> GlueSchemaRegistry) @@ ("rds" :> Pair(RdsSchema, RdsDefaults))
    @@ ("dsql" :> Pair(DsqlSchema, DsqlDefaults)) @@ ("s3-object-response" :> S3ObjectResponse)
    @@ ("ws-response" :> Pair(WsResponseSchema, WsResponseDefaults))
Routers == ("cloudformation-router" :> CloudformationRouter) @@ ("http-router" :> HttpRouterOptions)
             @@ ("ws-router" :> WsRouter)
Loggers == ("error-logger" :> ErrorLogger) @@ ("event-logger" :> EventLogger) @@ ("response-logger" :> ResponseLogger)
Pollers ==
  ("pollSqs" :> PollSqs) @@ ("pollKinesis" :> PollKinesis) @@ ("pollDynamoDBStreams" :> PollDynamoDBStreams)
    @@ ("pollKafka" :> PollKafka) @@ ("pollAmq" :> PollAmq) @@ ("pollRmq" :> PollRmq)
Runners == ("ecs-task" :> EcsTask) @@ ("ecs-http" :> EcsHttp) @@ ("ecs-batch" :> EcsBatch)
Others ==
  ("http-jwt" :> Pair(HttpJwtSchema, HttpJwtDefaults)) @@ ("http-paseto" :> HttpPaseto) @@ ("http-dpop" :> HttpDpop)
    @@ ("http-x402" :> HttpX402) @@ ("http-content-encoding" :> HttpContentEncoding)
    @@ ("http-content-negotiation" :> HttpContentNegotiation)
    @@ ("http-cors" :> Pair(HttpCorsSchema, HttpCorsDefaults))
    @@ ("http-event-normalizer" :> HttpEventNormalizer) @@ ("http-urlencode-path-parser" :> HttpUrlencodePathParser)
    @@ ("http-header-normalizer" :> Pair(HttpHeaderNormalizerSchema, HttpHeaderNormalizerDefaults))
    @@ ("http-json-body-parser" :> HttpJsonBodyParser) @@ ("http-urlencode-body-parser" :> HttpUrlencodeBodyParser)
    @@ ("http-multipart-body-parser" :> HttpMultipartBodyParser) @@ ("http-partial-response" :> HttpPartialResponse)
    @@ ("http-response-serializer" :> Pair(HttpResponseSerializerSchema, HttpResponseSerializerDefaults))
    @@ ("http-error-handler" :> HttpErrorHandler)
    @@ ("http-security-headers" :> Pair(HttpSecurityHeadersSchema, HttpSecurityHeadersDefaults))
    @@ ("cloudformation-response" :> CloudformationResponse) @@ ("cloudwatch-metrics" :> CloudwatchMetrics)
    @@ ("ws-json-body-parser" :> WsJsonBodyParser) @@ ("validator" :> Validator) @@ ("warmup" :> Warmup)
    @@ ("sqs-partial-batch-failure" :> SqsPartialBatchFailure) @@ ("event-batch-handler" :> EventBatchHandler)
    @@ ("event-batch-parser" :> EventBatchParser) @@ ("event-normalizer" :> EventNormalizer)
    @@ ("core" :> Pair(CoreSchema, CoreDefaults))
Tables == Fetchers @@ Routers @@ Loggers @@ Pollers @@ Runners @@ Others
=============================================================================
