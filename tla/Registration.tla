----------------------------- MODULE Registration -----------------------------
(***************************************************************************)
(* A middleware is made and used: its hooks are put on the stacks, and its *)
(* options are accepted.                                                   *)
(***************************************************************************)
EXTENDS Naturals, SequencesExt, OptionTables

----------------------------------------------------------------------------
(***************************************************************************)
(* How a middy is built: the calls of use, before, after and onError put    *)
(* hooks on the three stacks that runRequest goes through from their first  *)
(* to their last (see MiddyRequest).                                        *)
(*                                                                         *)
(* A middleware is the set of the stacks it has a hook for, a hook is named *)
(* by the number of the middleware it belongs to, in the order of the calls *)
(* and, within one, of the array that is used.                              *)
(***************************************************************************)

CONSTANTS MaxUsed  \* bound: the middlewares used

VARIABLES
  stacks,   \* beforeMiddlewares, afterMiddlewares, onErrorMiddlewares
  used,     \* history: the middlewares used so far
  threw     \* the last call threw

stackVars == <<stacks, used, threw>>

Stacks == {"before", "after", "onError"}
StackInit == stacks = [s \in Stacks |-> <<>>] /\ used = <<>> /\ threw = FALSE

\* Fault: the hooks of an array are put in front as they come.
AsTheyCome(hooks) == hooks
\* afters.reverse(), onErrors.reverse()
LastFirst(hooks) == Reverse(hooks)
\* Before hooks are pushed, the others go in front of what is there.
Put(s, hooks) == IF s = "before" THEN stacks[s] \o hooks ELSE LastFirst(hooks) \o stacks[s]

\* Fault: one without any hook is passed over.
PassedOver(middlewares) == SelectSeq(middlewares, LAMBDA m : m # {})
\* Every one is looked at before any is put on a stack.
AllOrNone(middlewares) == IF Contains(middlewares, {}) THEN <<>> ELSE middlewares
Use(middlewares) ==
  LET accepted == AllOrNone(middlewares)
      Hooks(s) == SelectSeq([n \in DOMAIN accepted |-> Len(used) + n], LAMBDA h : s \in accepted[h - Len(used)])
  IN  /\ stacks' = [s \in Stacks |-> Put(s, Hooks(s))]
      /\ threw' = Contains(middlewares, {})
      /\ used' = IF threw' THEN used ELSE used \o middlewares
\* middy.before, middy.after and middy.onError take one hook and check nothing.
Inline(s) ==
  /\ stacks' = [stacks EXCEPT ![s] = IF s = "before" THEN Append(@, Len(used) + 1) ELSE <<Len(used) + 1>> \o @]
  /\ used' = Append(used, {s}) /\ threw' = FALSE

StackNext ==
  \/ /\ Len(used) < MaxUsed
     /\ \E m \in SUBSET Stacks : Use(<<m>>)
  \/ /\ Len(used) + 2 <= MaxUsed
     /\ \E m1, m2 \in SUBSET Stacks : Use(<<m1, m2>>)
  \/ /\ Len(used) < MaxUsed
     /\ \E s \in Stacks : Inline(s)
StackSpec == StackInit /\ [][StackNext]_stackVars

----------------------------------------------------------------------------
StackTypeOK == stacks \in [Stacks -> Seq(1..MaxUsed)] /\ used \in Seq(SUBSET Stacks) /\ threw \in BOOLEAN

\* Every hook is on its stack once, whichever way it was registered; of two middlewares the one
\* used first runs its before hook first and its after and onError hooks last, so that it sees
\* what the others have made of the response; and a call that throws has left nothing behind.
Nested ==
  \A s \in Stacks :
    /\ ToSet(stacks[s]) = {h \in DOMAIN used : s \in used[h]}
    /\ \A i, j \in DOMAIN stacks[s] : i < j =>
         IF s = "before" THEN stacks[s][i] < stacks[s][j] ELSE stacks[s][i] > stacks[s][j]

----------------------------------------------------------------------------
(***************************************************************************)
(* A middleware, router or runner is given options, which are validated     *)
(* and spread over its defaults.                                            *)
(*                                                                         *)
(* The options given are sampled from the rules of the package itself:      *)
(* what is required, with one option more or one of them missing, the       *)
(* option with every kind of value and every value next to a bound.  Where  *)
(* a package looks at several options together, their values are combined.  *)
(* For middlewares, validating is a call of its own, which an application   *)
(* makes when it is built; the runners and pollers of ECS make it.          *)
(***************************************************************************)

VARIABLES
  package,   \* the package, a key of Tables
  given,     \* its options
  verdict,   \* "none", "accepted" or "refused" by validateOptions
  made       \* what the package works with: [ok, options]

optionsVars == <<package, given, verdict, made>>

NotMade == [ok |-> FALSE, options |-> NoFields]
Keys(p) == DOMAIN Tables[p].schema.properties
Over(fields, k, v) == (k :> v) @@ fields

----------------------------------------------------------------------------
(* Samples                                                                 *)

\* A value that fits a rule, with Within for the rules that it holds.
FieldsBy(rule, Within(_)) ==
  IF "required" \in DOMAIN rule THEN [k \in rule.required |-> Within(rule.properties[k])] ELSE NoFields
GoodBy(rule, Within(_)) ==
  CASE "const" \in DOMAIN rule      -> rule.const
    [] "allOf" \in DOMAIN rule      -> Within(rule.allOf[1])
    [] "oneOf" \in DOMAIN rule      -> Within(rule.oneOf[1])
    [] "instanceof" \in DOMAIN rule -> IF rule.instanceof = "function" THEN Function(1) ELSE RegExp
    [] "enum" \in DOMAIN rule       -> CHOOSE v \in rule.enum : TRUE
    [] rule = Anything              -> Text(1)
    [] OTHER ->
         CASE rule.type = "string"  -> Text(1)
           [] rule.type = "boolean" -> Yes
           [] rule.type = "array"   -> Arr(<<Within(rule.items)>>)
           [] rule.type = "object"  -> Obj(FieldsBy(rule, Within))
           [] OTHER                 -> Num(IF "minimum" \in DOMAIN rule THEN rule.minimum ELSE 1)
Good1(rule) == GoodBy(rule, TooDeep)
Good2(rule) == GoodBy(rule, Good1)
Good(rule) == GoodBy(rule, Good2)
GoodFields(rule) == FieldsBy(rule, Good)

Scalars == {Undefined, Null, NaN, No, Yes, RegExp, Function(1), Num(0), Num(1), Half(0), Empty, Arr(<<>>)}
             \cup {Text(n) : n \in 0..3}
Alternatives(rule) ==
  {rule.oneOf[i] : i \in IF "oneOf" \in DOMAIN rule THEN DOMAIN rule.oneOf ELSE {}}
    \cup {rule.allOf[i] : i \in IF "allOf" \in DOMAIN rule THEN DOMAIN rule.allOf ELSE {}}
Bounds(rule) ==
  UNION {{Num(rule[k] + d) : d \in {-1, 0, 1}} \cup {Half(rule[k])} :
           k \in {"minimum", "maximum", "exclusiveMinimum"} \cap DOMAIN rule}
\* The same but for the functions in it.
Twin(v) == Obj([k \in DOMAIN v.fields |-> IF v.fields[k].is = "function" THEN Function(2) ELSE v.fields[k]])

\* Values that fit a rule and values next to those.  A key of a map is the one the value of
\* the package's own cache has.
NearItems(rule, Within(_)) ==
  LET good == Good(rule.items)
  IN  {Arr(<<good, item>>) : item \in Within(rule.items) \cup {good, Twin(good)}}
NearFields(rule, Within(_)) ==
  LET fields == GoodFields(rule)
      properties == IF "properties" \in DOMAIN rule THEN rule.properties ELSE NoFields
      map == "additionalProperties" \in DOMAIN rule /\ rule.additionalProperties \notin {Anything, Nothing}
  IN  {Obj(fields), Obj(Over(fields, "mistyped", Yes))}
        \cup UNION {{Obj(Over(fields, k, v)) : v \in Within(properties[k])} : k \in DOMAIN properties}
        \cup {Obj([k \in DOMAIN fields \ {missing} |-> fields[k]]) : missing \in DOMAIN fields}
        \cup {Obj("own" :> v) : v \in IF map THEN Within(rule.additionalProperties) ELSE {}}
Merged(rules) ==
  LET objects == {r \in rules : "type" \in DOMAIN r /\ r.type = "object"}
      fields == UNION {DOMAIN Good(r).fields : r \in objects}
  IN  {Obj([k \in fields |-> Good(CHOOSE r \in objects : k \in DOMAIN Good(r).fields).fields[k]])}
NearBy(rule, Within(_)) ==
  Scalars \cup Bounds(rule) \cup UNION {Within(r) : r \in Alternatives(rule)} \cup Merged(Alternatives(rule))
    \cup (IF "items" \in DOMAIN rule THEN NearItems(rule, Within) ELSE {})
    \cup (IF "type" \in DOMAIN rule /\ rule.type = "object" THEN NearFields(rule, Within) ELSE {})
Near1(rule) == NearBy(rule, TooDeep)
Near2(rule) == NearBy(rule, Near1)
Near3(rule) == NearBy(rule, Near2)
Near4(rule) == NearBy(rule, Near3)
Near5(rule) == NearBy(rule, Near4)
Near(rule) == NearBy(rule, Near5)

\* Options that a package looks at together: how long a value is cached, which source is polled
\* with how many workers, and which keys verify a token.
Sqs == Text(4)
SingleWorkerSources == {Text(5), Text(6)}   \* aws:kinesis, aws:dynamodb
NotGiven == Value("not given", 0)
Options(fields) == Obj([k \in {k \in DOMAIN fields : fields[k] # NotGiven} |-> fields[k]])
Lifetimes == {Num(n) : n \in {-1, 0, Day, Day + 1, MinTimestamp - 1, MinTimestamp}} \cup {Half(Day), Undefined}
Issuers(own) == Obj("iss" :> Options([jwksUri |-> Text(1)] @@ own))
Combined(p) ==
  CASE p \in DOMAIN Fetchers /\ "cacheExpiry" \in Keys(p) ->
         {Obj(GoodFields(Tables[p].schema) @@ [cacheExpiry |-> expiry, cacheKeyExpiry |-> Obj("own" :> own)]) :
            expiry \in Lifetimes, own \in Lifetimes}
    [] p = "ecs-batch" ->
         {Options([handler |-> Function(1), workers |-> workers, timeout |-> Num(timeout),
                   poller |-> Options([source |-> source, poll |-> Function(1), acknowledge |-> Function(1),
                                       visibilityTimeout |-> visibility])]) :
            workers \in {NotGiven, Undefined, Num(1), Num(2)}, timeout \in {0, 999, 1000, 60000},
            source \in {Text(1), Sqs} \cup SingleWorkerSources, visibility \in {NotGiven, Num(0), Num(1), Num(61)}}
    [] p = "http-jwt" ->
         {Options([internalKey |-> key, algorithm |-> algorithm, audience |-> audience, issuers |-> issuers]) :
            key \in {NotGiven, Undefined, Text(1)}, algorithm \in {NotGiven, Text(1), Arr(<<>>), Arr(<<Text(2)>>)},
            audience \in {NotGiven, Null, Text(1)},
            issuers \in {NotGiven, Empty}
                          \cup {Issuers([audience |-> a, algorithm |-> l]) :
                                  a \in {NotGiven, Null, Text(1)}, l \in {NotGiven, Arr(<<>>), Text(1)}}}
    [] p = "ecs-http" ->
         {Options([handler |-> handler, loadHandler |-> load]) :
            handler \in {NotGiven, Undefined, Function(1)}, load \in {NotGiven, Undefined, Function(1)}}
    [] OTHER -> {}

----------------------------------------------------------------------------
OptionsInit ==
  /\ package \in DOMAIN Tables
  /\ given \in Near(Tables[package].schema) \cup Combined(package)
  /\ package \in DOMAIN Runners => given.is = "object"
  /\ verdict = "none" /\ made = NotMade

\* Fault: what is given replaces the default, also when it is undefined.
Spread(p, fields) == fields @@ Tables[p].defaults
\* The defaults that an explicit undefined does not take away.
Restored(p) ==
  CASE p = "core"                             -> DOMAIN CoreDefaults
    [] p \in {"error-logger", "event-logger"} -> {"logger"}
    [] p = "response-logger"                  -> {"logger", "maxBodyBytes"}
    [] p = "http-jwt"                         -> {"jwksTimeoutMs"}
    [] p = "ecs-http"                         -> {"gracefulShutdownMs"}
    [] OTHER                                  -> {}
OverDefaults(p, fields) ==
  LET lost == {k \in Restored(p) \cap DOMAIN fields : fields[k] = Undefined}
  IN  [k \in DOMAIN fields \ lost |-> fields[k]] @@ Tables[p].defaults

\* The keyword the code looks up: undefined when it is not there.
At(fields, k) == IF k \in DOMAIN fields THEN fields[k] ELSE Undefined
Or(v, w) == IF v = Undefined THEN w ELSE v

\* The runners validate what they have spread over their defaults, ecs-http in addition that
\* there is one of the two handlers.
OneHandler(fields) == (At(fields, "handler") = Undefined) # (At(fields, "loadHandler") = Undefined)
Validate ==
  LET schema == Tables[package].schema
      fields == IF package \in DOMAIN Runners THEN Spread(package, given.fields) ELSE given.fields
      accepted == /\ ValidateOptions(schema, IF given = Undefined THEN Empty ELSE [given EXCEPT !.fields = fields])
                  /\ package = "ecs-http" => OneHandler(fields)
  IN  /\ verdict = "none"
      /\ verdict' = IF accepted THEN "accepted" ELSE "refused"
      /\ UNCHANGED <<package, given, made>>

Exceeds(v, n) == v.n > n \/ (v.is = "fraction" /\ v.n = n)
\* The lifetime a key of its own has takes precedence.
Lifetime(fields) == Or(At(At(fields, "cacheKeyExpiry").fields, "own"), At(fields, "cacheExpiry"))
\* Fault: whatever exceeds a day is a timestamp.
AnyTimestamp(fields) == FALSE
\* canPrefetch: neither a duration of a day at most nor a timestamp since 2001.
MistypedExpiry(fields) ==
  LET lifetime == Lifetime(fields) IN Exceeds(lifetime, Day) /\ lifetime.n < MinTimestamp

\* normalizeAlgs and assertValidAlgs; Text(2) is "none".
Algs(v) == IF v.is = "array" \/ v = Undefined THEN v ELSE Arr(<<v>>)
\* Fault: a list of none is let through.
NotNone(v) == Text(2) \notin ToSet(v.items)
ValidAlgs(v) == v.items # <<>> /\ Text(2) \notin ToSet(v.items)
\* Fault: null on an issuer inherits as undefined does.
NullInherits(entry, options) ==
  LET own == At(entry, "audience") IN IF own \in {Null, Undefined} THEN At(options, "audience") ELSE own
Audience(entry, options) == Or(At(entry, "audience"), At(options, "audience"))
\* What the tokens of an issuer are verified with.  No audience is checked when it is null.
Verifier(entry, options) ==
  LET audience == Audience(entry, options)
  IN  Obj([algorithms |-> Or(Algs(At(entry, "algorithm")), Algs(At(options, "algorithm"))),
           audience |-> IF audience = Null THEN Undefined ELSE audience])
PinsKeys(options) ==
  LET issuers == At(options, "issuers")
      algs == Algs(At(options, "algorithm"))
  IN  /\ (At(options, "internalKey") = Undefined) # (issuers = Undefined)
      /\ algs # Undefined /\ ValidAlgs(algs)
      /\ \A iss \in DOMAIN issuers.fields :
           LET entry == issuers.fields[iss].fields
           IN  ValidAlgs(Verifier(entry, options).fields["algorithms"]) /\ Audience(entry, options) # Undefined

\* Fault: the workers are as many as are asked for.
AsAsked(options) == Or(At(options, "workers"), Num(2))
\* options.workers ??= 1 for a source that workers cannot share, availableParallelism() for others.
Workers(options) ==
  LET source == options["poller"].fields["source"]
  IN  Or(At(options, "workers"), IF source \in SingleWorkerSources THEN Num(1) ELSE Num(2))
\* Fault: a message may be visible again as soon as the batch has timed out.
AtTimeout(visibility, timeout) == Undefined \notin {visibility, timeout} /\ visibility.n * 1000 < timeout.n
LapsesMidBatch(visibility, timeout) == Undefined \notin {visibility, timeout} /\ visibility.n * 1000 <= timeout.n
Polls(options) ==
  LET poller == options["poller"].fields
  IN  /\ poller["source"] \in SingleWorkerSources => At(options, "workers") \in {Undefined, Num(1)}
      /\ poller["source"] = Sqs =>
           ~LapsesMidBatch(At(poller, "visibilityTimeout"), options["timeout"])

\* What a package makes of its options, or that it throws.  What else a package throws of an
\* option whose default an explicit undefined took away is left out.
Make ==
  LET options == OverDefaults(package, given.fields)
      refused ==
        CASE package \in DOMAIN Fetchers -> MistypedExpiry(options)
          [] package = "http-jwt"        -> ~PinsKeys(options)
          [] package = "http-paseto"     -> At(options, "internalKey") = Undefined
          [] package = "ecs-batch"       -> ~Polls(options)
          [] OTHER                       -> FALSE
      kept ==
        CASE package \in {"rds", "dsql"} /\ At(options, "internalKey") \notin {Undefined, Text(0)}
               /\ At(given.fields, "cacheExpiry") = Undefined -> Over(options, "cacheExpiry", Num(0))
          [] package = "http-jwt" ->
               LET issuers == At(options, "issuers").fields
                   verifiers == [iss \in DOMAIN issuers |-> Verifier(issuers[iss].fields, options)]
               IN  Over(options, "verifiers", Obj(verifiers))
          [] package = "ecs-batch" -> Over(options, "workers", Workers(options))
          [] package = "ecs-http"  -> options @@ [workers |-> Num(2)]
          [] OTHER                 -> options
  IN  /\ verdict = "accepted" /\ made = NotMade /\ ~refused
      /\ made' = [ok |-> TRUE, options |-> kept]
      /\ UNCHANGED <<package, given, verdict>>
OptionsNext == Validate \/ Make
OptionsSpec == OptionsInit /\ [][OptionsNext]_optionsVars

----------------------------------------------------------------------------
OptionsTypeOK ==
  /\ package \in DOMAIN Tables /\ verdict \in {"none", "accepted", "refused"} /\ made.ok \in BOOLEAN
  /\ made.ok => DOMAIN Tables[package].defaults \subseteq DOMAIN made.options

\* What an accepted option is mistaken for: nothing is left over that the package does not
\* know, two routes differ in more than their handler, the schema version that is asked for
\* is named in one way, and defaults and options together are options the package accepts.
AcceptedIsMeant ==
  LET fields == given.fields
      ways == {"SchemaVersionId", "SchemaId"}
  IN  verdict = "accepted" =>
        /\ "mistyped" \notin DOMAIN fields
        /\ package \in DOMAIN Routers /\ At(fields, "routes").is = "array" =>
             LET routes == fields["routes"].items
             IN  \A i, j \in DOMAIN routes : i # j => routes[i] # Twin(routes[j]) /\ routes[i] # routes[j]
        /\ package = "glue-schema-registry" =>
             \A k \in DOMAIN At(fields, "fetchData").fields : fields["fetchData"].fields[k] # Undefined =>
               Cardinality(ways \cap DOMAIN fields["fetchData"].fields[k].fields) = 1
        /\ ValidateOptions(Tables[package].schema, Obj(fields @@ Tables[package].defaults))
\* What a package is made with: no lifetime is a mistyped duration; a token is verified with
\* algorithms that are pinned and, unless that is waived for its issuer, an audience; a shard
\* is read by one worker and no message of SQS is visible again mid-batch; and what has to
\* have a value has its default if not another.
MadeIsSafe ==
  LET options == made.options
  IN  made.ok =>
        /\ package \in DOMAIN Fetchers =>
             LET lifetime == Lifetime(options)
             IN  lifetime = Undefined \/ ~Exceeds(lifetime, Day) \/ lifetime.n >= MinTimestamp
        /\ package = "http-jwt" =>
             \A iss \in DOMAIN At(options, "issuers").fields :
               LET own == At(given.fields["issuers"].fields[iss].fields, "audience")
                   verifier == options["verifiers"].fields[iss].fields
               IN  /\ verifier["algorithms"].is = "array" /\ verifier["algorithms"].items # <<>>
                   /\ verifier["audience"] = Undefined <=> Null \in {own, Or(own, At(given.fields, "audience"))}
        /\ package = "ecs-batch" =>
             LET poller == options["poller"].fields
             IN  /\ poller["source"] \in SingleWorkerSources => options["workers"] = Num(1)
                 /\ /\ poller["source"] = Sqs
                    /\ Undefined \notin {At(poller, "visibilityTimeout"), options["timeout"]}
                    => poller["visibilityTimeout"].n * 1000 > options["timeout"].n
        /\ \A k \in Restored(package) : options[k] # Undefined
OptionsHold == AcceptedIsMeant /\ MadeIsSafe
=============================================================================
