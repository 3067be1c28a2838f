----------------------------- MODULE RequestBody -----------------------------
(***************************************************************************)
(* The body of an HTTP or WebSocket event, and the form that               *)
(* http-multipart-body-parser makes of one.                                *)
(***************************************************************************)
EXTENDS Naturals, SequencesExt

----------------------------------------------------------------------------
(***************************************************************************)
(* The body of an HTTP or WebSocket event on its way to the handler: the    *)
(* event and header normalizers and the body parsers, in whatever order the *)
(* user registers them.  A lone parser checks the content type and throws;  *)
(* parsers side by side pass over a type that is not theirs                 *)
(* (disableContentTypeError).                                              *)
(***************************************************************************)

VARIABLES
  sent,     \* the event as it arrived
  chain,    \* the middlewares, in the order of their before hooks
  step,     \* the next of them
  readable, \* the content type is under a name the parsers look for
  base64,   \* event.isBase64Encoded
  parsed,   \* event.body: by which parser, and whether it was decoded before
  outcome   \* "none", "handled", or the status the request is refused with

bodyVars == <<sent, chain, step, readable, base64, parsed, outcome>>

Together == <<"json", "urlencode", "multipart">>
Chains ==
  {<<"ws-json">>} \cup
  UNION { {c \in SetToSeqs(ns \cup ToSet(ps)) : SelectSeq(c, LAMBDA m : m \in ToSet(ps)) = ps} :
            ns \in SUBSET {"event-normalizer", "header-normalizer"},
            ps \in {<<p>> : p \in ToSet(Together)} \cup {Together} }
\* content: what the parser of its type says of it.
Events ==
  [source : {"apigateway"}, type : ToSet(Together) \cup {"other"}, readable : BOOLEAN,
   base64 : BOOLEAN, content : {"good", "bad", "absent"}]
  \cup [source : {"vpc-lattice"}, type : ToSet(Together), readable : {TRUE},
         base64 : {TRUE}, content : {"good", "bad"}]
Lone == \A m, n \in DOMAIN chain : {chain[m], chain[n]} \subseteq ToSet(Together) => m = n
Unparsed == [by |-> "none", decoded |-> FALSE]

BodyInit ==
  /\ chain \in Chains /\ sent \in Events /\ step = 1
  /\ chain = <<"ws-json">> => sent.source = "apigateway"
  \* VPC Lattice calls it is_base64_encoded.
  /\ readable = sent.readable /\ base64 = (sent.base64 /\ sent.source = "apigateway")
  /\ parsed = Unparsed /\ outcome = "none"

----------------------------------------------------------------------------
Calls(m) == outcome = "none" /\ step \in DOMAIN chain /\ chain[step] = m
Passes == step' = step + 1 /\ UNCHANGED <<parsed, outcome>>
Refuses(status) == outcome' = status /\ UNCHANGED <<step, parsed>>
Parses(p, decoded) == step' = step + 1 /\ parsed' = [by |-> p, decoded |-> decoded] /\ UNCHANGED outcome

NormalizeEvent ==
  /\ Calls("event-normalizer") /\ Passes
  /\ base64' = sent.base64 /\ UNCHANGED <<sent, chain, readable>>
NormalizeHeaders ==
  /\ Calls("header-normalizer") /\ Passes
  /\ readable' = TRUE /\ UNCHANGED <<sent, chain, base64>>

\* Fault: the body is parsed as it came.
AsItCame == ~sent.base64
\* decodeBody, or the charset of the form: the parser reads what was encoded.
Decodes == sent.base64 => base64
\* Fault: a lone parser parses whatever it gets.
AnyType(p) == Lone \/ (readable /\ sent.type = p)
OwnType(p) == readable /\ sent.type = p
TypeRefused(p) == ~OwnType(p) /\ IF Lone THEN Refuses("415") ELSE Passes
ParseJson(p) ==
  IF sent.content = "good" /\ Decodes THEN Parses(p, TRUE) ELSE Refuses("422")
JsonBodyParser ==
  /\ Calls("json")
  /\ TypeRefused("json") \/ (OwnType("json") /\ ParseJson("json"))
  /\ UNCHANGED <<sent, chain, readable, base64>>
WsJsonBodyParser ==
  /\ Calls("ws-json") /\ ParseJson("ws-json") /\ UNCHANGED <<sent, chain, readable, base64>>
\* Parsing a query never fails, not even for want of a body; too many fields are refused.
UrlencodeBodyParser ==
  /\ Calls("urlencode")
  /\ \/ TypeRefused("urlencode")
     \/ OwnType("urlencode") /\ IF sent.content = "bad" /\ Decodes THEN Refuses("413")
                                ELSE Parses("urlencode", Decodes)
  /\ UNCHANGED <<sent, chain, readable, base64>>
MultipartBodyParser ==
  /\ Calls("multipart")
  /\ \/ TypeRefused("multipart")
     \/ /\ OwnType("multipart")
        /\ IF sent.content = "good" /\ Decodes THEN Parses("multipart", TRUE)
           ELSE \E status \in {"413", "422"} : Refuses(status)
  /\ UNCHANGED <<sent, chain, readable, base64>>
Handler ==
  /\ outcome = "none" /\ step > Len(chain) /\ outcome' = "handled"
  /\ UNCHANGED <<sent, chain, step, readable, base64, parsed>>

BodyNext ==
  \/ NormalizeEvent \/ NormalizeHeaders \/ Handler
  \/ JsonBodyParser \/ WsJsonBodyParser \/ UrlencodeBodyParser \/ MultipartBodyParser
BodySpec == BodyInit /\ [][BodyNext]_bodyVars

----------------------------------------------------------------------------
BodyTypeOK ==
  /\ sent \in Events /\ step \in 1..Len(chain) + 1
  /\ {readable, base64} \subseteq BOOLEAN
  /\ parsed \in [by : ToSet(Together) \cup {"ws-json", "none"}, decoded : BOOLEAN]
  /\ outcome \in {"none", "handled", "413", "415", "422"}

Precedes(m, n) == \E k, l \in DOMAIN chain : k < l /\ chain[k] = m /\ chain[l] = n
\* The parser of the type is there and behind the normalizers the event needs.
Served(p) ==
  /\ p \in ToSet(chain)
  /\ p = "ws-json" \/ (sent.type = p /\ (sent.readable \/ Precedes("header-normalizer", p)))
Reads(p) == sent.base64 /\ sent.source = "vpc-lattice" => Precedes("event-normalizer", p)
\* The body a handler sees was parsed by the parser of its type, or by none where that is
\* not served; it was decoded first, where the normalizer comes before the parser; and what
\* its parser can read is refused by nobody.
BodyParsedOnce ==
  /\ outcome = "handled" =>
       IF parsed.by = "none" THEN \A p \in ToSet(chain) : ~Served(p)
       ELSE Served(parsed.by) /\ (Reads(parsed.by) => parsed.decoded)
  /\ \A p \in ToSet(chain) : Served(p) /\ Reads(p) /\ sent.content = "good" => outcome \in {"none", "handled"}
  /\ outcome = "415" => \A p \in ToSet(chain) : ~Served(p)

----------------------------------------------------------------------------
(***************************************************************************)
(* @middy/http-multipart-body-parser: a form read by busboy (external),     *)
(* which reports fields and files as it comes to them, the end of a file    *)
(* later than the parts behind it, skips what exceeds its limits, and has   *)
(* finished when every file has ended.  The promise of the form settles     *)
(* once; busboy goes on.                                                    *)
(***************************************************************************)

CONSTANT MaxParts  \* limits.parts, or fields, or files

VARIABLES
  parts,    \* the parts that have come, in their order
  surplus,  \* one part more came than the limits allow
  open,     \* the files that have not ended
  form,     \* multipartData: per key the parts it holds, in their order
  promise,  \* "pending", "resolved" or the status it is rejected with
  parser    \* busboy: "writing", "ended" (it has seen the whole body), "failed" or "finished"

formVars == <<parts, surplus, open, form, promise, parser>>

Keys == {"a", "b"}
Parts ==
  { p \in [kind : {"field", "a[] field", "file"}, key : Keys, flaw : {"none", "nameless", "long name", "truncated"}] :
      p.flaw \in {"nameless", "long name"} => p.key = "a" /\ p.kind # "a[] field" }

FormInit ==
  /\ parts = <<>> /\ surplus = FALSE /\ open = {} /\ form = [k \in Keys |-> <<>>]
  /\ promise = "pending" /\ parser = "writing"

Rejects(status) == promise' = IF promise = "pending" THEN status ELSE promise
\* checkFieldName.
BadName(p) == p.flaw \in {"nameless", "long name"}
NameRefused(p) == Rejects(IF p.flaw = "nameless" THEN "422" ELSE "413")

\* Fault: the limit of busboy goes unnoticed.
NoLimit == UNCHANGED promise
TooMany == Rejects("413")
\* Fault: a clipped value is taken for the whole one.
Whole(p) == TRUE
Unclipped(p) == p.flaw # "truncated"
\* A repeated field folds into an array.
Folded(k, n) == Append(form[k], n)
Field(p) ==
  /\ p.kind # "file" /\ open' = open
  /\ IF BadName(p) THEN NameRefused(p) /\ UNCHANGED form
     ELSE IF Unclipped(p) THEN form' = [form EXCEPT ![p.key] = Folded(p.key, Len(parts) + 1)] /\ UNCHANGED promise
     ELSE Rejects("413") /\ UNCHANGED form
\* A file is in the form when it has ended.
File(p) ==
  /\ p.kind = "file" /\ UNCHANGED form
  /\ IF BadName(p) THEN NameRefused(p) ELSE UNCHANGED promise
  /\ open' = open \cup {Len(parts) + 1}
Part(p) ==
  /\ parser = "writing" /\ Len(parts) < MaxParts /\ parts' = Append(parts, p)
  /\ Field(p) \/ File(p)
  /\ UNCHANGED <<surplus, parser>>
\* A part over a limit is skipped.
Surplus ==
  /\ parser = "writing" /\ Len(parts) = MaxParts /\ ~surplus /\ surplus' = TRUE
  /\ TooMany /\ UNCHANGED <<parts, open, form, parser>>

\* Fault: a file replaces what had its name.
Replaces(k, n) == <<n>>
\* A new attachment comes first.
Unshifted(k, n) == <<n>> \o form[k]
\* Nobody reads a file without a name, so that it does not end.
FileEnds(n) ==
  /\ n \in open /\ ~BadName(parts[n]) /\ open' = open \ {n}
  /\ IF Unclipped(parts[n])
     THEN form' = [form EXCEPT ![parts[n].key] = Unshifted(parts[n].key, n)] /\ UNCHANGED promise
     ELSE Rejects("413") /\ UNCHANGED form
  /\ UNCHANGED <<parts, surplus, parser>>

BodyEnds == parser = "writing" /\ parser' = "ended" /\ UNCHANGED <<parts, surplus, open, form, promise>>
\* No boundary, or a body that ends inside a part: the parser's error, and the part's own.
ParserFails ==
  /\ parser \in {"writing", "ended"} /\ parser' = "failed"
  /\ Rejects("422") /\ UNCHANGED <<parts, surplus, open, form>>
Finish ==
  /\ parser = "ended" /\ open = {} /\ parser' = "finished"
  /\ promise' = IF promise = "pending" THEN "resolved" ELSE promise
  /\ UNCHANGED <<parts, surplus, open, form>>

Goes == (\E n \in open : FileEnds(n)) \/ BodyEnds \/ ParserFails \/ Finish
FormNext == (\E p \in Parts : Part(p)) \/ Surplus \/ Goes
FormSpec == FormInit /\ [][FormNext]_formVars

----------------------------------------------------------------------------
FormTypeOK ==
  /\ parts \in Seq(Parts) /\ surplus \in BOOLEAN /\ open \subseteq DOMAIN parts
  /\ \A k \in Keys : ToSet(form[k]) \subseteq DOMAIN parts
  /\ promise \in {"pending", "resolved", "413", "422"}
  /\ parser \in {"writing", "ended", "failed", "finished"}

\* The handler sees a whole form or none: every part that came, once and unclipped under its
\* name, the fields in their order; and a form that cannot be whole is refused when busboy
\* is done with it, for the client's error or the limit it exceeds.
FormIsWhole ==
  /\ promise = "resolved" =>
       /\ ~surplus /\ \A n \in DOMAIN parts : parts[n].flaw = "none"
       /\ \A n \in DOMAIN parts : Cardinality({m \in DOMAIN form[parts[n].key] : form[parts[n].key][m] = n}) = 1
       /\ \A k \in Keys : \A m, n \in DOMAIN form[k] :
            m < n /\ form[k][m] > form[k][n] => "file" \in {parts[form[k][m]].kind, parts[form[k][n]].kind}
  /\ parser \in {"finished", "failed"} => promise # "pending"
=============================================================================
