----------------------------- MODULE Negotiation -----------------------------
(***************************************************************************)
(* One request through @middy/http-content-negotiation, and the response or *)
(* error of its handler through @middy/http-content-encoding, which reads   *)
(* what the first has found in the namespace of the call.                   *)
(*                                                                         *)
(* Accept-Encoding is a sequence of codings with their quality, 2 for 1.0   *)
(* and 1 for less.  Of the other headers only their mismatch matters here,  *)
(* which ends the hook before or after the encodings are negotiated.        *)
(***************************************************************************)
EXTENDS Naturals, SequencesExt

VARIABLES
  accept,    \* the Accept-Encoding header
  settings,  \* of the two middlewares
  found,     \* preferredEncodings and preferredEncoding
  hook,      \* the hook that runs next
  reply      \* the response: its coding, and whether it says "no-transform"

vars == <<accept, settings, found, hook, reply>>

Codings == {"br", "gzip"}
None == "none"
Accepts ==
  LET Entry == [coding : Codings \cup {"identity", "*"}, q : 0..2]
  IN  {<<>>} \cup {<<e>> : e \in Entry} \cup {p \in Entry \X Entry : p[1].coding # p[2].coding}
\* availableEncodings (<<>> for none), what becomes of a mismatch (defaultToFirstEncoding,
\* failOnMismatch or neither), the encoders set to false, overridePreferredEncoding.
Settings ==
  LET Of(available, mismatches) ==
        [available : {available}, mismatch : mismatches, disabled : {{}, {"br"}}, override : {<<>>, <<"gzip", "br">>}]
  IN  Of(<<>>, {"ignore"}) \cup Of(<<"br", "gzip">>, {"default", "fail", "ignore"})
Nothing == [all |-> <<>>, one |-> None]

Init ==
  /\ accept \in Accepts /\ settings \in Settings /\ found = Nothing /\ hook = "before"
  /\ reply = [coding |-> None, noTransform |-> FALSE]

----------------------------------------------------------------------------
(* negotiator (external)                                                   *)

\* Without a word about it, identity comes last, with the least quality of all.
Entries ==
  LET least == IF \E n \in DOMAIN accept : accept[n].q = 1 THEN 1 ELSE 2
  IN  IF \E n \in DOMAIN accept : accept[n].coding \in {"identity", "*"} THEN accept
      ELSE Append(accept, [coding |-> "identity", q |-> least])
\* The entry that names a coding, else "*".
EntryOf(coding) ==
  LET About(c) == {n \in DOMAIN Entries : Entries[n].coding = c}
  IN  IF About(coding) # {} THEN About(coding) ELSE About("*")
Quality(coding) == LET about == EntryOf(coding) IN IF about = {} THEN 0 ELSE Entries[CHOOSE n \in about : TRUE].q
\* Better quality first, then what is named, then the order of the header, then that of the options.
Preferred(offered) ==
  LET Named(c) == \E n \in DOMAIN Entries : Entries[n].coding = c
      Rank(i) == LET c == offered[i]
                 IN  (2 - Quality(c)) * 32 + (IF Named(c) THEN 0 ELSE 16) + (CHOOSE n \in EntryOf(c) : TRUE) * 4 + i
      acceptable == {i \in DOMAIN offered : Quality(offered[i]) > 0}
      sorted == SetToSortSeq(acceptable, LAMBDA i, j : Rank(i) < Rank(j))
  IN  [n \in DOMAIN sorted |-> offered[sorted[n]]]
\* With nothing offered, all that the header accepts.
Encoding(offered) == Preferred(IF offered = <<>> THEN [n \in DOMAIN Entries |-> Entries[n].coding] ELSE offered)

----------------------------------------------------------------------------
(* http-content-negotiation                                                *)

\* 406, which the onError hooks answer
NotAcceptable == hook' = "after"
\* Fault: the default stands in for what the client refuses, whatever the options say.
DefaultAnyway == TRUE
DefaultToFirst == settings.mismatch = "default"
ParseHeader ==
  LET all == Encoding(settings.available)
      default == settings.available # <<>> /\ all = <<>> /\ DefaultToFirst
  IN  /\ found' = [all |-> all,
                   one |-> IF all # <<>> THEN all[1] ELSE IF default THEN settings.available[1] ELSE None]
      /\ IF settings.available # <<>> /\ found'.one = None /\ settings.mismatch = "fail"
         THEN NotAcceptable
         ELSE NotAcceptable \/ hook' = "handler"
\* An event without headers is left alone; an earlier header may not be acceptable.
Before ==
  /\ hook = "before" /\ UNCHANGED <<accept, settings, reply>>
  /\ \/ ParseHeader
     \/ NotAcceptable /\ UNCHANGED found
     \/ hook' = "handler" /\ UNCHANGED found

\* The handler answers or fails; its response may say "no-transform".
Handler ==
  /\ hook = "handler" /\ hook' = "after" /\ UNCHANGED <<accept, settings, found>>
  /\ \E sealed \in BOOLEAN : reply' = [reply EXCEPT !.noTransform = sealed]

----------------------------------------------------------------------------
(* http-content-encoding                                                   *)

\* Fault: only the preferred encoding is looked at.
AllOfThem(codings) == codings
Enabled(codings) == SelectSeq(codings, LAMBDA c : c \notin settings.disabled)
PreferredEncoding ==
  IF found.one \notin settings.disabled THEN found.one
  ELSE IF Enabled(found.all) = <<>> THEN None ELSE Enabled(found.all)[1]
\* Fault: the client is not asked.
FirstOverride == IF settings.override = <<>> THEN PreferredEncoding ELSE settings.override[1]
ContentEncoding ==
  LET wanted == SelectSeq(settings.override, LAMBDA c : Contains(Enabled(found.all), c))
  IN  IF wanted = <<>> THEN PreferredEncoding ELSE wanted[1]
\* Fault: what the response says itself is not looked at.
RequestOnly(sealed) == sealed
NoTransform(sealed) == sealed \/ reply.noTransform
\* The hook of the after or the onError chain, for a response with a body that can be encoded; sealed: the request
\* says "no-transform".  Compressed text may not be smaller.
After ==
  /\ hook = "after" /\ hook' = "answered" /\ UNCHANGED <<accept, settings, found>>
  /\ \E sealed, smaller \in BOOLEAN :
       reply' = [reply EXCEPT
         !.noTransform = @ \/ sealed,
         !.coding = IF PreferredEncoding \in Codings /\ ~NoTransform(sealed) /\ smaller
                    THEN ContentEncoding ELSE None]

Next == Before \/ Handler \/ After
Spec == Init /\ [][Next]_vars

----------------------------------------------------------------------------
TypeOK ==
  /\ accept \in Accepts /\ settings \in Settings
  /\ hook \in {"before", "handler", "after", "answered"}
  /\ reply \in [coding : Codings \cup {None}, noTransform : BOOLEAN]

\* What the header says of a coding: by name, else by "*"; nothing said, it is not acceptable.
Acceptable(coding) ==
  LET Says(c) == {n \in DOMAIN accept : accept[n].coding = c}
      says == IF Says(coding) # {} THEN Says(coding) ELSE Says("*")
  IN  \E n \in says : accept[n].q > 0
StandsIn(coding) ==
  /\ settings.mismatch = "default" /\ settings.available # <<>> /\ coding = settings.available[1]
  /\ ~\E n \in DOMAIN settings.available : Acceptable(settings.available[n])
\* An answer or an error is encoded by an encoder that is enabled, in a coding the client
\* accepts, or the one configured to stand in, and never against "no-transform"; nothing
\* but an override passes over a coding that is offered and better liked.
EncodedAsNegotiated ==
  reply.coding # None =>
    /\ reply.coding \notin settings.disabled /\ ~reply.noTransform
    /\ Acceptable(reply.coding) \/ StandsIn(reply.coding)
    /\ settings.override = <<>> /\ ~StandsIn(reply.coding) =>
         \A c \in (ToSet(settings.available) \cap Codings) \ settings.disabled : Quality(c) <= Quality(reply.coding)
=============================================================================
