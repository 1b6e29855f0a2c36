------------------------------- MODULE Target -------------------------------
(***************************************************************************)
(* The server and address configuration points of                          *)
(* src/typescript/src/target.ts.                                           *)
(*                                                                         *)
(* A template is a sequence of tokens; a token in Variable stands for the  *)
(* expression {name}, and so does a supplied value that spells one. A      *)
(* supplied value in Pattern is one String.replaceAll interprets; values   *)
(* with a pattern inside them are left out. A resolution returns a record  *)
(* whose "is" says how it came out: a target or an address, a refusal, or  *)
(* a challenge for one configuration value.                                *)
(***************************************************************************)
EXTENDS Context, SequencesExt

CONSTANTS Variable,   \* names of server variables and address parameters
          Parsed      \* what the URL parser makes of the URLs it accepts

\* The patterns of a replacement string; "$before" and "$after" stand for the
\* dollar sign with a backquote and with a quote.
Pattern == {"$$", "$&", "$before", "$after"}

\* An encoded brace or dollar sign is part of no expression.
ASSUME TargetAssumption == {"%7B%7D", "%24"} \intersect Variable = {}

Refused == [is |-> "refused"]

ConfigRequired(path, enum, durable) ==
    [is |-> "challenge",
     requirement |-> [type |-> "config", name |-> Unnamed, path |-> path, enum |-> enum, durable |-> durable]]

Concrete(tokens) == \A i \in DOMAIN tokens : tokens[i] \notin Variable

\* effectiveServers: the channel's subset, else every server, by its position.
\* A member that names no server contributes nothing.
EffectiveServers(doc, channel) ==
    LET listed == IF channel.servers # <<>> THEN channel.servers ELSE doc.order
    IN  [i \in {j \in DOMAIN listed : listed[j] \in DOMAIN doc.servers} |-> listed[i]]

\* isBoundProtocol: any protocol that is not empty.
BoundServerNames(doc, candidates) ==
    {name \in Range(candidates) : doc.servers[name].protocol # ""}

\* defaultServer: the sole bound member, never the first of several.
DefaultServer(doc, candidates) ==
    LET bound == {i \in DOMAIN candidates : doc.servers[candidates[i]].protocol # ""}
    IN  IF \E i \in bound : bound = {i} THEN candidates[CHOOSE i \in bound : TRUE] ELSE ""

\* Where each of the expressions of a template first appears.
TemplateExpressions(template) ==
    {i \in DOMAIN template : /\ template[i] \in Variable
                             /\ \A j \in 1 .. (i - 1) : template[j] # template[i]}

\* What replaceAll makes of a pattern, for the match at place i: a dollar sign,
\* the match itself, or the text before or after it.
Interpreted(pattern, tokens, i) ==
    CASE pattern = "$$" -> <<"$">>
      [] pattern = "$&" -> <<tokens[i]>>
      [] pattern = "$before" -> SubSeq(tokens, 1, i - 1)
      [] pattern = "$after" -> SubSeq(tokens, i + 1, Len(tokens))

\* replaceAll, which takes the value for a replacement string.
Substitute(tokens, name, value) ==
    IF value \in Pattern
    THEN FlattenSeq([i \in DOMAIN tokens |->
                       IF tokens[i] = name THEN Interpreted(value, tokens, i) ELSE <<tokens[i]>>])
    ELSE [i \in DOMAIN tokens |-> IF tokens[i] = name THEN value ELSE tokens[i]]

\* Its expressions replaced one after the other, each wherever it then is.
Expanded(template, value) ==
    LET out[n \in 0 .. Len(template)] ==
          IF n = 0 THEN template
          ELSE IF n \in TemplateExpressions(template)
          THEN Substitute(out[n - 1], template[n], value[n]) ELSE out[n - 1]
    IN  out[Len(template)]

\* The server's variables the context supplies, and whether the server
\* declares each of them and takes its value (validateSuppliedServerVariables).
SuppliedVariables(ctx) == {v \in Variable : <<"server", "variables", v>> \in DOMAIN ctx}

SuppliedVariablesRefused(server, ctx) ==
    \E v \in SuppliedVariables(ctx) :
       \/ v \notin DOMAIN server.variables
       \/ /\ server.variables[v].enum # {}
          /\ ctx[<<"server", "variables", v>>] \notin server.variables[v].enum

\* One variable's value: what was supplied, else the declared default.
ServerVariable(server, v, ctx) ==
    IF v \in SuppliedVariables(ctx) THEN ctx[<<"server", "variables", v>>]
    ELSE IF v \in DOMAIN server.variables THEN server.variables[v].default ELSE ""

OutsideEnum(declared, v, value) ==
    v \in DOMAIN declared /\ declared[v].enum # {} /\ value \notin declared[v].enum

\* substituteServerVariables, for a host template of the server.
SubstituteServerVariables(server, ctx) ==
    LET places == TemplateExpressions(server.host)
        value == [i \in places |-> ServerVariable(server, server.host[i], ctx)]
        missing == {i \in places : server.host[i] \notin SuppliedVariables(ctx) /\ value[i] = ""}
        outside == {i \in places : OutsideEnum(server.variables, server.host[i], value[i])}
        stop == missing \union outside
        out == Expanded(server.host, value)
    IN  IF stop = {} THEN (IF Concrete(out) THEN [is |-> "host", tokens |-> out] ELSE Refused)
        ELSE LET i == CHOOSE k \in stop : \A j \in stop : k <= j
             IN  IF i \in missing
                 THEN ConfigRequired(<<"server", "variables", server.host[i]>>,
                                     IF server.host[i] \in DOMAIN server.variables
                                     THEN server.variables[server.host[i]].enum ELSE {}, FALSE)
                 ELSE Refused

\* assembleServer.
AssembleServer(doc, name, ctx) ==
    LET server == doc.servers[name]
        out == SubstituteServerVariables(server, ctx)
    IN  IF server.protocol = "" \/ SuppliedVariablesRefused(server, ctx) THEN Refused
        ELSE IF out.is # "host" THEN out
        ELSE [is |-> "target", server |-> name,
              url |-> [scheme |-> server.protocol, host |-> out.tokens, port |-> server.port]]

\* fullURLOverride: a complete URL replaces the selected server's address
\* and keeps its declarations; a different scheme is refused.
FullURLOverride(doc, name, full) ==
    IF full \in DOMAIN Parsed /\ Parsed[full].scheme = doc.servers[name].protocol
    THEN [is |-> "target", server |-> name, url |-> Parsed[full]]
    ELSE Refused

\* directURLTarget: the whole target of an artifact without servers.
DirectURLTarget(full) ==
    IF full \in DOMAIN Parsed THEN [is |-> "target", server |-> "", url |-> Parsed[full]] ELSE Refused

Configured(ctx, point) == \E field \in DOMAIN ctx : field[1] = point

\* What a resolution without a selected server comes to.
NoServer(doc, candidates) ==
    IF candidates = <<>> THEN ConfigRequired(<<"server", "url">>, {}, TRUE)
    ELSE IF BoundServerNames(doc, candidates) = {} THEN Refused
    ELSE ConfigRequired(<<"server", "key">>, BoundServerNames(doc, candidates), TRUE)

\* resolveServerConfig.
ResolveServerConfig(doc, candidates, ctx) ==
    LET hasKey == <<"server", "key">> \in DOMAIN ctx
        hasURL == <<"server", "url">> \in DOMAIN ctx
        member == IF hasKey THEN ctx[<<"server", "key">>] ELSE DefaultServer(doc, candidates)
        bare == candidates = <<>> /\ ~hasKey
    IN  CASE hasKey /\ member \notin Range(candidates) -> Refused
          [] bare /\ SuppliedVariables(ctx) # {} -> Refused
          [] bare /\ SuppliedVariables(ctx) = {} /\ hasURL -> DirectURLTarget(ctx[<<"server", "url">>])
          [] /\ member = "" /\ (hasKey => member \in Range(candidates))
             /\ ~(bare /\ (SuppliedVariables(ctx) # {} \/ hasURL)) -> NoServer(doc, candidates)
          [] OTHER ->
               IF SuppliedVariablesRefused(doc.servers[member], ctx) THEN Refused
               ELSE IF hasURL THEN FullURLOverride(doc, member, ctx[<<"server", "url">>])
               ELSE AssembleServer(doc, member, ctx)

\* resolveTarget: the configured server, else a metadata base URL, else the
\* sole server of the channel.
ResolveTarget(doc, channel, ctx) ==
    LET candidates == EffectiveServers(doc, channel)
        default == DefaultServer(doc, candidates)
        hasBase == <<"baseURL">> \in DOMAIN ctx
    IN  CASE Configured(ctx, "server") -> ResolveServerConfig(doc, candidates, ctx)
          [] ~Configured(ctx, "server") /\ hasBase /\ default # "" ->
               FullURLOverride(doc, default, ctx[<<"baseURL">>])
          [] ~Configured(ctx, "server") /\ hasBase /\ default = "" /\ candidates = <<>> ->
               DirectURLTarget(ctx[<<"baseURL">>])
          [] ~Configured(ctx, "server") /\ ~hasBase /\ default # "" -> AssembleServer(doc, default, ctx)
          [] OTHER -> NoServer(doc, candidates)

\* addressConfiguration: parameters come from two places that must agree.
SuppliedParameter(ctx, p) ==
    IF <<"address", "parameters", p>> \in DOMAIN ctx THEN ctx[<<"address", "parameters", p>>]
    ELSE Read(ctx, <<"parameters", p>>)

SuppliedParameters(ctx) ==
    {p \in Variable : {<<"parameters", p>>, <<"address", "parameters", p>>} \intersect DOMAIN ctx # {}}

SuppliedTwice(ctx) ==
    \E p \in Variable :
       /\ {<<"parameters", p>>, <<"address", "parameters", p>>} \subseteq DOMAIN ctx
       /\ ctx[<<"parameters", p>>] # ctx[<<"address", "parameters", p>>]

\* Mutant of Encoded: a value goes into the address as it is.
EncodedNot(value) == value

\* encodeURIComponent: braces and dollar signs in a value are escaped, other
\* values stand.
Encoded(value) ==
    IF value \in Variable THEN "%7B%7D" ELSE IF value \in Pattern THEN "%24" ELSE value

\* A parameter with a location is read from the outgoing message and nowhere
\* else; evaluatePayloadLocation refuses what it does not find there.
AddressParameter(channel, p, supplied, payload) ==
    LET declared == p \in DOMAIN channel.parameters
        located == declared /\ channel.parameters[p].location # ""
    IN  IF located THEN Read(payload, channel.parameters[p].location)
        ELSE IF p \in DOMAIN supplied THEN supplied[p]
        ELSE IF declared THEN channel.parameters[p].default ELSE ""

\* expandAddress.
ExpandAddress(channel, supplied, payload) ==
    LET places == TemplateExpressions(channel.address)
        name(i) == channel.address[i]
        located(p) == p \in DOMAIN channel.parameters /\ channel.parameters[p].location # ""
        value == [i \in places |-> AddressParameter(channel, name(i), supplied, payload)]
        missing == {i \in places : value[i] = "" /\ ~located(name(i)) /\ name(i) \notin DOMAIN supplied}
        broken == {i \in places :
                     \/ located(name(i)) /\ value[i] = ""
                     \/ i \notin missing /\ OutsideEnum(channel.parameters, name(i), value[i])}
        stop == missing \union broken
        out == Expanded(channel.address, [i \in places |-> Encoded(value[i])])
    IN  IF \E p \in DOMAIN supplied : p \notin DOMAIN channel.parameters \/ located(p) THEN Refused
        ELSE IF stop = {} THEN (IF Concrete(out) THEN [is |-> "address", tokens |-> out] ELSE Refused)
        ELSE LET i == CHOOSE k \in stop : \A j \in stop : k <= j
             IN  IF i \in broken THEN Refused
                 ELSE ConfigRequired(<<"address", "parameters", name(i)>>,
                                     IF name(i) \in DOMAIN channel.parameters
                                     THEN channel.parameters[name(i)].enum ELSE {}, FALSE)

\* resolveAddress: a concrete address is used verbatim; a channel without
\* one asks for it.
ResolveAddress(channel, ctx, supplied, payload) ==
    IF Read(ctx, <<"address", "address">>) # ""
    THEN IF ctx[<<"address", "address">>] \in Variable THEN Refused
         ELSE [is |-> "address", tokens |-> <<ctx[<<"address", "address">>]>>]
    ELSE IF channel.address = <<>> THEN ConfigRequired(<<"address">>, {}, FALSE)
    ELSE ExpandAddress(channel, supplied, payload)
=============================================================================
