---------------------------- MODULE Preparation ----------------------------
(***************************************************************************)
(* One binding call and the conversation it may need: PreparedAsyncAPI-    *)
(* Operation inspects its prerequisites, runBinding decides server,        *)
(* driver, credentials and address in that order, each decision may refuse *)
(* the call or challenge it, and the host answers a challenge - from its   *)
(* context store or itself - and calls again.                              *)
(*                                                                         *)
(* stage says what the call decides next; the outcomes of the decisions    *)
(* are kept until the call ends, so that the request that is finally sent  *)
(* can be compared with the document, the context and the challenges.      *)
(***************************************************************************)
EXTENDS Security, Target, TLC

CONSTANTS Cases,       \* a document with one operation, the context its host
                       \* starts with, and the contents of the host's store
          Drivers,     \* protocols an external driver is installed for
          Inputs,      \* what a caller writes first
          MaxCalls     \* bound: calls one conversation makes

\* Lists and templates of a document are sequences.
IsSequence(s) == s \in Seq(Range(s))

ASSUME PreparationAssumption ==
    /\ MaxCalls \in Nat \ {0}
    /\ \A case \in Cases :
          /\ IsSequence(case.doc.security) /\ IsSequence(case.doc.channel.address)
          /\ \A s \in DOMAIN case.doc.servers :
                IsSequence(case.doc.servers[s].security) /\ IsSequence(case.doc.servers[s].host)

VARIABLES doc, ctx, store,
          stage,       \* what happens next
          calls,       \* calls made so far
          inspected,   \* the alternatives inspection found unanswered
          target,      \* the decided target, or NoTarget
          supplied,    \* address parameters collected so far
          payload,     \* the outgoing message an address may be read from
          address,     \* the decided address
          asked,       \* the challenge the call ended with: [url, alternatives]
          answered     \* the challenges that were answered, and from where

preparationVars == <<doc, ctx, store, stage, calls, inspected, target, supplied, payload,
                     address, asked, answered>>

host == <<doc, store, answered>>
decided == <<target, supplied, payload, address>>

Builtin == {"http", "https", "ws", "wss"}
NoTarget == [is |-> "none", server |-> "", url |-> [scheme |-> "", host |-> <<>>, port |-> ""]]
NoQuestion == [url |-> NoTarget.url, alternatives |-> <<>>]

\* Where the artifact was loaded from: what a challenge names before any
\* server is known. (For a missing server variable it is the host with its
\* braces; nothing stored answers that one, so the name makes no difference.)
SourceLocation == [scheme |-> "https", host |-> <<"source">>, port |-> ""]
Empty == [field \in {} |-> ""]

\* The security lists that apply: the selected server's and the operation's.
ServerSecurity(t) == IF t.server = "" THEN <<>> ELSE doc.servers[t.server].security
HasDriver(protocol) == protocol \in Drivers

Challenge(url, alternatives) ==
    /\ stage' = "challenged"
    /\ asked' = [url |-> url, alternatives |-> alternatives]

\* A configuration value is asked for under the URL known so far.
AskFor(url, requirement) == Challenge(url, <<{requirement}>>)

Refuse == stage' = "refused" /\ UNCHANGED asked

\* A call that has not begun.
Fresh ==
    /\ stage = "host"
    /\ calls = 0
    /\ inspected = <<>>
    /\ target = NoTarget
    /\ supplied = Empty
    /\ payload = Empty
    /\ address = <<>>
    /\ asked = NoQuestion
    /\ answered = {}

PreparationInit ==
    /\ \E case \in Cases : doc = case.doc /\ ctx = case.ctx /\ store = case.store
    /\ Fresh

\* Mutant of Prepare: inspection looks at the document alone.
PrepareWithoutContext ==
    LET t == ResolveTarget(doc, doc.channel, ctx)
    IN  /\ stage = "host"
        /\ calls < MaxCalls
        /\ calls' = calls + 1
        /\ inspected' = IF t.is = "target" THEN RequiredContext(ServerSecurity(t), doc.security, Empty)
                        ELSE <<>>
        /\ target' = NoTarget
        /\ supplied' = Empty
        /\ payload' = Empty
        /\ address' = <<>>
        /\ asked' = NoQuestion
        /\ stage' = "server"
        /\ UNCHANGED <<doc, ctx, store, answered>>

\* AsyncAPIEngine.prepared: inspection computes what the call would ask for,
\* and leaves whatever it cannot resolve to the call. start() begins it.
Prepare ==
    LET t == ResolveTarget(doc, doc.channel, ctx)
    IN  /\ stage = "host"
        /\ calls < MaxCalls
        /\ calls' = calls + 1
        /\ inspected' = IF t.is = "target" THEN RequiredContext(ServerSecurity(t), doc.security, ctx)
                        ELSE <<>>
        /\ target' = NoTarget
        /\ supplied' = Empty
        /\ payload' = Empty
        /\ address' = <<>>
        /\ asked' = NoQuestion
        /\ stage' = "server"
        /\ UNCHANGED <<doc, ctx, store, answered>>

\* The server configuration point.
DecideServer ==
    LET t == ResolveTarget(doc, doc.channel, ctx)
    IN  /\ stage = "server"
        /\ \/ t.is = "target" /\ target' = t /\ stage' = "cell" /\ UNCHANGED asked
           \/ t.is = "refused" /\ Refuse /\ UNCHANGED target
           \/ /\ t.is = "challenge"
              /\ AskFor(SourceLocation, t.requirement)
              /\ UNCHANGED target
        /\ UNCHANGED <<host, ctx, calls, inspected, supplied, payload, address>>

\* The driver, and the cells the built-in drivers implement: validateCell
\* refuses to subscribe over HTTP.
DecideCell ==
    LET protocol == target.url.scheme
        available == protocol \in Builtin \/ HasDriver(protocol)
        implemented == HasDriver(protocol) \/ ~(protocol \in {"http", "https"} /\ doc.action = "send")
    IN  /\ stage = "cell"
        /\ IF available /\ implemented THEN stage' = "credentials" /\ UNCHANGED asked ELSE Refuse
        /\ UNCHANGED <<host, ctx, calls, inspected, decided>>

\* Context negotiation, before any connection is opened.
DecideCredentials ==
    LET required == RequiredContext(ServerSecurity(target), doc.security, ctx)
        refused == /\ ~HasDriver(target.url.scheme)
                   /\ DestinationsRefused(ResolveSecuritySchemes(ServerSecurity(target), doc.security),
                                          target.url.scheme, ctx)
    IN  /\ stage = "credentials"
        /\ \/ required # <<>> /\ Challenge(target.url, required)
           \/ required = <<>> /\ refused /\ Refuse
           \/ required = <<>> /\ ~refused /\ stage' = "reply" /\ UNCHANGED asked
        /\ UNCHANGED <<host, ctx, calls, inspected, decided>>

\* resolveWebSocketReplyLane: the reply channel must come out at the same
\* server, with an address that needs no parameter.
DecideReply ==
    LET needed == ~HasDriver(target.url.scheme) /\ target.url.scheme \in {"ws", "wss"} /\ doc.reply # <<>>
        t == ResolveTarget(doc, doc.reply[1], ctx)
        a == ResolveAddress(doc.reply[1], Empty, Empty, Empty)
    IN  /\ stage = "reply"
        /\ IF needed /\ (t.is # "target" \/ t.url # target.url \/ a.is # "address")
           THEN Refuse ELSE stage' = "input" /\ UNCHANGED asked
        /\ UNCHANGED <<host, ctx, calls, inspected, decided>>

Located == {p \in DOMAIN doc.channel.parameters : doc.channel.parameters[p].location # ""}
Routed == doc.action = "receive" /\ DOMAIN doc.channel.parameters \ Located # {}

\* Reading the first input, when the address or the envelope is in it. The
\* built-in lanes take the envelope apart here; a driver lane keeps it whole.
ReadFirstInput ==
    LET configured == [p \in SuppliedParameters(ctx) |-> SuppliedParameter(ctx, p)]
        expressible == /\ doc.action = "receive"
                       /\ HasDriver(target.url.scheme) \/ target.url.scheme \in {"http", "https"}
    IN  /\ stage = "input"
        /\ \/ SuppliedTwice(ctx) /\ Refuse /\ UNCHANGED <<supplied, payload>>
           \/ /\ ~SuppliedTwice(ctx)
              /\ Located = {} /\ ~Routed
              /\ supplied' = configured
              /\ stage' = "address"
              /\ UNCHANGED <<payload, asked>>
           \/ /\ ~SuppliedTwice(ctx)
              /\ Located # {} /\ ~expressible
              /\ Refuse
              /\ UNCHANGED <<supplied, payload>>
           \/ /\ ~SuppliedTwice(ctx)
              /\ Located # {} => expressible
              /\ Located # {} \/ Routed
              /\ \E input \in Inputs :
                    \/ /\ input.absent \/ (Routed /\ (~input.envelope \/
                             ~(DOMAIN input.params \subseteq DOMAIN doc.channel.parameters \ Located)))
                       /\ Refuse
                       /\ UNCHANGED <<supplied, payload>>
                    \/ /\ ~input.absent
                       /\ Routed => input.envelope
                       /\ Routed => DOMAIN input.params \subseteq DOMAIN doc.channel.parameters \ Located
                       /\ supplied' = IF Routed THEN input.params @@ configured ELSE configured
                       /\ payload' = IF Routed /\ HasDriver(target.url.scheme) THEN Empty ELSE input.payload
                       /\ stage' = "address"
                       /\ UNCHANGED asked
        /\ UNCHANGED <<host, ctx, calls, inspected, target, address>>

\* The address configuration point; what is left goes to the lane.
DecideAddress ==
    LET a == ResolveAddress(doc.channel, ctx, supplied, payload)
    IN  /\ stage = "address"
        /\ \/ a.is = "address" /\ address' = a.tokens /\ stage' = "dispatched" /\ UNCHANGED asked
           \/ a.is = "refused" /\ Refuse /\ UNCHANGED address
           \/ a.is = "challenge" /\ AskFor(target.url, a.requirement) /\ UNCHANGED address
        /\ UNCHANGED <<host, ctx, calls, inspected, target, supplied, payload>>

\* The host's resolver backed by its store.
StoreResolves ==
    /\ stage = "challenged"
    /\ StoreAnswers(store, asked.url, asked.alternatives)
    /\ ctx' = StoreAnswer(store, asked.url, asked.alternatives) @@ ctx
    /\ answered' = answered \union {[question |-> asked, by |-> "store"]}
    /\ stage' = "host"
    /\ UNCHANGED <<doc, store, calls, inspected, decided, asked>>

\* What a host that knows the answer to one requirement adds to its context.
Answers(req) ==
    CASE req.type \in Families /\ req.name # Unnamed -> {<<"credentials", req.name>> :> Shape[req.type]}
      [] req.type \in Families /\ req.name = Unnamed -> {Flat[req.type] :> Shape[req.type]}
      [] req.type = "config" /\ req.path = <<"server", "url">> -> {req.path :> u : u \in DOMAIN Parsed}
      [] req.type = "config" /\ req.path = <<"address">> -> {<<"address", "address">> :> "a"}
      [] req.type = "config" /\ req.path \notin {<<"server", "url">>, <<"address">>} ->
           {req.path :> v : v \in IF req.enum # {} THEN req.enum ELSE {"a"}}
      [] OTHER -> {}

\* A host that answers every requirement of one alternative itself.
HostResolves ==
    /\ stage = "challenged"
    /\ \E i \in DOMAIN asked.alternatives :
          \E answer \in [asked.alternatives[i] -> UNION {Answers(r) : r \in asked.alternatives[i]}] :
             /\ \A r \in asked.alternatives[i] : answer[r] \in Answers(r)
             /\ ctx' = LET fields == UNION {DOMAIN answer[r] : r \in asked.alternatives[i]}
                       IN  [f \in fields |-> answer[CHOOSE r \in asked.alternatives[i] :
                                                       f \in DOMAIN answer[r]][f]] @@ ctx
    /\ answered' = answered \union {[question |-> asked, by |-> "host"]}
    /\ stage' = "host"
    /\ UNCHANGED <<doc, store, calls, inspected, decided, asked>>

PreparationNext ==
    \/ Prepare \/ DecideServer \/ DecideCell \/ DecideCredentials \/ DecideReply
    \/ ReadFirstInput \/ DecideAddress \/ StoreResolves \/ HostResolves

PreparationSpec == PreparationInit /\ [][PreparationNext]_preparationVars

-----------------------------------------------------------------------------
(* Properties.                                                             *)

Sent == stage = "dispatched"

\* A challenge that was answered is not raised again: what the host or its
\* store supplied is what the next call consumes, though the challenge, the
\* store's scoping and the call each have a rule of their own for which
\* credential or value counts.
AnsweredOnce == stage = "challenged" => \A a \in answered : a.question # asked

\* Schemes of brokers, which a built-in driver asks for and does not place, or
\* places without a check of where.
BrokerScheme(s) == s.type \in {"userPassword", "apiKey", "scramSha256", "scramSha512"}

\* A request of a built-in driver, where it is declared with schemes of HTTP,
\* carries the credentials of one whole alternative, each at its own
\* destination: the server's entry and the operation's in addition, neither
\* overwritten by the other. A header the host set itself is its own decision.
DispatchIsCovered ==
    LET server == ServerSecurity(target)
        schemes == ResolveSecuritySchemes(server, doc.security)
        pairs == Pairs(server, doc.security)
        kept(s) == \E i \in DOMAIN schemes :
                      /\ schemes[i].type = s.type /\ schemes[i].name = s.name
                      /\ \/ Carried(schemes, ctx, i)
                         \/ <<"headers", Destination(schemes[i])[2]>> \in DOMAIN ctx
        ofHTTP == \A s \in Range(schemes) : ~BrokerScheme(s)
    IN  Sent /\ ~HasDriver(target.url.scheme) /\ pairs # <<>> /\ ofHTTP
            => \E i \in DOMAIN pairs : \A s \in pairs[i] : kept(s)

\* What inspection reports before the call is what the call then asks for:
\* a call whose inspection named credentials is not sent, and the challenge
\* it ends with is the one inspection showed.
InspectionIsHonest ==
    /\ Sent => inspected = <<>>
    /\ stage = "challenged" /\ inspected # <<>> => asked.alternatives = inspected

\* What a challenge asks is what inspection announced, and was not answered.
ChallengesAreHonest == InspectionIsHonest /\ AnsweredOnce

\* Where the artifact declares servers, a request goes out under exactly one
\* of the channel's, over that server's protocol: the one the host selected,
\* or the only one there is - also when a URL replaces its address.
ServerGoverns ==
    LET candidates == EffectiveServers(doc, doc.channel)
    IN  Sent /\ candidates # <<>> =>
           /\ target.server \in Range(candidates)
           /\ doc.servers[target.server].protocol = target.url.scheme
           /\ Cardinality(BoundServerNames(doc, candidates)) > 1
                 => Read(ctx, <<"server", "key">>) = target.server
           /\ <<"server", "key">> \in DOMAIN ctx => ctx[<<"server", "key">>] = target.server

\* The address dialled is the declared one with each expression replaced by
\* its own value - the message's where the artifact says so, else what was
\* supplied, else the default - and by nothing another value brought in; no
\* declared enumeration is left.
AddressIsWhatWasSupplied ==
    LET template == doc.channel.address
        own(p) == AddressParameter(doc.channel, p, supplied, payload)
    IN  Sent /\ Read(ctx, <<"address", "address">>) = "" =>
           /\ Len(address) = Len(template)
           /\ \A i \in DOMAIN template :
                 IF template[i] \notin Variable THEN address[i] = template[i]
                 ELSE /\ address[i] = Encoded(own(template[i]))
                      /\ template[i] \in DOMAIN doc.channel.parameters
                      /\ doc.channel.parameters[template[i]].enum # {}
                            => own(template[i]) \in doc.channel.parameters[template[i]].enum

\* A request to the address of a declared server, which no URL replaced.
SentToServer ==
    /\ Sent /\ target.server # "" /\ <<"server", "url">> \notin DOMAIN ctx
    /\ <<"baseURL">> \in DOMAIN ctx => Configured(ctx, "server")

\* No value of the host's expressions is a pattern of a replacement string.
PlainHost(server) ==
    \A i \in DOMAIN server.host :
       server.host[i] \in Variable => ServerVariable(server, server.host[i], ctx) \notin Pattern

\* The host dialled is the server's own, each variable replaced by the value
\* the context supplies or the artifact defaults, inside its enumeration; a
\* value that spells another expression is expanded again, and a host with a
\* value that is a pattern comes out otherwise.
HostIsWhatWasSupplied ==
    LET server == doc.servers[target.server]
    IN  SentToServer =>
           \A i \in DOMAIN server.host :
              LET value == ServerVariable(server, server.host[i], ctx)
              IN  IF server.host[i] \notin Variable
                  THEN PlainHost(server) => target.url.host[i] = server.host[i]
                  ELSE /\ PlainHost(server) /\ value \notin Variable => target.url.host[i] = value
                       /\ ~OutsideEnum(server.variables, server.host[i], value)

\* What target.ts:496-498 says of the expansion: where no value has a brace,
\* the host dialled is the declared one with each variable's value in its
\* place. It is not so: replaceAll interprets the dollar signs of a value.
HostIsVerbatim ==
    LET server == doc.servers[target.server]
        own == [i \in DOMAIN server.host |->
                  IF server.host[i] \in Variable THEN ServerVariable(server, server.host[i], ctx)
                  ELSE server.host[i]]
    IN  SentToServer /\ (\A i \in DOMAIN own : own[i] \notin Variable) => target.url.host = own

\* A request goes where the artifact and the host's answers send it, and
\* nowhere else: to a declared server, its host - unless a value of it is a
\* pattern - and its address.
DestinationIsSupplied == ServerGoverns /\ HostIsWhatWasSupplied /\ AddressIsWhatWasSupplied
=============================================================================
