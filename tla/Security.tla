------------------------------ MODULE Security ------------------------------
(***************************************************************************)
(* The security half of src/typescript/src/invoke.ts: the challenge an     *)
(* operation's and a server's declarations make together, the fields of a  *)
(* request the credentials are written to, and the destinations refused.   *)
(*                                                                         *)
(* A scheme is a record [type, name, in, field]; "in" and "field" say      *)
(* where an API key travels. Declared lists are sequences.                 *)
(***************************************************************************)
EXTENDS Context

Authorization == <<"header", "authorization">>

\* mapScheme: the requirement family that answers a scheme. A scheme of no
\* family is surfaced and nothing answers it.
MapScheme(scheme) ==
    CASE scheme.type \in {"http.bearer", "httpBearer"} -> "bearer"
      [] scheme.type \in {"http.basic", "userPassword", "scramSha256", "scramSha512"} -> "basic"
      [] scheme.type \in {"apiKey", "httpApiKey"} -> "apiKey"
      [] scheme.type = "oauth2" -> "oauth2"
      [] OTHER -> "unmapped"

SchemeRequirement(scheme) ==
    [type |-> MapScheme(scheme), name |-> scheme.name, path |-> Nothing, enum |-> {}, durable |-> TRUE]

\* driverSecurityAlternatives: every pair of a server's and an operation's
\* entry, server first; the entries themselves when only one level has any.
Pairs(server, operation) ==
    IF server # <<>> /\ operation # <<>>
    THEN [i \in 1..(Len(server) * Len(operation)) |->
            {server[((i - 1) \div Len(operation)) + 1], operation[((i - 1) % Len(operation)) + 1]}]
    ELSE [i \in 1..(Len(server) + Len(operation)) |-> {(server \o operation)[i]}]

\* requiredContext: the alternatives, or none when the context answers one.
RequiredContext(server, operation, ctx) ==
    LET pairs == Pairs(server, operation)
        alternatives == [i \in DOMAIN pairs |-> {SchemeRequirement(s) : s \in pairs[i]}]
    IN  IF ContextSatisfies(ctx, alternatives) THEN <<>> ELSE alternatives

\* resolveSecuritySchemes: both lists in order, a repeated scheme once.
ResolveSecuritySchemes(server, operation) ==
    LET both == server \o operation
        first == {i \in DOMAIN both : \A j \in 1..(i - 1) :
                     <<both[j].type, both[j].name>> # <<both[i].type, both[i].name>>}
    IN  [i \in first |-> both[i]]

\* An access token, else a bearer token.
TokenFor(ctx, name) ==
    LET token == CredentialFor(ctx, "oauth2", name)
    IN  IF token # Nothing THEN token ELSE CredentialFor(ctx, "bearer", name)

\* The credential one scheme puts on a request. An apiKey travels as a user or
\* a password, which a request over HTTP does not have.
SchemeCredential(ctx, scheme) ==
    CASE scheme.type \in {"http.bearer", "httpBearer"} -> CredentialFor(ctx, "bearer", scheme.name)
      [] scheme.type \in {"http.basic", "userPassword"} -> CredentialFor(ctx, "basic", scheme.name)
      [] scheme.type = "httpApiKey" -> CredentialFor(ctx, "apiKey", scheme.name)
      [] scheme.type = "oauth2" -> TokenFor(ctx, scheme.name)
      [] OTHER -> Nothing

Destination(scheme) ==
    IF scheme.type = "httpApiKey" THEN <<scheme.in, scheme.field>> ELSE Authorization

\* applyCredentialsViaSchemes: the schemes that place a credential, in order.
Placing(schemes, ctx) == {i \in DOMAIN schemes : SchemeCredential(ctx, schemes[i]) # Nothing}

\* A header or query field keeps what was set last, and the context's own
\* headers are set after the credentials; cookies are appended.
Carried(schemes, ctx, i) ==
    /\ i \in Placing(schemes, ctx)
    /\ \/ Destination(schemes[i])[1] = "cookie"
       \/ /\ \A j \in Placing(schemes, ctx) :
                j > i => Destination(schemes[j]) # Destination(schemes[i])
          /\ Destination(schemes[i])[1] = "header"
                => <<"headers", Destination(schemes[i])[2]>> \notin DOMAIN ctx

\* The headers a transport writes itself.
ProcessorHeaders(protocol) ==
    IF protocol \in {"http", "https"} THEN {"host", "content-type"} ELSE {"host", "upgrade"}

\* The credential of a scheme that validateCredentialDestinations looks for: it
\* takes a wider view of tokens than what is placed, and none of userPassword.
CheckedCredential(ctx, scheme) ==
    CASE scheme.type = "httpApiKey" -> CredentialFor(ctx, "apiKey", scheme.name)
      [] scheme.type = "http.basic" -> CredentialFor(ctx, "basic", scheme.name)
      [] scheme.type = "http.bearer" -> CredentialFor(ctx, "bearer", scheme.name)
      [] scheme.type \in {"oauth2", "openIdConnect", "httpBearer"} -> TokenFor(ctx, scheme.name)
      [] OTHER -> Nothing

Checked(schemes, ctx) == {i \in DOMAIN schemes : CheckedCredential(ctx, schemes[i]) # Nothing}

\* Mutant of DestinationsRefused: two credentials may meet in one field.
DestinationsShared(schemes, protocol, ctx) ==
    \/ \E h \in ProcessorHeaders(protocol) : <<"headers", h>> \in DOMAIN ctx
    \/ \E i \in Checked(schemes, ctx) :
          LET at == Destination(schemes[i])
          IN  protocol \in {"ws", "wss"} /\ at[1] = "query" /\ <<"wsQuery", at[2]>> \in DOMAIN ctx

\* validateCredentialDestinations.
DestinationsRefused(schemes, protocol, ctx) ==
    \/ \E h \in ProcessorHeaders(protocol) : <<"headers", h>> \in DOMAIN ctx
    \/ \E i \in Checked(schemes, ctx) :
          LET at == Destination(schemes[i])
          IN  \/ \E j \in Checked(schemes, ctx) \ {i} : Destination(schemes[j]) = at
              \/ at[1] = "header" /\ at[2] \in ProcessorHeaders(protocol)
              \/ protocol \in {"ws", "wss"} /\ at[1] = "query" /\ <<"wsQuery", at[2]>> \in DOMAIN ctx
              \/ protocol \in {"ws", "wss"} /\ at[1] = "header" /\ <<"wsHeaders", at[2]>> \in DOMAIN ctx
=============================================================================
