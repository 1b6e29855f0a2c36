------------------------------ MODULE Context ------------------------------
(***************************************************************************)
(* The binding context of src/typescript/src/internal/context.ts: which    *)
(* credential a lookup finds, when a context satisfies a challenge, and    *)
(* which part of a stored context answers one.                             *)
(*                                                                         *)
(* A context is a partial function: its domain holds the fields that are   *)
(* present, spelled as paths (<<"credentials", "key">>, <<"apiKey">>,      *)
(* <<"server", "variables", "v">>), and a credential's value is only its   *)
(* shape: a non-empty text, a username and password pair, an access token  *)
(* object, or "" for one that is present and empty.                        *)
(***************************************************************************)
EXTENDS Naturals, Sequences, FiniteSets, Functions

\* The field of an absent credential, and the name of an unnamed requirement.
Nothing == <<>>
Unnamed == ""

Read(ctx, field) == IF field \in DOMAIN ctx THEN ctx[field] ELSE ""

\* The shape a credential of each requirement family has.
Shape == [bearer |-> "text", apiKey |-> "text", basic |-> "pair", oauth2 |-> "token"]

\* The convenience field of each family that names no scheme.
Flat == [bearer |-> <<"bearerToken">>, apiKey |-> <<"apiKey">>,
         basic |-> <<"basic">>, oauth2 |-> <<"accessToken">>]

Families == DOMAIN Shape

\* REQUIREMENT_FAMILY_FIELDS: what travels with a family's credential.
FamilyFields(family) ==
    {Flat[family]} \union (IF family = "oauth2" THEN {<<"refreshToken">>, <<"clientSecret">>} ELSE {})

\* A named credential shadows the flat one; an API key has a second, older map.
CredentialFor(ctx, family, name) ==
    LET places == (IF name = Unnamed THEN <<>>
                   ELSE <<<<"credentials", name>>>>
                        \o (IF family = "apiKey" THEN <<<<"apiKeys", name>>>> ELSE <<>>))
                  \o <<Flat[family]>>
        usable == {i \in 1..Len(places) :
                      Read(ctx, places[i]) = (IF places[i] = Flat[family] \/ places[i][1] = "credentials"
                                              THEN Shape[family] ELSE "text")}
    IN  IF usable = {} THEN Nothing
        ELSE places[CHOOSE i \in usable : \A j \in usable : i <= j]

\* Whether a path of the configuration is there: at a leaf, or as an object
\* that holds a leaf.
Present(ctx, path) ==
    \E field \in DOMAIN ctx : /\ Len(field) >= Len(path)
                              /\ SubSeq(field, 1, Len(path)) = path
                              /\ field = path => ctx[field] # ""

\* One requirement of a challenge. The flat credential of a family counts
\* only where the challenge leaves no doubt which scheme it is for.
RequirementSatisfied(ctx, req, allowFlat) ==
    CASE req.type \in Families ->
           LET found == CredentialFor(ctx, req.type, req.name)
           IN  found # Nothing /\ (found = Flat[req.type] => allowFlat)
      [] req.type = "config" ->
           /\ Present(ctx, req.path)
           /\ req.enum # {} => Read(ctx, req.path) \in req.enum
      [] OTHER -> FALSE

\* A challenge is a sequence of alternatives, each a set of requirements.
Requirements(alternatives) == UNION {alternatives[i] : i \in DOMAIN alternatives}

\* Counted by occurrence where unnamed and by identity where named.
FlatCredentialIsUnambiguous(alternatives, req) ==
    LET named == {r \in Requirements(alternatives) : r.type = req.type /\ r.name # Unnamed}
        unnamed == {i \in DOMAIN alternatives :
                      \E r \in alternatives[i] : r.type = req.type /\ r.name = Unnamed}
    IN  Cardinality({r.name : r \in named}) + Cardinality(unnamed) = 1

AlternativeSatisfied(ctx, alternatives, i) ==
    /\ alternatives[i] # {}
    /\ \A r \in alternatives[i] :
          RequirementSatisfied(ctx, r, FlatCredentialIsUnambiguous(alternatives, r))

ContextSatisfies(ctx, alternatives) ==
    \E i \in DOMAIN alternatives : AlternativeSatisfied(ctx, alternatives, i)

\* admitApiKey: the entry of that name, and the flat key when there is none.
AdmitApiKey(stored, name) ==
    IF name # Unnamed /\ Read(stored, <<"credentials", name>>) = "text"
    THEN {<<"credentials", name>>}
    ELSE IF name # Unnamed /\ <<"apiKeys", name>> \in DOMAIN stored
    THEN {<<"apiKeys", name>>}
    ELSE {<<"apiKey">>}

\* The fields of the stored context that one requirement lets through.
Admitted(stored, req) ==
    CASE req.type = "apiKey" -> AdmitApiKey(stored, req.name)
      [] req.type = "config" ->
           {f \in DOMAIN stored : Len(f) >= Len(req.path) /\ SubSeq(f, 1, Len(req.path)) = req.path}
      [] req.type \in Families \ {"apiKey"} ->
           IF req.name # Unnamed /\ <<"credentials", req.name>> \in DOMAIN stored
           THEN {<<"credentials", req.name>>}
           ELSE FamilyFields(req.type)
      [] OTHER -> {}

\* scopeContext: what the first satisfied alternative declares, nothing else.
ScopeContext(stored, alternatives) ==
    LET satisfied == {i \in DOMAIN alternatives : AlternativeSatisfied(stored, alternatives, i)}
    IN  IF satisfied = {} THEN Restrict(stored, {})
        ELSE LET chosen == alternatives[CHOOSE i \in satisfied : \A j \in satisfied : i <= j]
             IN  Restrict(stored, DOMAIN stored \intersect
                                  UNION {Admitted(stored, r) : r \in chosen})

\* The store's key for a target: its authority, without a port that only
\* repeats the scheme's default.
NormalizeEndpoint(url) ==
    LET default == IF url.scheme \in {"https", "wss"} THEN "443"
                   ELSE IF url.scheme \in {"http", "ws"} THEN "80" ELSE ""
    IN  <<url.host, IF url.port = default THEN "" ELSE url.port>>

\* storeContextResolver: only alternatives made of durable requirements are
\* answered from the store.
Reusable(alternatives) ==
    SelectSeq(alternatives, LAMBDA alt : alt # {} /\ \A r \in alt : r.durable)

StoreAnswers(store, target, alternatives) ==
    /\ Reusable(alternatives) # <<>>
    /\ NormalizeEndpoint(target) \in DOMAIN store
    /\ ContextSatisfies(store[NormalizeEndpoint(target)], Reusable(alternatives))

StoreAnswer(store, target, alternatives) ==
    ScopeContext(store[NormalizeEndpoint(target)], Reusable(alternatives))
=============================================================================
