--------------------------- MODULE MCPreparation ---------------------------
(***************************************************************************)
(* Small documents, contexts and stores for Preparation. Two families: one *)
(* varies the declared security and the credentials at a fixed target, the *)
(* other the servers, variables and address parameters of an operation     *)
(* without security.                                                       *)
(*                                                                         *)
(* A behaviour is of one of the three parts of what a call does before its *)
(* lane begins: Loading, with the scenes of MCLoading, Deref, with the     *)
(* documents of MCDeref, or Preparation. The other parts stay as they are. *)
(***************************************************************************)
EXTENDS Preparation, MCDeref, MCLoading

MCVariable == {"v", "w", "p", "q"}
MCParsed == ("http://u" :> [scheme |-> "http", host |-> <<"u">>, port |-> "80"])
            @@ ("ws://u" :> [scheme |-> "ws", host |-> <<"u">>, port |-> ""])

None == [field \in {} |-> ""]
Var(enum, default) == [enum |-> enum, default |-> default]
Param(location, enum, default) == [location |-> location, enum |-> enum, default |-> default]
Server(protocol, tokens, variables, security) ==
    [protocol |-> protocol, host |-> tokens, port |-> "", variables |-> variables, security |-> security]
Channel(servers, tokens, parameters) ==
    [servers |-> servers, address |-> tokens, parameters |-> parameters]
Doc(servers, channel, action, security, reply) ==
    [servers |-> servers, order |-> <<"s", "t">>, channel |-> channel, action |-> action,
     security |-> security, reply |-> reply]
Case(d, c, k) == [doc |-> d, ctx |-> c, store |-> k]

\* Security: a bearer, a basic, an OAuth2 and three API key schemes, two of
\* which write the same field, and one no credential answers.
Scheme(type, name, in, field) == [type |-> type, name |-> name, in |-> in, field |-> field]
Bearer == Scheme("httpBearer", "B", "header", "")
Basic == Scheme("http.basic", "U", "header", "")
OAuth == Scheme("oauth2", "O", "header", "")
Key1 == Scheme("httpApiKey", "K", "header", "x-key")
Key2 == Scheme("httpApiKey", "L", "header", "x-key")
Key3 == Scheme("httpApiKey", "M", "query", "key")
Cookie == Scheme("httpApiKey", "C", "cookie", "sid")
Other == Scheme("openIdConnect", "I", "header", "")
Inline == Scheme("httpBearer", Unnamed, "header", "")
Broker == Scheme("userPassword", "P", "", "")

Lists == {<<>>, <<Bearer>>, <<Key1, Key2>>, <<Basic, Key3>>, <<OAuth>>, <<Other, Cookie>>,
          <<Key2, Key3>>, <<Inline>>, <<Broker>>}
\* An unnamed scheme is paired here with no list that leaves it in doubt.
Security(server, operation) ==
    Doc("s" :> Server("ws", <<"h">>, None, server),
        Channel(<<>>, <<"a">>, None), "receive", operation, <<>>)
Secured == {Security(l[1], l[2]) : l \in {m \in Lists \X Lists :
                \A i \in {1, 2} : m[i] = <<Inline>> => m[3 - i] \in {<<>>, <<Inline>>, <<OAuth>>}}}

Credentials == {None,
                <<"bearerToken">> :> "text",
                <<"apiKey">> :> "text",
                (<<"basic">> :> "pair") @@ (<<"bearerToken">> :> "text"),
                (<<"accessToken">> :> "token") @@ (<<"apiKey">> :> "text"),
                (<<"credentials", "K">> :> "text") @@ (<<"apiKeys", "M">> :> "text"),
                (<<"apiKeys", "L">> :> "text") @@ (<<"headers", "authorization">> :> "text"),
                (<<"credentials", "K">> :> "text") @@ (<<"wsQuery", "key">> :> "text")}
Kept == {None,
         (<<"credentials", "B">> :> "text") @@ (<<"apiKey">> :> "text") @@ (<<"basic">> :> "pair"),
         (<<"bearerToken">> :> "text") @@ (<<"accessToken">> :> "token") @@ (<<"refreshToken">> :> "text")
            @@ (<<"apiKeys", "K">> :> "text") @@ (<<"credentials", "M">> :> "text")}
SecurityCases == {Case(d, c, <<<<"h">>, "">> :> k) : d \in Secured, c \in Credentials, k \in Kept}

\* Targets.
PlainWs(tokens) == Server("ws", tokens, None, <<>>)
Variables == {"v" :> Var({}, "a"),
              "v" :> Var({"a", "b"}, ""),
              ("v" :> Var({"b"}, "b")) @@ ("w" :> Var({}, ""))}
ServerMaps == {None, "s" :> PlainWs(<<"h">>), "s" :> Server("mqtt", <<"h">>, None, <<>>),
               ("s" :> PlainWs(<<"h">>)) @@ ("t" :> Server("http", <<"g">>, None, <<>>)),
               ("s" :> PlainWs(<<"h">>)) @@ ("t" :> Server("", <<"g">>, None, <<>>))}
              \union {"s" :> Server("http", t, vs, <<>>) :
                         t \in {<<"v">>, <<"h", "v", "w", "v">>}, vs \in Variables}
Parameters == {"p" :> Param("", {}, "a"), "p" :> Param("", {"a"}, ""), "p" :> Param("x", {}, ""),
               ("p" :> Param("", {}, "")) @@ ("q" :> Param("", {"b", "v"}, "b")),
               ("p" :> Param("x", {"a"}, "")) @@ ("q" :> Param("", {}, ""))}
Channels == {Channel(<<>>, <<>>, None), Channel(<<"t", "s">>, <<"a">>, None),
             Channel(<<"s">>, <<"a">>, None), Channel(<<"z">>, <<"a", "p">>, None)}
            \union {Channel(<<>>, t, ps) : t \in {<<"a", "p">>, <<"p", "q", "p">>}, ps \in Parameters}
Replies == {<<>>, <<Channel(<<>>, <<"r">>, None)>>, <<Channel(<<"t">>, <<"r">>, None)>>,
            <<Channel(<<>>, <<>>, None)>>}
Targets == {Doc(m, c, a, <<>>, <<>>) : m \in ServerMaps, c \in Channels, a \in {"receive", "send"}}
           \union {Doc(m, Channel(<<>>, <<"a">>, None), "receive", <<>>, r) :
                      m \in ServerMaps, r \in Replies}

\* A value that is a Variable spells an expression of its own; a value that is
\* a Pattern is interpreted in a host and encoded in an address.
Configurations == {None,
                   <<"server", "key">> :> "t",
                   (<<"server", "key">> :> "s") @@ (<<"server", "url">> :> "ws://u"),
                   <<"server", "url">> :> "http://u",
                   <<"server", "url">> :> "nonsense",
                   <<"baseURL">> :> "ws://u",
                   (<<"server", "variables", "v">> :> "b") @@ (<<"parameters", "p">> :> "a"),
                   (<<"server", "variables", "w">> :> "a") @@ (<<"parameters", "p">> :> "q"),
                   (<<"server", "variables", "v">> :> "w") @@ (<<"server", "variables", "w">> :> "b"),
                   (<<"address", "parameters", "p">> :> "b") @@ (<<"parameters", "p">> :> "a"),
                   (<<"address", "parameters", "p">> :> "a") @@ (<<"parameters", "q">> :> "v"),
                   (<<"server", "variables", "v">> :> "$$") @@ (<<"parameters", "p">> :> "$&"),
                   (<<"server", "variables", "w">> :> "$after") @@ (<<"parameters", "p">> :> "$before"),
                   <<"address", "address">> :> "c"}
Remembered == {None, <<"server", "key">> :> "s"}
TargetCases == {Case(d, c, <<<<"source">>, "">> :> k) :
                   d \in Targets, c \in Configurations, k \in Remembered}

MCCases == SecurityCases \union TargetCases
MCInputs == {[absent |-> TRUE, envelope |-> FALSE, params |-> None, payload |-> None],
             [absent |-> FALSE, envelope |-> FALSE, params |-> None, payload |-> "x" :> "a"],
             [absent |-> FALSE, envelope |-> TRUE, params |-> "p" :> "b", payload |-> None],
             [absent |-> FALSE, envelope |-> TRUE, params |-> "q" :> "b", payload |-> "x" :> "a"]}
-----------------------------------------------------------------------------
VARIABLE part

\* The parts a behaviour does not take stay as here.
NothingLoads ==
    /\ served = <<>> /\ asks = <<>> /\ at = <<>> /\ loaded = <<>> /\ cache = <<>>
    /\ closes = 0 /\ fetches = {} /\ whole = {}
NothingDereferences ==
    /\ heap = Graph(NoForm, NoForm, NoForm, NoForm) /\ preserve = FALSE
    /\ resolved = <<>> /\ ownerKey = <<>> /\ requested = {} /\ known = {} /\ stack = <<>>
    /\ now = [op |-> "go", node |-> NoNode] /\ outcome = "unused"
NothingPrepares ==
    /\ doc = Security(<<>>, <<>>) /\ ctx = None /\ store = (<<<<"h">>, "">> :> None) /\ Fresh

MCInit ==
    \/ part = "loading" /\ LoadingInit /\ NothingDereferences /\ NothingPrepares
    \/ part = "dereferencing" /\ DerefInit /\ NothingLoads /\ NothingPrepares
    \/ part = "preparation" /\ PreparationInit /\ NothingLoads /\ NothingDereferences

LoadingStep == part = "loading" /\ LoadingNext /\ UNCHANGED <<preparationVars, derefVars, part>>
DereferencingStep == part = "dereferencing" /\ DerefNext /\ UNCHANGED <<preparationVars, loadingVars, part>>
PreparationStep == part = "preparation" /\ PreparationNext /\ UNCHANGED <<loadingVars, derefVars, part>>

mcVars == <<preparationVars, loadingVars, derefVars, part>>
MCSpec ==
    /\ MCInit
    /\ [][LoadingStep \/ DereferencingStep \/ PreparationStep]_mcVars
    /\ WF_mcVars(DereferencingStep)
=============================================================================
