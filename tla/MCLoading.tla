------------------------------ MODULE MCLoading ------------------------------
(***************************************************************************)
(* Small scenes for Loading.  Either two calls race for a location whose   *)
(* document changes, with documents of every outcome, or one call loads an *)
(* embedded operation with up to two traits.                               *)
(***************************************************************************)
EXTENDS Traits, TLC

Plain == Object(NoMembers)
Document(admitted, external, sound, declares, traits, operation) ==
  [admitted |-> admitted, external |-> external, sound |-> sound,
   declares |-> declares, traits |-> traits, operation |-> operation]
Outcomes == {Document(a, e, s, FALSE, <<>>, Plain) : a \in BOOLEAN, e \in BOOLEAN, s \in BOOLEAN}
Good == Document(TRUE, TRUE, TRUE, FALSE, <<>>, Plain)
Bad == Document(TRUE, FALSE, FALSE, FALSE, <<>>, Plain)

Sources == {Source(content, located, cached, offline) :
              content \in {<<>>, <<Good>>, <<Bad>>}, located \in {TRUE},
              cached \in BOOLEAN, offline \in BOOLEAN}
           \cup {Source(<<Good>>, FALSE, FALSE, FALSE)}
Races == {[served |-> <<d, Good>>, asks |-> <<s, t>>] : d \in Outcomes, s \in Sources, t \in Sources}

MemberMaps(values) == UNION {[K -> values] : K \in SUBSET Keys}
Small == {Object(m) : m \in MemberMaps({Null, Leaf("x")})}
Operations == {Object(m) : m \in MemberMaps({Null, Leaf("x"), Plain} \cup Small)}
Traits == {Object(("a" :> Leaf("y")) @@ ("b" :> Object("a" :> Leaf("y")))),
           Object(("a" :> Object("b" :> Leaf("y"))) @@ ("b" :> Null)),
           Object("a" :> Object(("a" :> Null) @@ ("b" :> Leaf("y")))),
           Object("b" :> Object(("a" :> Leaf("x")) @@ ("b" :> Leaf("y")))),
           [kind |-> "reference"]}
TraitLists == {<<>>} \cup {<<t>> : t \in Traits} \cup (Traits \X Traits)
Embeddings == {[served |-> <<Good>>,
                asks |-> <<Source(<<Document(TRUE, FALSE, TRUE, TRUE, l, o)>>, FALSE, FALSE, FALSE)>>] :
                 l \in TraitLists, o \in Operations}

MCScenes == Races \cup Embeddings
=============================================================================
