------------------------------- MODULE Loading -------------------------------
(***************************************************************************)
(* Loading documents: AsyncAPIEngine of typescript/src/engine.ts with its  *)
(* cache, parseAsyncAPIDocument of util.ts up to the traits of traits.ts.  *)
(*                                                                         *)
(* A document is what its loading depends on: whether its edition and the  *)
(* positions of its references are admitted, whether it refers to another  *)
(* resource, whether it passes the later checks, and one operation with    *)
(* its traits, which Traits merges.                                        *)
(***************************************************************************)
EXTENDS Naturals, Sequences, SequencesExt

CONSTANTS
  Scenes,  \* what is served and asked: [served: documents, asks: sources]
  MaxCloses \* calls of close (bound)

VARIABLES
  served,  \* the documents that the location comes to serve, the current first
  asks,   \* what each call asks for: see Source
  at,      \* how far each call is
  loaded,  \* the document each call has in hand, as a sequence of at most one
  cache,   \* the engine's cache for the location, likewise
  closes,  \* how often the engine was closed
  fetches, \* history: what was fetched: [by, what, of]
  whole    \* history: the documents that were processed to the end

loadingVars == <<served, asks, at, loaded, cache, closes, fetches, whole>>

\* A source is embedded or named by its location; a call may be restricted to
\* what is cached, or to a document without external references.
Source(content, located, cached, offline) ==
  [content |-> content, located |-> located, cached |-> cached, offline |-> offline]

\* assertOperation: an operation with a trait that no reference led to is not
\* there for a call.
Usable(doc) == \A i \in DOMAIN doc.traits : doc.traits[i].kind # "reference"
-----------------------------------------------------------------------------
LoadingInit ==
  /\ \E scene \in Scenes : served = scene.served /\ asks = scene.asks
  /\ at = [c \in DOMAIN asks |-> "called"]
  /\ loaded = [c \in DOMAIN asks |-> <<>>]
  /\ cache = <<>> /\ closes = 0 /\ fetches = {} /\ whole = {}

Offline(c) == asks[c].offline \/ asks[c].cached
Becomes(c, stage) == at' = [at EXCEPT ![c] = stage]
Fetched(c, what, doc) == fetches' = fetches \cup {[by |-> c, what |-> what, of |-> doc]}

\* Mutant of Admit: references are followed before the edition is known.
AdmitComposed(c, doc) ==
  /\ Becomes(c, IF doc.external THEN "composing" ELSE IF doc.admitted THEN "finishing" ELSE "failed")
  /\ loaded' = [loaded EXCEPT ![c] = <<doc>>]

\* discriminateAsyncAPIEdition and validateReferenceAdmission, before any
\* reference is followed.
Admit(c, doc) ==
  /\ Becomes(c, IF ~doc.admitted THEN "failed" ELSE IF doc.external THEN "composing" ELSE "finishing")
  /\ loaded' = [loaded EXCEPT ![c] = <<doc>>]

\* prepareCached parses embedded content by itself, prepare in load: both
\* without a fetch of the document.
Embedded(c) ==
  /\ at[c] = "called" /\ asks[c].content # <<>>
  /\ Admit(c, asks[c].content[1])
  /\ UNCHANGED <<served, asks, cache, closes, fetches, whole>>

\* A document of the location is looked up first.
Named(c) ==
  /\ at[c] = "called" /\ asks[c].content = <<>> /\ asks[c].located
  /\ loaded' = [loaded EXCEPT ![c] = cache]
  /\ Becomes(c, IF cache = <<>> THEN (IF asks[c].cached THEN "absent" ELSE "fetching")
                ELSE IF Usable(cache[1]) THEN "prepared" ELSE "failed")
  /\ UNCHANGED <<served, asks, cache, closes, fetches, whole>>

\* fetchFn, or rejectNetworkFetch, which refuses.
FetchAnswers(c) ==
  /\ at[c] = "fetching" /\ ~Offline(c)
  /\ Fetched(c, "document", Head(served))
  /\ Admit(c, Head(served))
  /\ UNCHANGED <<served, asks, cache, closes, whole>>

\* The pass before normalization, which fetches what the document refers to.
CompositionAnswers(c) ==
  /\ at[c] = "composing" /\ ~Offline(c)
  /\ Fetched(c, "resource", loaded[c][1])
  /\ Becomes(c, IF loaded[c][1].admitted THEN "finishing" ELSE "failed")
  /\ UNCHANGED <<served, asks, loaded, cache, closes, whole>>

LoadFails(c) ==
  /\ at[c] \in {"fetching", "composing"}
  /\ Becomes(c, "failed")
  /\ UNCHANGED <<served, asks, loaded, cache, closes, fetches, whole>>

\* Mutant of FinishLoading: a document is cached though a later check refuses it.
FinishCaching(c) ==
  /\ at[c] = "finishing"
  /\ LET doc == loaded[c][1]
     IN /\ Becomes(c, IF doc.sound /\ Usable(doc) THEN "prepared" ELSE "failed")
        /\ whole' = IF doc.sound THEN whole \cup {doc} ELSE whole
        /\ cache' = IF asks[c].located /\ ~asks[c].cached THEN <<doc>> ELSE cache
  /\ UNCHANGED <<served, asks, loaded, closes, fetches>>

\* Normalization, the fixed fields, the references, the document's title and
\* version, its traits; then load remembers it under its location.
FinishLoading(c) ==
  /\ at[c] = "finishing"
  /\ LET doc == loaded[c][1]
     IN IF doc.sound
        THEN /\ Becomes(c, IF Usable(doc) THEN "prepared" ELSE "failed")
             /\ whole' = whole \cup {doc}
             /\ cache' = IF asks[c].located /\ ~asks[c].cached THEN <<doc>> ELSE cache
        ELSE Becomes(c, "failed") /\ UNCHANGED <<whole, cache>>
  /\ UNCHANGED <<served, asks, loaded, closes, fetches>>

CloseEngine ==
  /\ closes < MaxCloses
  /\ closes' = closes + 1
  /\ cache' = <<>>
  /\ UNCHANGED <<served, asks, at, loaded, fetches, whole>>

LocationChanges ==
  /\ Len(served) > 1
  /\ served' = Tail(served)
  /\ UNCHANGED <<asks, at, loaded, cache, closes, fetches, whole>>

LoadingNext ==
  \/ \E c \in DOMAIN asks : \/ Embedded(c) \/ Named(c) \/ FetchAnswers(c) \/ CompositionAnswers(c)
                             \/ LoadFails(c) \/ FinishLoading(c)
  \/ CloseEngine \/ LocationChanges

LoadingSpec == LoadingInit /\ [][LoadingNext]_loadingVars
-----------------------------------------------------------------------------
\* "An unsupported edition must refuse deterministically without fetching a
\* closure that this binding will never interpret" (util.ts:351-353), and a call
\* restricted to what it has fetches nothing.
FetchesAreAdmitted ==
  \A f \in fetches : /\ f.what = "resource" => f.of.admitted
                     /\ ~Offline(f.by)

\* Whoever shares the cache, a call that succeeds has one document, which passed
\* every check and whose operation is there; a load that fails leaves nothing
\* behind for the next.
PreparedIsWhole ==
  /\ ToSet(cache) \subseteq whole
  /\ \A c \in DOMAIN asks :
        at[c] = "prepared" => \E doc \in whole : loaded[c] = <<doc>> /\ Usable(doc)
=============================================================================
