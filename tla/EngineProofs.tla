---------------------------- MODULE EngineProofs ----------------------------
(***************************************************************************)
(* What the TypeScript engine does with a call, from its document to the   *)
(* end of its lane, for all documents, contexts, cells and bounds.         *)
(*                                                                         *)
(* Four specifications, each with an inductive invariant: Loading, from    *)
(* which a call has its document; Deref, which replaces its references;    *)
(* Preparation, which decides where it goes and with what; and Lanes,      *)
(* which carries it.  They share no variable.                              *)
(***************************************************************************)
EXTENDS Lanes, Preparation, Loading, Deref, FiniteSetTheorems, SequenceTheorems, TLAPS

-----------------------------------------------------------------------------
(* Loading.                                                                *)

\* A call in the middle of its load has one document in hand, an admitted one
\* from the moment its references are followed; a call that ended well has one
\* that was processed to the end, as has the cache.
LoadInv ==
  /\ at = [c \in DOMAIN asks |-> at[c]] /\ loaded = [c \in DOMAIN asks |-> loaded[c]]
  /\ \A c \in DOMAIN asks : at[c] = "composing" => loaded[c][1].admitted
  /\ \A c \in DOMAIN asks : at[c] \in {"composing", "finishing"} => \E d : loaded[c] = <<d>>
  /\ \A c \in DOMAIN asks :
        at[c] = "prepared" => \E d \in whole : loaded[c] = <<d>> /\ Usable(d)
  /\ cache = <<>> \/ \E d \in whole : cache = <<d>>
  /\ FetchesAreAdmitted

\* What a step of one call leaves of the others.
LEMMA OtherCalls ==
  ASSUME LoadInv, NEW c \in DOMAIN asks, NEW to, NEW inHand, UNCHANGED asks,
         at' = [at EXCEPT ![c] = to], loaded' = [loaded EXCEPT ![c] = inHand]
  PROVE  /\ at'[c] = to /\ loaded'[c] = inHand
         /\ \A k \in DOMAIN asks \ {c} : at'[k] = at[k] /\ loaded'[k] = loaded[k]
         /\ at' = [k \in DOMAIN asks' |-> at'[k]] /\ loaded' = [k \in DOMAIN asks' |-> loaded'[k]]
BY DEF LoadInv

\* A call that comes to a document, embedded or fetched.
LEMMA Admission ==
  ASSUME LoadInv, NEW c \in DOMAIN asks, NEW d, Admit(c, d), UNCHANGED <<asks, cache, whole>>,
         FetchesAreAdmitted'
  PROVE  LoadInv'
<1>1. PICK to \in {"failed", "composing", "finishing"} :
         at' = [at EXCEPT ![c] = to] /\ (to = "composing" => d.admitted)
  BY DEF Admit, Becomes
<1>2. loaded' = [loaded EXCEPT ![c] = <<d>>]
  BY DEF Admit
<1>3. /\ at'[c] = to /\ loaded'[c] = <<d>>
      /\ \A k \in DOMAIN asks \ {c} : at'[k] = at[k] /\ loaded'[k] = loaded[k]
      /\ at' = [k \in DOMAIN asks' |-> at'[k]] /\ loaded' = [k \in DOMAIN asks' |-> loaded'[k]]
  BY <1>1, <1>2, OtherCalls
<1>4. QED
  BY <1>1, <1>3 DEF LoadInv

LEMMA LoadInitially == LoadingInit => LoadInv
BY DEF LoadingInit, LoadInv, FetchesAreAdmitted

LEMMA LoadStep == LoadInv /\ [LoadingNext]_loadingVars => LoadInv'
<1> SUFFICES ASSUME LoadInv, [LoadingNext]_loadingVars PROVE LoadInv'
  OBVIOUS
<1>1. ASSUME NEW c \in DOMAIN asks, Embedded(c) PROVE LoadInv'
  <2>1. FetchesAreAdmitted'
    BY <1>1 DEF Embedded, LoadInv, FetchesAreAdmitted, Offline
  <2>2. QED
    BY <1>1, <2>1, Admission DEF Embedded
<1>2. ASSUME NEW c \in DOMAIN asks, Named(c) PROVE LoadInv'
  <2>1. FetchesAreAdmitted'
    BY <1>2 DEF Named, LoadInv, FetchesAreAdmitted, Offline
  <2>2. PICK to \in {"absent", "fetching", "prepared", "failed"} :
          /\ at' = [at EXCEPT ![c] = to]
          /\ to = "prepared" => cache # <<>> /\ Usable(cache[1])
    BY <1>2 DEF Named, Becomes
  <2>3. loaded' = [loaded EXCEPT ![c] = cache] /\ UNCHANGED <<asks, cache, whole>>
    BY <1>2 DEF Named
  <2>4. /\ at'[c] = to /\ loaded'[c] = cache
        /\ \A k \in DOMAIN asks \ {c} : at'[k] = at[k] /\ loaded'[k] = loaded[k]
        /\ at' = [k \in DOMAIN asks' |-> at'[k]] /\ loaded' = [k \in DOMAIN asks' |-> loaded'[k]]
    BY <2>2, <2>3, OtherCalls
  <2>5. to = "prepared" => \E d \in whole : cache = <<d>> /\ Usable(d)
    BY <2>2 DEF LoadInv
  <2>6. /\ \A k \in DOMAIN asks : at'[k] = "composing" => loaded'[k][1].admitted
        /\ \A k \in DOMAIN asks : at'[k] \in {"composing", "finishing"} => \E d : loaded'[k] = <<d>>
    BY <2>2, <2>4 DEF LoadInv
  <2>7. \A k \in DOMAIN asks : at'[k] = "prepared" => \E d \in whole : loaded'[k] = <<d>> /\ Usable(d)
    BY <2>4, <2>5 DEF LoadInv
  <2>8. QED
    BY <2>1, <2>3, <2>4, <2>6, <2>7 DEF LoadInv
<1>3. ASSUME NEW c \in DOMAIN asks, FetchAnswers(c) PROVE LoadInv'
  <2>1. FetchesAreAdmitted'
    BY <1>3 DEF FetchAnswers, Fetched, LoadInv, FetchesAreAdmitted, Offline
  <2>2. QED
    BY <1>3, <2>1, Admission DEF FetchAnswers
<1>4. ASSUME NEW c \in DOMAIN asks, CompositionAnswers(c) PROVE LoadInv'
  <2>1. FetchesAreAdmitted'
    <3>1. loaded[c][1].admitted /\ ~Offline(c)
      BY <1>4 DEF CompositionAnswers, LoadInv
    <3>2. fetches' = fetches \cup {[by |-> c, what |-> "resource", of |-> loaded[c][1]]} /\ asks' = asks
      BY <1>4 DEF CompositionAnswers, Fetched
    <3>3. QED
      BY <3>1, <3>2 DEF LoadInv, FetchesAreAdmitted, Offline
  <2>2. PICK to \in {"finishing", "failed"} : at' = [at EXCEPT ![c] = to]
    BY <1>4 DEF CompositionAnswers, Becomes
  <2>3. UNCHANGED <<asks, loaded, cache, whole>> /\ \E d : loaded[c] = <<d>>
    BY <1>4 DEF CompositionAnswers, LoadInv
  <2>4. loaded' = [loaded EXCEPT ![c] = loaded[c]]
    BY <2>3 DEF LoadInv
  <2>5. /\ at'[c] = to
        /\ \A k \in DOMAIN asks \ {c} : at'[k] = at[k]
        /\ at' = [k \in DOMAIN asks' |-> at'[k]]
    BY <2>2, <2>3, <2>4, OtherCalls
  <2>6. QED
    BY <2>1, <2>3, <2>5 DEF LoadInv
<1>5. ASSUME NEW c \in DOMAIN asks, LoadFails(c) PROVE LoadInv'
  <2>1. FetchesAreAdmitted'
    BY <1>5 DEF LoadFails, LoadInv, FetchesAreAdmitted, Offline
  <2>2. at' = [at EXCEPT ![c] = "failed"] /\ UNCHANGED <<asks, loaded, cache, whole>>
    BY <1>5 DEF LoadFails, Becomes
  <2>3. QED
    BY <2>1, <2>2 DEF LoadInv
<1>6. ASSUME NEW c \in DOMAIN asks, FinishLoading(c) PROVE LoadInv'
  <2>1. FetchesAreAdmitted'
    BY <1>6 DEF FinishLoading, LoadInv, FetchesAreAdmitted, Offline
  <2>2. PICK d : loaded[c] = <<d>>
    BY <1>6 DEF FinishLoading, LoadInv
  <2>3. loaded[c][1] = d
    BY <2>2
  <2>4. CASE d.sound
    <3>1. PICK to \in {"prepared", "failed"} :
            at' = [at EXCEPT ![c] = to] /\ (to = "prepared" => Usable(d))
      BY <1>6, <2>3, <2>4 DEF FinishLoading, Becomes
    <3>2. whole' = whole \cup {d} /\ (cache' = <<d>> \/ cache' = cache) /\ UNCHANGED <<asks, loaded>>
      BY <1>6, <2>3, <2>4 DEF FinishLoading
    <3>3. /\ at'[c] = to /\ \A k \in DOMAIN asks \ {c} : at'[k] = at[k]
          /\ at' = [k \in DOMAIN asks' |-> at'[k]]
      BY <3>1, <3>2 DEF LoadInv
    <3>4. \A k \in DOMAIN asks' :
             at'[k] = "prepared" => \E e \in whole' : loaded'[k] = <<e>> /\ Usable(e)
      BY <2>2, <3>1, <3>2, <3>3 DEF LoadInv
    <3>5. cache' = <<>> \/ \E e \in whole' : cache' = <<e>>
      BY <3>2 DEF LoadInv
    <3>6. QED
      BY <2>1, <3>1, <3>2, <3>3, <3>4, <3>5 DEF LoadInv
  <2>5. CASE ~d.sound
    <3>1. at' = [at EXCEPT ![c] = "failed"] /\ UNCHANGED <<asks, loaded, cache, whole>>
      BY <1>6, <2>3, <2>5 DEF FinishLoading, Becomes
    <3>2. QED
      BY <2>1, <3>1 DEF LoadInv
  <2>6. QED
    BY <2>4, <2>5
<1>7. ASSUME CloseEngine \/ LocationChanges \/ UNCHANGED loadingVars PROVE LoadInv'
  <2>1. UNCHANGED <<asks, at, loaded, fetches, whole>> /\ (cache' = <<>> \/ cache' = cache)
    BY <1>7 DEF CloseEngine, LocationChanges, loadingVars
  <2>2. QED
    BY <2>1 DEF LoadInv, FetchesAreAdmitted, Offline
<1>8. QED
  BY <1>1, <1>2, <1>3, <1>4, <1>5, <1>6, <1>7 DEF LoadingNext

LEMMA LoadInvariant == LoadingSpec => []LoadInv
BY LoadInitially, LoadStep, PTL DEF LoadingSpec

\* No reference of a document is followed before its edition and the positions
\* of its references are admitted, and no restricted call fetches anything.
THEOREM AdmittedFetches == LoadingSpec => []FetchesAreAdmitted
<1>1. LoadInv => FetchesAreAdmitted
  BY DEF LoadInv
<1>2. QED
  BY <1>1, LoadInvariant, PTL

\* Whatever calls race for a location, and whenever the engine is closed, a call
\* that succeeds has a document that passed every check.
THEOREM WholePrepared == LoadingSpec => []PreparedIsWhole
<1>1. LoadInv => PreparedIsWhole
  <2>1. \A d : ToSet(<<d>>) = {d}
    BY DEF ToSet
  <2>2. ToSet(<<>>) = {}
    BY DEF ToSet
  <2>3. QED
    BY <2>1, <2>2 DEF LoadInv, PreparedIsWhole
<1>2. QED
  BY <1>1, LoadInvariant, PTL
-----------------------------------------------------------------------------
(* Induction, and what replacing expressions comes to.                     *)

\* A set of numbers has a least one, as < is well-founded.
LEMMA LeastNatural ==
  ASSUME NEW T \in SUBSET Nat, T # {}
  PROVE  \E n \in T : \A m \in T : n <= m
<1>1. IsWellFoundedOn(OpToRel(<, Nat), Nat)
  BY NatLessThanWellFounded
<1> DEFINE R == OpToRel(<, Nat)
<1>2. \A m, n \in Nat : m < n => <<m, n>> \in R
  BY DEF OpToRel
<1> HIDE DEF R
<1>3. IsWellFoundedOn(R, Nat)
  BY <1>1 DEF R
<1>4. \E n \in T : \A m \in T : ~(<<m, n>> \in R)
  BY <1>3, WFMin
<1>5. PICK n \in T : \A m \in T : ~(<<m, n>> \in R)
  BY <1>4
<1>6. \A m \in T : m \in Nat /\ n \in Nat /\ ~(m < n)
  BY <1>2, <1>5
<1>7. \A m \in T : n <= m
  BY <1>6
<1>8. QED
  BY <1>5, <1>7

\* Induction, for the set of the numbers that have a property: it needs no
\* operator for the property.
LEMMA SetInduction ==
  ASSUME NEW T \in SUBSET Nat, 0 \in T, \A n \in T : n + 1 \in T
  PROVE  T = Nat
<1> SUFFICES ASSUME Nat \ T # {} PROVE FALSE
  OBVIOUS
<1>1. PICK n \in Nat \ T : \A m \in Nat \ T : n <= m
  BY LeastNatural
<1>2. n # 0 /\ n - 1 \in Nat /\ n - 1 \in T
  BY <1>1
<1>3. (n - 1) + 1 \in T
  BY <1>2
<1>4. QED
  BY <1>1, <1>3

\* The templates that replacing one expression after the other goes through.
IsExpansion(out, template, value) ==
  /\ Expanded(template, value) = out[Len(template)]
  /\ out[0] = template
  /\ \A n \in 1 .. Len(template) :
        out[n] = IF n \in TemplateExpressions(template)
                 THEN Substitute(out[n - 1], template[n], value[n]) ELSE out[n - 1]

\* Replacing one expression after the other gives a sequence of templates, each
\* from the one before.
LEMMA ExpansionSteps ==
  ASSUME NEW template, Len(template) \in Nat, NEW value
  PROVE  \E out : IsExpansion(out, template, value)
<1> DEFINE L == Len(template)
           After(n, before) == IF n \in TemplateExpressions(template)
                               THEN Substitute(before, template[n], value[n]) ELSE before
           IsStart(k, out) == out = [n \in 0 .. k |-> IF n = 0 THEN template ELSE After(n, out[n - 1])]
           T == {k \in Nat : \E out : IsStart(k, out)}
<1>1. 0 \in T
  <2>1. IsStart(0, [n \in 0 .. 0 |-> template])
    OBVIOUS
  <2>2. QED
    BY <2>1
<1>2. ASSUME NEW k \in T PROVE k + 1 \in T
  <2>1. PICK out : IsStart(k, out)
    OBVIOUS
  <2> HIDE DEF After
  <2> DEFINE next == [n \in 0 .. (k + 1) |-> IF n = k + 1 THEN After(n, out[k]) ELSE out[n]]
  <2>2. k \in Nat /\ \A n \in 0 .. k : next[n] = out[n]
    OBVIOUS
  <2>3. next[k + 1] = After(k + 1, next[k])
    BY <2>2
  <2>4. \A n \in 0 .. k : out[n] = IF n = 0 THEN template ELSE After(n, out[n - 1])
    BY <2>1
  <2>5. \A n \in 0 .. (k + 1) : next[n] = IF n = 0 THEN template ELSE After(n, next[n - 1])
    <3> SUFFICES ASSUME NEW n \in 0 .. (k + 1)
                 PROVE  next[n] = IF n = 0 THEN template ELSE After(n, next[n - 1])
      OBVIOUS
    <3>1. CASE n = k + 1
      BY <2>2, <2>3, <3>1
    <3>2. CASE n = 0
      BY <2>2, <2>4, <3>2
    <3>3. CASE n \in 1 .. k
      <4>1. n - 1 \in 0 .. k /\ n \in 0 .. k /\ n # 0
        BY <2>2, <3>3
      <4>2. QED
        BY <2>2, <2>4, <4>1
    <3>4. QED
      BY <2>2, <3>1, <3>2, <3>3
  <2>6. IsStart(k + 1, next)
    BY <2>5
  <2> HIDE DEF next, IsStart
  <2>7. QED
    BY <2>2, <2>6
<1>3. T = Nat
  <2> HIDE DEF IsStart
  <2>1. T \in SUBSET Nat
    OBVIOUS
  <2> HIDE DEF T
  <2>2. QED
    BY <1>1, <1>2, <2>1, SetInduction
<1>4. \E out : IsStart(L, out)
  BY <1>3
<1> DEFINE chosen == CHOOSE out : IsStart(L, out)
<1>5. IsStart(L, chosen)
  BY <1>4
<1>6. Expanded(template, value) = chosen[L]
  BY DEF Expanded
<1> HIDE DEF chosen
<1>7. \A n \in 0 .. L : chosen[n] = IF n = 0 THEN template ELSE After(n, chosen[n - 1])
  BY <1>5
<1>8. chosen[0] = template /\ \A n \in 1 .. L : chosen[n] = After(n, chosen[n - 1])
  BY <1>7
<1>9. IsExpansion(chosen, template, value)
  BY <1>6, <1>8 DEF IsExpansion
<1>10. QED
  BY <1>9

\* Every expression of a template has a first place.
LEMMA FirstPlace ==
  ASSUME NEW template, IsSequence(template),
         NEW i \in DOMAIN template, template[i] \in Variable
  PROVE  \E m \in TemplateExpressions(template) : template[m] = template[i]
<1> DEFINE T == {j \in DOMAIN template : template[j] = template[i]}
<1>1. DOMAIN template = 1 .. Len(template) /\ Len(template) \in Nat
  BY DEF IsSequence
<1>2. T \in SUBSET Nat /\ T # {}
  BY <1>1
<1>3. PICK m \in T : \A j \in T : m <= j
  <2> HIDE DEF T
  <2>1. QED
    BY <1>2, LeastNatural
<1>4. m \in DOMAIN template /\ template[m] = template[i] /\ m \in 1 .. Len(template)
  BY <1>1
<1>5. ASSUME NEW j \in 1 .. (m - 1) PROVE template[j] # template[m]
  BY <1>1, <1>3, <1>4
<1>6. QED
  BY <1>4, <1>5 DEF TemplateExpressions

\* What the replacement leaves: a template of the same length, in which what was
\* no expression stands and every expression has its value, unless the value
\* spells an expression that comes after it. No value may be a pattern.
LEMMA Expansion ==
  ASSUME NEW template, IsSequence(template), NEW value,
         \A m \in TemplateExpressions(template) : value[m] \notin Pattern
  PROVE  /\ Len(Expanded(template, value)) = Len(template)
         /\ DOMAIN Expanded(template, value) = DOMAIN template
         /\ \A i \in DOMAIN template :
               template[i] \notin Variable => Expanded(template, value)[i] = template[i]
         /\ \A i \in DOMAIN template : \A m \in TemplateExpressions(template) :
               template[m] = template[i] /\ value[m] \notin Variable
                  => Expanded(template, value)[i] = value[m]
<1> DEFINE L == Len(template)
           S == Range(template) \union {value[m] : m \in TemplateExpressions(template)}
<1>1. L \in Nat /\ DOMAIN template = 1 .. L /\ \A i \in 1 .. L : template[i] \in S
  BY DEF IsSequence, Range
<1>2. /\ TemplateExpressions(template) \subseteq 1 .. L
      /\ \A m \in TemplateExpressions(template) : value[m] \in S /\ template[m] \in Variable
  BY <1>1 DEF TemplateExpressions
<1>3. \A m, n \in TemplateExpressions(template) : template[m] = template[n] => m = n
  BY <1>1 DEF TemplateExpressions
<1>4a. PICK out : IsExpansion(out, template, value)
  BY <1>1, ExpansionSteps
<1>4. /\ Expanded(template, value) = out[L]
      /\ out[0] = template
      /\ \A n \in 1 .. L : out[n] = IF n \in TemplateExpressions(template)
                                    THEN Substitute(out[n - 1], template[n], value[n]) ELSE out[n - 1]
  BY <1>4a DEF IsExpansion
<1> DEFINE Kept(n) == \A i \in 1 .. L : template[i] \notin Variable => out[n][i] = template[i]
           Waiting(n) == \A i \in 1 .. L : \A m \in TemplateExpressions(template) :
                            template[m] = template[i] /\ n < m => out[n][i] = template[i]
           Given(n) == \A i \in 1 .. L : \A m \in TemplateExpressions(template) :
                          template[m] = template[i] /\ m <= n /\ value[m] \notin Variable
                             => out[n][i] = value[m]
           T == {n \in Nat : n <= L => out[n] \in [1 .. L -> S] /\ Kept(n) /\ Waiting(n) /\ Given(n)}
<1>5. template = [i \in 1 .. L |-> template[i]]
  BY <1>1 DEF IsSequence
<1> HIDE DEF L, S
<1>6. 0 \in T
  BY <1>1, <1>2, <1>4, <1>5
<1>7. ASSUME NEW n \in T PROVE n + 1 \in T
  <2> SUFFICES ASSUME n + 1 <= L
               PROVE  out[n + 1] \in [1 .. L -> S] /\ Kept(n + 1) /\ Waiting(n + 1) /\ Given(n + 1)
    OBVIOUS
  <2>1. n \in Nat /\ n + 1 \in 1 .. L /\ (n + 1) - 1 = n
    BY <1>1
  <2>2. out[n] \in [1 .. L -> S] /\ Kept(n) /\ Waiting(n) /\ Given(n)
    BY <1>1, <2>1
  <2> HIDE DEF T
  <2>3. CASE n + 1 \notin TemplateExpressions(template)
    <3>1. out[n + 1] = out[n]
      BY <1>4, <2>1, <2>3
    <3>2. \A m \in TemplateExpressions(template) : m \in Nat /\ (m <= n + 1 => m <= n)
      BY <1>1, <1>2, <2>1, <2>3
    <3>3. QED
      BY <1>1, <2>1, <2>2, <3>1, <3>2
  <2>4. CASE n + 1 \in TemplateExpressions(template)
    <3>1. out[n + 1] = [i \in 1 .. L |-> IF out[n][i] = template[n + 1] THEN value[n + 1] ELSE out[n][i]]
      <4>1. out[n + 1] = Substitute(out[n], template[n + 1], value[n + 1])
        BY <1>4, <2>1, <2>4
      <4>2. DOMAIN out[n] = 1 .. L /\ value[n + 1] \notin Pattern
        BY <2>2, <2>4
      <4> HIDE DEF Kept, Waiting, Given
      <4>3. QED
        BY <4>1, <4>2 DEF Substitute
    <3>2. out[n + 1] \in [1 .. L -> S]
      <4>1. value[n + 1] \in S /\ \A i \in 1 .. L : out[n][i] \in S
        BY <1>2, <2>2, <2>4
      <4>2. QED
        BY <3>1, <4>1
    <3>3. Kept(n + 1)
      BY <1>2, <2>2, <2>4, <3>1
    <3>4. ASSUME NEW i \in 1 .. L, NEW m \in TemplateExpressions(template),
                 template[m] = template[i], n + 1 < m
          PROVE  out[n + 1][i] = template[i]
      <4>1. out[n][i] = template[i] /\ m \in Nat
        BY <1>1, <1>2, <2>1, <2>2, <3>4
      <4>2. template[n + 1] # template[m]
        BY <1>3, <2>1, <2>4, <3>4, <4>1
      <4>3. QED
        BY <3>1, <3>4, <4>1, <4>2
    <3>5. ASSUME NEW i \in 1 .. L, NEW m \in TemplateExpressions(template),
                 template[m] = template[i], m <= n + 1, value[m] \notin Variable
          PROVE  out[n + 1][i] = value[m]
      <4>1. m \in 1 .. L
        BY <1>2
      <4>2. CASE m = n + 1
        <5>1. out[n][i] = template[i]
          BY <2>1, <2>2, <3>5, <4>2
        <5>2. QED
          BY <3>1, <3>5, <4>2, <5>1
      <4>3. CASE m # n + 1
        <5>1. m <= n
          BY <1>1, <2>1, <3>5, <4>1, <4>3
        <5>2. out[n][i] = value[m]
          BY <2>2, <3>5, <5>1
        <5>3. template[n + 1] \in Variable
          BY <1>2, <2>4
        <5>4. QED
          BY <3>1, <3>5, <5>2, <5>3
      <4>4. QED
        BY <4>2, <4>3
    <3>6. QED
      BY <3>2, <3>3, <3>4, <3>5
  <2>5. QED
    BY <2>3, <2>4
<1>8. T = Nat
  <2>1. T \in SUBSET Nat
    OBVIOUS
  <2> HIDE DEF T
  <2>2. QED
    BY <1>6, <1>7, <2>1, SetInduction
<1>9. out[L] \in [1 .. L -> S] /\ Kept(L) /\ Given(L)
  BY <1>1, <1>8
<1>10. out[L] \in Seq(S) /\ Len(out[L]) = L
  BY <1>1, <1>9
<1>11. \A m \in TemplateExpressions(template) : m <= L
  BY <1>1, <1>2
<1>12. QED
  BY <1>1, <1>4, <1>9, <1>10, <1>11 DEF L
-----------------------------------------------------------------------------
(* Preparation.                                                            *)

\* The target this call's context comes to, and what security asks of it.
Decided == ResolveTarget(doc, doc.channel, ctx)
AskedOf(t) == RequiredContext(ServerSecurity(t), doc.security, ctx)
RefusedAt(t) == /\ ~HasDriver(t.url.scheme)
                /\ DestinationsRefused(ResolveSecuritySchemes(ServerSecurity(t), doc.security),
                                       t.url.scheme, ctx)

AfterServer == {"cell", "credentials", "reply", "input", "address", "dispatched"}
AfterCredentials == {"reply", "input", "address", "dispatched"}

\* The document stays one of the cases.
DocumentInv == \E case \in Cases : doc = case.doc

\* A decision, once taken, is the one the context still comes to, and what
\* inspection reported is what that decision asks for.
DecisionInv ==
    /\ stage = "server" => inspected = IF Decided.is = "target" THEN AskedOf(Decided) ELSE <<>>
    /\ stage \in AfterServer => /\ target = Decided
                                /\ target.is = "target"
                                /\ inspected = AskedOf(target)

\* Past the credentials nothing is asked and no destination refused.
CredentialsInv == stage \in AfterCredentials => inspected = <<>> /\ ~RefusedAt(target)

ChallengeInv == stage = "challenged" /\ inspected # <<>> => asked.alternatives = inspected

AddressInv ==
    LET a == ResolveAddress(doc.channel, ctx, supplied, payload)
    IN  stage = "dispatched" => a.is = "address" /\ address = a.tokens

PrepInv == DocumentInv /\ DecisionInv /\ CredentialsInv /\ ChallengeInv /\ AddressInv

LEMMA Prepared ==
  ASSUME PreparationAssumption
  PROVE  PreparationInit => PrepInv
<1> SUFFICES ASSUME PreparationInit PROVE PrepInv
  OBVIOUS
<1>1. DocumentInv
  BY DEF PreparationInit, DocumentInv
<1>2. stage = "host"
  BY DEF PreparationInit, Fresh
<1>3. QED
  BY <1>1, <1>2 DEF PrepInv, DecisionInv, CredentialsInv, ChallengeInv, AddressInv,
                    AfterServer, AfterCredentials

LEMMA PreparationStep ==
  PrepInv /\ [PreparationNext]_preparationVars => PrepInv'
<1> SUFFICES ASSUME PrepInv, [PreparationNext]_preparationVars PROVE PrepInv'
  OBVIOUS
<1> USE DEF AfterServer, AfterCredentials
<1>1. DocumentInv'
  <2>1. doc' = doc
    BY DEF PreparationNext, Prepare, DecideServer, DecideCell, DecideCredentials, DecideReply,
           ReadFirstInput, DecideAddress, StoreResolves, HostResolves, host, preparationVars
  <2>2. QED
    BY <2>1 DEF PrepInv, DocumentInv
<1>2. DecisionInv /\ CredentialsInv /\ ChallengeInv /\ AddressInv
  BY DEF PrepInv
<1> DEFINE Rest == DecisionInv /\ CredentialsInv /\ ChallengeInv /\ AddressInv
<1>3. CASE UNCHANGED preparationVars
  <2>1. Rest'
    BY <1>2, <1>3 DEF preparationVars, DecisionInv, CredentialsInv, ChallengeInv, AddressInv,
                      Decided, AskedOf, RefusedAt, ServerSecurity
  <2>2. QED
    BY <1>1, <2>1 DEF PrepInv
<1>4. CASE Prepare
  <2>1. stage' = "server" /\ doc' = doc /\ ctx' = ctx
    BY <1>4 DEF Prepare
  <2>2. inspected' = IF Decided.is = "target" THEN AskedOf(Decided) ELSE <<>>
    BY <1>4 DEF Prepare, Decided, AskedOf
  <2>3. Decided' = Decided /\ AskedOf(Decided)' = AskedOf(Decided)
    BY <2>1 DEF Decided, AskedOf, ServerSecurity
  <2>4. Rest'
    BY <2>1, <2>2, <2>3 DEF DecisionInv, CredentialsInv, ChallengeInv, AddressInv
  <2>5. QED
    BY <1>1, <2>4 DEF PrepInv
<1>5. CASE DecideServer
  <2>1. stage = "server" /\ doc' = doc /\ ctx' = ctx /\ inspected' = inspected
    BY <1>5 DEF DecideServer, host
  <2>2. /\ Decided' = Decided
        /\ AskedOf(Decided)' = AskedOf(Decided)
        /\ \A t : AskedOf(t)' = RequiredContext(ServerSecurity(t), doc.security, ctx)
    BY <2>1 DEF Decided, AskedOf, ServerSecurity
  <2>3. inspected = IF Decided.is = "target" THEN AskedOf(Decided) ELSE <<>>
    BY <1>2, <2>1 DEF DecisionInv
  <2>4. \/ Decided.is = "target" /\ target' = Decided /\ stage' = "cell"
        \/ stage' = "refused"
        \/ Decided.is = "challenge" /\ stage' = "challenged"
    BY <1>5 DEF DecideServer, Decided, Refuse, AskFor, Challenge
  <2>5. stage' = "cell" => target' = Decided /\ Decided.is = "target" /\ inspected = AskedOf(Decided)
    BY <2>3, <2>4
  <2>6. stage' = "challenged" => inspected' = <<>>
    BY <2>1, <2>3, <2>4
  <2>7. stage' \in {"cell", "refused", "challenged"}
    BY <2>4
  <2>8. DecisionInv'
    <3>1. stage' # "server" /\ (stage' \in AfterServer => stage' = "cell")
      BY <2>7
    <3>2. stage' = "cell" => /\ target' = Decided'
                             /\ target'.is = "target"
                             /\ inspected' = AskedOf(target)'
      BY <2>1, <2>2, <2>5 DEF AskedOf, ServerSecurity
    <3> HIDE DEF AfterServer
    <3>3. QED
      BY <3>1, <3>2 DEF DecisionInv
  <2>9. CredentialsInv' /\ ChallengeInv' /\ AddressInv'
    BY <2>6, <2>7 DEF CredentialsInv, ChallengeInv, AddressInv
  <2>10. QED
    BY <1>1, <2>8, <2>9 DEF PrepInv
<1>6. ASSUME DecideCell \/ DecideCredentials \/ DecideReply \/ ReadFirstInput \/ DecideAddress
      PROVE  PrepInv'
  <2>1. /\ stage \in {"cell", "credentials", "reply", "input", "address"}
        /\ doc' = doc /\ ctx' = ctx /\ inspected' = inspected /\ target' = target
    BY <1>6 DEF DecideCell, DecideCredentials, DecideReply, ReadFirstInput, DecideAddress, host, decided
  <2>2. Decided' = Decided /\ AskedOf(target)' = AskedOf(target) /\ RefusedAt(target)' = RefusedAt(target)
    BY <2>1 DEF Decided, AskedOf, RefusedAt, ServerSecurity
  <2>3. target = Decided /\ target.is = "target" /\ inspected = AskedOf(target)
    BY <1>2, <2>1 DEF DecisionInv
  <2>4. stage' # "server"
    BY <1>6 DEF DecideCell, DecideCredentials, DecideReply, ReadFirstInput, DecideAddress, Refuse,
                AskFor, Challenge
  <2>5. DecisionInv'
    BY <2>1, <2>2, <2>3, <2>4 DEF DecisionInv
  <2>6. CredentialsInv'
    <3>1. CASE DecideCredentials
      <4>1. stage' = "reply" => AskedOf(target) = <<>> /\ ~RefusedAt(target)
        BY <3>1 DEF DecideCredentials, AskedOf, RefusedAt, Refuse, Challenge
      <4>2. stage' \in {"challenged", "refused", "reply"}
        BY <3>1 DEF DecideCredentials, Refuse, Challenge
      <4>3. QED
        BY <2>1, <2>2, <2>3, <4>1, <4>2 DEF CredentialsInv
    <3>2. CASE DecideCell
      <4>1. stage' \notin AfterCredentials
        BY <3>2 DEF DecideCell, Refuse
      <4>2. QED
        BY <4>1 DEF CredentialsInv
    <3>3. CASE DecideReply \/ ReadFirstInput \/ DecideAddress
      <4>1. stage \in AfterCredentials
        BY <3>3 DEF DecideReply, ReadFirstInput, DecideAddress
      <4>2. QED
        BY <1>2, <2>1, <2>2, <4>1 DEF CredentialsInv
    <3>4. QED
      BY <1>6, <3>1, <3>2, <3>3
  <2>7. ChallengeInv'
    <3>1. CASE DecideCredentials
      <4>1. stage' = "challenged" => asked'.alternatives = AskedOf(target)
        BY <3>1 DEF DecideCredentials, AskedOf, Refuse, Challenge
      <4>2. QED
        BY <2>1, <2>3, <4>1 DEF ChallengeInv
    <3>2. CASE DecideCell \/ DecideReply \/ ReadFirstInput
      <4>1. stage' # "challenged"
        BY <3>2 DEF DecideCell, DecideReply, ReadFirstInput, Refuse
      <4>2. QED
        BY <4>1 DEF ChallengeInv
    <3>3. CASE DecideAddress
      <4>1. inspected' = <<>>
        BY <1>2, <2>1, <3>3 DEF CredentialsInv, DecideAddress
      <4>2. QED
        BY <4>1 DEF ChallengeInv
    <3>4. QED
      BY <1>6, <3>1, <3>2, <3>3
  <2>8. AddressInv'
    <3>1. CASE DecideAddress
      <4>1. supplied' = supplied /\ payload' = payload
        BY <3>1 DEF DecideAddress
      <4> DEFINE a == ResolveAddress(doc.channel, ctx, supplied, payload)
      <4>2. a' = a
        BY <2>1, <4>1
      <4>3. stage' = "dispatched" => a.is = "address" /\ address' = a.tokens
        BY <3>1 DEF DecideAddress, Refuse, AskFor, Challenge
      <4> HIDE DEF a
      <4>4. stage' = "dispatched" => a'.is = "address" /\ address' = a'.tokens
        BY <4>2, <4>3
      <4>5. QED
        BY <4>4 DEF AddressInv, a
    <3>2. CASE DecideCell \/ DecideCredentials \/ DecideReply \/ ReadFirstInput
      <4>1. stage' # "dispatched"
        BY <3>2 DEF DecideCell, DecideCredentials, DecideReply, ReadFirstInput, Refuse, Challenge
      <4>2. QED
        BY <4>1 DEF AddressInv
    <3>3. QED
      BY <1>6, <3>1, <3>2
  <2>9. QED
    BY <1>1, <2>5, <2>6, <2>7, <2>8 DEF PrepInv
<1>7. CASE StoreResolves \/ HostResolves
  <2>1. stage' = "host"
    BY <1>7 DEF StoreResolves, HostResolves
  <2>2. Rest'
    BY <2>1 DEF DecisionInv, CredentialsInv, ChallengeInv, AddressInv
  <2>3. QED
    BY <1>1, <2>2 DEF PrepInv
<1>8. QED
  BY <1>3, <1>4, <1>5, <1>6, <1>7 DEF PreparationNext

LEMMA PrepInvariant == PreparationSpec => []PrepInv
<1>1. PreparationInit => PrepInv
  BY PreparationAssumption, Prepared
<1>2. QED
  BY <1>1, PreparationStep, PTL DEF PreparationSpec

\* A call that is sent was announced as one that needs nothing more, and a
\* challenge to one that does is the one inspection showed: prepared() and
\* start() come to the same of the same context.
THEOREM HonestInspection == PreparationSpec => []InspectionIsHonest
<1>1. PrepInv => InspectionIsHonest
  BY DEF PrepInv, CredentialsInv, ChallengeInv, InspectionIsHonest, Sent, AfterCredentials
<1>2. QED
  BY <1>1, PrepInvariant, PTL

\* The lists and templates of the document are sequences.
LEMMA DocumentIsListed ==
  ASSUME PreparationAssumption, DocumentInv
  PROVE  /\ IsSequence(doc.security)
         /\ IsSequence(doc.channel.address)
         /\ \A s \in DOMAIN doc.servers : IsSequence(doc.servers[s].security)
                                          /\ IsSequence(doc.servers[s].host)
BY DEF PreparationAssumption, DocumentInv

\* The default is the one server with a protocol, when it is that.
LEMMA SoleServer ==
  ASSUME NEW document, NEW candidates, DefaultServer(document, candidates) # ""
  PROVE  /\ DefaultServer(document, candidates) \in Range(candidates)
         /\ Cardinality(BoundServerNames(document, candidates)) = 1
<1> DEFINE bound == {i \in DOMAIN candidates : document.servers[candidates[i]].protocol # ""}
<1>1. PICK i \in bound : bound = {i}
  BY DEF DefaultServer
<1>2. DefaultServer(document, candidates) = candidates[i]
  BY <1>1 DEF DefaultServer
<1>3. BoundServerNames(document, candidates) = {candidates[i]}
  <2>1. \A j \in DOMAIN candidates : document.servers[candidates[j]].protocol # "" => j = i
    BY <1>1
  <2>2. i \in DOMAIN candidates /\ document.servers[candidates[i]].protocol # ""
    BY <1>1
  <2> HIDE DEF bound
  <2>3. QED
    BY <2>1, <2>2 DEF BoundServerNames, Range
<1>4. i \in DOMAIN candidates
  BY <1>1
<1>5. QED
  BY <1>2, <1>3, <1>4, FS_Singleton DEF Range

\* What a resolution to a target says of it. A server's address is its own or
\* a URL the context gives; its protocol is its own either way.
LEMMA TargetOf ==
  ASSUME NEW document, NEW channel, NEW context,
         ResolveTarget(document, channel, context).is = "target"
  PROVE  LET t == ResolveTarget(document, channel, context)
             candidates == EffectiveServers(document, channel)
             key == <<"server", "key">>
         IN  \/ /\ t.server \in Range(candidates)
                /\ key \in DOMAIN context => context[key] = t.server
                /\ key \notin DOMAIN context => t.server = DefaultServer(document, candidates)
                /\ t.server # ""
                /\ \/ t = AssembleServer(document, t.server, context)
                   \/ /\ \E full : t = FullURLOverride(document, t.server, full)
                      /\ \/ <<"server", "url">> \in DOMAIN context
                         \/ <<"baseURL">> \in DOMAIN context /\ ~Configured(context, "server")
             \/ candidates = <<>> /\ t.server = ""
<1> DEFINE t == ResolveTarget(document, channel, context)
           candidates == EffectiveServers(document, channel)
           key == <<"server", "key">>
           default == DefaultServer(document, candidates)
           Goal == \/ /\ t.server \in Range(candidates)
                      /\ key \in DOMAIN context => context[key] = t.server
                      /\ key \notin DOMAIN context => t.server = default
                      /\ t.server # ""
                      /\ \/ t = AssembleServer(document, t.server, context)
                         \/ /\ \E full : t = FullURLOverride(document, t.server, full)
                            /\ \/ <<"server", "url">> \in DOMAIN context
                               \/ <<"baseURL">> \in DOMAIN context /\ ~Configured(context, "server")
                   \/ candidates = <<>> /\ t.server = ""
<1> SUFFICES Goal
  OBVIOUS
<1>0. t.is = "target"
  OBVIOUS
<1>1. \A name, full : FullURLOverride(document, name, full).is = "target"
                         => FullURLOverride(document, name, full).server = name
  BY DEF FullURLOverride, Refused
<1>2. \A full : DirectURLTarget(full).is = "target" => DirectURLTarget(full).server = ""
  BY DEF DirectURLTarget, Refused
<1>3. \A name : AssembleServer(document, name, context).is = "target"
                   => AssembleServer(document, name, context).server = name
  <2>1. \A server : SubstituteServerVariables(server, context).is # "target"
    BY DEF SubstituteServerVariables, ConfigRequired, Refused
  <2>2. QED
    BY <2>1 DEF AssembleServer, Refused
<1>4. NoServer(document, candidates).is # "target"
  BY DEF NoServer, ConfigRequired, Refused
<1>5. default # "" => default \in Range(candidates)
  BY SoleServer
<1>6. key \in DOMAIN context => Configured(context, "server")
  BY DEF Configured
<1>a. t = ResolveTarget(document, channel, context)
  OBVIOUS
<1> HIDE DEF t, candidates, default
<1>7. CASE Configured(context, "server")
  <2>1. t = ResolveServerConfig(document, candidates, context)
    BY <1>7, <1>a DEF ResolveTarget, candidates, t
  <2>2. QED
    <3> DEFINE hasKey == key \in DOMAIN context
               hasURL == <<"server", "url">> \in DOMAIN context
               member == IF hasKey THEN context[key] ELSE default
               bare == candidates = <<>> /\ ~hasKey
    <3>1. CASE /\ ~(hasKey /\ member \notin Range(candidates))
               /\ ~bare
               /\ member # ""
      <4>1. t = IF SuppliedVariablesRefused(document.servers[member], context) THEN Refused
                ELSE IF hasURL THEN FullURLOverride(document, member, context[<<"server", "url">>])
                ELSE AssembleServer(document, member, context)
        BY <2>1, <3>1 DEF ResolveServerConfig, default
      <4>2. Refused.is # "target"
        BY DEF Refused
      <4>3. QED
        BY <1>0, <1>1, <1>3, <1>5, <3>1, <4>1, <4>2
    <3>2. CASE bare
      <4>1. t = Refused \/ \E full : t = DirectURLTarget(full) \/ t = NoServer(document, candidates)
        <5>1. member = ""
          <6>1. candidates = <<>> /\ DOMAIN <<>> = 1 .. 0
            BY <3>2
          <6>2. DOMAIN candidates = {}
            BY <6>1
          <6>3. Range(candidates) = {}
            BY <6>2 DEF Range
          <6>4. QED
            BY <1>5, <3>2, <6>3
        <5>2. CASE SuppliedVariables(context) # {}
          BY <2>1, <3>2, <5>1, <5>2 DEF ResolveServerConfig, default
        <5>3. CASE SuppliedVariables(context) = {} /\ hasURL
          BY <2>1, <3>2, <5>1, <5>3 DEF ResolveServerConfig, default
        <5>4. CASE SuppliedVariables(context) = {} /\ ~hasURL
          BY <2>1, <3>2, <5>1, <5>4 DEF ResolveServerConfig, default
        <5>5. QED
          BY <5>2, <5>3, <5>4
      <4>2. Refused.is # "target"
        BY DEF Refused
      <4>3. QED
        BY <1>0, <1>2, <1>4, <3>2, <4>1, <4>2
    <3>3. CASE ~bare /\ ((hasKey /\ member \notin Range(candidates)) \/ member = "")
      <4>1. t = Refused \/ t = NoServer(document, candidates)
        <5>1. CASE hasKey /\ member \notin Range(candidates) /\ member # ""
          BY <2>1, <3>3, <5>1 DEF ResolveServerConfig
        <5>2. CASE ~(hasKey /\ member \notin Range(candidates)) /\ member = ""
          BY <2>1, <3>3, <5>2 DEF ResolveServerConfig, default
        <5>3. CASE hasKey /\ member \notin Range(candidates) /\ member = ""
          BY <2>1, <3>3, <5>3 DEF ResolveServerConfig
        <5>4. QED
          BY <3>3, <5>1, <5>2, <5>3
      <4>2. Refused.is # "target"
        BY DEF Refused
      <4>3. QED
        BY <1>0, <1>4, <4>1, <4>2
    <3>4. QED
      BY <3>1, <3>2, <3>3
<1>8. CASE ~Configured(context, "server")
  <2>1. key \notin DOMAIN context
    BY <1>6, <1>8
  <2>2. CASE <<"baseURL">> \in DOMAIN context /\ default # ""
    <3>1. t = FullURLOverride(document, default, context[<<"baseURL">>])
      BY <1>8, <2>2, <1>a DEF ResolveTarget, candidates, default, t
    <3>2. QED
      BY <1>0, <1>1, <1>5, <1>8, <2>1, <2>2, <3>1
  <2>3. CASE <<"baseURL">> \in DOMAIN context /\ default = "" /\ candidates = <<>>
    <3>1. t = DirectURLTarget(context[<<"baseURL">>])
      BY <1>8, <2>3, <1>a DEF ResolveTarget, candidates, default, t
    <3>2. QED
      BY <1>0, <1>2, <2>3, <3>1
  <2>4. CASE <<"baseURL">> \notin DOMAIN context /\ default # ""
    <3>1. t = AssembleServer(document, default, context)
      BY <1>8, <2>4, <1>a DEF ResolveTarget, candidates, default, t
    <3>2. QED
      BY <1>0, <1>3, <1>5, <2>1, <2>4, <3>1
  <2>5. CASE default = "" /\ ~(<<"baseURL">> \in DOMAIN context /\ candidates = <<>>)
    <3>1. t = NoServer(document, candidates)
      BY <1>8, <2>5, <1>a DEF ResolveTarget, candidates, default, t
    <3>2. QED
      BY <1>0, <1>4, <3>1
  <2>6. QED
    BY <2>2, <2>3, <2>4, <2>5
<1>9. QED
  BY <1>7, <1>8

\* A server the channel lists is one of the document's.
LEMMA ListedServer ==
  ASSUME NEW document, NEW channel, NEW s \in Range(EffectiveServers(document, channel))
  PROVE  s \in DOMAIN document.servers
BY DEF EffectiveServers, Range

\* A URL in place of a server's address is reached over the server's protocol.
LEMMA Overridden ==
  ASSUME NEW document, NEW name, NEW full, FullURLOverride(document, name, full).is = "target"
  PROVE  FullURLOverride(document, name, full).url.scheme = document.servers[name].protocol
BY DEF FullURLOverride, Refused

\* The server's own address likewise; its host is the substituted one.
LEMMA Assembled ==
  ASSUME NEW document, NEW name, NEW context, AssembleServer(document, name, context).is = "target"
  PROVE  LET t == AssembleServer(document, name, context)
             out == SubstituteServerVariables(document.servers[name], context)
         IN  /\ t.url.scheme = document.servers[name].protocol
             /\ out.is = "host"
             /\ t.url.host = out.tokens
<1> DEFINE t == AssembleServer(document, name, context)
           server == document.servers[name]
           out == SubstituteServerVariables(server, context)
<1>1. out.is # "target"
  BY DEF SubstituteServerVariables, ConfigRequired, Refused
<1>2. t = IF server.protocol = "" \/ SuppliedVariablesRefused(server, context) THEN Refused
          ELSE IF out.is # "host" THEN out
          ELSE [is |-> "target", server |-> name,
                url |-> [scheme |-> server.protocol, host |-> out.tokens, port |-> server.port]]
  BY DEF AssembleServer
<1>3. Refused.is # "target" /\ t.is = "target"
  BY DEF Refused
<1> DEFINE host_ == out.tokens
           Goal == t.url.scheme = server.protocol /\ out.is = "host" /\ t.url.host = host_
<1> SUFFICES Goal
  OBVIOUS
<1> HIDE DEF t, out, server
<1>4. t = [is |-> "target", server |-> name,
           url |-> [scheme |-> server.protocol, host |-> out.tokens, port |-> server.port]]
      /\ out.is = "host"
  BY <1>1, <1>2, <1>3
<1>5. QED
  BY <1>4

\* Where the substitution comes to a host, no variable of it was missing or
\* outside its enumeration, and each was replaced.
LEMMA Substituted ==
  ASSUME NEW server, NEW context, SubstituteServerVariables(server, context).is = "host"
  PROVE  LET places == TemplateExpressions(server.host)
             value == [i \in places |-> ServerVariable(server, server.host[i], context)]
         IN  /\ SubstituteServerVariables(server, context).tokens = Expanded(server.host, value)
             /\ \A i \in places : ~OutsideEnum(server.variables, server.host[i], value[i])
<1> DEFINE places == TemplateExpressions(server.host)
           value == [i \in places |-> ServerVariable(server, server.host[i], context)]
           missing == {i \in places : server.host[i] \notin SuppliedVariables(context) /\ value[i] = ""}
           outside == {i \in places : OutsideEnum(server.variables, server.host[i], value[i])}
           stop == missing \union outside
           out == SubstituteServerVariables(server, context)
<1>1. stop # {} => out = Refused \/ \E p, e, d : out = ConfigRequired(p, e, d)
  BY DEF SubstituteServerVariables
<1>2. stop = {} => out = IF Concrete(Expanded(server.host, value))
                         THEN [is |-> "host", tokens |-> Expanded(server.host, value)] ELSE Refused
  BY DEF SubstituteServerVariables
<1>3. Refused.is # "host" /\ \A p, e, d : ConfigRequired(p, e, d).is # "host"
  BY DEF Refused, ConfigRequired
<1>4. out.is = "host"
  OBVIOUS
<1>5. stop = {} /\ out.tokens = Expanded(server.host, value)
  <2> HIDE DEF out, stop, value
  <2>1. QED
    BY <1>1, <1>2, <1>3, <1>4
<1>6. outside = {}
  BY <1>5
<1>7. QED
  BY <1>5, <1>6

LEMMA ServersGovern ==
  ASSUME PrepInv
  PROVE  ServerGoverns
<1> DEFINE candidates == EffectiveServers(doc, doc.channel)
           key == <<"server", "key">>
<1> SUFFICES ASSUME Sent, candidates # <<>>
             PROVE  /\ target.server \in Range(candidates)
                    /\ doc.servers[target.server].protocol = target.url.scheme
                    /\ Cardinality(BoundServerNames(doc, candidates)) > 1
                          => Read(ctx, key) = target.server
                    /\ key \in DOMAIN ctx => ctx[key] = target.server
  BY DEF ServerGoverns
<1>1. target = ResolveTarget(doc, doc.channel, ctx) /\ target.is = "target"
  BY DEF PrepInv, DecisionInv, Decided, Sent, AfterServer
<1> HIDE DEF candidates
<1>2. /\ target.server \in Range(candidates)
      /\ key \in DOMAIN ctx => ctx[key] = target.server
      /\ key \notin DOMAIN ctx => target.server = DefaultServer(doc, candidates)
      /\ target.server # ""
      /\ \/ target = AssembleServer(doc, target.server, ctx)
         \/ \E full : target = FullURLOverride(doc, target.server, full)
  BY <1>1, TargetOf DEF candidates
<1>3. doc.servers[target.server].protocol = target.url.scheme
  <2>1. CASE target = AssembleServer(doc, target.server, ctx)
    <3>1. AssembleServer(doc, target.server, ctx).is = "target"
      BY <1>1, <2>1
    <3>2. QED
      BY <2>1, <3>1, Assembled
  <2>2. CASE \E full : target = FullURLOverride(doc, target.server, full)
    <3>1. PICK full : target = FullURLOverride(doc, target.server, full)
      BY <2>2
    <3>2. FullURLOverride(doc, target.server, full).is = "target"
      BY <1>1, <3>1
    <3>3. QED
      BY <3>1, <3>2, Overridden
  <2>3. QED
    BY <1>2, <2>1, <2>2
<1>4. key \notin DOMAIN ctx => Cardinality(BoundServerNames(doc, candidates)) = 1
  BY <1>2, SoleServer
<1>5. CASE key \in DOMAIN ctx
  BY <1>2, <1>3, <1>5 DEF Read
<1>6. CASE key \notin DOMAIN ctx
  <2>1. ~(Cardinality(BoundServerNames(doc, candidates)) > 1)
    BY <1>4, <1>6
  <2>2. QED
    BY <1>2, <1>3, <1>6, <2>1
<1>7. QED
  BY <1>5, <1>6

LEMMA HostsAreSupplied ==
  ASSUME PreparationAssumption, PrepInv
  PROVE  HostIsWhatWasSupplied
<1> DEFINE server == doc.servers[target.server]
           host_ == server.host
           places == TemplateExpressions(host_)
           value == [i \in places |-> ServerVariable(server, host_[i], ctx)]
           own(i) == ServerVariable(server, host_[i], ctx)
<1> SUFFICES ASSUME Sent, target.server # "", <<"server", "url">> \notin DOMAIN ctx,
                    <<"baseURL">> \in DOMAIN ctx => Configured(ctx, "server"),
                    NEW i \in DOMAIN host_
             PROVE  IF host_[i] \notin Variable
                    THEN PlainHost(server) => target.url.host[i] = host_[i]
                    ELSE /\ PlainHost(server) /\ own(i) \notin Variable => target.url.host[i] = own(i)
                         /\ ~OutsideEnum(server.variables, host_[i], own(i))
  BY DEF HostIsWhatWasSupplied, SentToServer
<1>1. target = ResolveTarget(doc, doc.channel, ctx) /\ target.is = "target" /\ DocumentInv
  BY DEF PrepInv, DecisionInv, Decided, Sent, AfterServer
<1>2. /\ target.server \in Range(EffectiveServers(doc, doc.channel))
      /\ target = AssembleServer(doc, target.server, ctx)
  BY <1>1, TargetOf
<1>3. IsSequence(host_)
  BY <1>1, <1>2, ListedServer, DocumentIsListed
<1>4. /\ SubstituteServerVariables(server, ctx).is = "host"
      /\ target.url.host = SubstituteServerVariables(server, ctx).tokens
  <2>1. AssembleServer(doc, target.server, ctx).is = "target"
    BY <1>1, <1>2
  <2>2. target = AssembleServer(doc, target.server, ctx)
    BY <1>2
  <2>3. /\ SubstituteServerVariables(server, ctx).is = "host"
        /\ AssembleServer(doc, target.server, ctx).url.host = SubstituteServerVariables(server, ctx).tokens
    <3> DEFINE s == target.server
               d == doc
    <3>1. AssembleServer(d, s, ctx).is = "target"
      BY <2>1
    <3> HIDE DEF s, d
    <3>2. /\ SubstituteServerVariables(d.servers[s], ctx).is = "host"
          /\ AssembleServer(d, s, ctx).url.host = SubstituteServerVariables(d.servers[s], ctx).tokens
      BY ONLY <3>1, Assembled
    <3>3. QED
      BY <3>2 DEF s, d
  <2>4. QED
    BY <2>2, <2>3
<1>5. /\ SubstituteServerVariables(server, ctx).tokens = Expanded(host_, value)
      /\ \A m \in places : ~OutsideEnum(server.variables, host_[m], value[m])
  BY <1>4, Substituted
<1>6. target.url.host = Expanded(host_, value)
  BY <1>4, <1>5
<1>b. PlainHost(server) => \A m \in places : value[m] \notin Pattern
  BY DEF PlainHost, TemplateExpressions
<1>a. PlainHost(server) =>
      /\ \A j \in DOMAIN host_ : host_[j] \notin Variable => Expanded(host_, value)[j] = host_[j]
      /\ \A j \in DOMAIN host_ : \A m \in TemplateExpressions(host_) :
            host_[m] = host_[j] /\ value[m] \notin Variable => Expanded(host_, value)[j] = value[m]
  <2> SUFFICES ASSUME PlainHost(server)
               PROVE  /\ \A j \in DOMAIN host_ :
                            host_[j] \notin Variable => Expanded(host_, value)[j] = host_[j]
                      /\ \A j \in DOMAIN host_ : \A m \in TemplateExpressions(host_) :
                            host_[m] = host_[j] /\ value[m] \notin Variable
                               => Expanded(host_, value)[j] = value[m]
    OBVIOUS
  <2>1. \A m \in TemplateExpressions(host_) : value[m] \notin Pattern
    BY <1>b
  <2> HIDE DEF value, host_
  <2>2. QED
    BY ONLY <1>3, <2>1, Expansion
<1>7. CASE host_[i] \notin Variable
  BY <1>6, <1>7, <1>a
<1>8. CASE host_[i] \in Variable
  <2>1. PICK m \in places : host_[m] = host_[i]
    <3> HIDE DEF host_
    <3>1. QED
      BY <1>3, <1>8, FirstPlace
  <2>2. value[m] = own(i)
    BY <2>1
  <2>3. ~OutsideEnum(server.variables, host_[i], own(i))
    BY <1>5, <2>1, <2>2
  <2>4. PlainHost(server) /\ own(i) \notin Variable => Expanded(host_, value)[i] = own(i)
    <3> HIDE DEF value, host_, own, server
    <3>1. QED
      BY <1>a, <2>1, <2>2
  <2>5. QED
    BY <1>6, <1>8, <2>3, <2>4
<1>9. QED
  BY <1>7, <1>8

LEMMA AddressesAreSupplied ==
  ASSUME PreparationAssumption, PrepInv
  PROVE  AddressIsWhatWasSupplied
<1> DEFINE template == doc.channel.address
           parameters == doc.channel.parameters
           own(p) == AddressParameter(doc.channel, p, supplied, payload)
           located(p) == p \in DOMAIN parameters /\ parameters[p].location # ""
           places == TemplateExpressions(template)
           value == [i \in places |-> own(template[i])]
           encoded == [i \in places |-> Encoded(value[i])]
           missing == {i \in places : value[i] = "" /\ ~located(template[i])
                                                    /\ template[i] \notin DOMAIN supplied}
           broken == {i \in places : \/ located(template[i]) /\ value[i] = ""
                                     \/ i \notin missing /\ OutsideEnum(parameters, template[i], value[i])}
           stop == missing \union broken
           undeclared == \E p \in DOMAIN supplied : p \notin DOMAIN parameters \/ located(p)
<1> SUFFICES ASSUME Sent, Read(ctx, <<"address", "address">>) = ""
             PROVE  /\ Len(address) = Len(template)
                    /\ \A i \in DOMAIN template :
                          IF template[i] \notin Variable THEN address[i] = template[i]
                          ELSE /\ address[i] = Encoded(own(template[i]))
                               /\ template[i] \in DOMAIN parameters
                               /\ parameters[template[i]].enum # {}
                                     => own(template[i]) \in parameters[template[i]].enum
  BY DEF AddressIsWhatWasSupplied
<1>1. /\ ResolveAddress(doc.channel, ctx, supplied, payload).is = "address"
      /\ address = ResolveAddress(doc.channel, ctx, supplied, payload).tokens
      /\ DocumentInv
  BY DEF PrepInv, AddressInv, Sent
<1>2. IsSequence(template)
  BY <1>1, DocumentIsListed
<1>3. ResolveAddress(doc.channel, ctx, supplied, payload) = ExpandAddress(doc.channel, supplied, payload)
  BY <1>1 DEF ResolveAddress, ConfigRequired
<1> DEFINE out == ExpandAddress(doc.channel, supplied, payload)
<1>b. undeclared \/ stop # {} => out = Refused \/ \E p, e, d : out = ConfigRequired(p, e, d)
  BY DEF ExpandAddress
<1>4. ~undeclared /\ stop = {} => out = IF Concrete(Expanded(template, encoded))
                                       THEN [is |-> "address", tokens |-> Expanded(template, encoded)]
                                       ELSE Refused
  BY DEF ExpandAddress
<1>5. ~undeclared /\ stop = {} /\ address = Expanded(template, encoded)
  <2> HIDE DEF out, stop, places, value, template, broken, missing, encoded, undeclared
  <2>1. Refused.is # "address" /\ \A p, e, d : ConfigRequired(p, e, d).is # "address"
    BY DEF Refused, ConfigRequired
  <2>2. out.is = "address" /\ address = out.tokens
    BY <1>1, <1>3 DEF out
  <2>3. ~undeclared /\ stop = {}
    BY <1>b, <2>1, <2>2
  <2>4. out = Refused \/ out = [is |-> "address", tokens |-> Expanded(template, encoded)]
    BY <1>4, <2>3
  <2>5. address = Expanded(template, encoded)
    <3>1. out # Refused
      BY <2>1, <2>2
    <3>2. out = [is |-> "address", tokens |-> Expanded(template, encoded)]
      BY <2>4, <3>1
    <3>3. QED
      BY <2>2, <3>2
  <2>6. QED
    BY <2>3, <2>5
<1>a. /\ Len(Expanded(template, encoded)) = Len(template)
      /\ \A i \in DOMAIN template :
            template[i] \notin Variable => Expanded(template, encoded)[i] = template[i]
      /\ \A i \in DOMAIN template : \A m \in TemplateExpressions(template) :
            template[m] = template[i] /\ encoded[m] \notin Variable
               => Expanded(template, encoded)[i] = encoded[m]
  <2>1. \A m \in TemplateExpressions(template) : encoded[m] \notin Pattern
    BY DEF Encoded, Pattern
  <2> HIDE DEF encoded, template
  <2>2. QED
    BY ONLY <1>2, <2>1, Expansion
<1>6. ASSUME NEW i \in DOMAIN template, template[i] \notin Variable
      PROVE  address[i] = template[i]
  <2> HIDE DEF encoded, template
  <2>1. QED
    BY <1>a, <1>5, <1>6
<1>7. ASSUME NEW i \in DOMAIN template, template[i] \in Variable
      PROVE  /\ address[i] = Encoded(own(template[i]))
             /\ template[i] \in DOMAIN parameters
             /\ parameters[template[i]].enum # {} => own(template[i]) \in parameters[template[i]].enum
  <2>1. PICK m \in places : template[m] = template[i]
    <3> HIDE DEF template
    <3>1. QED
      BY <1>2, <1>7, FirstPlace
  <2>2. value[m] = own(template[i]) /\ encoded[m] = Encoded(own(template[i]))
    BY <2>1
  <2>3. Encoded(own(template[i])) \notin Variable
    BY TargetAssumption DEF Encoded
  <2>4. address[i] = Encoded(own(template[i]))
    <3> HIDE DEF encoded, template, own
    <3>1. QED
      BY <1>a, <1>5, <1>7, <2>1, <2>2, <2>3
  <2>5. m \notin missing /\ m \notin broken
    BY <1>5, <2>1
  <2>6. template[i] \in DOMAIN parameters
    <3>1. CASE template[i] \in DOMAIN supplied
      BY <1>5, <3>1
    <3>2. CASE template[i] \notin DOMAIN supplied /\ template[i] \notin DOMAIN parameters
      <4>1. own(template[i]) = ""
        BY <3>2 DEF AddressParameter
      <4>2. m \in missing
        BY <2>1, <2>2, <3>2, <4>1
      <4>3. QED
        BY <2>5, <4>2
    <3>3. QED
      BY <3>1, <3>2
  <2>7. ~OutsideEnum(parameters, template[i], own(template[i]))
    BY <2>1, <2>2, <2>5
  <2>8. QED
    BY <2>4, <2>6, <2>7 DEF OutsideEnum
<1>8. Len(address) = Len(template)
  <2> HIDE DEF encoded, template
  <2>1. QED
    BY <1>a, <1>5
<1>9. QED
  BY <1>6, <1>7, <1>8

\* A request goes to a server the channel lists, over that server's protocol and
\* the one the host named where there are several; to that server's host and the
\* channel's address, each expression in place of which stands its own value - in
\* the host, where no value is a pattern of a replacement string.
THEOREM SuppliedDestination == PreparationSpec => []DestinationIsSupplied
<1>1. PrepInv => DestinationIsSupplied
  BY PreparationAssumption, ServersGovern, HostsAreSupplied, AddressesAreSupplied
     DEF DestinationIsSupplied
<1>2. QED
  BY <1>1, PrepInvariant, PTL

\* The position of a pair names one member of each list.
LEMMA Quotients ==
  ASSUME NEW m \in Nat, NEW n \in Nat, NEW i \in 1 .. (m * n)
  PROVE  ((i - 1) \div n) + 1 \in 1 .. m /\ ((i - 1) % n) + 1 \in 1 .. n
<1>1. n > 0 /\ m > 0
  <2>1. m * n > 0
    OBVIOUS
  <2>2. CASE n = 0
    <3>1. m * n = 0
      BY <2>2
    <3>2. QED
      BY <2>1, <3>1
  <2>3. CASE m = 0
    <3>1. m * n = 0
      BY <2>3
    <3>2. QED
      BY <2>1, <3>1
  <2>4. QED
    BY <2>2, <2>3
<1> DEFINE q == (i - 1) \div n
           r == (i - 1) % n
<1>2. i - 1 = n * q + r /\ q \in Int /\ r \in 0 .. (n - 1)
  BY <1>1
<1>3. q >= 0
  BY <1>1
<1> HIDE DEF q, r
<1>4. q < m
  <2> SUFFICES ASSUME q >= m PROVE FALSE
    BY <1>2
  <2>1. n * q >= n * m
    BY <1>1, <1>2
  <2>2. n * m = m * n /\ i - 1 < m * n /\ n * q <= i - 1
    BY <1>2
  <2>3. n * q \in Int /\ n * m \in Int
    BY <1>2
  <2>4. QED
    BY <2>1, <2>2, <2>3
<1>5. q + 1 \in 1 .. m /\ r + 1 \in 1 .. n
  BY <1>2, <1>3, <1>4
<1>6. QED
  BY <1>5 DEF q, r

\* The members of a pair are of the two lists.
LEMMA PairsAreListed ==
  ASSUME NEW S, NEW server \in Seq(S), NEW operation \in Seq(S),
         NEW i \in DOMAIN Pairs(server, operation), NEW s \in Pairs(server, operation)[i]
  PROVE  \E j \in DOMAIN (server \o operation) : (server \o operation)[j] = s
<1> DEFINE m == Len(server)
           n == Len(operation)
           both == server \o operation
<1>1. /\ m \in Nat /\ n \in Nat /\ both \in Seq(S) /\ DOMAIN both = 1 .. (m + n)
      /\ \A k \in 1 .. m : k \in DOMAIN both /\ both[k] = server[k]
      /\ \A k \in 1 .. n : m + k \in DOMAIN both /\ both[m + k] = operation[k]
  OBVIOUS
<1>2. CASE server # <<>> /\ operation # <<>>
  <2>1. i \in 1 .. (m * n) /\ s \in {server[((i - 1) \div n) + 1], operation[((i - 1) % n) + 1]}
    BY <1>2 DEF Pairs
  <2>2. ((i - 1) \div n) + 1 \in 1 .. m /\ ((i - 1) % n) + 1 \in 1 .. n
    BY <1>1, <2>1, Quotients
  <2> HIDE DEF m, n, both
  <2>3. QED
    BY <1>1, <2>1, <2>2 DEF both
<1>3. CASE ~(server # <<>> /\ operation # <<>>)
  <2>1. i \in 1 .. (m + n) /\ s = both[i]
    BY <1>3 DEF Pairs
  <2>2. QED
    BY <1>1, <2>1
<1>4. QED
  BY <1>2, <1>3

\* Of the entries that are one scheme, the first is resolved.
LEMMA ResolvedScheme ==
  ASSUME NEW S, NEW server \in Seq(S), NEW operation \in Seq(S),
         NEW j \in DOMAIN (server \o operation)
  PROVE  \E k \in DOMAIN ResolveSecuritySchemes(server, operation) :
            LET schemes == ResolveSecuritySchemes(server, operation)
            IN  schemes[k].type = (server \o operation)[j].type
                /\ schemes[k].name = (server \o operation)[j].name
<1> DEFINE both == server \o operation
           key(k) == <<both[k].type, both[k].name>>
           T == {k \in DOMAIN both : key(k) = key(j)}
           first == {k \in DOMAIN both : \A l \in 1 .. (k - 1) : key(l) # key(k)}
<1>1. DOMAIN both = 1 .. Len(both) /\ Len(both) \in Nat
  OBVIOUS
<1> HIDE DEF both
<1>2. T \in SUBSET Nat /\ j \in T
  BY <1>1 DEF both
<1>3. PICK k \in T : \A l \in T : k <= l
  <2> HIDE DEF T
  <2>1. QED
    BY <1>2, LeastNatural
<1>4. k \in DOMAIN both /\ key(k) = key(j) /\ k \in 1 .. Len(both)
  BY <1>1, <1>3
<1>5. ASSUME NEW l \in 1 .. (k - 1) PROVE key(l) # key(k)
  <2>1. l \in DOMAIN both /\ ~(k <= l)
    BY <1>1, <1>4, <1>5
  <2> HIDE DEF key
  <2>2. QED
    BY <1>3, <1>4, <2>1
<1>6. k \in first
  <2> HIDE DEF key
  <2>1. QED
    BY <1>4, <1>5
<1>7. ResolveSecuritySchemes(server, operation) = [i \in first |-> both[i]]
  BY DEF ResolveSecuritySchemes, both
<1> HIDE DEF first
<1>8. k \in DOMAIN ResolveSecuritySchemes(server, operation)
      /\ ResolveSecuritySchemes(server, operation)[k] = both[k]
  BY <1>6, <1>7
<1>9. both[k].type = both[j].type /\ both[k].name = both[j].name
  BY <1>4
<1>10. QED
  BY <1>8, <1>9 DEF both

\* What satisfies a scheme of HTTP's requirement is a credential it places.
LEMMA SatisfiedIsPlaced ==
  ASSUME NEW context, NEW scheme, NEW allowed, ~BrokerScheme(scheme),
         RequirementSatisfied(context, SchemeRequirement(scheme), allowed)
  PROVE  SchemeCredential(context, scheme) # Nothing
<1> DEFINE family == MapScheme(scheme)
<1>1. SchemeRequirement(scheme).type = family /\ SchemeRequirement(scheme).name = scheme.name
  BY DEF SchemeRequirement
<1>2. family \in {"bearer", "basic", "apiKey", "oauth2", "unmapped"}
  BY DEF MapScheme
<1>3. Families = {"bearer", "basic", "apiKey", "oauth2"}
  BY DEF Families, Shape
<1>4. family # "unmapped" /\ CredentialFor(context, family, scheme.name) # Nothing
  <2> HIDE DEF family
  <2>1. QED
    BY <1>1, <1>2, <1>3 DEF RequirementSatisfied
<1>5. scheme.type \notin {"userPassword", "apiKey", "scramSha256", "scramSha512"}
  BY DEF BrokerScheme
<1>6. scheme.type \in {"http.bearer", "httpBearer", "http.basic", "httpApiKey", "oauth2"}
  BY <1>4, <1>5 DEF MapScheme
<1>7. CASE scheme.type \in {"http.bearer", "httpBearer"}
  BY <1>4, <1>7 DEF MapScheme, SchemeCredential
<1>8. CASE scheme.type = "http.basic"
  BY <1>4, <1>8 DEF MapScheme, SchemeCredential
<1>9. CASE scheme.type = "httpApiKey"
  BY <1>4, <1>9 DEF MapScheme, SchemeCredential
<1>10. CASE scheme.type = "oauth2"
  BY <1>4, <1>10 DEF MapScheme, SchemeCredential, TokenFor
<1>11. QED
  BY <1>6, <1>7, <1>8, <1>9, <1>10

\* What a scheme of HTTP places is looked at before.
LEMMA PlacedIsChecked ==
  ASSUME NEW context, NEW scheme, ~BrokerScheme(scheme),
         SchemeCredential(context, scheme) # Nothing
  PROVE  CheckedCredential(context, scheme) # Nothing
<1>1. scheme.type \notin {"userPassword", "apiKey", "scramSha256", "scramSha512"}
  BY DEF BrokerScheme
<1>2. scheme.type \in {"http.bearer", "httpBearer", "http.basic", "httpApiKey", "oauth2"}
  BY <1>1 DEF SchemeCredential
<1>3. CASE scheme.type \in {"http.bearer", "httpBearer"}
  BY <1>3 DEF SchemeCredential, CheckedCredential, TokenFor
<1>4. CASE scheme.type = "http.basic"
  BY <1>4 DEF SchemeCredential, CheckedCredential
<1>5. CASE scheme.type = "httpApiKey"
  BY <1>5 DEF SchemeCredential, CheckedCredential
<1>6. CASE scheme.type = "oauth2"
  BY <1>6 DEF SchemeCredential, CheckedCredential
<1>7. QED
  BY <1>2, <1>3, <1>4, <1>5, <1>6

\* The target's security is a sequence.
LEMMA ServerSecurityListed ==
  ASSUME PreparationAssumption, PrepInv, Sent
  PROVE  IsSequence(ServerSecurity(target))
<1>1. target = ResolveTarget(doc, doc.channel, ctx) /\ target.is = "target" /\ DocumentInv
  BY DEF PrepInv, DecisionInv, Decided, Sent, AfterServer
<1>2. target.server # "" => target.server \in Range(EffectiveServers(doc, doc.channel))
  BY <1>1, TargetOf
<1>3. target.server # "" => IsSequence(doc.servers[target.server].security)
  BY <1>1, <1>2, ListedServer, DocumentIsListed
<1>4. IsSequence(<<>>)
  BY DEF IsSequence
<1>5. QED
  BY <1>3, <1>4 DEF ServerSecurity

LEMMA Covered ==
  ASSUME PreparationAssumption, PrepInv
  PROVE  DispatchIsCovered
<1> DEFINE server == ServerSecurity(target)
           operation == doc.security
           schemes == ResolveSecuritySchemes(server, operation)
           pairs == Pairs(server, operation)
           kept(s) == \E i \in DOMAIN schemes :
                         /\ schemes[i].type = s.type /\ schemes[i].name = s.name
                         /\ \/ Carried(schemes, ctx, i)
                            \/ <<"headers", Destination(schemes[i])[2]>> \in DOMAIN ctx
<1> SUFFICES ASSUME Sent, ~HasDriver(target.url.scheme), pairs # <<>>,
                    \A s \in Range(schemes) : ~BrokerScheme(s)
             PROVE  \E i \in DOMAIN pairs : \A s \in pairs[i] : kept(s)
  BY DEF DispatchIsCovered
<1>1. /\ RequiredContext(server, operation, ctx) = <<>>
      /\ ~DestinationsRefused(schemes, target.url.scheme, ctx)
  BY DEF PrepInv, DecisionInv, CredentialsInv, AskedOf, RefusedAt, Sent, AfterServer, AfterCredentials
<1>2. IsSequence(server) /\ IsSequence(operation)
  BY ServerSecurityListed, DocumentIsListed DEF PrepInv
<1> DEFINE S == Range(server) \union Range(operation)
<1>3. server \in Seq(S) /\ operation \in Seq(S)
  BY <1>2 DEF IsSequence
<1> HIDE DEF server, operation, S
<1> DEFINE alternatives == [i \in DOMAIN pairs |-> {SchemeRequirement(s) : s \in pairs[i]}]
<1>4. ContextSatisfies(ctx, alternatives)
  <2> SUFFICES ASSUME alternatives = <<>> PROVE FALSE
    BY <1>1 DEF RequiredContext
  <2>1. DOMAIN alternatives = {}
    OBVIOUS
  <2>2. DOMAIN pairs = {}
    BY <2>1
  <2>3. \E n \in Nat : DOMAIN pairs = 1 .. n /\ pairs = [k \in 1 .. n |-> pairs[k]]
    <3>1. Len(server) \in Nat /\ Len(operation) \in Nat
      BY <1>3
    <3>2. Len(server) * Len(operation) \in Nat /\ Len(server) + Len(operation) \in Nat
      BY <3>1
    <3>3. CASE server # <<>> /\ operation # <<>>
      <4>1. /\ DOMAIN pairs = 1 .. (Len(server) * Len(operation))
            /\ pairs = [k \in 1 .. (Len(server) * Len(operation)) |-> pairs[k]]
        BY <3>3 DEF Pairs
      <4> HIDE DEF pairs
      <4>2. QED
        BY <3>2, <4>1
    <3>4. CASE ~(server # <<>> /\ operation # <<>>)
      <4>1. /\ DOMAIN pairs = 1 .. (Len(server) + Len(operation))
            /\ pairs = [k \in 1 .. (Len(server) + Len(operation)) |-> pairs[k]]
        BY <3>4 DEF Pairs
      <4> HIDE DEF pairs
      <4>2. QED
        BY <3>2, <4>1
    <3>5. QED
      BY <3>3, <3>4
  <2>4. pairs = <<>>
    BY <2>2, <2>3
  <2>5. QED
    BY <2>4
<1>5. PICK i \in DOMAIN pairs : AlternativeSatisfied(ctx, alternatives, i)
  BY <1>4 DEF ContextSatisfies
<1>6. ASSUME NEW s \in pairs[i] PROVE kept(s)
  <2>1. SchemeRequirement(s) \in alternatives[i]
    OBVIOUS
  <2>2. \E allowed : RequirementSatisfied(ctx, SchemeRequirement(s), allowed)
    BY <1>5, <2>1 DEF AlternativeSatisfied
  <2>3. \E j \in DOMAIN (server \o operation) : (server \o operation)[j] = s
    BY <1>3, PairsAreListed
  <2>4. PICK k \in DOMAIN schemes : schemes[k].type = s.type /\ schemes[k].name = s.name
    BY <1>3, <2>3, ResolvedScheme
  <2> HIDE DEF schemes
  <2>5. ~BrokerScheme(schemes[k]) /\ \A j \in DOMAIN schemes : ~BrokerScheme(schemes[j])
    BY <2>4 DEF Range
  <2>6. SchemeRequirement(s) = SchemeRequirement(schemes[k])
    BY <2>4 DEF SchemeRequirement, MapScheme
  <2>7. k \in Placing(schemes, ctx)
    BY <2>2, <2>4, <2>5, <2>6, SatisfiedIsPlaced DEF Placing
  <2>8. Placing(schemes, ctx) \subseteq Checked(schemes, ctx)
    BY <2>5, PlacedIsChecked DEF Placing, Checked
  <2>9. \A j \in Placing(schemes, ctx) : j # k => Destination(schemes[j]) # Destination(schemes[k])
    BY <1>1, <2>7, <2>8 DEF DestinationsRefused
  <2>10. \A j \in Placing(schemes, ctx) : j > k => Destination(schemes[j]) # Destination(schemes[k])
    <3>1. k \in Nat
      <4>1. DOMAIN schemes \subseteq DOMAIN (server \o operation)
        BY DEF ResolveSecuritySchemes, schemes
      <4>2. server \o operation \in Seq(S)
        BY <1>3, ConcatProperties
      <4>3. DOMAIN (server \o operation) \subseteq Nat
        BY ONLY <4>2
      <4>4. QED
        BY ONLY <4>1, <4>3, k \in DOMAIN schemes
    <3>2. QED
      BY <2>9, <3>1
  <2>11. Carried(schemes, ctx, k) \/ <<"headers", Destination(schemes[k])[2]>> \in DOMAIN ctx
    BY <2>7, <2>10 DEF Carried
  <2>12. QED
    BY <2>4, <2>11
<1>7. QED
  BY <1>6

\* A request of a built-in driver carries the credentials of one whole
\* alternative of the security that is declared with schemes of HTTP: what
\* satisfies requiredContext is what applyCredentialsViaSchemes places, and
\* validateCredentialDestinations leaves no two of them in one place.
THEOREM CoveredDispatch == PreparationSpec => []DispatchIsCovered
<1>1. PrepInv => DispatchIsCovered
  BY PreparationAssumption, Covered
<1>2. QED
  BY <1>1, PrepInvariant, PTL
-----------------------------------------------------------------------------
(***************************************************************************)
(* Lanes: the inductive invariant                                          *)
(***************************************************************************)

(* Before the lane, and the lanes that loop over the caller's inputs.      *)
Idle == {"start", "addressing", "dispatch"}
FromInputs == (WebSocket \ {"wsOut"}) \union {"kafkaIn", "mqttIn"}

(* Where the runner and its pumps can be, by protocol and direction: a     *)
(* pump works only while the lane runs, an input is read for the address   *)
(* at most once, and nothing is dialed before the lane is chosen.          *)
ControlInv ==
  /\ facts.objections \subseteq EarlyObjections(cell) \union LateObjections(cell)
  /\ prepared \in BOOLEAN
  /\ main \in Idle \union {"connecting", "acquiring", "acquiringInput", "running", "finished"}
  /\ main = "connecting" => cell \in Kafka
  /\ main = "acquiring" => cell \in WebSocket \union Mqtt
  /\ main = "acquiringInput" => cell = "wsSplit"
  /\ main = "running" => feed # "off"
  /\ feed \notin {"off", "done"} => main = "running"
  /\ main \notin {"running", "finished"} => feed = "off"
  /\ feed \in {"first", "fetching", "body", "replying"} => cell = "httpIn"
  /\ feed = "reading" => cell \in FromInputs
  /\ feed = "encoding" => cell \in FromInputs \union {"httpIn"}
  /\ feed = "subscribing" => cell = "mqttOut"
  /\ feed = "listening" => cell \in {"kafkaOut", "mqttOut"}
  /\ feed \in {"leaving", "failing"} => cell \in Kafka \union Mqtt
  /\ feed = "off" => pump = "off"
  /\ cell \in {"wsIn", "kafkaIn", "mqttIn"} => pump \in {"off", "done"}
  /\ cell = "httpIn" => pump \in {"off", "emitting", "waiting"}
  /\ main \in Idle /\ cell \notin Mqtt => conn = "none"
  /\ main \in {"start", "addressing"} => ~prepared /\ taken = 0
  /\ feed = "off" => taken = (IF prepared THEN 1 ELSE 0) /\ sent = <<>>

(* An operation that anything objects to stops before its lane.            *)
Impossible == facts.objections # {}

ObjectionInv ==
  Impossible =>
    /\ main \in Idle \union {"finished"} /\ feed = "off"
    /\ cell \notin Mqtt => conn = "none"
    /\ ended # "closed"
    /\ Objects(EarlyObjections(cell)) => main \in {"start", "finished"} /\ taken = 0

(* References of the invocation to pooled connections, by where it is.     *)
HeldInv ==
  /\ held \in Nat
  /\ main \notin {"acquiringInput", "running"} => held = 0
  /\ cell \in Mqtt /\ main = "running" => held = 1
  /\ cell = "httpIn" => held = 0
  /\ listed => cell = "mqttOut" /\ main = "running"
  /\ failed => cell = "mqttOut"

(* What an MQTT connection's count stands for.  A connection out of the    *)
(* map has no users, and one that is still dialing nobody holds.           *)
PoolInv ==
  /\ pooled \in BOOLEAN /\ users \in Nat /\ siblings \in Nat /\ waiting \in Nat
  /\ pooled => users = siblings + waiting
                         + (IF cell \in Mqtt /\ main \in {"acquiring", "running"} THEN 1 ELSE 0)
  /\ ~pooled => siblings = 0 /\ waiting = 0
  /\ ~pooled /\ cell \in Mqtt => main \notin {"acquiring", "running"}
  /\ pooled => conn \in {"dialing", "open", "closed"} /\ cell \in Mqtt
  /\ conn = "dialing" /\ cell \in Mqtt => siblings = 0 /\ main # "running"
  /\ conn = "ended" => cell \in Mqtt

(* Where the inputs are.  Counted are the publishes whose every input is   *)
(* to be sent; the one that is being encoded has been read and not sent.   *)
Counted == cell \in {"httpIn", "kafkaIn", "mqttIn"} \/ (cell = "wsIn" /\ ~prepared)

FeedInv ==
  /\ given \in Nat /\ taken \in Nat /\ sent \in Seq(Nat)
  /\ cell \in {"httpIn", "wsIn", "kafkaIn", "mqttIn"} /\ ended = "closed" => feed = "done"
  /\ Counted =>
       /\ \A n \in 1..Len(sent) : sent[n] = n
       /\ feed = "reading" => taken = Len(sent)
       /\ feed \in {"first", "encoding"} /\ cell = "httpIn" => sent = <<>>
       /\ feed = "first" => taken = 0
       /\ feed = "encoding" => taken = Len(sent) + 1
       /\ feed = "leaving" /\ Alive => inputClosed /\ Len(sent) = given /\ sent # <<>>
       /\ feed \in {"fetching", "body", "replying"} => sent # <<>>
       /\ ended = "closed" => sent # <<>> /\ (cell # "httpIn" => Len(sent) = given)

(* What the pump has in its hands.                                         *)
Item == IF pump \in {"decoding", "emitting"} THEN <<item>> ELSE <<>>

(* What the listeners heard and what it means for the end: a stream that   *)
(* is over hears nothing more.                                             *)
ListenInv ==
  /\ feed = "off" => heard = "no"
  /\ cell \notin WebSocket \ {"wsIn"} => trouble = "none"
  /\ cell # "wsSplit" => inputConn = "none"
  /\ cell \in WebSocket \ {"wsIn"} /\ heard # "no" => conn # "open"
  /\ cell \in WebSocket \ {"wsIn"} /\ ended = "closed" => conn # "open" /\ trouble = "none"
  /\ cell = "wsOut" /\ ended \in {"closed", "streamError"} =>
       pump = "done" /\ (conn = "open" => trouble # "none")
  /\ cell = "httpIn" =>
       /\ feed \notin {"off", "replying", "done"} => pump = "off"
       /\ feed = "done" => ~Alive
       /\ ended = "closed" => feed = "done"
       /\ ended # "streamError"

(* An MQTT subscription that could not deliver a frame.                    *)
Passed == cell = "mqttOut" /\ failed

(* Where the frames are: emitted, in the pump's hands, or buffered.        *)
DrainInv ==
  /\ frames \in Seq(Nat) /\ arrived \in Seq(Nat) /\ emitted \in Seq(Nat) /\ item \in Nat
  /\ feed = "off" => frames = <<>> /\ arrived = <<>> /\ emitted = <<>> /\ ~Passed
  /\ cell \notin WebSocket => frames = <<>>
  /\ cell # "httpIn" /\ ~Passed /\ pump \in {"waiting", "decoding", "emitting"} =>
       arrived = emitted \o Item \o frames
  /\ cell = "httpIn" /\ feed \notin {"replying", "done"} => arrived = <<>> /\ emitted = <<>>
  /\ cell = "httpIn" /\ feed = "replying" =>
       /\ arrived = <<1>>
       /\ pump = "off" => emitted = <<>>
       /\ pump = "emitting" => item = 1 /\ emitted = <<>>
       /\ pump = "waiting" => emitted = <<1>>
  /\ cell \in {"wsOut", "httpIn"} /\ ended \in {"closed", "streamError"} => emitted = arrived
  /\ ~Passed => IsPrefix(emitted, arrived)

(* A subscription emits frames as they come, the one in its hands last, and*)
(* it does not end well.                                                   *)
FramesInv ==
  cell = "mqttOut" =>
    /\ ended # "closed"
    /\ feed = "leaving" => ~Alive
    /\ \A i \in 1..Len(emitted) : emitted[i] \in 1..Len(arrived)
    /\ \A i, j \in 1..Len(emitted) : i < j => emitted[i] < emitted[j]
    /\ pump \in {"decoding", "emitting"} =>
         /\ item = Len(arrived) /\ item > 0
         /\ \A i \in 1..Len(emitted) : emitted[i] < item

(* Together they are inductive.                                            *)
LaneInv ==
  /\ ControlInv /\ ObjectionInv /\ HeldInv /\ PoolInv /\ FeedInv /\ ListenInv
  /\ DrainInv /\ FramesInv

(***************************************************************************)
(* Sequences                                                               *)
(***************************************************************************)

(* What comes first of a sequence is a prefix of it.                       *)
LEMMA PrefixOfConcat ==
  ASSUME NEW s \in Seq(Nat), NEW t \in Seq(Nat)
  PROVE  IsPrefix(s, s \o t)
<1>1. /\ s \o t \in Seq(Nat) /\ Len(s \o t) = Len(s) + Len(t)
      /\ \A i \in 1..Len(s) : (s \o t)[i] = s[i]
  BY ConcatProperties
<1>2. /\ SubSeq(s, 1, Len(s)) \in Seq(Nat)
      /\ Len(SubSeq(s, 1, Len(s))) = Len(s)
      /\ \A i \in 1..Len(s) : SubSeq(s, 1, Len(s))[i] = s[i]
  OBVIOUS
<1>3. /\ SubSeq(s \o t, 1, Len(s)) \in Seq(Nat)
      /\ Len(SubSeq(s \o t, 1, Len(s))) = Len(s)
      /\ \A i \in 1..Len(s) : SubSeq(s \o t, 1, Len(s))[i] = (s \o t)[i]
  BY <1>1
<1>4. SubSeq(s, 1, Len(s)) = SubSeq(s \o t, 1, Len(s))
  BY <1>1, <1>2, <1>3, SeqEqual
<1> QED
  BY <1>1, <1>4 DEF IsPrefix

(* It stays one when the sequence grows at its end.                        *)
LEMMA PrefixOfAppend ==
  ASSUME NEW s \in Seq(Nat), NEW t \in Seq(Nat), NEW x \in Nat, IsPrefix(s, t)
  PROVE  IsPrefix(s, Append(t, x))
<1>1. /\ Append(t, x) \in Seq(Nat) /\ Len(Append(t, x)) = Len(t) + 1
      /\ \A i \in 1..Len(t) : Append(t, x)[i] = t[i]
  BY AppendProperties
<1>2. Len(s) <= Len(t) /\ SubSeq(s, 1, Len(s)) = SubSeq(t, 1, Len(s))
  BY DEF IsPrefix
<1>3. /\ SubSeq(t, 1, Len(s)) \in Seq(Nat)
      /\ Len(SubSeq(t, 1, Len(s))) = Len(s)
      /\ \A i \in 1..Len(s) : SubSeq(t, 1, Len(s))[i] = t[i]
  BY <1>2
<1>4. /\ SubSeq(Append(t, x), 1, Len(s)) \in Seq(Nat)
      /\ Len(SubSeq(Append(t, x), 1, Len(s))) = Len(s)
      /\ \A i \in 1..Len(s) : SubSeq(Append(t, x), 1, Len(s))[i] = t[i]
  BY <1>1, <1>2
<1>5. SubSeq(t, 1, Len(s)) = SubSeq(Append(t, x), 1, Len(s))
  <2>1. \A i \in 1..Len(s) : SubSeq(t, 1, Len(s))[i] = SubSeq(Append(t, x), 1, Len(s))[i]
    BY <1>3, <1>4
  <2> HIDE <1>2
  <2> QED
    BY <1>3, <1>4, <2>1, SeqEqual
<1> QED
  BY <1>1, <1>2, <1>5 DEF IsPrefix

(* What the pump moves from one end of the line to the other.              *)
LEMMA Lines ==
  ASSUME NEW e \in Seq(Nat), NEW f \in Seq(Nat), NEW x \in Nat
  PROVE  /\ e \o <<>> = e /\ <<>> \o e = e
         /\ e \o <<x>> = Append(e, x)
         /\ Append(e \o f, x) = e \o Append(f, x)
         /\ f # <<>> => e \o f = (e \o <<Head(f)>>) \o Tail(f)
<1>1. e \o <<>> = e /\ <<>> \o e = e
  BY ConcatEmptySeq
<1>2. e \o <<x>> = Append(e, x)
  BY AppendIsConcat
<1>3. Append(e \o f, x) = e \o Append(f, x)
  <2>1. e \o f \in Seq(Nat) /\ <<x>> \in Seq(Nat)
    BY ConcatProperties
  <2>2. Append(e \o f, x) = (e \o f) \o <<x>>
    BY <2>1, AppendIsConcat
  <2>3. (e \o f) \o <<x>> = e \o (f \o <<x>>)
    BY <2>1, ConcatAssociative
  <2>4. f \o <<x>> = Append(f, x)
    BY AppendIsConcat
  <2> QED
    BY <2>2, <2>3, <2>4
<1>4. ASSUME f # <<>>
      PROVE  e \o f = (e \o <<Head(f)>>) \o Tail(f)
  <2>1. Head(f) \in Nat /\ Tail(f) \in Seq(Nat)
    BY <1>4, HeadTailProperties
  <2>2. f = <<Head(f)>> \o Tail(f)
    <3>1. <<Head(f)>> \o Tail(f) \in Seq(Nat) /\ Len(f) = 1 + Len(Tail(f))
      BY <1>4, <2>1, HeadTailProperties
    <3>2. \A i \in 1..Len(f) : f[i] = (<<Head(f)>> \o Tail(f))[i]
      BY <1>4, <2>1, <3>1, HeadTailProperties
    <3>3. Len(<<Head(f)>> \o Tail(f)) = Len(f)
      BY <2>1, <3>1
    <3> QED
      BY <3>1, <3>2, <3>3, SeqEqual
  <2>3. <<Head(f)>> \in Seq(Nat)
    BY <2>1
  <2>4. e \o (<<Head(f)>> \o Tail(f)) = (e \o <<Head(f)>>) \o Tail(f)
    BY <2>1, <2>3, ConcatAssociative, SMTT(30)
  <2> QED
    BY <2>2, <2>4
<1> QED
  BY <1>1, <1>2, <1>3, <1>4

(* Of one frame, none and all are first; of none, none.                    *)
LEMMA Firsts ==
  IsPrefix(<<>>, <<>>) /\ IsPrefix(<<>>, <<1>>) /\ IsPrefix(<<1>>, <<1>>)
<1>1. <<>> \in Seq(Nat) /\ <<1>> \in Seq(Nat)
  OBVIOUS
<1>2. /\ IsPrefix(<<>>, <<>> \o <<>>) /\ IsPrefix(<<>>, <<>> \o <<1>>)
      /\ IsPrefix(<<1>>, <<1>> \o <<>>)
  BY <1>1, PrefixOfConcat
<1>3. <<>> \o <<>> = <<>> /\ <<>> \o <<1>> = <<1>> /\ <<1>> \o <<>> = <<1>>
  BY <1>1, Lines
<1> QED
  BY <1>2, <1>3

(***************************************************************************)
(* The steps                                                               *)
(***************************************************************************)

(* Every step of a lane and of its peers keeps the control invariant.  The *)
(* pool says that only an MQTT connection has siblings who release it.     *)
LEMMA ControlStep ==
  ASSUME ControlInv, PoolInv, [LanesNext]_lanesVars
  PROVE  ControlInv'
<1> USE DEF ControlInv, Idle, FromInputs, cell, WebSocket, Exchange, Kafka, Mqtt, Alive,
    EndAs, CloseInput
<1>1. CASE Preflight
  BY <1>1 DEF Preflight, laneRest, wireVars, pumpVars, handleVars
<1>2. CASE AddressFixed
  BY <1>2 DEF AddressFixed, laneRest, wireVars, pumpVars, handleVars
<1>3. CASE AddressFromInput
  BY <1>3 DEF AddressFromInput, laneRest, wireVars, pumpVars
<1>4. CASE AddressRefused
  BY <1>4 DEF AddressRefused, laneRest, wireVars, pumpVars
<1>5. CASE RefuseDispatch
  BY <1>5 DEF RefuseDispatch, laneRest, wireVars, pumpVars
<1>6. CASE FeedReads
  BY <1>6 DEF FeedReads, ReadInput, wireVars
<1>7. CASE PumpEmits
  BY <1>7 DEF PumpEmits, wireVars, handleVars
<1>8. CASE Write
  BY <1>8 DEF Write, wireVars, pumpVars
<1>9. CASE FinishInput
  BY <1>9 DEF FinishInput, wireVars, pumpVars
<1>10. CASE Cancel
  BY <1>10 DEF Cancel, wireVars, pumpVars
<1>11. CASE WsDial
  BY <1>11 DEF WsDial, wsRest, pumpVars, handleVars, Dispatchable
<1>12. CASE WsAcquired
  BY <1>12 DEF WsAcquired, Listen, wsRest, pumpVars, handleVars
<1>13. CASE WsInputAcquired
  BY <1>13 DEF WsInputAcquired, Listen, wsRest, pumpVars, handleVars
<1>14. CASE WsAcquireFails
  BY <1>14 DEF WsAcquireFails, wsRest, pumpVars, handleVars
<1>15. CASE PumpTakes
  BY <1>15 DEF PumpTakes, pumpRest, handleVars
<1>16. CASE PumpDecodes
  BY <1>16 DEF PumpDecodes, pumpRest, handleVars
<1>17. CASE PumpRefused
  BY <1>17 DEF PumpRefused, pumpRest, handleVars
<1>18. CASE PumpEnds
  BY <1>18 DEF PumpEnds, pumpRest, handleVars
<1>19. CASE WsSends
  BY <1>19 DEF WsSends, Writable, feedRest, handleVars
<1>20. CASE WsInputEnds
  BY <1>20 DEF WsInputEnds, InputsEnd, feedRest, handleVars
<1>21. CASE WsFinishes
  BY <1>21 DEF WsFinishes, wsRest, pumpVars, handleVars
<1>22. CASE FrameUnheard
  BY <1>22 DEF FrameUnheard, wsRest, pumpVars, handleVars
<1>23. CASE FrameArrives
  BY <1>23 DEF FrameArrives, Listening, wsRest, pumpVars, handleVars
<1>24. CASE SocketErrs
  BY <1>24 DEF SocketErrs, Listening, wsRest, pumpVars, handleVars
<1>25. CASE SocketCloses
  BY <1>25 DEF SocketCloses, Listening, wsRest, pumpVars, handleVars
<1>26. CASE InputSocketEnds
  BY <1>26 DEF InputSocketEnds, wsRest, pumpVars, handleVars
<1>27. CASE HttpStart
  BY <1>27 DEF HttpStart, httpRest, httpWire, handleVars, Dispatchable
<1>28. CASE HttpFirstInput
  BY <1>28 DEF HttpFirstInput, httpRest, httpWire
<1>29. CASE HttpNoInput
  BY <1>29 DEF HttpNoInput, HttpOver, httpRest, httpWire
<1>30. CASE HttpUnencodable
  BY <1>30 DEF HttpUnencodable, HttpOver, httpRest, httpWire
<1>31. CASE HttpFetch
  BY <1>31 DEF HttpFetch, httpRest, httpWire, handleVars
<1>32. CASE HttpBody
  BY <1>32 DEF HttpBody, HttpOver, httpRest, httpWire, handleVars
<1>33. CASE HttpDecodes
  BY <1>33 DEF HttpDecodes, HttpOver, httpRest, httpWire, handleVars
<1>34. CASE HttpCloses
  BY <1>34 DEF HttpCloses, HttpOver, httpRest, httpWire, handleVars
<1>35. CASE HttpFetchFails
  BY <1>35 DEF HttpFetchFails, HttpOver, httpRest, httpWire
<1>36. CASE HttpResponds
  BY <1>36 DEF HttpResponds, HttpOver, httpRest, httpWire, handleVars
<1>37. CASE KafkaConnects
  BY <1>37 DEF KafkaConnects, kafkaRest, pumpVars, handleVars, Dispatchable
<1>38. CASE KafkaSends
  BY <1>38 DEF KafkaSends, kafkaRest, handleVars
<1>39. CASE KafkaInputsEnd
  BY <1>39 DEF KafkaInputsEnd, InputsEnd, kafkaRest, handleVars
<1>40. CASE KafkaHandles
  BY <1>40 DEF KafkaHandles, kafkaRest, handleVars
<1>41. CASE KafkaDisconnects
  BY <1>41 DEF KafkaDisconnects, kafkaRest
<1>42. CASE KafkaAborted
  BY <1>42 DEF KafkaAborted, kafkaStopRest, kafkaRest, handleVars
<1>43. CASE KafkaConnectFails
  BY <1>43 DEF KafkaConnectFails, kafkaRest, pumpVars
<1>44. CASE KafkaConnected
  BY <1>44 DEF KafkaConnected, kafkaRest, pumpVars, handleVars
<1>45. CASE KafkaDelivers
  BY <1>45 DEF KafkaDelivers, kafkaRest, handleVars
<1>46. CASE KafkaCrashes
  BY <1>46 DEF KafkaCrashes, kafkaStopRest, kafkaRest, handleVars
<1>47. CASE MqttAcquires
  BY <1>47 DEF MqttAcquires, mqttRest, handleVars, pumpVars, Dispatchable
<1>48. CASE MqttReady
  BY <1>48 DEF MqttReady, mqttRest, handleVars, poolVars
<1>49. CASE MqttLeaves
  BY <1>49 DEF MqttLeaves, Released, mqttRest
<1>50. CASE MqttSends
  BY <1>50 DEF MqttSends, mqttFeedRest, mqttRest, handleVars, mqttVars, poolVars
<1>51. CASE MqttInputsEnd
  BY <1>51 DEF MqttInputsEnd, InputsEnd, mqttFeedRest, mqttRest, handleVars, mqttVars,
      poolVars
<1>52. CASE MqttHandles
  BY <1>52 DEF MqttHandles, mqttRest, handleVars, mqttVars, poolVars
<1>53. CASE MqttStops
  BY <1>53 DEF MqttStops, mqttFeedRest, mqttRest, handleVars, mqttVars, poolVars
<1>54. CASE SiblingAcquires
  BY <1>54 DEF SiblingAcquires, mqttRest, handleVars, pumpVars
<1>55. CASE SiblingReady
  BY <1>55 DEF SiblingReady, mqttRest, handleVars, pumpVars
<1>56. CASE SiblingReleases
  BY <1>56 DEF SiblingReleases, PoolInv, Released, mqttRest, handleVars, pumpVars
<1>57. CASE MqttConnected
  BY <1>57 DEF MqttConnected, mqttRest, handleVars, pumpVars, mqttVars, poolVars
<1>58. CASE MqttConnectFails
  BY <1>58 DEF MqttConnectFails, mqttRest, handleVars, pumpVars
<1>59. CASE MqttSubscribed
  BY <1>59 DEF MqttSubscribed, mqttFeedRest, mqttRest, handleVars, mqttVars, poolVars
<1>60. CASE MqttSubscribeFails
  BY <1>60 DEF MqttSubscribeFails, mqttFeedRest, mqttRest, handleVars, mqttVars, poolVars
<1>61. CASE MqttDelivers
  BY <1>61 DEF MqttDelivers, mqttRest, handleVars, mqttVars, poolVars
<1>62. CASE MqttDrops
  BY <1>62 DEF MqttDrops, mqttRest, handleVars, pumpVars, mqttVars, poolVars
<1>63. CASE MqttClosed
  BY <1>63 DEF MqttClosed, mqttRest, handleVars, mqttVars, poolVars
<1>64. CASE UNCHANGED lanesVars
  BY <1>64 DEF lanesVars, vars, handleVars, wireVars, pumpVars, mqttVars, poolVars
<1> QED
  BY <1>1, <1>2, <1>3, <1>4, <1>5, <1>6, <1>7, <1>8, <1>9, <1>10, <1>11, <1>12, <1>13, <1>14,
      <1>15, <1>16, <1>17, <1>18, <1>19, <1>20, <1>21, <1>22, <1>23, <1>24, <1>25, <1>26,
      <1>27, <1>28, <1>29, <1>30, <1>31, <1>32, <1>33, <1>34, <1>35, <1>36, <1>37, <1>38,
      <1>39, <1>40, <1>41, <1>42, <1>43, <1>44, <1>45, <1>46, <1>47, <1>48, <1>49, <1>50,
      <1>51, <1>52, <1>53, <1>54, <1>55, <1>56, <1>57, <1>58, <1>59, <1>60, <1>61, <1>62,
      <1>63, <1>64 DEF LanesNext, OwnStep, BindingStep, CallerStep, WsRuns, WsPeer, HttpRuns,
      HttpPeer, KafkaRuns, KafkaPeer, MqttRuns, MqttPeer

(* What is objected to never gets past the refusal.                        *)
LEMMA ObjectionStep ==
  ASSUME ControlInv, PoolInv, ObjectionInv, [LanesNext]_lanesVars
  PROVE  ObjectionInv'
<1> USE DEF ControlInv, ObjectionInv, Idle, FromInputs, Impossible, Objects, cell, WebSocket,
    Exchange, Kafka, Mqtt, Alive, EndAs, CloseInput
<1>1. CASE Preflight
  BY <1>1 DEF Preflight, laneRest, wireVars, pumpVars, handleVars
<1>2. CASE AddressFixed
  BY <1>2 DEF AddressFixed, laneRest, wireVars, pumpVars, handleVars
<1>3. CASE AddressFromInput
  BY <1>3 DEF AddressFromInput, laneRest, wireVars, pumpVars
<1>4. CASE AddressRefused
  BY <1>4 DEF AddressRefused, laneRest, wireVars, pumpVars
<1>5. CASE RefuseDispatch
  BY <1>5 DEF RefuseDispatch, laneRest, wireVars, pumpVars
<1>6. CASE FeedReads
  BY <1>6 DEF FeedReads, ReadInput, wireVars
<1>7. CASE PumpEmits
  BY <1>7 DEF PumpEmits, wireVars, handleVars
<1>8. CASE Write
  BY <1>8 DEF Write, wireVars, pumpVars
<1>9. CASE FinishInput
  BY <1>9 DEF FinishInput, wireVars, pumpVars
<1>10. CASE Cancel
  BY <1>10 DEF Cancel, wireVars, pumpVars
<1>11. CASE WsDial
  BY <1>11 DEF WsDial, wsRest, pumpVars, handleVars, Dispatchable
<1>12. CASE WsAcquired
  BY <1>12 DEF WsAcquired, Listen, wsRest, pumpVars, handleVars
<1>13. CASE WsInputAcquired
  BY <1>13 DEF WsInputAcquired, Listen, wsRest, pumpVars, handleVars
<1>14. CASE WsAcquireFails
  BY <1>14 DEF WsAcquireFails, wsRest, pumpVars, handleVars
<1>15. CASE PumpTakes
  BY <1>15 DEF PumpTakes, pumpRest, handleVars
<1>16. CASE PumpDecodes
  BY <1>16 DEF PumpDecodes, pumpRest, handleVars
<1>17. CASE PumpRefused
  BY <1>17 DEF PumpRefused, pumpRest, handleVars
<1>18. CASE PumpEnds
  BY <1>18 DEF PumpEnds, pumpRest, handleVars
<1>19. CASE WsSends
  BY <1>19 DEF WsSends, Writable, feedRest, handleVars
<1>20. CASE WsInputEnds
  BY <1>20 DEF WsInputEnds, InputsEnd, feedRest, handleVars
<1>21. CASE WsFinishes
  BY <1>21 DEF WsFinishes, wsRest, pumpVars, handleVars
<1>22. CASE FrameUnheard
  BY <1>22 DEF FrameUnheard, wsRest, pumpVars, handleVars
<1>23. CASE FrameArrives
  BY <1>23 DEF FrameArrives, Listening, wsRest, pumpVars, handleVars
<1>24. CASE SocketErrs
  BY <1>24 DEF SocketErrs, Listening, wsRest, pumpVars, handleVars
<1>25. CASE SocketCloses
  BY <1>25 DEF SocketCloses, Listening, wsRest, pumpVars, handleVars
<1>26. CASE InputSocketEnds
  BY <1>26 DEF InputSocketEnds, wsRest, pumpVars, handleVars
<1>27. CASE HttpStart
  BY <1>27 DEF HttpStart, httpRest, httpWire, handleVars, Dispatchable
<1>28. CASE HttpFirstInput
  BY <1>28 DEF HttpFirstInput, httpRest, httpWire
<1>29. CASE HttpNoInput
  BY <1>29 DEF HttpNoInput, HttpOver, httpRest, httpWire
<1>30. CASE HttpUnencodable
  BY <1>30 DEF HttpUnencodable, HttpOver, httpRest, httpWire
<1>31. CASE HttpFetch
  BY <1>31 DEF HttpFetch, httpRest, httpWire, handleVars
<1>32. CASE HttpBody
  BY <1>32 DEF HttpBody, HttpOver, httpRest, httpWire, handleVars
<1>33. CASE HttpDecodes
  BY <1>33 DEF HttpDecodes, HttpOver, httpRest, httpWire, handleVars
<1>34. CASE HttpCloses
  BY <1>34 DEF HttpCloses, HttpOver, httpRest, httpWire, handleVars
<1>35. CASE HttpFetchFails
  BY <1>35 DEF HttpFetchFails, HttpOver, httpRest, httpWire
<1>36. CASE HttpResponds
  BY <1>36 DEF HttpResponds, HttpOver, httpRest, httpWire, handleVars
<1>37. CASE KafkaConnects
  BY <1>37 DEF KafkaConnects, kafkaRest, pumpVars, handleVars, Dispatchable
<1>38. CASE KafkaSends
  BY <1>38 DEF KafkaSends, kafkaRest, handleVars
<1>39. CASE KafkaInputsEnd
  BY <1>39 DEF KafkaInputsEnd, InputsEnd, kafkaRest, handleVars
<1>40. CASE KafkaHandles
  BY <1>40 DEF KafkaHandles, kafkaRest, handleVars
<1>41. CASE KafkaDisconnects
  BY <1>41 DEF KafkaDisconnects, kafkaRest
<1>42. CASE KafkaAborted
  BY <1>42 DEF KafkaAborted, kafkaStopRest, kafkaRest, handleVars
<1>43. CASE KafkaConnectFails
  BY <1>43 DEF KafkaConnectFails, kafkaRest, pumpVars
<1>44. CASE KafkaConnected
  BY <1>44 DEF KafkaConnected, kafkaRest, pumpVars, handleVars
<1>45. CASE KafkaDelivers
  BY <1>45 DEF KafkaDelivers, kafkaRest, handleVars
<1>46. CASE KafkaCrashes
  BY <1>46 DEF KafkaCrashes, kafkaStopRest, kafkaRest, handleVars
<1>47. CASE MqttAcquires
  BY <1>47 DEF MqttAcquires, mqttRest, handleVars, pumpVars, Dispatchable
<1>48. CASE MqttReady
  BY <1>48 DEF MqttReady, mqttRest, handleVars, poolVars
<1>49. CASE MqttLeaves
  BY <1>49 DEF MqttLeaves, Released, mqttRest
<1>50. CASE MqttSends
  BY <1>50 DEF MqttSends, mqttFeedRest, mqttRest, handleVars, mqttVars, poolVars
<1>51. CASE MqttInputsEnd
  BY <1>51 DEF MqttInputsEnd, InputsEnd, mqttFeedRest, mqttRest, handleVars, mqttVars,
      poolVars
<1>52. CASE MqttHandles
  BY <1>52 DEF MqttHandles, mqttRest, handleVars, mqttVars, poolVars
<1>53. CASE MqttStops
  BY <1>53 DEF MqttStops, mqttFeedRest, mqttRest, handleVars, mqttVars, poolVars
<1>54. CASE SiblingAcquires
  BY <1>54 DEF SiblingAcquires, mqttRest, handleVars, pumpVars
<1>55. CASE SiblingReady
  BY <1>55 DEF SiblingReady, mqttRest, handleVars, pumpVars
<1>56. CASE SiblingReleases
  BY <1>56 DEF SiblingReleases, PoolInv, Released, mqttRest, handleVars, pumpVars
<1>57. CASE MqttConnected
  BY <1>57 DEF MqttConnected, mqttRest, handleVars, pumpVars, mqttVars, poolVars
<1>58. CASE MqttConnectFails
  BY <1>58 DEF MqttConnectFails, mqttRest, handleVars, pumpVars
<1>59. CASE MqttSubscribed
  BY <1>59 DEF MqttSubscribed, mqttFeedRest, mqttRest, handleVars, mqttVars, poolVars
<1>60. CASE MqttSubscribeFails
  BY <1>60 DEF MqttSubscribeFails, mqttFeedRest, mqttRest, handleVars, mqttVars, poolVars
<1>61. CASE MqttDelivers
  BY <1>61 DEF MqttDelivers, mqttRest, handleVars, mqttVars, poolVars
<1>62. CASE MqttDrops
  BY <1>62 DEF MqttDrops, mqttRest, handleVars, pumpVars, mqttVars, poolVars
<1>63. CASE MqttClosed
  BY <1>63 DEF MqttClosed, mqttRest, handleVars, mqttVars, poolVars
<1>64. CASE UNCHANGED lanesVars
  BY <1>64 DEF lanesVars, vars, handleVars, wireVars, pumpVars, mqttVars, poolVars
<1> QED
  BY <1>1, <1>2, <1>3, <1>4, <1>5, <1>6, <1>7, <1>8, <1>9, <1>10, <1>11, <1>12, <1>13, <1>14,
      <1>15, <1>16, <1>17, <1>18, <1>19, <1>20, <1>21, <1>22, <1>23, <1>24, <1>25, <1>26,
      <1>27, <1>28, <1>29, <1>30, <1>31, <1>32, <1>33, <1>34, <1>35, <1>36, <1>37, <1>38,
      <1>39, <1>40, <1>41, <1>42, <1>43, <1>44, <1>45, <1>46, <1>47, <1>48, <1>49, <1>50,
      <1>51, <1>52, <1>53, <1>54, <1>55, <1>56, <1>57, <1>58, <1>59, <1>60, <1>61, <1>62,
      <1>63, <1>64 DEF LanesNext, OwnStep, BindingStep, CallerStep, WsRuns, WsPeer, HttpRuns,
      HttpPeer, KafkaRuns, KafkaPeer, MqttRuns, MqttPeer

(* A reference is taken with the lane's listeners and returned with them.  *)
LEMMA HeldStep ==
  ASSUME ControlInv, HeldInv, [LanesNext]_lanesVars
  PROVE  HeldInv'
<1> USE DEF ControlInv, HeldInv, Idle, FromInputs, cell, WebSocket, Exchange, Kafka, Mqtt,
    Alive, EndAs, CloseInput
<1>1. CASE Preflight /\ UNCHANGED mqttVars
  BY <1>1 DEF Preflight, laneRest, wireVars, pumpVars, handleVars, mqttVars, poolVars
<1>2. CASE AddressFixed /\ UNCHANGED mqttVars
  BY <1>2 DEF AddressFixed, laneRest, wireVars, pumpVars, handleVars, mqttVars, poolVars
<1>3. CASE AddressFromInput /\ UNCHANGED mqttVars
  BY <1>3 DEF AddressFromInput, laneRest, wireVars, pumpVars, mqttVars, poolVars
<1>4. CASE AddressRefused /\ UNCHANGED mqttVars
  BY <1>4 DEF AddressRefused, laneRest, wireVars, pumpVars, mqttVars, poolVars
<1>5. CASE RefuseDispatch /\ UNCHANGED mqttVars
  BY <1>5 DEF RefuseDispatch, laneRest, wireVars, pumpVars, mqttVars, poolVars
<1>6. CASE FeedReads /\ UNCHANGED mqttVars
  BY <1>6 DEF FeedReads, ReadInput, wireVars, mqttVars, poolVars
<1>7. CASE PumpEmits /\ UNCHANGED mqttVars
  BY <1>7 DEF PumpEmits, wireVars, handleVars, mqttVars, poolVars
<1>8. CASE Write /\ UNCHANGED mqttVars
  BY <1>8 DEF Write, wireVars, pumpVars, mqttVars, poolVars
<1>9. CASE FinishInput /\ UNCHANGED mqttVars
  BY <1>9 DEF FinishInput, wireVars, pumpVars, mqttVars, poolVars
<1>10. CASE Cancel /\ UNCHANGED mqttVars
  BY <1>10 DEF Cancel, wireVars, pumpVars, mqttVars, poolVars
<1>11. CASE WsDial /\ UNCHANGED mqttVars
  BY <1>11 DEF WsDial, wsRest, pumpVars, handleVars, Dispatchable, mqttVars, poolVars
<1>12. CASE WsAcquired /\ UNCHANGED mqttVars
  BY <1>12 DEF WsAcquired, Listen, wsRest, pumpVars, handleVars, mqttVars, poolVars
<1>13. CASE WsInputAcquired /\ UNCHANGED mqttVars
  BY <1>13 DEF WsInputAcquired, Listen, wsRest, pumpVars, handleVars, mqttVars, poolVars
<1>14. CASE WsAcquireFails /\ UNCHANGED mqttVars
  BY <1>14 DEF WsAcquireFails, wsRest, pumpVars, handleVars, mqttVars, poolVars
<1>15. CASE PumpTakes /\ UNCHANGED mqttVars
  BY <1>15 DEF PumpTakes, pumpRest, handleVars, mqttVars, poolVars
<1>16. CASE PumpDecodes /\ UNCHANGED mqttVars
  BY <1>16 DEF PumpDecodes, pumpRest, handleVars, mqttVars, poolVars
<1>17. CASE PumpRefused /\ UNCHANGED mqttVars
  BY <1>17 DEF PumpRefused, pumpRest, handleVars, mqttVars, poolVars
<1>18. CASE PumpEnds /\ UNCHANGED mqttVars
  BY <1>18 DEF PumpEnds, pumpRest, handleVars, mqttVars, poolVars
<1>19. CASE WsSends /\ UNCHANGED mqttVars
  BY <1>19 DEF WsSends, Writable, feedRest, handleVars, mqttVars, poolVars
<1>20. CASE WsInputEnds /\ UNCHANGED mqttVars
  BY <1>20 DEF WsInputEnds, InputsEnd, feedRest, handleVars, mqttVars, poolVars
<1>21. CASE WsFinishes /\ UNCHANGED mqttVars
  BY <1>21 DEF WsFinishes, wsRest, pumpVars, handleVars, mqttVars, poolVars
<1>22. CASE FrameUnheard /\ UNCHANGED mqttVars
  BY <1>22 DEF FrameUnheard, wsRest, pumpVars, handleVars, mqttVars, poolVars
<1>23. CASE FrameArrives /\ UNCHANGED mqttVars
  BY <1>23 DEF FrameArrives, Listening, wsRest, pumpVars, handleVars, mqttVars, poolVars
<1>24. CASE SocketErrs /\ UNCHANGED mqttVars
  BY <1>24 DEF SocketErrs, Listening, wsRest, pumpVars, handleVars, mqttVars, poolVars
<1>25. CASE SocketCloses /\ UNCHANGED mqttVars
  BY <1>25 DEF SocketCloses, Listening, wsRest, pumpVars, handleVars, mqttVars, poolVars
<1>26. CASE InputSocketEnds /\ UNCHANGED mqttVars
  BY <1>26 DEF InputSocketEnds, wsRest, pumpVars, handleVars, mqttVars, poolVars
<1>27. CASE HttpStart /\ UNCHANGED mqttVars
  BY <1>27 DEF HttpStart, httpRest, httpWire, handleVars, Dispatchable, mqttVars, poolVars
<1>28. CASE HttpFirstInput /\ UNCHANGED mqttVars
  BY <1>28 DEF HttpFirstInput, httpRest, httpWire, mqttVars, poolVars
<1>29. CASE HttpNoInput /\ UNCHANGED mqttVars
  BY <1>29 DEF HttpNoInput, HttpOver, httpRest, httpWire, mqttVars, poolVars
<1>30. CASE HttpUnencodable /\ UNCHANGED mqttVars
  BY <1>30 DEF HttpUnencodable, HttpOver, httpRest, httpWire, mqttVars, poolVars
<1>31. CASE HttpFetch /\ UNCHANGED mqttVars
  BY <1>31 DEF HttpFetch, httpRest, httpWire, handleVars, mqttVars, poolVars
<1>32. CASE HttpBody /\ UNCHANGED mqttVars
  BY <1>32 DEF HttpBody, HttpOver, httpRest, httpWire, handleVars, mqttVars, poolVars
<1>33. CASE HttpDecodes /\ UNCHANGED mqttVars
  BY <1>33 DEF HttpDecodes, HttpOver, httpRest, httpWire, handleVars, mqttVars, poolVars
<1>34. CASE HttpCloses /\ UNCHANGED mqttVars
  BY <1>34 DEF HttpCloses, HttpOver, httpRest, httpWire, handleVars, mqttVars, poolVars
<1>35. CASE HttpFetchFails /\ UNCHANGED mqttVars
  BY <1>35 DEF HttpFetchFails, HttpOver, httpRest, httpWire, mqttVars, poolVars
<1>36. CASE HttpResponds /\ UNCHANGED mqttVars
  BY <1>36 DEF HttpResponds, HttpOver, httpRest, httpWire, handleVars, mqttVars, poolVars
<1>37. CASE KafkaConnects /\ UNCHANGED mqttVars
  BY <1>37 DEF KafkaConnects, kafkaRest, pumpVars, handleVars, Dispatchable, mqttVars,
      poolVars
<1>38. CASE KafkaSends /\ UNCHANGED mqttVars
  BY <1>38 DEF KafkaSends, kafkaRest, handleVars, mqttVars, poolVars
<1>39. CASE KafkaInputsEnd /\ UNCHANGED mqttVars
  BY <1>39 DEF KafkaInputsEnd, InputsEnd, kafkaRest, handleVars, mqttVars, poolVars
<1>40. CASE KafkaHandles /\ UNCHANGED mqttVars
  BY <1>40 DEF KafkaHandles, kafkaRest, handleVars, mqttVars, poolVars
<1>41. CASE KafkaDisconnects /\ UNCHANGED mqttVars
  BY <1>41 DEF KafkaDisconnects, kafkaRest, mqttVars, poolVars
<1>42. CASE KafkaAborted /\ UNCHANGED mqttVars
  BY <1>42 DEF KafkaAborted, kafkaStopRest, kafkaRest, handleVars, mqttVars, poolVars
<1>43. CASE KafkaConnectFails /\ UNCHANGED mqttVars
  BY <1>43 DEF KafkaConnectFails, kafkaRest, pumpVars, mqttVars, poolVars
<1>44. CASE KafkaConnected /\ UNCHANGED mqttVars
  BY <1>44 DEF KafkaConnected, kafkaRest, pumpVars, handleVars, mqttVars, poolVars
<1>45. CASE KafkaDelivers /\ UNCHANGED mqttVars
  BY <1>45 DEF KafkaDelivers, kafkaRest, handleVars, mqttVars, poolVars
<1>46. CASE KafkaCrashes /\ UNCHANGED mqttVars
  BY <1>46 DEF KafkaCrashes, kafkaStopRest, kafkaRest, handleVars, mqttVars, poolVars
<1>47. CASE MqttAcquires
  BY <1>47 DEF MqttAcquires, mqttRest, handleVars, pumpVars, Dispatchable
<1>48. CASE MqttReady
  BY <1>48 DEF MqttReady, mqttRest, handleVars, poolVars
<1>49. CASE MqttLeaves
  BY <1>49 DEF MqttLeaves, Released, mqttRest
<1>50. CASE MqttSends
  BY <1>50 DEF MqttSends, mqttFeedRest, mqttRest, handleVars, mqttVars, poolVars
<1>51. CASE MqttInputsEnd
  BY <1>51 DEF MqttInputsEnd, InputsEnd, mqttFeedRest, mqttRest, handleVars, mqttVars,
      poolVars
<1>52. CASE MqttHandles
  BY <1>52 DEF MqttHandles, mqttRest, handleVars, mqttVars, poolVars
<1>53. CASE MqttStops
  BY <1>53 DEF MqttStops, mqttFeedRest, mqttRest, handleVars, mqttVars, poolVars
<1>54. CASE SiblingAcquires
  BY <1>54 DEF SiblingAcquires, mqttRest, handleVars, pumpVars
<1>55. CASE SiblingReady
  BY <1>55 DEF SiblingReady, mqttRest, handleVars, pumpVars
<1>56. CASE SiblingReleases
  BY <1>56 DEF SiblingReleases, Released, mqttRest, handleVars, pumpVars
<1>57. CASE MqttConnected
  BY <1>57 DEF MqttConnected, mqttRest, handleVars, pumpVars, mqttVars, poolVars
<1>58. CASE MqttConnectFails
  BY <1>58 DEF MqttConnectFails, mqttRest, handleVars, pumpVars
<1>59. CASE MqttSubscribed
  BY <1>59 DEF MqttSubscribed, mqttFeedRest, mqttRest, handleVars, mqttVars, poolVars
<1>60. CASE MqttSubscribeFails
  BY <1>60 DEF MqttSubscribeFails, mqttFeedRest, mqttRest, handleVars, mqttVars, poolVars
<1>61. CASE MqttDelivers
  BY <1>61 DEF MqttDelivers, mqttRest, handleVars, mqttVars, poolVars
<1>62. CASE MqttDrops
  BY <1>62 DEF MqttDrops, mqttRest, handleVars, pumpVars, mqttVars, poolVars
<1>63. CASE MqttClosed
  BY <1>63 DEF MqttClosed, mqttRest, handleVars, mqttVars, poolVars
<1>64. CASE UNCHANGED lanesVars
  BY <1>64 DEF lanesVars, vars, handleVars, wireVars, pumpVars, mqttVars, poolVars
<1> QED
  BY <1>1, <1>2, <1>3, <1>4, <1>5, <1>6, <1>7, <1>8, <1>9, <1>10, <1>11, <1>12, <1>13, <1>14,
      <1>15, <1>16, <1>17, <1>18, <1>19, <1>20, <1>21, <1>22, <1>23, <1>24, <1>25, <1>26,
      <1>27, <1>28, <1>29, <1>30, <1>31, <1>32, <1>33, <1>34, <1>35, <1>36, <1>37, <1>38,
      <1>39, <1>40, <1>41, <1>42, <1>43, <1>44, <1>45, <1>46, <1>47, <1>48, <1>49, <1>50,
      <1>51, <1>52, <1>53, <1>54, <1>55, <1>56, <1>57, <1>58, <1>59, <1>60, <1>61, <1>62,
      <1>63, <1>64 DEF LanesNext, OwnStep, BindingStep, CallerStep, WsRuns, WsPeer, HttpRuns,
      HttpPeer, KafkaRuns, KafkaPeer, MqttRuns, MqttPeer

(* Who joins, waits, holds or leaves is counted.                           *)
LEMMA PoolStep ==
  ASSUME ControlInv, HeldInv, PoolInv, [LanesNext]_lanesVars
  PROVE  PoolInv'
<1> USE DEF ControlInv, HeldInv, PoolInv, Idle, FromInputs, cell, WebSocket, Exchange, Kafka,
    Mqtt, Alive, EndAs, CloseInput
<1>1. CASE Preflight /\ UNCHANGED mqttVars
  BY <1>1 DEF Preflight, laneRest, wireVars, pumpVars, handleVars, mqttVars, poolVars
<1>2. CASE AddressFixed /\ UNCHANGED mqttVars
  BY <1>2 DEF AddressFixed, laneRest, wireVars, pumpVars, handleVars, mqttVars, poolVars
<1>3. CASE AddressFromInput /\ UNCHANGED mqttVars
  BY <1>3 DEF AddressFromInput, laneRest, wireVars, pumpVars, mqttVars, poolVars
<1>4. CASE AddressRefused /\ UNCHANGED mqttVars
  BY <1>4 DEF AddressRefused, laneRest, wireVars, pumpVars, mqttVars, poolVars
<1>5. CASE RefuseDispatch /\ UNCHANGED mqttVars
  BY <1>5 DEF RefuseDispatch, laneRest, wireVars, pumpVars, mqttVars, poolVars
<1>6. CASE FeedReads /\ UNCHANGED mqttVars
  BY <1>6 DEF FeedReads, ReadInput, wireVars, mqttVars, poolVars
<1>7. CASE PumpEmits /\ UNCHANGED mqttVars
  BY <1>7 DEF PumpEmits, wireVars, handleVars, mqttVars, poolVars
<1>8. CASE Write /\ UNCHANGED mqttVars
  BY <1>8 DEF Write, wireVars, pumpVars, mqttVars, poolVars
<1>9. CASE FinishInput /\ UNCHANGED mqttVars
  BY <1>9 DEF FinishInput, wireVars, pumpVars, mqttVars, poolVars
<1>10. CASE Cancel /\ UNCHANGED mqttVars
  BY <1>10 DEF Cancel, wireVars, pumpVars, mqttVars, poolVars
<1>11. CASE WsDial /\ UNCHANGED mqttVars
  BY <1>11 DEF WsDial, wsRest, pumpVars, handleVars, Dispatchable, mqttVars, poolVars
<1>12. CASE WsAcquired /\ UNCHANGED mqttVars
  BY <1>12 DEF WsAcquired, Listen, wsRest, pumpVars, handleVars, mqttVars, poolVars
<1>13. CASE WsInputAcquired /\ UNCHANGED mqttVars
  BY <1>13 DEF WsInputAcquired, Listen, wsRest, pumpVars, handleVars, mqttVars, poolVars
<1>14. CASE WsAcquireFails /\ UNCHANGED mqttVars
  BY <1>14 DEF WsAcquireFails, wsRest, pumpVars, handleVars, mqttVars, poolVars
<1>15. CASE PumpTakes /\ UNCHANGED mqttVars
  BY <1>15 DEF PumpTakes, pumpRest, handleVars, mqttVars, poolVars
<1>16. CASE PumpDecodes /\ UNCHANGED mqttVars
  BY <1>16 DEF PumpDecodes, pumpRest, handleVars, mqttVars, poolVars
<1>17. CASE PumpRefused /\ UNCHANGED mqttVars
  BY <1>17 DEF PumpRefused, pumpRest, handleVars, mqttVars, poolVars
<1>18. CASE PumpEnds /\ UNCHANGED mqttVars
  BY <1>18 DEF PumpEnds, pumpRest, handleVars, mqttVars, poolVars
<1>19. CASE WsSends /\ UNCHANGED mqttVars
  BY <1>19 DEF WsSends, Writable, feedRest, handleVars, mqttVars, poolVars
<1>20. CASE WsInputEnds /\ UNCHANGED mqttVars
  BY <1>20 DEF WsInputEnds, InputsEnd, feedRest, handleVars, mqttVars, poolVars
<1>21. CASE WsFinishes /\ UNCHANGED mqttVars
  BY <1>21 DEF WsFinishes, wsRest, pumpVars, handleVars, mqttVars, poolVars
<1>22. CASE FrameUnheard /\ UNCHANGED mqttVars
  BY <1>22 DEF FrameUnheard, wsRest, pumpVars, handleVars, mqttVars, poolVars
<1>23. CASE FrameArrives /\ UNCHANGED mqttVars
  BY <1>23 DEF FrameArrives, Listening, wsRest, pumpVars, handleVars, mqttVars, poolVars
<1>24. CASE SocketErrs /\ UNCHANGED mqttVars
  BY <1>24 DEF SocketErrs, Listening, wsRest, pumpVars, handleVars, mqttVars, poolVars
<1>25. CASE SocketCloses /\ UNCHANGED mqttVars
  BY <1>25 DEF SocketCloses, Listening, wsRest, pumpVars, handleVars, mqttVars, poolVars
<1>26. CASE InputSocketEnds /\ UNCHANGED mqttVars
  BY <1>26 DEF InputSocketEnds, wsRest, pumpVars, handleVars, mqttVars, poolVars
<1>27. CASE HttpStart /\ UNCHANGED mqttVars
  BY <1>27 DEF HttpStart, httpRest, httpWire, handleVars, Dispatchable, mqttVars, poolVars
<1>28. CASE HttpFirstInput /\ UNCHANGED mqttVars
  BY <1>28 DEF HttpFirstInput, httpRest, httpWire, mqttVars, poolVars
<1>29. CASE HttpNoInput /\ UNCHANGED mqttVars
  BY <1>29 DEF HttpNoInput, HttpOver, httpRest, httpWire, mqttVars, poolVars
<1>30. CASE HttpUnencodable /\ UNCHANGED mqttVars
  BY <1>30 DEF HttpUnencodable, HttpOver, httpRest, httpWire, mqttVars, poolVars
<1>31. CASE HttpFetch /\ UNCHANGED mqttVars
  BY <1>31 DEF HttpFetch, httpRest, httpWire, handleVars, mqttVars, poolVars
<1>32. CASE HttpBody /\ UNCHANGED mqttVars
  BY <1>32 DEF HttpBody, HttpOver, httpRest, httpWire, handleVars, mqttVars, poolVars
<1>33. CASE HttpDecodes /\ UNCHANGED mqttVars
  BY <1>33 DEF HttpDecodes, HttpOver, httpRest, httpWire, handleVars, mqttVars, poolVars
<1>34. CASE HttpCloses /\ UNCHANGED mqttVars
  BY <1>34 DEF HttpCloses, HttpOver, httpRest, httpWire, handleVars, mqttVars, poolVars
<1>35. CASE HttpFetchFails /\ UNCHANGED mqttVars
  BY <1>35 DEF HttpFetchFails, HttpOver, httpRest, httpWire, mqttVars, poolVars
<1>36. CASE HttpResponds /\ UNCHANGED mqttVars
  BY <1>36 DEF HttpResponds, HttpOver, httpRest, httpWire, handleVars, mqttVars, poolVars
<1>37. CASE KafkaConnects /\ UNCHANGED mqttVars
  BY <1>37 DEF KafkaConnects, kafkaRest, pumpVars, handleVars, Dispatchable, mqttVars,
      poolVars
<1>38. CASE KafkaSends /\ UNCHANGED mqttVars
  BY <1>38 DEF KafkaSends, kafkaRest, handleVars, mqttVars, poolVars
<1>39. CASE KafkaInputsEnd /\ UNCHANGED mqttVars
  BY <1>39 DEF KafkaInputsEnd, InputsEnd, kafkaRest, handleVars, mqttVars, poolVars
<1>40. CASE KafkaHandles /\ UNCHANGED mqttVars
  BY <1>40 DEF KafkaHandles, kafkaRest, handleVars, mqttVars, poolVars
<1>41. CASE KafkaDisconnects /\ UNCHANGED mqttVars
  BY <1>41 DEF KafkaDisconnects, kafkaRest, mqttVars, poolVars
<1>42. CASE KafkaAborted /\ UNCHANGED mqttVars
  BY <1>42 DEF KafkaAborted, kafkaStopRest, kafkaRest, handleVars, mqttVars, poolVars
<1>43. CASE KafkaConnectFails /\ UNCHANGED mqttVars
  BY <1>43 DEF KafkaConnectFails, kafkaRest, pumpVars, mqttVars, poolVars
<1>44. CASE KafkaConnected /\ UNCHANGED mqttVars
  BY <1>44 DEF KafkaConnected, kafkaRest, pumpVars, handleVars, mqttVars, poolVars
<1>45. CASE KafkaDelivers /\ UNCHANGED mqttVars
  BY <1>45 DEF KafkaDelivers, kafkaRest, handleVars, mqttVars, poolVars
<1>46. CASE KafkaCrashes /\ UNCHANGED mqttVars
  BY <1>46 DEF KafkaCrashes, kafkaStopRest, kafkaRest, handleVars, mqttVars, poolVars
<1>47. CASE MqttAcquires
  BY <1>47 DEF MqttAcquires, mqttRest, handleVars, pumpVars, Dispatchable
<1>48. CASE MqttReady
  BY <1>48 DEF MqttReady, mqttRest, handleVars, poolVars
<1>49. CASE MqttLeaves
  <2>1. /\ cell \in Mqtt /\ main = "running" /\ main' = "finished" /\ facts' = facts
        /\ UNCHANGED <<siblings, waiting>>
    BY <1>49 DEF MqttLeaves, mqttRest
  <2>2. /\ pooled /\ users = siblings + waiting + 1 /\ conn # "dialing"
        /\ users \in Nat /\ siblings \in Nat /\ waiting \in Nat
    BY <2>1
  <2>3. CASE users > 1 /\ users' = users - 1 /\ UNCHANGED <<pooled, conn>>
    <3>1. users' \in Nat /\ users' = siblings' + waiting'
      BY <2>1, <2>2, <2>3
    <3> QED
      BY <2>1, <2>2, <2>3, <3>1
  <2>4. CASE ~(users > 1) /\ users' = users - 1 /\ pooled' = FALSE /\ conn' = "ended"
    <3>1. users' = 0 /\ siblings' = 0 /\ waiting' = 0
      BY <2>1, <2>2, <2>4
    <3> QED
      BY <2>1, <2>4, <3>1
  <2> QED
    BY <1>49, <2>3, <2>4 DEF MqttLeaves, Released
<1>50. CASE MqttSends
  BY <1>50 DEF MqttSends, mqttFeedRest, mqttRest, handleVars, mqttVars, poolVars
<1>51. CASE MqttInputsEnd
  BY <1>51 DEF MqttInputsEnd, InputsEnd, mqttFeedRest, mqttRest, handleVars, mqttVars,
      poolVars
<1>52. CASE MqttHandles
  BY <1>52 DEF MqttHandles, mqttRest, handleVars, mqttVars, poolVars
<1>53. CASE MqttStops
  BY <1>53 DEF MqttStops, mqttFeedRest, mqttRest, handleVars, mqttVars, poolVars
<1>54. CASE SiblingAcquires
  BY <1>54 DEF SiblingAcquires, mqttRest, handleVars, pumpVars
<1>55. CASE SiblingReady
  BY <1>55 DEF SiblingReady, mqttRest, handleVars, pumpVars
<1>56. CASE SiblingReleases
  <2>1. /\ siblings > 0 /\ siblings' = siblings - 1
        /\ UNCHANGED <<facts, main, waiting>>
    BY <1>56 DEF SiblingReleases, mqttRest
  <2> DEFINE mine == IF cell \in Mqtt /\ main \in {"acquiring", "running"} THEN 1 ELSE 0
  <2>2. /\ pooled /\ cell \in Mqtt /\ users = siblings + waiting + mine
        /\ conn # "dialing" /\ mine \in {0, 1} /\ mine' = mine
        /\ users \in Nat /\ siblings \in Nat /\ waiting \in Nat
    BY <2>1
  <2>3. CASE users > 1 /\ users' = users - 1 /\ UNCHANGED <<pooled, conn>>
    <3>1. users' \in Nat /\ siblings' \in Nat /\ users' = siblings' + waiting' + mine'
      <4> HIDE DEF mine, ControlInv, HeldInv, PoolInv
      <4> QED
        BY <2>1, <2>2, <2>3
    <3> QED
      BY <2>1, <2>2, <2>3, <3>1
  <2>4. CASE ~(users > 1) /\ users' = users - 1 /\ pooled' = FALSE /\ conn' = "ended"
    <3>1. users' = 0 /\ siblings' = 0 /\ waiting' = 0 /\ mine = 0
      <4> HIDE DEF mine, ControlInv, HeldInv, PoolInv
      <4> QED
        BY <2>1, <2>2, <2>4
    <3>2. main \notin {"acquiring", "running"}
      BY <2>2, <3>1
    <3> QED
      BY <2>1, <2>2, <2>4, <3>1, <3>2
  <2> QED
    BY <1>56, <2>3, <2>4 DEF SiblingReleases, Released
<1>57. CASE MqttConnected
  BY <1>57 DEF MqttConnected, mqttRest, handleVars, pumpVars, mqttVars, poolVars
<1>58. CASE MqttConnectFails
  BY <1>58 DEF MqttConnectFails, mqttRest, handleVars, pumpVars
<1>59. CASE MqttSubscribed
  BY <1>59 DEF MqttSubscribed, mqttFeedRest, mqttRest, handleVars, mqttVars, poolVars
<1>60. CASE MqttSubscribeFails
  BY <1>60 DEF MqttSubscribeFails, mqttFeedRest, mqttRest, handleVars, mqttVars, poolVars
<1>61. CASE MqttDelivers
  BY <1>61 DEF MqttDelivers, mqttRest, handleVars, mqttVars, poolVars
<1>62. CASE MqttDrops
  BY <1>62 DEF MqttDrops, mqttRest, handleVars, pumpVars, mqttVars, poolVars
<1>63. CASE MqttClosed
  BY <1>63 DEF MqttClosed, mqttRest, handleVars, mqttVars, poolVars
<1>64. CASE UNCHANGED lanesVars
  BY <1>64 DEF lanesVars, vars, handleVars, wireVars, pumpVars, mqttVars, poolVars
<1> QED
  BY <1>1, <1>2, <1>3, <1>4, <1>5, <1>6, <1>7, <1>8, <1>9, <1>10, <1>11, <1>12, <1>13, <1>14,
      <1>15, <1>16, <1>17, <1>18, <1>19, <1>20, <1>21, <1>22, <1>23, <1>24, <1>25, <1>26,
      <1>27, <1>28, <1>29, <1>30, <1>31, <1>32, <1>33, <1>34, <1>35, <1>36, <1>37, <1>38,
      <1>39, <1>40, <1>41, <1>42, <1>43, <1>44, <1>45, <1>46, <1>47, <1>48, <1>49, <1>50,
      <1>51, <1>52, <1>53, <1>54, <1>55, <1>56, <1>57, <1>58, <1>59, <1>60, <1>61, <1>62,
      <1>63, <1>64 DEF LanesNext, OwnStep, BindingStep, CallerStep, WsRuns, WsPeer, HttpRuns,
      HttpPeer, KafkaRuns, KafkaPeer, MqttRuns, MqttPeer

(* An input is read, encoded and sent before the next one.                 *)
LEMMA FeedStep ==
  ASSUME ControlInv, FeedInv, [LanesNext]_lanesVars
  PROVE  FeedInv'
<1> USE DEF ControlInv, FeedInv, Counted, Idle, FromInputs, cell, WebSocket, Exchange, Kafka,
    Mqtt, Alive, EndAs, CloseInput
<1>1. CASE Preflight
  BY <1>1 DEF Preflight, laneRest, wireVars, pumpVars, handleVars
<1>2. CASE AddressFixed
  BY <1>2 DEF AddressFixed, laneRest, wireVars, pumpVars, handleVars
<1>3. CASE AddressFromInput
  BY <1>3 DEF AddressFromInput, laneRest, wireVars, pumpVars
<1>4. CASE AddressRefused
  BY <1>4 DEF AddressRefused, laneRest, wireVars, pumpVars
<1>5. CASE RefuseDispatch
  BY <1>5 DEF RefuseDispatch, laneRest, wireVars, pumpVars
<1>6. CASE FeedReads
  BY <1>6 DEF FeedReads, ReadInput, wireVars
<1>7. CASE PumpEmits
  BY <1>7 DEF PumpEmits, wireVars, handleVars
<1>8. CASE Write
  BY <1>8 DEF Write, wireVars, pumpVars
<1>9. CASE FinishInput
  BY <1>9 DEF FinishInput, wireVars, pumpVars
<1>10. CASE Cancel
  BY <1>10 DEF Cancel, wireVars, pumpVars
<1>11. CASE WsDial
  BY <1>11 DEF WsDial, wsRest, pumpVars, handleVars, Dispatchable
<1>12. CASE WsAcquired
  BY <1>12 DEF WsAcquired, Listen, wsRest, pumpVars, handleVars
<1>13. CASE WsInputAcquired
  BY <1>13 DEF WsInputAcquired, Listen, wsRest, pumpVars, handleVars
<1>14. CASE WsAcquireFails
  BY <1>14 DEF WsAcquireFails, wsRest, pumpVars, handleVars
<1>15. CASE PumpTakes
  BY <1>15 DEF PumpTakes, pumpRest, handleVars
<1>16. CASE PumpDecodes
  BY <1>16 DEF PumpDecodes, pumpRest, handleVars
<1>17. CASE PumpRefused
  BY <1>17 DEF PumpRefused, pumpRest, handleVars
<1>18. CASE PumpEnds
  BY <1>18 DEF PumpEnds, pumpRest, handleVars
<1>19. CASE WsSends
  <2>1. /\ feed = "encoding" /\ cell \in WebSocket
        /\ UNCHANGED <<facts, prepared, given, taken>>
    BY <1>19 DEF WsSends, feedRest, handleVars
  <2>2. CASE sent' = Append(sent, taken) /\ feed' = "reading" /\ UNCHANGED handleVars
    <3>1. sent' \in Seq(Nat) /\ Len(sent') = Len(sent) + 1
      BY <2>2, AppendProperties
    <3>2. ASSUME Counted
          PROVE  (\A n \in 1..Len(sent') : sent'[n] = n) /\ taken = Len(sent')
      BY <2>1, <2>2, <3>1, <3>2, AppendProperties
    <3> QED
      BY <2>1, <2>2, <3>1, <3>2 DEF handleVars
  <2>3. CASE feed' = "done" /\ UNCHANGED sent /\ ended' # "closed"
    BY <2>1, <2>3
  <2> QED
    BY <1>19, <2>1, <2>2, <2>3 DEF WsSends, handleVars
<1>20. CASE WsInputEnds
  <2>1. /\ feed = "reading" /\ feed' = "done" /\ cell \in WebSocket
        /\ UNCHANGED <<facts, prepared, given, taken, sent>>
    BY <1>20 DEF WsInputEnds, feedRest, handleVars
  <2>2. CASE InputsEnd /\ sent # <<>> /\ cell = "wsIn" /\ ended' = "closed"
    <3>1. Counted => Len(sent) = given
      BY <2>1, <2>2 DEF InputsEnd
    <3> QED
      BY <2>1, <2>2, <3>1
  <2>3. CASE cell # "wsIn" \/ ended' # "closed"
    BY <2>1, <2>3
  <2> QED
    BY <1>20, <2>1, <2>2, <2>3 DEF WsInputEnds, Receives, handleVars
<1>21. CASE WsFinishes
  BY <1>21 DEF WsFinishes, wsRest, pumpVars, handleVars
<1>22. CASE FrameUnheard
  BY <1>22 DEF FrameUnheard, wsRest, pumpVars, handleVars
<1>23. CASE FrameArrives
  BY <1>23 DEF FrameArrives, Listening, wsRest, pumpVars, handleVars
<1>24. CASE SocketErrs
  BY <1>24 DEF SocketErrs, Listening, wsRest, pumpVars, handleVars
<1>25. CASE SocketCloses
  BY <1>25 DEF SocketCloses, Listening, wsRest, pumpVars, handleVars
<1>26. CASE InputSocketEnds
  BY <1>26 DEF InputSocketEnds, wsRest, pumpVars, handleVars
<1>27. CASE HttpStart
  BY <1>27 DEF HttpStart, httpRest, httpWire, handleVars, Dispatchable
<1>28. CASE HttpFirstInput
  BY <1>28 DEF HttpFirstInput, httpRest, httpWire
<1>29. CASE HttpNoInput
  BY <1>29 DEF HttpNoInput, HttpOver, httpRest, httpWire
<1>30. CASE HttpUnencodable
  BY <1>30 DEF HttpUnencodable, HttpOver, httpRest, httpWire
<1>31. CASE HttpFetch
  BY <1>31 DEF HttpFetch, httpRest, httpWire, handleVars
<1>32. CASE HttpBody
  BY <1>32 DEF HttpBody, HttpOver, httpRest, httpWire, handleVars
<1>33. CASE HttpDecodes
  BY <1>33 DEF HttpDecodes, HttpOver, httpRest, httpWire, handleVars
<1>34. CASE HttpCloses
  BY <1>34 DEF HttpCloses, HttpOver, httpRest, httpWire, handleVars
<1>35. CASE HttpFetchFails
  BY <1>35 DEF HttpFetchFails, HttpOver, httpRest, httpWire
<1>36. CASE HttpResponds
  BY <1>36 DEF HttpResponds, HttpOver, httpRest, httpWire, handleVars
<1>37. CASE KafkaConnects
  BY <1>37 DEF KafkaConnects, kafkaRest, pumpVars, handleVars, Dispatchable
<1>38. CASE KafkaSends
  BY <1>38, SMTT(30) DEF KafkaSends, kafkaRest, handleVars
<1>39. CASE KafkaInputsEnd
  BY <1>39 DEF KafkaInputsEnd, InputsEnd, kafkaRest, handleVars
<1>40. CASE KafkaHandles
  BY <1>40 DEF KafkaHandles, kafkaRest, handleVars
<1>41. CASE KafkaDisconnects
  BY <1>41 DEF KafkaDisconnects, kafkaRest
<1>42. CASE KafkaAborted
  BY <1>42 DEF KafkaAborted, kafkaStopRest, kafkaRest, handleVars
<1>43. CASE KafkaConnectFails
  BY <1>43 DEF KafkaConnectFails, kafkaRest, pumpVars
<1>44. CASE KafkaConnected
  BY <1>44 DEF KafkaConnected, kafkaRest, pumpVars, handleVars
<1>45. CASE KafkaDelivers
  BY <1>45 DEF KafkaDelivers, kafkaRest, handleVars
<1>46. CASE KafkaCrashes
  BY <1>46 DEF KafkaCrashes, kafkaStopRest, kafkaRest, handleVars
<1>47. CASE MqttAcquires
  BY <1>47 DEF MqttAcquires, mqttRest, handleVars, pumpVars, Dispatchable
<1>48. CASE MqttReady
  BY <1>48 DEF MqttReady, mqttRest, handleVars, poolVars
<1>49. CASE MqttLeaves
  BY <1>49 DEF MqttLeaves, Released, mqttRest
<1>50. CASE MqttSends
  BY <1>50, SMTT(30) DEF MqttSends, mqttFeedRest, mqttRest, handleVars, mqttVars, poolVars
<1>51. CASE MqttInputsEnd
  BY <1>51 DEF MqttInputsEnd, InputsEnd, mqttFeedRest, mqttRest, handleVars, mqttVars,
      poolVars
<1>52. CASE MqttHandles
  BY <1>52 DEF MqttHandles, mqttRest, handleVars, mqttVars, poolVars
<1>53. CASE MqttStops
  BY <1>53 DEF MqttStops, mqttFeedRest, mqttRest, handleVars, mqttVars, poolVars
<1>54. CASE SiblingAcquires
  BY <1>54 DEF SiblingAcquires, mqttRest, handleVars, pumpVars
<1>55. CASE SiblingReady
  BY <1>55 DEF SiblingReady, mqttRest, handleVars, pumpVars
<1>56. CASE SiblingReleases
  BY <1>56 DEF SiblingReleases, Released, mqttRest, handleVars, pumpVars
<1>57. CASE MqttConnected
  BY <1>57 DEF MqttConnected, mqttRest, handleVars, pumpVars, mqttVars, poolVars
<1>58. CASE MqttConnectFails
  BY <1>58 DEF MqttConnectFails, mqttRest, handleVars, pumpVars
<1>59. CASE MqttSubscribed
  BY <1>59 DEF MqttSubscribed, mqttFeedRest, mqttRest, handleVars, mqttVars, poolVars
<1>60. CASE MqttSubscribeFails
  BY <1>60 DEF MqttSubscribeFails, mqttFeedRest, mqttRest, handleVars, mqttVars, poolVars
<1>61. CASE MqttDelivers
  BY <1>61 DEF MqttDelivers, mqttRest, handleVars, mqttVars, poolVars
<1>62. CASE MqttDrops
  BY <1>62 DEF MqttDrops, mqttRest, handleVars, pumpVars, mqttVars, poolVars
<1>63. CASE MqttClosed
  BY <1>63 DEF MqttClosed, mqttRest, handleVars, mqttVars, poolVars
<1>64. CASE UNCHANGED lanesVars
  BY <1>64 DEF lanesVars, vars, handleVars, wireVars, pumpVars, mqttVars, poolVars
<1> QED
  BY <1>1, <1>2, <1>3, <1>4, <1>5, <1>6, <1>7, <1>8, <1>9, <1>10, <1>11, <1>12, <1>13, <1>14,
      <1>15, <1>16, <1>17, <1>18, <1>19, <1>20, <1>21, <1>22, <1>23, <1>24, <1>25, <1>26,
      <1>27, <1>28, <1>29, <1>30, <1>31, <1>32, <1>33, <1>34, <1>35, <1>36, <1>37, <1>38,
      <1>39, <1>40, <1>41, <1>42, <1>43, <1>44, <1>45, <1>46, <1>47, <1>48, <1>49, <1>50,
      <1>51, <1>52, <1>53, <1>54, <1>55, <1>56, <1>57, <1>58, <1>59, <1>60, <1>61, <1>62,
      <1>63, <1>64 DEF LanesNext, OwnStep, BindingStep, CallerStep, WsRuns, WsPeer, HttpRuns,
      HttpPeer, KafkaRuns, KafkaPeer, MqttRuns, MqttPeer

(* A success closes a stream only when it was heard to close.              *)
LEMMA ListenStep ==
  ASSUME ControlInv, ListenInv, [LanesNext]_lanesVars
  PROVE  ListenInv'
<1> USE DEF ControlInv, ListenInv, Idle, FromInputs, cell, WebSocket, Exchange, Kafka, Mqtt,
    Alive, EndAs, CloseInput
<1>1. CASE Preflight
  BY <1>1 DEF Preflight, laneRest, wireVars, pumpVars, handleVars
<1>2. CASE AddressFixed
  BY <1>2 DEF AddressFixed, laneRest, wireVars, pumpVars, handleVars
<1>3. CASE AddressFromInput
  BY <1>3 DEF AddressFromInput, laneRest, wireVars, pumpVars
<1>4. CASE AddressRefused
  BY <1>4 DEF AddressRefused, laneRest, wireVars, pumpVars
<1>5. CASE RefuseDispatch
  BY <1>5 DEF RefuseDispatch, laneRest, wireVars, pumpVars
<1>6. CASE FeedReads
  BY <1>6 DEF FeedReads, ReadInput, wireVars
<1>7. CASE PumpEmits
  BY <1>7 DEF PumpEmits, wireVars, handleVars
<1>8. CASE Write
  BY <1>8 DEF Write, wireVars, pumpVars
<1>9. CASE FinishInput
  BY <1>9 DEF FinishInput, wireVars, pumpVars
<1>10. CASE Cancel
  BY <1>10 DEF Cancel, wireVars, pumpVars
<1>11. CASE WsDial
  BY <1>11 DEF WsDial, wsRest, pumpVars, handleVars, Dispatchable
<1>12. CASE WsAcquired
  BY <1>12 DEF WsAcquired, Listen, wsRest, pumpVars, handleVars
<1>13. CASE WsInputAcquired
  BY <1>13 DEF WsInputAcquired, Listen, wsRest, pumpVars, handleVars
<1>14. CASE WsAcquireFails
  BY <1>14 DEF WsAcquireFails, wsRest, pumpVars, handleVars
<1>15. CASE PumpTakes
  BY <1>15 DEF PumpTakes, pumpRest, handleVars
<1>16. CASE PumpDecodes
  BY <1>16 DEF PumpDecodes, pumpRest, handleVars
<1>17. CASE PumpRefused
  BY <1>17 DEF PumpRefused, pumpRest, handleVars
<1>18. CASE PumpEnds
  BY <1>18 DEF PumpEnds, pumpRest, handleVars
<1>19. CASE WsSends
  BY <1>19 DEF WsSends, Writable, feedRest, handleVars
<1>20. CASE WsInputEnds
  BY <1>20 DEF WsInputEnds, InputsEnd, feedRest, handleVars
<1>21. CASE WsFinishes
  BY <1>21 DEF WsFinishes, wsRest, pumpVars, handleVars
<1>22. CASE FrameUnheard
  BY <1>22 DEF FrameUnheard, wsRest, pumpVars, handleVars
<1>23. CASE FrameArrives
  BY <1>23 DEF FrameArrives, Listening, wsRest, pumpVars, handleVars
<1>24. CASE SocketErrs
  BY <1>24 DEF SocketErrs, Listening, wsRest, pumpVars, handleVars
<1>25. CASE SocketCloses
  BY <1>25 DEF SocketCloses, Listening, wsRest, pumpVars, handleVars
<1>26. CASE InputSocketEnds
  BY <1>26 DEF InputSocketEnds, wsRest, pumpVars, handleVars
<1>27. CASE HttpStart
  BY <1>27 DEF HttpStart, httpRest, httpWire, handleVars, Dispatchable
<1>28. CASE HttpFirstInput
  BY <1>28 DEF HttpFirstInput, httpRest, httpWire
<1>29. CASE HttpNoInput
  BY <1>29 DEF HttpNoInput, HttpOver, httpRest, httpWire
<1>30. CASE HttpUnencodable
  BY <1>30 DEF HttpUnencodable, HttpOver, httpRest, httpWire
<1>31. CASE HttpFetch
  BY <1>31 DEF HttpFetch, httpRest, httpWire, handleVars
<1>32. CASE HttpBody
  BY <1>32 DEF HttpBody, HttpOver, httpRest, httpWire, handleVars
<1>33. CASE HttpDecodes
  BY <1>33 DEF HttpDecodes, HttpOver, httpRest, httpWire, handleVars
<1>34. CASE HttpCloses
  BY <1>34 DEF HttpCloses, HttpOver, httpRest, httpWire, handleVars
<1>35. CASE HttpFetchFails
  BY <1>35 DEF HttpFetchFails, HttpOver, httpRest, httpWire
<1>36. CASE HttpResponds
  BY <1>36 DEF HttpResponds, HttpOver, httpRest, httpWire, handleVars
<1>37. CASE KafkaConnects
  BY <1>37 DEF KafkaConnects, kafkaRest, pumpVars, handleVars, Dispatchable
<1>38. CASE KafkaSends
  BY <1>38 DEF KafkaSends, kafkaRest, handleVars
<1>39. CASE KafkaInputsEnd
  BY <1>39 DEF KafkaInputsEnd, InputsEnd, kafkaRest, handleVars
<1>40. CASE KafkaHandles
  BY <1>40 DEF KafkaHandles, kafkaRest, handleVars
<1>41. CASE KafkaDisconnects
  BY <1>41 DEF KafkaDisconnects, kafkaRest
<1>42. CASE KafkaAborted
  BY <1>42 DEF KafkaAborted, kafkaStopRest, kafkaRest, handleVars
<1>43. CASE KafkaConnectFails
  BY <1>43 DEF KafkaConnectFails, kafkaRest, pumpVars
<1>44. CASE KafkaConnected
  BY <1>44 DEF KafkaConnected, kafkaRest, pumpVars, handleVars
<1>45. CASE KafkaDelivers
  BY <1>45 DEF KafkaDelivers, kafkaRest, handleVars
<1>46. CASE KafkaCrashes
  BY <1>46 DEF KafkaCrashes, kafkaStopRest, kafkaRest, handleVars
<1>47. CASE MqttAcquires
  BY <1>47 DEF MqttAcquires, mqttRest, handleVars, pumpVars, Dispatchable
<1>48. CASE MqttReady
  BY <1>48 DEF MqttReady, mqttRest, handleVars, poolVars
<1>49. CASE MqttLeaves
  BY <1>49 DEF MqttLeaves, Released, mqttRest
<1>50. CASE MqttSends
  BY <1>50 DEF MqttSends, mqttFeedRest, mqttRest, handleVars, mqttVars, poolVars
<1>51. CASE MqttInputsEnd
  BY <1>51 DEF MqttInputsEnd, InputsEnd, mqttFeedRest, mqttRest, handleVars, mqttVars,
      poolVars
<1>52. CASE MqttHandles
  BY <1>52 DEF MqttHandles, mqttRest, handleVars, mqttVars, poolVars
<1>53. CASE MqttStops
  BY <1>53 DEF MqttStops, mqttFeedRest, mqttRest, handleVars, mqttVars, poolVars
<1>54. CASE SiblingAcquires
  BY <1>54 DEF SiblingAcquires, mqttRest, handleVars, pumpVars
<1>55. CASE SiblingReady
  BY <1>55 DEF SiblingReady, mqttRest, handleVars, pumpVars
<1>56. CASE SiblingReleases
  BY <1>56 DEF SiblingReleases, Released, mqttRest, handleVars, pumpVars
<1>57. CASE MqttConnected
  BY <1>57 DEF MqttConnected, mqttRest, handleVars, pumpVars, mqttVars, poolVars
<1>58. CASE MqttConnectFails
  BY <1>58 DEF MqttConnectFails, mqttRest, handleVars, pumpVars
<1>59. CASE MqttSubscribed
  BY <1>59 DEF MqttSubscribed, mqttFeedRest, mqttRest, handleVars, mqttVars, poolVars
<1>60. CASE MqttSubscribeFails
  BY <1>60 DEF MqttSubscribeFails, mqttFeedRest, mqttRest, handleVars, mqttVars, poolVars
<1>61. CASE MqttDelivers
  BY <1>61 DEF MqttDelivers, mqttRest, handleVars, mqttVars, poolVars
<1>62. CASE MqttDrops
  BY <1>62 DEF MqttDrops, mqttRest, handleVars, pumpVars, mqttVars, poolVars
<1>63. CASE MqttClosed
  BY <1>63 DEF MqttClosed, mqttRest, handleVars, mqttVars, poolVars
<1>64. CASE UNCHANGED lanesVars
  BY <1>64 DEF lanesVars, vars, handleVars, wireVars, pumpVars, mqttVars, poolVars
<1> QED
  BY <1>1, <1>2, <1>3, <1>4, <1>5, <1>6, <1>7, <1>8, <1>9, <1>10, <1>11, <1>12, <1>13, <1>14,
      <1>15, <1>16, <1>17, <1>18, <1>19, <1>20, <1>21, <1>22, <1>23, <1>24, <1>25, <1>26,
      <1>27, <1>28, <1>29, <1>30, <1>31, <1>32, <1>33, <1>34, <1>35, <1>36, <1>37, <1>38,
      <1>39, <1>40, <1>41, <1>42, <1>43, <1>44, <1>45, <1>46, <1>47, <1>48, <1>49, <1>50,
      <1>51, <1>52, <1>53, <1>54, <1>55, <1>56, <1>57, <1>58, <1>59, <1>60, <1>61, <1>62,
      <1>63, <1>64 DEF LanesNext, OwnStep, BindingStep, CallerStep, WsRuns, WsPeer, HttpRuns,
      HttpPeer, KafkaRuns, KafkaPeer, MqttRuns, MqttPeer

(* A frame moves from the buffer to the pump and from it to the outputs.   *)
LEMMA DrainStep ==
  ASSUME ControlInv, ListenInv, DrainInv, [LanesNext]_lanesVars
  PROVE  DrainInv'
<1> USE DEF ControlInv, ListenInv, DrainInv, Passed, Item, Idle, FromInputs, cell, WebSocket,
    Exchange, Kafka, Mqtt, Alive, EndAs, CloseInput
<1>1. CASE Preflight /\ UNCHANGED mqttVars
  BY <1>1 DEF Preflight, laneRest, wireVars, pumpVars, handleVars, mqttVars
<1>2. CASE AddressFixed /\ UNCHANGED mqttVars
  BY <1>2 DEF AddressFixed, laneRest, wireVars, pumpVars, handleVars, mqttVars
<1>3. CASE AddressFromInput /\ UNCHANGED mqttVars
  BY <1>3 DEF AddressFromInput, laneRest, wireVars, pumpVars, mqttVars
<1>4. CASE AddressRefused /\ UNCHANGED mqttVars
  BY <1>4 DEF AddressRefused, laneRest, wireVars, pumpVars, mqttVars
<1>5. CASE RefuseDispatch /\ UNCHANGED mqttVars
  BY <1>5 DEF RefuseDispatch, laneRest, wireVars, pumpVars, mqttVars
<1>6. CASE FeedReads /\ UNCHANGED mqttVars
  BY <1>6 DEF FeedReads, ReadInput, wireVars, mqttVars
<1>7. CASE PumpEmits /\ UNCHANGED mqttVars
  <2>1. /\ pump = "emitting" /\ pump' = "waiting" /\ Alive /\ item' = 0
        /\ emitted' = Append(emitted, item)
        /\ UNCHANGED <<facts, ended, feed, frames, arrived, failed>>
    BY <1>7 DEF PumpEmits, wireVars, handleVars, mqttVars
  <2>2. emitted' \in Seq(Nat) /\ Item = <<item>> /\ Item' = <<>>
    BY <2>1, AppendProperties
  <2>3. CASE cell = "httpIn"
    <3>1. feed = "replying" /\ item = 1 /\ emitted = <<>> /\ arrived = <<1>>
      BY <2>1, <2>3
    <3>2. emitted' = <<1>>
      BY <2>1, <3>1
    <3>3. IsPrefix(emitted', arrived')
      BY <2>1, <3>1, <3>2, Firsts
    <3> QED
      BY <2>1, <2>2, <2>3, <3>1, <3>2, <3>3
  <2>5. CASE Passed
    BY <2>1, <2>2, <2>5
  <2>4. CASE cell # "httpIn" /\ ~Passed
    <3>1. arrived = (emitted \o <<item>>) \o frames
      BY <2>1, <2>2, <2>4
    <3>2. arrived' = emitted' \o frames'
      BY <2>1, <3>1, Lines
    <3>3. arrived' = emitted' \o Item' \o frames'
      BY <2>1, <2>2, <3>2, Lines
    <3>4. IsPrefix(emitted', arrived')
      BY <2>1, <2>2, <3>2, PrefixOfConcat
    <3>5. feed' # "off" /\ (cell = "wsOut" => ended' = "open")
      BY <2>1
    <3> QED
      BY <2>1, <2>2, <2>4, <3>3, <3>4, <3>5
  <2> QED
    BY <2>3, <2>4, <2>5
<1>8. CASE Write /\ UNCHANGED mqttVars
  BY <1>8 DEF Write, wireVars, pumpVars, mqttVars
<1>9. CASE FinishInput /\ UNCHANGED mqttVars
  BY <1>9 DEF FinishInput, wireVars, pumpVars, mqttVars
<1>10. CASE Cancel /\ UNCHANGED mqttVars
  BY <1>10 DEF Cancel, wireVars, pumpVars, mqttVars
<1>11. CASE WsDial
  BY <1>11 DEF WsDial, wsRest, pumpVars, handleVars, Dispatchable
<1>12. CASE WsAcquired
  <2>1. /\ cell \in WebSocket /\ Alive
        /\ pump' \in {"off", "done", "waiting"} /\ feed' \in {"off", "done", "reading"}
        /\ UNCHANGED <<facts, ended, frames, arrived, emitted, item>>
    BY <1>12 DEF WsAcquired, Listen, wsRest, pumpVars, handleVars
  <2>2. frames = <<>> /\ arrived = <<>> /\ emitted = <<>>
    BY <1>12 DEF WsAcquired
  <2>3. Item' = <<>>
    BY <2>1
  <2>4. arrived' = emitted' \o Item' \o frames'
    BY <2>1, <2>2, <2>3, Lines
  <2> QED
    BY <2>1, <2>2, <2>4
<1>13. CASE WsInputAcquired
  BY <1>13 DEF WsInputAcquired, Listen, wsRest, pumpVars, handleVars
<1>14. CASE WsAcquireFails
  BY <1>14 DEF WsAcquireFails, wsRest, pumpVars, handleVars
<1>15. CASE PumpTakes
  <2>1. /\ pump = "waiting" /\ pump' = "decoding" /\ cell \in WebSocket /\ frames # <<>>
        /\ item' = Head(frames) /\ frames' = Tail(frames)
        /\ UNCHANGED <<facts, ended, feed, arrived, emitted>>
    BY <1>15 DEF PumpTakes, pumpRest, handleVars
  <2>2. item' \in Nat /\ frames' \in Seq(Nat)
    BY <2>1, HeadTailProperties
  <2>3. Item = <<>> /\ Item' = <<item'>>
    BY <2>1
  <2>4. arrived = emitted \o frames
    BY <2>1, <2>3, Lines
  <2>5. arrived' = emitted' \o Item' \o frames'
    BY <2>1, <2>3, <2>4, Lines
  <2> QED
    BY <2>1, <2>2, <2>5
<1>16. CASE PumpDecodes
  <2>1. /\ pump = "decoding" /\ cell \in WebSocket /\ feed # "off"
        /\ UNCHANGED <<facts, feed, frames, arrived, emitted>>
    BY <1>16 DEF PumpDecodes, pumpRest
  <2>2. CASE pump' = "emitting" /\ UNCHANGED <<ended, item>>
    <3>1. Item' = Item
      BY <2>1, <2>2
    <3> QED
      BY <2>1, <2>2, <3>1
  <2>3. CASE pump' = "done" /\ item' = 0 /\ EndAs("responseError")
    <3>1. cell = "wsOut" => ended' \notin {"closed", "streamError"}
      BY <2>1, <2>3
    <3> QED
      BY <2>1, <2>3, <3>1
  <2> QED
    BY <1>16, <2>2, <2>3 DEF PumpDecodes, handleVars
<1>17. CASE PumpRefused
  BY <1>17 DEF PumpRefused, pumpRest, handleVars
<1>18. CASE PumpEnds
  <2>1. /\ pump = "waiting" /\ pump' = "done" /\ cell \in WebSocket /\ frames = <<>>
        /\ UNCHANGED <<facts, feed, frames, arrived, emitted, item>>
    BY <1>18 DEF PumpEnds, pumpRest
  <2>2. arrived = emitted \o <<>> \o <<>>
    BY <2>1
  <2>3. arrived = emitted
    BY <2>2, Lines
  <2> QED
    BY <2>1, <2>3
<1>19. CASE WsSends
  BY <1>19 DEF WsSends, Writable, feedRest, handleVars
<1>20. CASE WsInputEnds
  BY <1>20 DEF WsInputEnds, InputsEnd, feedRest, handleVars
<1>21. CASE WsFinishes
  BY <1>21 DEF WsFinishes, wsRest, pumpVars, handleVars
<1>22. CASE FrameUnheard
  BY <1>22 DEF FrameUnheard, wsRest, pumpVars, handleVars
<1>23. CASE FrameArrives
  <2>1. /\ conn = "open" /\ trouble = "none" /\ main = "running" /\ cell \in WebSocket
        /\ UNCHANGED <<facts, ended, feed, pump, item, emitted>>
    BY <1>23 DEF FrameArrives, Listening, wsRest, pumpVars, handleVars
  <2>2. feed # "off" /\ (cell = "wsOut" => ended \notin {"closed", "streamError"})
    BY <2>1
  <2>3. CASE UNCHANGED <<frames, arrived>>
    BY <2>1, <2>3
  <2>4. CASE frames' = Append(frames, Len(arrived) + 1) /\ arrived' = Append(arrived, Len(arrived) + 1)
    <3>1. Len(arrived) + 1 \in Nat /\ frames' \in Seq(Nat) /\ arrived' \in Seq(Nat)
      BY <2>4, AppendProperties
    <3>2. IsPrefix(emitted', arrived')
      BY <2>1, <2>4, <3>1, PrefixOfAppend
    <3>3. ASSUME pump \in {"waiting", "decoding", "emitting"}
          PROVE  arrived' = emitted' \o Item' \o frames'
      <4> DEFINE front == emitted \o Item
      <4>1. arrived = front \o frames /\ front' = front
        BY <2>1, <3>3
      <4>2. front \in Seq(Nat) /\ frames \in Seq(Nat)
        BY ConcatProperties
      <4>3. arrived' = front' \o frames'
        <5> HIDE DEF front, Item, ControlInv, ListenInv, DrainInv
        <5>1. \A x \in Nat : Append(front \o frames, x) = front \o Append(frames, x)
          BY <4>2, Lines, SMTT(30)
        <5> QED
          BY <2>4, <3>1, <4>1, <5>1
      <4> QED
        BY <4>3
    <3> QED
      BY <2>1, <2>2, <3>1, <3>2, <3>3
  <2> QED
    BY <1>23, <2>3, <2>4 DEF FrameArrives
<1>24. CASE SocketErrs
  BY <1>24 DEF SocketErrs, Listening, wsRest, pumpVars, handleVars
<1>25. CASE SocketCloses
  BY <1>25 DEF SocketCloses, Listening, wsRest, pumpVars, handleVars
<1>26. CASE InputSocketEnds
  BY <1>26 DEF InputSocketEnds, wsRest, pumpVars, handleVars
<1>27. CASE HttpStart
  BY <1>27 DEF HttpStart, httpRest, httpWire, handleVars, Dispatchable
<1>28. CASE HttpFirstInput
  BY <1>28 DEF HttpFirstInput, httpRest, httpWire
<1>29. CASE HttpNoInput
  BY <1>29 DEF HttpNoInput, HttpOver, httpRest, httpWire
<1>30. CASE HttpUnencodable
  BY <1>30 DEF HttpUnencodable, HttpOver, httpRest, httpWire
<1>31. CASE HttpFetch
  BY <1>31 DEF HttpFetch, httpRest, httpWire, handleVars
<1>32. CASE HttpBody
  <2>1. /\ feed = "body" /\ cell = "httpIn" /\ emitted = <<>> /\ arrived = <<>>
        /\ UNCHANGED <<facts, frames, pump, item, emitted>>
    BY <1>32 DEF HttpBody, HttpOver, httpRest, httpWire
  <2>2. CASE feed' = "done" /\ UNCHANGED arrived
    BY <2>1, <2>2
  <2>3. CASE feed' = "replying" /\ arrived' = <<1>> /\ UNCHANGED ended
    <3>1. IsPrefix(<<>>, <<1>>)
      BY Firsts
    <3>2. pump = "off" /\ ended \notin {"closed", "streamError"}
      BY <2>1
    <3> QED
      BY <2>1, <2>3, <3>1, <3>2
  <2> QED
    BY <1>32, <2>2, <2>3 DEF HttpBody, HttpOver, handleVars
<1>33. CASE HttpDecodes
  BY <1>33 DEF HttpDecodes, HttpOver, httpRest, httpWire, handleVars
<1>34. CASE HttpCloses
  BY <1>34 DEF HttpCloses, HttpOver, httpRest, httpWire, handleVars
<1>35. CASE HttpFetchFails
  BY <1>35 DEF HttpFetchFails, HttpOver, httpRest, httpWire
<1>36. CASE HttpResponds
  BY <1>36 DEF HttpResponds, HttpOver, httpRest, httpWire, handleVars
<1>37. CASE KafkaConnects
  BY <1>37 DEF KafkaConnects, kafkaRest, pumpVars, handleVars, Dispatchable
<1>38. CASE KafkaSends
  BY <1>38 DEF KafkaSends, kafkaRest, handleVars
<1>39. CASE KafkaInputsEnd
  BY <1>39 DEF KafkaInputsEnd, InputsEnd, kafkaRest, handleVars
<1>40. CASE KafkaHandles
  BY <1>40 DEF KafkaHandles, kafkaRest, handleVars
<1>41. CASE KafkaDisconnects
  BY <1>41 DEF KafkaDisconnects, kafkaRest
<1>42. CASE KafkaAborted
  BY <1>42 DEF KafkaAborted, kafkaStopRest, kafkaRest, handleVars
<1>43. CASE KafkaConnectFails
  BY <1>43 DEF KafkaConnectFails, kafkaRest, pumpVars
<1>44. CASE KafkaConnected
  BY <1>44 DEF KafkaConnected, kafkaRest, pumpVars, handleVars
<1>45. CASE KafkaDelivers
  <2>1. /\ pump = "waiting" /\ pump' = "decoding" /\ cell = "kafkaOut"
        /\ arrived' = Append(arrived, Len(arrived) + 1) /\ item' = Len(arrived) + 1
        /\ UNCHANGED <<facts, ended, feed, frames, emitted>>
    BY <1>45 DEF KafkaDelivers, kafkaRest, handleVars
  <2>2. item' \in Nat /\ arrived' \in Seq(Nat)
    BY <2>1, AppendProperties
  <2>3. IsPrefix(emitted', arrived')
    BY <2>1, <2>2, PrefixOfAppend
  <2>4. Item = <<>> /\ frames = <<>> /\ Item' = <<item'>>
    BY <2>1
  <2>5. arrived = emitted
    BY <2>1, <2>4, Lines
  <2>6. arrived' = emitted' \o Item' \o frames'
    <3>1. emitted \o <<item'>> \in Seq(Nat) /\ arrived' = emitted \o <<item'>>
      BY <2>1, <2>2, <2>5, Lines, AppendProperties
    <3> QED
      BY <2>1, <2>4, <3>1, Lines
  <2> QED
    BY <2>1, <2>2, <2>3, <2>6
<1>46. CASE KafkaCrashes
  BY <1>46 DEF KafkaCrashes, kafkaStopRest, kafkaRest, handleVars
<1>47. CASE MqttAcquires
  BY <1>47 DEF MqttAcquires, mqttRest, handleVars, pumpVars, Dispatchable
<1>48. CASE MqttReady
  BY <1>48 DEF MqttReady, mqttRest, handleVars, poolVars
<1>49. CASE MqttLeaves
  BY <1>49 DEF MqttLeaves, Released, mqttRest
<1>50. CASE MqttSends
  BY <1>50 DEF MqttSends, mqttFeedRest, mqttRest, handleVars, mqttVars, poolVars
<1>51. CASE MqttInputsEnd
  BY <1>51 DEF MqttInputsEnd, InputsEnd, mqttFeedRest, mqttRest, handleVars, mqttVars,
      poolVars
<1>52. CASE MqttHandles
  BY <1>52 DEF MqttHandles, mqttRest, handleVars, mqttVars, poolVars
<1>53. CASE MqttStops
  BY <1>53 DEF MqttStops, mqttFeedRest, mqttRest, handleVars, mqttVars, poolVars
<1>54. CASE SiblingAcquires
  BY <1>54 DEF SiblingAcquires, mqttRest, handleVars, pumpVars
<1>55. CASE SiblingReady
  BY <1>55 DEF SiblingReady, mqttRest, handleVars, pumpVars
<1>56. CASE SiblingReleases
  BY <1>56 DEF SiblingReleases, Released, mqttRest, handleVars, pumpVars
<1>57. CASE MqttConnected
  BY <1>57 DEF MqttConnected, mqttRest, handleVars, pumpVars, mqttVars, poolVars
<1>58. CASE MqttConnectFails
  BY <1>58 DEF MqttConnectFails, mqttRest, handleVars, pumpVars
<1>59. CASE MqttSubscribed
  BY <1>59 DEF MqttSubscribed, mqttFeedRest, mqttRest, handleVars, mqttVars, poolVars
<1>60. CASE MqttSubscribeFails
  BY <1>60 DEF MqttSubscribeFails, mqttFeedRest, mqttRest, handleVars, mqttVars, poolVars
<1>61. CASE MqttDelivers
  <2>1. /\ pump = "waiting" /\ pump' = "decoding" /\ cell = "mqttOut"
        /\ arrived' = Append(arrived, Len(arrived) + 1) /\ item' = Len(arrived) + 1
        /\ UNCHANGED <<facts, ended, feed, frames, emitted, failed>>
    BY <1>61 DEF MqttDelivers, mqttRest, handleVars, mqttVars
  <2>2. item' \in Nat /\ arrived' \in Seq(Nat)
    BY <2>1, AppendProperties
  <2>3. ~Passed => IsPrefix(emitted', arrived')
    BY <2>1, <2>2, PrefixOfAppend
  <2>4. Item = <<>> /\ frames = <<>> /\ Item' = <<item'>>
    BY <2>1
  <2>7. CASE Passed
    BY <2>1, <2>2, <2>7
  <2>5. ~Passed => arrived = emitted
    BY <2>1, <2>4, Lines
  <2>6. ~Passed => arrived' = emitted' \o Item' \o frames'
    <3> SUFFICES ASSUME ~Passed PROVE arrived' = emitted' \o Item' \o frames'
      OBVIOUS
    <3>1. emitted \o <<item'>> \in Seq(Nat) /\ arrived' = emitted \o <<item'>>
      BY <2>1, <2>2, <2>5, Lines, AppendProperties
    <3> QED
      BY <2>1, <2>4, <3>1, Lines
  <2> QED
    BY <2>1, <2>2, <2>3, <2>6, <2>7
<1>62. CASE MqttDrops
  BY <1>62 DEF MqttDrops, mqttRest, handleVars, pumpVars, mqttVars, poolVars
<1>63. CASE MqttClosed
  BY <1>63 DEF MqttClosed, mqttRest, handleVars, mqttVars, poolVars
<1>64. CASE UNCHANGED lanesVars
  BY <1>64 DEF lanesVars, vars, handleVars, wireVars, pumpVars, mqttVars, poolVars
<1> QED
  BY <1>1, <1>2, <1>3, <1>4, <1>5, <1>6, <1>7, <1>8, <1>9, <1>10, <1>11, <1>12, <1>13, <1>14,
      <1>15, <1>16, <1>17, <1>18, <1>19, <1>20, <1>21, <1>22, <1>23, <1>24, <1>25, <1>26,
      <1>27, <1>28, <1>29, <1>30, <1>31, <1>32, <1>33, <1>34, <1>35, <1>36, <1>37, <1>38,
      <1>39, <1>40, <1>41, <1>42, <1>43, <1>44, <1>45, <1>46, <1>47, <1>48, <1>49, <1>50,
      <1>51, <1>52, <1>53, <1>54, <1>55, <1>56, <1>57, <1>58, <1>59, <1>60, <1>61, <1>62,
      <1>63, <1>64 DEF LanesNext, OwnStep, BindingStep, CallerStep, WsRuns, WsPeer, HttpRuns,
      HttpPeer, KafkaRuns, KafkaPeer, MqttRuns, MqttPeer

(* What a subscription emits comes in order, also after a gap.             *)
LEMMA FramesStep ==
  ASSUME ControlInv, DrainInv, FramesInv, [LanesNext]_lanesVars
  PROVE  FramesInv'
<1> USE DEF ControlInv, FramesInv, Idle, FromInputs, cell, WebSocket, Exchange, Kafka, Mqtt,
    Alive, EndAs, CloseInput
<1>1. CASE Preflight
  BY <1>1 DEF Preflight, laneRest, wireVars, pumpVars, handleVars
<1>2. CASE AddressFixed
  BY <1>2 DEF AddressFixed, laneRest, wireVars, pumpVars, handleVars
<1>3. CASE AddressFromInput
  BY <1>3 DEF AddressFromInput, laneRest, wireVars, pumpVars
<1>4. CASE AddressRefused
  BY <1>4 DEF AddressRefused, laneRest, wireVars, pumpVars
<1>5. CASE RefuseDispatch
  BY <1>5 DEF RefuseDispatch, laneRest, wireVars, pumpVars
<1>6. CASE FeedReads
  BY <1>6 DEF FeedReads, ReadInput, wireVars
<1>7. CASE PumpEmits
  <2>1. /\ pump = "emitting" /\ pump' = "waiting" /\ emitted' = Append(emitted, item)
        /\ UNCHANGED <<facts, ended, feed, arrived>>
    BY <1>7 DEF PumpEmits, wireVars, handleVars
  <2>2. CASE cell = "mqttOut"
    <3>1. emitted \in Seq(Nat) /\ item \in Nat /\ arrived \in Seq(Nat)
      BY DEF DrainInv
    <3>2. /\ Len(emitted') = Len(emitted) + 1 /\ emitted'[Len(emitted) + 1] = item
          /\ \A i \in 1..Len(emitted) : emitted'[i] = emitted[i]
      BY <2>1, <3>1, AppendProperties
    <3>3. \A i \in 1..Len(emitted') : emitted'[i] \in 1..Len(arrived)
      <4>1. /\ Len(emitted) \in Nat /\ item \in 1..Len(arrived)
            /\ \A i \in 1..Len(emitted) : emitted[i] \in 1..Len(arrived)
        BY <2>1, <2>2, <3>1
      <4>2. \A i \in 1..Len(emitted') : i \in 1..Len(emitted) \/ i = Len(emitted) + 1
        BY <3>2, <4>1
      <4>3. QED
        BY ONLY <3>2, <4>1, <4>2
    <3>4. \A i, j \in 1..Len(emitted') : i < j => emitted'[i] < emitted'[j]
      <4>1. /\ Len(emitted) \in Nat
            /\ \A i \in 1..Len(emitted) : emitted[i] < item
            /\ \A i, j \in 1..Len(emitted) : i < j => emitted[i] < emitted[j]
        BY <2>1, <2>2, <3>1
      <4>2. SUFFICES ASSUME NEW i \in 1..Len(emitted'), NEW j \in 1..Len(emitted'), i < j
                     PROVE  emitted'[i] < emitted'[j]
        OBVIOUS
      <4>3. i \in 1..Len(emitted) /\ (j \in 1..Len(emitted) \/ j = Len(emitted) + 1)
        BY ONLY <3>2, <4>1, <4>2
      <4>4. CASE j = Len(emitted) + 1
        BY ONLY <3>2, <4>1, <4>3, <4>4
      <4>5. CASE j \in 1..Len(emitted)
        BY ONLY <3>2, <4>1, <4>2, <4>3, <4>5
      <4>6. QED
        BY <4>3, <4>4, <4>5
    <3> QED
      BY <2>1, <2>2, <3>3, <3>4
  <2> QED
    BY <2>1, <2>2
<1>8. CASE Write
  BY <1>8 DEF Write, wireVars, pumpVars
<1>9. CASE FinishInput
  BY <1>9 DEF FinishInput, wireVars, pumpVars
<1>10. CASE Cancel
  BY <1>10 DEF Cancel, wireVars, pumpVars
<1>11. CASE WsDial
  BY <1>11 DEF WsDial, wsRest, pumpVars, handleVars, Dispatchable
<1>12. CASE WsAcquired
  BY <1>12 DEF WsAcquired, Listen, wsRest, pumpVars, handleVars
<1>13. CASE WsInputAcquired
  BY <1>13 DEF WsInputAcquired, Listen, wsRest, pumpVars, handleVars
<1>14. CASE WsAcquireFails
  BY <1>14 DEF WsAcquireFails, wsRest, pumpVars, handleVars
<1>15. CASE PumpTakes
  BY <1>15 DEF PumpTakes, pumpRest, handleVars
<1>16. CASE PumpDecodes
  BY <1>16 DEF PumpDecodes, pumpRest, handleVars
<1>17. CASE PumpRefused
  BY <1>17 DEF PumpRefused, pumpRest, handleVars
<1>18. CASE PumpEnds
  BY <1>18 DEF PumpEnds, pumpRest, handleVars
<1>19. CASE WsSends
  BY <1>19 DEF WsSends, Writable, feedRest, handleVars
<1>20. CASE WsInputEnds
  BY <1>20 DEF WsInputEnds, InputsEnd, feedRest, handleVars
<1>21. CASE WsFinishes
  BY <1>21 DEF WsFinishes, wsRest, pumpVars, handleVars
<1>22. CASE FrameUnheard
  BY <1>22 DEF FrameUnheard, wsRest, pumpVars, handleVars
<1>23. CASE FrameArrives
  BY <1>23 DEF FrameArrives, Listening, wsRest, pumpVars, handleVars
<1>24. CASE SocketErrs
  BY <1>24 DEF SocketErrs, Listening, wsRest, pumpVars, handleVars
<1>25. CASE SocketCloses
  BY <1>25 DEF SocketCloses, Listening, wsRest, pumpVars, handleVars
<1>26. CASE InputSocketEnds
  BY <1>26 DEF InputSocketEnds, wsRest, pumpVars, handleVars
<1>27. CASE HttpStart
  BY <1>27 DEF HttpStart, httpRest, httpWire, handleVars, Dispatchable
<1>28. CASE HttpFirstInput
  BY <1>28 DEF HttpFirstInput, httpRest, httpWire
<1>29. CASE HttpNoInput
  BY <1>29 DEF HttpNoInput, HttpOver, httpRest, httpWire
<1>30. CASE HttpUnencodable
  BY <1>30 DEF HttpUnencodable, HttpOver, httpRest, httpWire
<1>31. CASE HttpFetch
  BY <1>31 DEF HttpFetch, httpRest, httpWire, handleVars
<1>32. CASE HttpBody
  BY <1>32 DEF HttpBody, HttpOver, httpRest, httpWire, handleVars
<1>33. CASE HttpDecodes
  BY <1>33 DEF HttpDecodes, HttpOver, httpRest, httpWire, handleVars
<1>34. CASE HttpCloses
  BY <1>34 DEF HttpCloses, HttpOver, httpRest, httpWire, handleVars
<1>35. CASE HttpFetchFails
  BY <1>35 DEF HttpFetchFails, HttpOver, httpRest, httpWire
<1>36. CASE HttpResponds
  BY <1>36 DEF HttpResponds, HttpOver, httpRest, httpWire, handleVars
<1>37. CASE KafkaConnects
  BY <1>37 DEF KafkaConnects, kafkaRest, pumpVars, handleVars, Dispatchable
<1>38. CASE KafkaSends
  BY <1>38 DEF KafkaSends, kafkaRest, handleVars
<1>39. CASE KafkaInputsEnd
  BY <1>39 DEF KafkaInputsEnd, InputsEnd, kafkaRest, handleVars
<1>40. CASE KafkaHandles
  BY <1>40 DEF KafkaHandles, kafkaRest, handleVars
<1>41. CASE KafkaDisconnects
  BY <1>41 DEF KafkaDisconnects, kafkaRest
<1>42. CASE KafkaAborted
  BY <1>42 DEF KafkaAborted, kafkaStopRest, kafkaRest, handleVars
<1>43. CASE KafkaConnectFails
  BY <1>43 DEF KafkaConnectFails, kafkaRest, pumpVars
<1>44. CASE KafkaConnected
  BY <1>44 DEF KafkaConnected, kafkaRest, pumpVars, handleVars
<1>45. CASE KafkaDelivers
  BY <1>45 DEF KafkaDelivers, kafkaRest, handleVars
<1>46. CASE KafkaCrashes
  BY <1>46 DEF KafkaCrashes, kafkaStopRest, kafkaRest, handleVars
<1>47. CASE MqttAcquires
  BY <1>47 DEF MqttAcquires, mqttRest, handleVars, pumpVars, Dispatchable
<1>48. CASE MqttReady
  BY <1>48 DEF MqttReady, mqttRest, handleVars, poolVars
<1>49. CASE MqttLeaves
  BY <1>49 DEF MqttLeaves, Released, mqttRest
<1>50. CASE MqttSends
  BY <1>50 DEF MqttSends, mqttFeedRest, mqttRest, handleVars, mqttVars, poolVars
<1>51. CASE MqttInputsEnd
  BY <1>51 DEF MqttInputsEnd, InputsEnd, mqttFeedRest, mqttRest, handleVars, mqttVars,
      poolVars
<1>52. CASE MqttHandles
  BY <1>52 DEF MqttHandles, mqttRest, handleVars, mqttVars, poolVars
<1>53. CASE MqttStops
  BY <1>53 DEF MqttStops, mqttFeedRest, mqttRest, handleVars, mqttVars, poolVars
<1>54. CASE SiblingAcquires
  BY <1>54 DEF SiblingAcquires, mqttRest, handleVars, pumpVars
<1>55. CASE SiblingReady
  BY <1>55 DEF SiblingReady, mqttRest, handleVars, pumpVars
<1>56. CASE SiblingReleases
  BY <1>56 DEF SiblingReleases, Released, mqttRest, handleVars, pumpVars
<1>57. CASE MqttConnected
  BY <1>57 DEF MqttConnected, mqttRest, handleVars, pumpVars, mqttVars, poolVars
<1>58. CASE MqttConnectFails
  BY <1>58 DEF MqttConnectFails, mqttRest, handleVars, pumpVars
<1>59. CASE MqttSubscribed
  BY <1>59 DEF MqttSubscribed, mqttFeedRest, mqttRest, handleVars, mqttVars, poolVars
<1>60. CASE MqttSubscribeFails
  BY <1>60 DEF MqttSubscribeFails, mqttFeedRest, mqttRest, handleVars, mqttVars, poolVars
<1>61. CASE MqttDelivers
  <2>1. /\ pump' = "decoding" /\ cell = "mqttOut" /\ item' = Len(arrived) + 1
        /\ arrived' = Append(arrived, Len(arrived) + 1)
        /\ UNCHANGED <<facts, ended, feed, emitted>>
    BY <1>61 DEF MqttDelivers, mqttRest, handleVars
  <2>2. Len(arrived') = Len(arrived) + 1 /\ Len(arrived) \in Nat
    BY <2>1, AppendProperties DEF DrainInv
  <2>3. \A i \in 1..Len(emitted) : emitted[i] \in 1..Len(arrived)
    BY <2>1
  <2>4. \A i \in 1..Len(emitted) : emitted[i] \in 1..Len(arrived') /\ emitted[i] < item'
    BY <2>1, <2>2, <2>3
  <2> QED
    BY <2>1, <2>2, <2>4
<1>62. CASE MqttDrops
  BY <1>62 DEF MqttDrops, mqttRest, handleVars, pumpVars, mqttVars, poolVars
<1>63. CASE MqttClosed
  BY <1>63 DEF MqttClosed, mqttRest, handleVars, mqttVars, poolVars
<1>64. CASE UNCHANGED lanesVars
  BY <1>64 DEF lanesVars, vars, handleVars, wireVars, pumpVars, mqttVars, poolVars
<1> QED
  BY <1>1, <1>2, <1>3, <1>4, <1>5, <1>6, <1>7, <1>8, <1>9, <1>10, <1>11, <1>12, <1>13, <1>14,
      <1>15, <1>16, <1>17, <1>18, <1>19, <1>20, <1>21, <1>22, <1>23, <1>24, <1>25, <1>26,
      <1>27, <1>28, <1>29, <1>30, <1>31, <1>32, <1>33, <1>34, <1>35, <1>36, <1>37, <1>38,
      <1>39, <1>40, <1>41, <1>42, <1>43, <1>44, <1>45, <1>46, <1>47, <1>48, <1>49, <1>50,
      <1>51, <1>52, <1>53, <1>54, <1>55, <1>56, <1>57, <1>58, <1>59, <1>60, <1>61, <1>62,
      <1>63, <1>64 DEF LanesNext, OwnStep, BindingStep, CallerStep, WsRuns, WsPeer, HttpRuns,
      HttpPeer, KafkaRuns, KafkaPeer, MqttRuns, MqttPeer

(***************************************************************************)
(* The theorems                                                            *)
(***************************************************************************)

(* A new invocation has done nothing.                                      *)
LEMMA LaneInitially == LanesInit => LaneInv
<1> SUFFICES ASSUME LanesInit PROVE LaneInv
  OBVIOUS
<1> USE DEF LanesInit, Init, MqttInit, Alive
<1>1. ControlInv
  BY DEF ControlInv, Idle, FromInputs, Facts, cell
<1>2. ObjectionInv
  BY DEF ObjectionInv, Idle
<1>3. HeldInv /\ PoolInv
  BY DEF HeldInv, PoolInv
<1>4. FeedInv
  BY DEF FeedInv
<1>5. ListenInv
  BY DEF ListenInv
<1>6. DrainInv
  BY Firsts DEF DrainInv, Passed
<1>7. FramesInv
  BY DEF FramesInv
<1> QED
  BY <1>1, <1>2, <1>3, <1>4, <1>5, <1>6, <1>7 DEF LaneInv

(* The lanes keep the invariant, whatever the caller and the peers do.     *)
LEMMA LaneInvariant == LanesSpec => []LaneInv
<1>1. LaneInv /\ [LanesNext]_lanesVars => LaneInv'
  BY ControlStep, ObjectionStep, HeldStep, PoolStep, FeedStep, ListenStep, DrainStep,
     FramesStep DEF LaneInv
<1> QED
  BY LaneInitially, <1>1, PTL DEF LanesSpec

(* An operation that the document or the configuration makes impossible is *)
(* refused before a connection is opened or an input read; a publish that  *)
(* ends well put every accepted input on the wire, in order and once; and  *)
(* a stream that ends well, or by its peer, first emitted all it buffered, *)
(* in order, but for what an MQTT subscription that fails passed over.     *)
(* runBinding, runUnaryPublish, runWSPublish, runWSSubscribe and the       *)
(* external drivers.                                                       *)
THEOREM LaneOutcomes == LanesSpec => []OutcomesAreEarned
<1>1. LaneInv => OutcomesAreEarned
  <2> SUFFICES ASSUME LaneInv PROVE OutcomesAreEarned
    OBVIOUS
  <2> USE DEF LaneInv
  <2>1. ImpossibleNeverDials
    BY DEF ImpossibleNeverDials, ControlInv, ObjectionInv, HeldInv, Impossible, Idle
  <2>2. SuccessIsEarned
    <3> SUFFICES ASSUME ended = "closed", cell \in {"httpIn", "wsIn", "kafkaIn", "mqttIn"},
                        cell = "wsIn" => ~prepared
                 PROVE  /\ sent # <<>>
                        /\ sent = [n \in 1..Len(sent) |-> n]
                        /\ cell # "httpIn" => Len(sent) = given
      BY DEF SuccessIsEarned
    <3>1. /\ sent \in Seq(Nat) /\ sent # <<>> /\ (cell # "httpIn" => Len(sent) = given)
          /\ \A n \in 1..Len(sent) : sent[n] = n
      BY DEF FeedInv, Counted
    <3>2. sent = [n \in 1..Len(sent) |-> sent[n]]
      BY <3>1
    <3> QED
      BY <3>1, <3>2
  <2>3. DrainBeforeTerminal
    <3>1. failed => cell = "mqttOut"
      BY DEF HeldInv
    <3>2. ~failed => IsPrefix(emitted, arrived)
      BY DEF DrainInv, Passed
    <3>3. ended = "closed" => trouble = "none" /\ ~failed
      BY <3>1 DEF ListenInv, FramesInv
    <3> QED
      BY <3>1, <3>2, <3>3 DEF DrainBeforeTerminal, DrainInv, FramesInv
  <2> QED
    BY <2>1, <2>2, <2>3 DEF OutcomesAreEarned
<1> QED
  BY LaneInvariant, <1>1, PTL

(* A lane that is over holds no connection and is in no map of             *)
(* subscribers; a shared MQTT connection counts exactly who uses it, and   *)
(* is ended only when nobody does.  acquire and release of the MQTT        *)
(* driver, and the references that the WebSocket lanes hold.               *)
THEOREM LanesShare == LanesSpec => []ConnectionsShared
<1>1. LaneInv => ConnectionsShared
  BY DEF LaneInv, ControlInv, HeldInv, PoolInv, ConnectionsShared, Mqtt, WebSocket, Exchange, Idle
<1> QED
  BY LaneInvariant, <1>1, PTL
-----------------------------------------------------------------------------
(* Dereferencing.                                                          *)

Frames == [node : Nodes, at : {"members", "target", "fetching", "resource", "value"},
           left : SUBSET DOMAIN Members]

DerefTyped ==
  /\ GraphTyped(heap)
  /\ resolved \in Seq(0 .. Len(heap.nodes)) /\ Len(resolved) = Len(heap.nodes)
  /\ ownerKey \in Seq(Names \cup {NoKey}) /\ Len(ownerKey) = Len(heap.nodes)
  /\ stack \in Seq(Frames)
  /\ now \in [op : {"walk", "return", "go"}, node : 0 .. Len(heap.nodes)]
  /\ now.op = "go" => stack # <<>>
  /\ now.op # "go" => now.node \in Nodes
  /\ outcome = "done" => now.op = "return" /\ stack = <<>>

\* A copy tells which authored node it is of, and refers as that one does; what
\* was authored names authored nodes only.
Story ==
  /\ \A n \in Nodes : /\ Base(n) \in Authored
                      /\ Node(n).ref = Node(Base(n)).ref /\ Node(n).home = Node(Base(n)).home
                      /\ \A k \in Names : /\ Node(n).was[k] \in Authored \cup {NoNode}
                                          /\ Node(n).child[k] = NoNode <=> Node(n).was[k] = NoNode
  /\ \A r \in DOMAIN heap.root : heap.root[r] \in Authored

\* What may stand in the place of n: itself, or what n's reference leads to.
LeadsOn(n, m) ==
  /\ \A v \in Authored : LeadsTo(m, v) => LeadsTo(n, v)
  /\ m \in Authored => LeadsTo(n, m)
Leaves(n, m) == Replaced(n) /\ StandsFor(m, n) /\ LeadsOn(n, m)
Proper(n) == Replaced(n) => n \in Authored
Yields(n, y) == y = n \/ (Leaves(n, y) /\ Proper(y))

Slots ==
  \A n \in Nodes : \A k \in Names :
    LET y == Node(n).child[k] w == Node(n).was[k] IN w # NoNode => Yields(w, y)
Resolutions == \A n \in Nodes : resolved[n] # NoNode => Yields(n, resolved[n])

\* What a frame, or the caller of dereference, awaits from the frames above it.
Expects(f, m) ==
  /\ f.at = "members" => f.left # {}
  /\ PointersAreDirect =>
       /\ f.at = "members" => Yields(Node(f.node).was[Members[Turn(f.left)]], m)
       /\ f.at = "value" => Leaves(f.node, m)
LeadsDown(f, m) == PointersAreDirect /\ f.at # "resource" => LeadsOn(f.node, m)
FrameOK(f) ==
  /\ f.at = "members" =>
       /\ ~Followed(f.node)
       /\ \A j \in f.left : Node(f.node).was[Members[j]] # NoNode
  /\ f.at \in {"target", "fetching", "value"} => Followed(f.node)
  /\ f.at = "fetching" => Node(f.node).ref.to # Here
Above(g, f) ==
  /\ Expects(g, f.node)
  /\ f.at = "resource" => g.at = "fetching" /\ f.node = Root(Resource(g.node))
Outermost(f) == f.at # "resource" /\ (PointersAreDirect => Yields(1, f.node))
StackOK(s) ==
  /\ \A i \in 1 .. Len(s) : FrameOK(s[i])
  /\ \A i \in 1 .. Len(s) - 1 : Above(s[i + 1], s[i])
  /\ s # <<>> => Outermost(s[Len(s)])
  /\ \A j \in 1 .. Len(s) : \A i \in 1 .. j - 1 : LeadsDown(s[j], s[i].node)
Awaits(s, op, m) ==
  /\ s = <<>> /\ PointersAreDirect => Yields(1, m)
  /\ s # <<>> /\ op # "go" => Expects(s[1], m)
  /\ op = "walk" => \A j \in 1 .. Len(s) : LeadsDown(s[j], m)

\* The frame that is still to settle a node, or one of its members.
Reserved(s, n) ==
  \E i \in 1 .. Len(s) : s[i].node = n /\ s[i].at \in {"target", "fetching", "value"}
Pending(s, n, k) ==
  \E i \in 1 .. Len(s) : /\ s[i].node = n /\ s[i].at = "members"
                         /\ \E j \in s[i].left : Members[j] = k
Begun(seen, s) == \A i \in 1 .. Len(s) : s[i].at # "resource" => seen[s[i].node] # NoNode
Settling(s, op, m) ==
  /\ Begun(resolved, s)
  /\ op = "return" => Settled(m)
  /\ op = "walk" => Proper(m) \/ resolved[m] = NoNode
  /\ \A p \in Nodes : resolved[p] # NoNode =>
       Settled(resolved[p]) \/ (resolved[p] = p /\ Reserved(s, p))
  /\ \A n \in Nodes : resolved[n] # NoNode /\ ~Followed(n) =>
       \A k \in Names \ Data(n) : Node(n).child[k] # NoNode =>
          Settled(Node(n).child[k]) \/ Pending(s, n, k)

\* What is data of a node that was walked, and all of one that was not, is left
\* alone.
CallsSpareData ==
  \A i \in 1 .. Len(stack) : stack[i].at = "members" =>
    /\ resolved[stack[i].node] # NoNode
    /\ \A j \in stack[i].left : Members[j] \notin Data(stack[i].node)
LeftAlone ==
  \A n \in Authored : \A k \in Names :
    resolved[n] = NoNode \/ k \in Data(n) => Node(n).child[k] = Node(n).was[k]
Spares == CallsSpareData /\ LeftAlone

DerefInv ==
  /\ DerefTyped /\ Story /\ StackOK(stack) /\ Awaits(stack, now.op, now.node)
  /\ PointersAreDirect => Slots /\ Resolutions /\ Settling(stack, now.op, now.node)

\* What a node has, and which nodes there are.
LEMMA NodeTyped ==
  ASSUME DerefTyped
  PROVE  /\ Len(heap.nodes) \in Nat /\ Nodes = 1 .. Len(heap.nodes) /\ DOMAIN heap.nodes = Nodes
         /\ Entry \in DOMAIN heap.root /\ heap.root[Entry] = 1
         /\ \A r \in DOMAIN heap.root : heap.root[r] \in Nodes
         /\ 1 \in Nodes
         /\ \A n \in Nodes :
              /\ Node(n).home \in DOMAIN heap.root /\ Node(n).base \in Nodes
              /\ IsReference(n) => Resource(n) \in DOMAIN heap.root
              /\ Node(n).ref.path \in Seq(Names)
              /\ DOMAIN Node(n).child = Names /\ DOMAIN Node(n).was = Names
              /\ \A k \in Names : /\ Node(n).child[k] \in 0 .. Len(heap.nodes)
                                  /\ Node(n).was[k] \in 0 .. Len(heap.nodes)
<1>1. heap.nodes \in Seq([home : DOMAIN heap.root,
                   ref : [to : DOMAIN heap.root \cup {Here, Nowhere}, path : Seq(Names)],
                   extra : BOOLEAN, base : 1 .. Len(heap.nodes), child : [Names -> 0 .. Len(heap.nodes)],
                   was : [Names -> 0 .. Len(heap.nodes)]])
      /\ heap.root \in [DOMAIN heap.root -> 1 .. Len(heap.nodes)]
      /\ Entry \in DOMAIN heap.root /\ heap.root[Entry] = 1
  BY DEF DerefTyped, GraphTyped
<1> DEFINE Record == [home : DOMAIN heap.root,
                   ref : [to : DOMAIN heap.root \cup {Here, Nowhere}, path : Seq(Names)],
                   extra : BOOLEAN, base : 1 .. Len(heap.nodes), child : [Names -> 0 .. Len(heap.nodes)],
                   was : [Names -> 0 .. Len(heap.nodes)]]
<1>2. heap.nodes \in Seq(Record)
  BY <1>1
<1>3. \A x \in Record :
        /\ x.home \in DOMAIN heap.root /\ x.base \in 1 .. Len(heap.nodes)
        /\ x.ref.to \in DOMAIN heap.root \cup {Here, Nowhere} /\ x.ref.path \in Seq(Names)
        /\ x.child \in [Names -> 0 .. Len(heap.nodes)] /\ x.was \in [Names -> 0 .. Len(heap.nodes)]
  OBVIOUS
<1> HIDE DEF Record
<1>4. /\ Len(heap.nodes) \in Nat /\ Nodes = 1 .. Len(heap.nodes) /\ DOMAIN heap.nodes = Nodes
      /\ \A n \in Nodes : heap.nodes[n] \in Record
  BY <1>2 DEF Nodes
<1>5. \A n \in Nodes : Node(n) \in Record
  BY <1>4 DEF Node
<1>6. \A n \in Nodes : IsReference(n) => Resource(n) \in DOMAIN heap.root
  BY <1>3, <1>5 DEF IsReference, Resource
<1>7. 1 \in Nodes /\ \A r \in DOMAIN heap.root : heap.root[r] \in Nodes
  BY <1>1, <1>4
<1>8. QED
  BY <1>1, <1>3, <1>4, <1>5, <1>6, <1>7

\* A pointer is followed one member at a time.
LEMMA TrailSteps ==
  ASSUME NEW nodes, NEW from, NEW path, Len(path) \in Nat
  PROVE  /\ Trail(nodes, from, path)[0] = from
         /\ \A i \in 1 .. Len(path) :
              Trail(nodes, from, path)[i] =
                IF Trail(nodes, from, path)[i - 1] = NoNode THEN NoNode
                ELSE nodes[Trail(nodes, from, path)[i - 1]].child[path[i]]
<1> DEFINE L == Len(path)
           After(i, before) == IF before = NoNode THEN NoNode ELSE nodes[before].child[path[i]]
           IsStart(k, out) == out = [i \in 0 .. k |-> IF i = 0 THEN from ELSE After(i, out[i - 1])]
           T == {k \in Nat : \E out : IsStart(k, out)}
<1>1. 0 \in T
  <2>1. IsStart(0, [i \in 0 .. 0 |-> from])
    OBVIOUS
  <2>2. QED
    BY <2>1
<1>2. ASSUME NEW k \in T PROVE k + 1 \in T
  <2>1. PICK out : IsStart(k, out)
    OBVIOUS
  <2> HIDE DEF After
  <2> DEFINE next == [i \in 0 .. (k + 1) |-> IF i = k + 1 THEN After(i, out[k]) ELSE out[i]]
  <2>2. k \in Nat /\ \A i \in 0 .. k : next[i] = out[i]
    OBVIOUS
  <2>3. next[k + 1] = After(k + 1, next[k])
    BY <2>2
  <2>4. \A i \in 0 .. k : out[i] = IF i = 0 THEN from ELSE After(i, out[i - 1])
    BY <2>1
  <2>5. \A i \in 0 .. (k + 1) : next[i] = IF i = 0 THEN from ELSE After(i, next[i - 1])
    <3> SUFFICES ASSUME NEW i \in 0 .. (k + 1)
                 PROVE  next[i] = IF i = 0 THEN from ELSE After(i, next[i - 1])
      OBVIOUS
    <3>1. CASE i = k + 1
      BY <2>2, <2>3, <3>1
    <3>2. CASE i = 0
      BY <2>2, <2>4, <3>2
    <3>3. CASE i \in 1 .. k
      <4>1. i - 1 \in 0 .. k /\ i \in 0 .. k /\ i # 0
        BY <2>2, <3>3
      <4>2. QED
        BY <2>2, <2>4, <4>1
    <3>4. QED
      BY <2>2, <3>1, <3>2, <3>3
  <2>6. IsStart(k + 1, next)
    BY <2>5
  <2> HIDE DEF next, IsStart
  <2>7. QED
    BY <2>2, <2>6
<1>3. T = Nat
  <2> HIDE DEF IsStart
  <2>1. T \in SUBSET Nat
    OBVIOUS
  <2> HIDE DEF T
  <2>2. QED
    BY <1>1, <1>2, <2>1, SetInduction
<1>4. \E out : IsStart(L, out)
  BY <1>3
<1> DEFINE chosen == CHOOSE out : IsStart(L, out)
<1>5. IsStart(L, chosen)
  BY <1>4
<1>6. Trail(nodes, from, path) = chosen
  BY DEF Trail
<1> HIDE DEF chosen
<1>7. \A i \in 0 .. L : chosen[i] = IF i = 0 THEN from ELSE After(i, chosen[i - 1])
  BY <1>5
<1>8. chosen[0] = from /\ \A i \in 1 .. L : chosen[i] = After(i, chosen[i - 1])
  BY <1>7
<1>9. QED
  BY <1>6, <1>8

\* In the graph as it was authored a pointer passes authored nodes.
LEMMA PointerAuthored ==
  ASSUME DerefTyped, Story, NEW n \in Nodes, IsReference(n)
  PROVE  /\ \A i \in 0 .. Len(Node(n).ref.path) : Pointer(n)[i] \in Authored \cup {NoNode}
         /\ Points(n) \in Authored \cup {NoNode}
<1> DEFINE path == Node(n).ref.path
           from == Root(Resource(n))
           t == Trail(AsAuthored, from, path)
           T == {i \in Nat : i <= Len(path) => t[i] \in Authored \cup {NoNode}}
<1>1. path \in Seq(Names) /\ Len(path) \in Nat /\ from \in Authored /\ Pointer(n) = t
  <2>1. path \in Seq(Names) /\ Len(path) \in Nat
    BY NodeTyped
  <2>2. Resource(n) \in DOMAIN heap.root
    BY NodeTyped
  <2>3. from \in Authored
    BY <2>2 DEF Story, Root
  <2>4. QED
    BY <2>1, <2>3 DEF Pointer
<1> HIDE DEF from
<1>2. /\ t[0] = from
      /\ \A i \in 1 .. Len(path) :
           t[i] = IF t[i - 1] = NoNode THEN NoNode ELSE AsAuthored[t[i - 1]].child[path[i]]
  BY <1>1, TrailSteps
<1> HIDE DEF t
<1>3. \A i \in 1 .. Len(path) : path[i] \in Names
  BY <1>1
<1> HIDE DEF path
<1>4. \A m \in Authored : \A k \in Names : AsAuthored[m].child[k] \in Authored \cup {NoNode}
  BY DEF AsAuthored, Story, Authored
<1>5. 0 \in T
  BY <1>1, <1>2
<1>6. ASSUME NEW i \in T PROVE i + 1 \in T
  <2>1. CASE i + 1 <= Len(path)
    <3>1. i + 1 \in 1 .. Len(path) /\ (i + 1) - 1 = i /\ t[i] \in Authored \cup {NoNode}
      BY <1>1, <2>1
    <3>2. t[i + 1] = IF t[i] = NoNode THEN NoNode ELSE AsAuthored[t[i]].child[path[i + 1]]
      BY <1>2, <3>1
    <3>3. t[i + 1] \in Authored \cup {NoNode}
      BY <1>3, <1>4, <3>1, <3>2
    <3>4. QED
      BY <3>3
  <2>2. QED
    BY <1>1, <2>1
<1>7. T = Nat
  <2>1. T \in SUBSET Nat
    OBVIOUS
  <2> HIDE DEF T
  <2>2. QED
    BY <1>5, <1>6, <2>1, SetInduction
<1>8. \A i \in 0 .. Len(path) : t[i] \in Authored \cup {NoNode}
  BY <1>1, <1>7
<1>9. Points(n) = t[Len(path)] /\ Len(path) \in 0 .. Len(path)
  BY <1>1 DEF Points, path
<1>10. QED
  BY <1>1, <1>8, <1>9 DEF path

\* A copy refers as the node it is of.
LEMMA CopyRefers ==
  ASSUME DerefTyped, Story, NEW n \in Nodes
  PROVE  /\ Base(n) \in Nodes /\ Base(Base(n)) = Base(n)
         /\ IsReference(Base(n)) = IsReference(n) /\ Resource(Base(n)) = Resource(n)
         /\ Followed(Base(n)) = Followed(n)
         /\ Pointer(Base(n)) = Pointer(n) /\ Points(Base(n)) = Points(n)
         /\ Replaced(Base(n)) = Replaced(n)
<1>1. /\ Base(n) \in Nodes /\ Base(Base(n)) = Base(n)
      /\ Node(n).ref = Node(Base(n)).ref /\ Node(n).home = Node(Base(n)).home
  BY DEF Story, Authored
<1>2. IsReference(Base(n)) = IsReference(n) /\ Resource(Base(n)) = Resource(n)
  BY <1>1 DEF IsReference, Resource
<1>3. Followed(Base(n)) = Followed(n)
  BY <1>1, <1>2 DEF Followed, StaysReference
<1>4. Pointer(Base(n)) = Pointer(n)
  BY <1>1, <1>2 DEF Pointer
<1>5. Points(Base(n)) = Points(n)
  BY <1>1, <1>4 DEF Points
<1>6. QED
  BY <1>1, <1>2, <1>3, <1>4, <1>5 DEF Replaced

\* Standing for is transitive.
LEMMA StandsTransitive ==
  ASSUME NEW x, NEW y, NEW z, StandsFor(x, y), StandsFor(y, z)
  PROVE  StandsFor(x, z)
<1> DEFINE joined == {<<u, Points(u)>> : u \in {v \in Authored : Replaced(v)}}
<1>1. x = y \/ \A P \in SUBSET Authored :
        (\A e \in joined : e[1] \in P <=> e[2] \in P) => (Base(x) \in P <=> Base(y) \in P)
  BY DEF StandsFor
<1>2. y = z \/ \A P \in SUBSET Authored :
        (\A e \in joined : e[1] \in P <=> e[2] \in P) => (Base(y) \in P <=> Base(z) \in P)
  BY DEF StandsFor
<1> SUFFICES x = z \/ \A P \in SUBSET Authored :
        (\A e \in joined : e[1] \in P <=> e[2] \in P) => (Base(x) \in P <=> Base(z) \in P)
  BY DEF StandsFor
<1> HIDE DEF joined
<1>3. QED
  BY <1>1, <1>2

\* A reference stands for what it points at.
LEMMA StandsPoints ==
  ASSUME DerefTyped, Story, NEW n \in Nodes, Replaced(n)
  PROVE  Points(n) \in Authored /\ StandsFor(Points(n), n)
<1>1. Points(n) \in Authored
  BY PointerAuthored DEF Replaced, Followed
<1>2. Base(Points(n)) = Points(n)
  BY <1>1 DEF Authored
<1>3. Base(n) \in Authored /\ Replaced(Base(n)) /\ Points(Base(n)) = Points(n)
  BY CopyRefers DEF Authored
<1>4. <<Base(n), Points(n)>> \in {<<u, Points(u)>> : u \in {v \in Authored : Replaced(v)}}
  BY <1>3
<1>5. QED
  BY <1>1, <1>2, <1>4 DEF StandsFor

\* A walk goes on to authored nodes.
LEMMA BelowAuthored ==
  ASSUME DerefTyped, Story, NEW n \in Nodes
  PROVE  Below(n) \subseteq Authored \cup {NoNode}
<1>1. \A k \in Names : Node(n).was[k] \in Authored \cup {NoNode}
  BY DEF Story
<1>2. Replaced(n) => Points(n) \in Authored
  BY StandsPoints
<1>3. Followed(n) => Root(Resource(n)) \in Authored
  BY NodeTyped DEF Followed, Story, Root
<1>4. QED
  BY <1>1, <1>2, <1>3 DEF Below

\* A node leads to whatever its walk goes on to.
LEMMA LeadsBelow ==
  ASSUME NEW n, NEW m \in Below(n), m # NoNode
  PROVE  LeadsTo(n, m)
<1> DEFINE steps == {<<x, Below(x) \ {NoNode}>> : x \in Authored \cup {n}}
<1>1. <<n, Below(n) \ {NoNode}>> \in steps
  OBVIOUS
<1>2. ASSUME NEW P \in SUBSET Authored,
             \A s \in steps : s[1] \in P \cup {n} => s[2] \subseteq P
      PROVE  m \in P
  <2> HIDE DEF steps
  <2>1. <<n, Below(n) \ {NoNode}>>[2] \subseteq P
    BY <1>1, <1>2
  <2>2. QED
    BY <2>1
<1>3. QED
  BY <1>2 DEF LeadsTo

\* A set that is closed under the steps of n is closed under those of an
\* authored node in it.
LEMMA LeadsOver ==
  ASSUME NEW n, NEW m \in Authored, LeadsTo(n, m)
  PROVE  LeadsOn(n, m)
<1> SUFFICES ASSUME NEW v \in Authored, LeadsTo(m, v) PROVE LeadsTo(n, v)
  BY DEF LeadsOn
<1> DEFINE steps(u) == {<<x, Below(x) \ {NoNode}>> : x \in Authored \cup {u}}
<1>1. ASSUME NEW P \in SUBSET Authored,
             \A s \in steps(n) : s[1] \in P \cup {n} => s[2] \subseteq P
      PROVE  v \in P
  <2>1. m \in P
    BY <1>1 DEF LeadsTo
  <2>2. steps(m) \subseteq steps(n)
    OBVIOUS
  <2>3. \A s \in steps(m) : s[1] \in P \cup {m} => s[2] \subseteq P
    <3> HIDE DEF steps
    <3>1. QED
      BY <1>1, <2>1, <2>2
  <2>4. QED
    BY <2>3 DEF LeadsTo
<1>2. QED
  BY <1>1 DEF LeadsTo

\* Only an authored node is led to.
LEMMA LedAuthored ==
  ASSUME DerefTyped, Story, NEW n \in Nodes, NEW m, LeadsTo(n, m)
  PROVE  m \in Authored
<1>1. \A s \in {<<x, Below(x) \ {NoNode}>> : x \in Authored \cup {n}} : s[2] \subseteq Authored
  BY BelowAuthored DEF Authored
<1>2. QED
  BY <1>1 DEF LeadsTo

\* Leading on is transitive, and so is yielding.
LEMMA LeadsTransitive ==
  ASSUME NEW x, NEW y, NEW z, LeadsOn(x, y), LeadsOn(y, z)
  PROVE  LeadsOn(x, z)
BY DEF LeadsOn

LEMMA YieldsTransitive ==
  ASSUME NEW x, NEW y, NEW z, Yields(x, y), Yields(y, z)
  PROVE  Yields(x, z)
BY StandsTransitive, LeadsTransitive DEF Yields, Leaves

\* What n leads to, n leads to through whatever took its place.
LEMMA LeadsYields ==
  ASSUME NEW n, NEW w, NEW y, LeadsOn(n, w), Yields(w, y)
  PROVE  LeadsOn(n, y)
BY LeadsTransitive DEF Yields, Leaves

\* So n leads to whatever took the place of a node below it.
LEMMA BelowYields ==
  ASSUME DerefTyped, Story, NEW n \in Nodes, NEW w \in Below(n), w # NoNode, NEW y, Yields(w, y)
  PROVE  LeadsOn(n, y)
<1>1. w \in Authored
  BY BelowAuthored
<1>2. LeadsOn(n, w)
  BY <1>1, LeadsBelow, LeadsOver
<1>3. QED
  BY <1>2, LeadsYields

\* Whatever was replaced, a pointer finds a node or nothing.
LEMMA TargetTyped ==
  ASSUME DerefTyped, Story, NEW n \in Nodes, Followed(n)
  PROVE  Target(n) \in Nodes \cup {NoNode}
<1> DEFINE path == Node(n).ref.path
           from == Root(Resource(n))
           t == Trail(heap.nodes, from, path)
           L == Len(path)
           T == {i \in Nat : i <= L => t[i] \in Nodes \cup {NoNode}}
<1>1. path \in Seq(Names) /\ L \in Nat /\ from \in Nodes
  <2>1. path \in Seq(Names) /\ L \in Nat
    BY NodeTyped
  <2>2. Resource(n) \in DOMAIN heap.root
    BY NodeTyped DEF Followed
  <2>3. QED
    BY <2>1, <2>2, NodeTyped DEF Root
<1>2. /\ t[0] = from
      /\ \A i \in 1 .. L : t[i] = IF t[i - 1] = NoNode THEN NoNode ELSE Node(t[i - 1]).child[path[i]]
  <2>1. Len(path) \in Nat
    BY <1>1
  <2> HIDE DEF path, from
  <2>2. /\ t[0] = from
        /\ \A i \in 1 .. Len(path) :
             t[i] = IF t[i - 1] = NoNode THEN NoNode ELSE heap.nodes[t[i - 1]].child[path[i]]
    BY <2>1, TrailSteps
  <2>3. QED
    BY <2>2 DEF Node
<1>3. \A i \in 1 .. L : path[i] \in Names
  BY <1>1
<1>4. Target(n) = t[L]
  BY DEF Target, Follow
<1> HIDE DEF t, from, path
<1>5. 0 \in T
  BY <1>1, <1>2
<1>6. ASSUME NEW i \in T PROVE i + 1 \in T
  <2>1. CASE i + 1 <= L
    <3>1. i + 1 \in 1 .. L /\ (i + 1) - 1 = i /\ t[i] \in Nodes \cup {NoNode}
      BY <1>1, <2>1
    <3>2. CASE t[i] = NoNode
      BY <1>2, <3>1, <3>2
    <3>3. CASE t[i] \in Nodes
      <4>1. t[i + 1] = NoNode \/ t[i + 1] = Node(t[i]).child[path[i + 1]]
        BY <1>2, <3>1
      <4>2. Node(t[i]).child[path[i + 1]] \in Nodes \cup {NoNode}
        BY <1>3, <3>1, <3>3, NodeTyped DEF NoNode
      <4>3. QED
        BY <4>1, <4>2
    <3>4. QED
      BY <3>1, <3>2, <3>3
  <2>2. QED
    BY <1>1, <2>1
<1>7. T = Nat
  <2>1. T \in SUBSET Nat
    OBVIOUS
  <2> HIDE DEF T
  <2>2. QED
    BY <1>5, <1>6, <2>1, SetInduction
<1>8. QED
  BY <1>1, <1>4, <1>7

\* A pointer that passes through no reference finds, in the graph half-rewritten,
\* what stands there for its authored target.
LEMMA TargetFound ==
  ASSUME DerefTyped, Story, Slots, PointersAreDirect, NEW n \in Nodes, Followed(n)
  PROVE  /\ Target(n) = NoNode <=> Points(n) = NoNode
         /\ Points(n) # NoNode => Target(n) \in Nodes /\ Yields(Points(n), Target(n))
<1> DEFINE path == Node(n).ref.path
           from == Root(Resource(n))
           t == Trail(heap.nodes, from, path)
           L == Len(path)
           T == {i \in Nat : i < L => t[i] = Pointer(n)[i]}
<1>1. path \in Seq(Names) /\ L \in Nat /\ from \in Authored /\ Pointer(n) = Trail(AsAuthored, from, path)
  <2>1. path \in Seq(Names) /\ L \in Nat
    BY NodeTyped
  <2>2. Resource(n) \in DOMAIN heap.root
    BY NodeTyped DEF Followed
  <2>3. from \in Authored
    BY <2>2 DEF Story, Root
  <2>4. QED
    BY <2>1, <2>3 DEF Pointer
<1>2. Target(n) = t[L] /\ Points(n) = Pointer(n)[L]
  BY DEF Target, Follow, Points
<1>3. /\ t[0] = from
      /\ \A i \in 1 .. L : t[i] = IF t[i - 1] = NoNode THEN NoNode ELSE Node(t[i - 1]).child[path[i]]
  <2>1. Len(path) \in Nat
    BY <1>1
  <2> HIDE DEF path, from
  <2>2. /\ t[0] = from
        /\ \A i \in 1 .. Len(path) :
             t[i] = IF t[i - 1] = NoNode THEN NoNode ELSE heap.nodes[t[i - 1]].child[path[i]]
    BY <2>1, TrailSteps
  <2>3. QED
    BY <2>2 DEF Node
<1>4. /\ Pointer(n)[0] = from
      /\ \A i \in 1 .. L : Pointer(n)[i] = IF Pointer(n)[i - 1] = NoNode THEN NoNode
                                           ELSE AsAuthored[Pointer(n)[i - 1]].child[path[i]]
  BY <1>1, TrailSteps
<1>5. \A i \in 0 .. L : Pointer(n)[i] \in Authored \cup {NoNode}
  BY PointerAuthored DEF Followed
<1>6. \A m \in Authored : m \in Nodes /\ AsAuthored[m].child = Node(m).was
  BY DEF AsAuthored, Authored
<1>7. \A i \in 1 .. L - 1 : Pointer(n)[i] # NoNode => ~Replaced(Pointer(n)[i])
  <2>1. /\ Base(n) \in Authored /\ IsReference(Base(n)) /\ Pointer(Base(n)) = Pointer(n)
        /\ Node(Base(n)).ref = Node(n).ref
    BY CopyRefers DEF Followed, Story
  <2>2. QED
    BY <2>1 DEF PointersAreDirect
<1>8. \A i \in 1 .. L : path[i] \in Names
  BY <1>1
<1> HIDE DEF t, from
<1>9. ASSUME NEW i \in 1 .. L, t[i - 1] = Pointer(n)[i - 1]
      PROVE  /\ t[i] = NoNode <=> Pointer(n)[i] = NoNode
             /\ Pointer(n)[i] # NoNode => Yields(Pointer(n)[i], t[i])
  <2> DEFINE m == Pointer(n)[i - 1]
  <2>1. CASE m = NoNode
    BY <1>3, <1>4, <1>9, <2>1
  <2>2. CASE m # NoNode
    <3>1. i - 1 \in 0 .. L
      BY <1>1
    <3>2. m \in Nodes /\ AsAuthored[m].child = Node(m).was
      BY <1>5, <1>6, <2>2, <3>1
    <3>3. Pointer(n)[i] = Node(m).was[path[i]] /\ t[i] = Node(m).child[path[i]]
      BY <1>3, <1>4, <1>9, <2>2, <3>2
    <3>4. QED
      BY <1>8, <3>2, <3>3 DEF Slots, Story
  <2>3. QED
    BY <2>1, <2>2
<1>10. 0 \in T
  BY <1>3, <1>4
<1>11. ASSUME NEW i \in T PROVE i + 1 \in T
  <2>1. CASE i + 1 < L
    <3>1. i + 1 \in 1 .. L /\ (i + 1) - 1 = i /\ i + 1 \in 1 .. L - 1 /\ t[i] = Pointer(n)[i]
      BY <1>1, <2>1
    <3>2. /\ t[i + 1] = NoNode <=> Pointer(n)[i + 1] = NoNode
          /\ Pointer(n)[i + 1] # NoNode => Yields(Pointer(n)[i + 1], t[i + 1])
      BY <1>9, <3>1
    <3>3. Pointer(n)[i + 1] # NoNode => ~Replaced(Pointer(n)[i + 1])
      BY <1>7, <3>1
    <3>4. t[i + 1] = Pointer(n)[i + 1]
      BY <3>2, <3>3 DEF Yields, Leaves
    <3>5. QED
      BY <3>4
  <2>2. QED
    BY <1>1, <2>1
<1>12. T = Nat
  <2>1. T \in SUBSET Nat
    OBVIOUS
  <2> HIDE DEF T
  <2>2. QED
    BY <1>10, <1>11, <2>1, SetInduction
<1>13. /\ t[L] = NoNode <=> Pointer(n)[L] = NoNode
       /\ Pointer(n)[L] # NoNode => Yields(Pointer(n)[L], t[L])
  <2>1. CASE L = 0
    BY <1>3, <1>4, <2>1 DEF Yields
  <2>2. CASE L > 0
    <3>1. L \in 1 .. L /\ L - 1 \in Nat /\ L - 1 < L
      BY <1>1, <2>2
    <3>2. t[L - 1] = Pointer(n)[L - 1]
      BY <1>12, <3>1
    <3>3. QED
      BY <1>9, <3>1, <3>2
  <2>3. QED
    BY <1>1, <2>1, <2>2
<1>14. Points(n) # NoNode => Target(n) \in Nodes
  BY <1>2, <1>13, TargetTyped
<1>15. QED
  BY <1>2, <1>13, <1>14

\* A step that leaves what was authored alone.
SameStory ==
  /\ heap'.root = heap.root /\ preserve' = preserve
  /\ Nodes \subseteq Nodes'
  /\ \A n \in Nodes : /\ Node(n)'.was = Node(n).was /\ Node(n)'.ref = Node(n).ref
                      /\ Node(n)'.home = Node(n).home /\ Node(n)'.base = Node(n).base
  /\ \A n \in Nodes' \ Nodes : Base(n)' # n

\* What the documents say stays what it was.
LEMMA StoryStays ==
  ASSUME SameStory
  PROVE  /\ Authored' = Authored /\ AsAuthored' = AsAuthored
         /\ \A n \in Nodes :
              /\ Base(n)' = Base(n) /\ IsReference(n)' = IsReference(n)
              /\ Root(Resource(n))' = Root(Resource(n))
              /\ Pointer(n)' = Pointer(n) /\ Points(n)' = Points(n)
              /\ Followed(n)' = Followed(n) /\ Replaced(n)' = Replaced(n) /\ Below(n)' = Below(n)
<1>1. \A n \in Nodes : Base(n)' = Base(n) /\ n \in Nodes'
  BY DEF SameStory, Base
<1>2. Authored' = Authored
  BY <1>1 DEF SameStory, Authored
<1>3. \A n \in Nodes : Node(n)'.was = Node(n).was
  BY DEF SameStory
<1>4. AsAuthored' = AsAuthored
  BY <1>2, <1>3 DEF AsAuthored, Authored
<1>5. ASSUME NEW n \in Nodes
      PROVE  /\ IsReference(n)' = IsReference(n) /\ Root(Resource(n))' = Root(Resource(n))
             /\ Pointer(n)' = Pointer(n) /\ Points(n)' = Points(n)
             /\ Followed(n)' = Followed(n) /\ Replaced(n)' = Replaced(n) /\ Below(n)' = Below(n)
  <2>1. /\ Node(n)'.was = Node(n).was /\ Node(n)'.ref = Node(n).ref /\ Node(n)'.home = Node(n).home
        /\ heap'.root = heap.root /\ preserve' = preserve
    BY <1>5 DEF SameStory
  <2>2. IsReference(n)' = IsReference(n) /\ Resource(n)' = Resource(n)
    BY <2>1 DEF IsReference, Resource
  <2>3. Root(Resource(n))' = Root(Resource(n))
    BY <2>1, <2>2 DEF Root
  <2>4. Pointer(n)' = Pointer(n)
    BY <1>4, <2>1, <2>3 DEF Pointer
  <2>5. Points(n)' = Points(n)
    BY <2>1, <2>4 DEF Points
  <2>6. Followed(n)' = Followed(n)
    BY <2>1, <2>2 DEF Followed, StaysReference
  <2>7. Replaced(n)' = Replaced(n)
    BY <2>5, <2>6 DEF Replaced
  <2>8. Below(n)' = Below(n)
    BY <2>1, <2>3, <2>5, <2>6, <2>7 DEF Below
  <2>9. QED
    BY <2>2, <2>3, <2>4, <2>5, <2>6, <2>7, <2>8
<1>6. QED
  BY <1>1, <1>2, <1>4, <1>5

\* And so do the relations between its nodes.
LEMMA RelationsStay ==
  ASSUME SameStory, DerefTyped, Story
  PROVE  /\ PointersAreDirect' = PointersAreDirect
         /\ \A y, w \in Nodes :
              /\ StandsFor(y, w)' = StandsFor(y, w) /\ LeadsOn(y, w)' = LeadsOn(y, w)
              /\ Leaves(y, w)' = Leaves(y, w) /\ Yields(y, w)' = Yields(y, w)
         /\ \A n \in Nodes : Proper(n)' = Proper(n) /\ \A m : LeadsTo(n, m)' = LeadsTo(n, m)
<1> Authored \subseteq Nodes
  BY DEF Authored
<1>1. PointersAreDirect' = PointersAreDirect
  <2>1. \A n \in Authored : Node(n)'.ref = Node(n).ref /\ Pointer(n)' = Pointer(n) /\ IsReference(n)' = IsReference(n)
    BY StoryStays DEF SameStory
  <2>2. ASSUME NEW n \in Authored, IsReference(n), NEW i \in 1 .. Len(Node(n).ref.path) - 1
        PROVE  Pointer(n)[i] # NoNode => Replaced(Pointer(n)[i])' = Replaced(Pointer(n)[i])
    <3>1. Len(Node(n).ref.path) \in Nat
      BY NodeTyped
    <3>2. Pointer(n)[i] \in Authored \cup {NoNode}
      BY <2>2, <3>1, PointerAuthored
    <3>3. QED
      BY <3>2, StoryStays
  <2>3. \A n \in Authored : Len(Node(n).ref.path)' = Len(Node(n).ref.path)
    BY <2>1
  <2>4. ASSUME NEW n \in Authored, IsReference(n), NEW i \in 1 .. Len(Node(n).ref.path) - 1
        PROVE  (LET m == Pointer(n)[i] IN m # NoNode => ~Replaced(m))'
                 = (LET m == Pointer(n)[i] IN m # NoNode => ~Replaced(m))
    BY <2>1, <2>2, <2>4
  <2>5. QED
    BY <2>1, <2>3, <2>4, StoryStays DEF PointersAreDirect
<1>2. {<<x, Points(x)>> : x \in {x \in Authored : Replaced(x)}}'
        = {<<x, Points(x)>> : x \in {x \in Authored : Replaced(x)}}
  BY StoryStays
<1>3. \A y, w \in Nodes : StandsFor(y, w)' = StandsFor(y, w)
  BY <1>2, StoryStays DEF StandsFor
<1>4. ASSUME NEW n \in Nodes, NEW m PROVE LeadsTo(n, m)' = LeadsTo(n, m)
  <2>1. {<<x, Below(x) \ {NoNode}>> : x \in Authored \cup {n}}'
          = {<<x, Below(x) \ {NoNode}>> : x \in Authored \cup {n}}
    BY StoryStays
  <2>2. QED
    BY <2>1, StoryStays DEF LeadsTo
<1>5. \A y, w \in Nodes : LeadsOn(y, w)' = LeadsOn(y, w)
  BY <1>4, StoryStays DEF LeadsOn
<1>6. \A n \in Nodes : Proper(n)' = Proper(n)
  BY StoryStays DEF Proper
<1>7. \A y, w \in Nodes : Leaves(y, w)' = Leaves(y, w)
  BY <1>3, <1>5, StoryStays DEF Leaves
<1>8. \A y, w \in Nodes : Yields(y, w)' = Yields(y, w)
  BY <1>6, <1>7 DEF Yields
<1>9. QED
  BY <1>1, <1>3, <1>4, <1>5, <1>6, <1>7, <1>8

\* The member whose turn it is, is one of those that are left.
LEMMA TurnIsLeft ==
  ASSUME NEW left \in SUBSET DOMAIN Members, left # {}
  PROVE  Turn(left) \in left /\ Members[Turn(left)] \in Names
<1>1. left \in SUBSET Nat
  BY MembersAreNames
<1>2. \E i \in left : \A j \in left : i <= j
  BY <1>1, LeastNatural
<1>3. QED
  BY <1>2 DEF Turn, Names

\* What the frames await of one another does not change.
LEMMA FramesStay ==
  ASSUME SameStory, DerefTyped, Story
  PROVE  \A f \in Frames :
           /\ f \in Frames'
           /\ FrameOK(f) => FrameOK(f)'
           /\ FrameOK(f) => \A m \in Nodes : Expects(f, m) => Expects(f, m)'
           /\ \A m \in Nodes : LeadsDown(f, m) => LeadsDown(f, m)'
           /\ Outermost(f) => Outermost(f)'
           /\ FrameOK(f) => \A g \in Frames : Above(f, g) => Above(f, g)'
<1> SUFFICES ASSUME NEW f \in Frames
             PROVE  /\ f \in Frames'
                    /\ FrameOK(f) => FrameOK(f)'
                    /\ FrameOK(f) => \A m \in Nodes : Expects(f, m) => Expects(f, m)'
                    /\ \A m \in Nodes : LeadsDown(f, m) => LeadsDown(f, m)'
                    /\ Outermost(f) => Outermost(f)'
                    /\ FrameOK(f) => \A g \in Frames : Above(f, g) => Above(f, g)'
  OBVIOUS
<1>1. f.node \in Nodes /\ f.left \in SUBSET DOMAIN Members /\ 1 \in Nodes
  BY NodeTyped DEF Frames
<1>2. f \in Frames'
  BY DEF SameStory, Frames
<1>3. /\ Followed(f.node)' = Followed(f.node) /\ Node(f.node)'.was = Node(f.node).was
      /\ Node(f.node)'.ref = Node(f.node).ref
  BY <1>1, StoryStays DEF SameStory
<1>4. FrameOK(f) => FrameOK(f)'
  BY <1>3 DEF FrameOK
<1>5. ASSUME FrameOK(f), NEW m \in Nodes, Expects(f, m) PROVE Expects(f, m)'
  <2>1. CASE PointersAreDirect /\ f.at = "members"
    <3> DEFINE w == Node(f.node).was[Members[Turn(f.left)]]
    <3>1. Turn(f.left) \in f.left /\ Members[Turn(f.left)] \in Names
      BY <1>1, <1>5, <2>1, TurnIsLeft DEF Expects
    <3>2. w # NoNode /\ w \in Authored \cup {NoNode}
      BY <1>1, <1>5, <2>1, <3>1 DEF FrameOK, Story
    <3>3. w \in Nodes /\ Yields(w, m)
      BY <1>5, <2>1, <3>2, NodeTyped DEF Expects, Authored, NoNode
    <3>4. PICK v \in Nodes : v = w
      BY <3>3
    <3>5. Yields(v, m)'
      BY <3>3, <3>4, RelationsStay
    <3>6. w' = v
      BY <1>3, <3>4
    <3>7. QED
      BY <1>5, <2>1, <3>5, <3>6 DEF Expects
  <2>2. CASE PointersAreDirect /\ f.at # "members"
    BY <1>1, <1>5, <2>2, RelationsStay DEF Expects
  <2>3. CASE ~PointersAreDirect
    BY <1>5, <2>3, RelationsStay DEF Expects
  <2>4. QED
    BY <2>1, <2>2, <2>3
<1>6. \A m \in Nodes : LeadsDown(f, m) => LeadsDown(f, m)'
  BY <1>1, RelationsStay DEF LeadsDown
<1>7. Outermost(f) => Outermost(f)'
  BY <1>1, RelationsStay DEF Outermost
<1>8. ASSUME FrameOK(f), NEW g \in Frames, Above(f, g) PROVE Above(f, g)'
  <2>1. g.node \in Nodes
    BY DEF Frames
  <2>2. Expects(f, g.node)'
    BY <1>5, <1>8, <2>1 DEF Above
  <2>3. Root(Resource(f.node))' = Root(Resource(f.node))
    BY <1>1, StoryStays
  <2>4. QED
    BY <1>8, <2>2, <2>3 DEF Above
<1>9. QED
  BY <1>2, <1>4, <1>5, <1>6, <1>7, <1>8

\* Nor does the order of the calls.
LEMMA StackStays ==
  ASSUME SameStory, DerefTyped, Story, NEW s \in Seq(Frames), StackOK(s)
  PROVE  s \in Seq(Frames') /\ StackOK(s)'
<1>1. Len(s) \in Nat /\ \A i \in 1 .. Len(s) : s[i] \in Frames /\ s[i].node \in Nodes
  <2>1. Len(s) \in Nat /\ \A i \in 1 .. Len(s) : s[i] \in Frames
    OBVIOUS
  <2>2. QED
    BY <2>1 DEF Frames
<1>2. \A i \in 1 .. Len(s) : s[i] \in Frames' /\ FrameOK(s[i])'
  BY <1>1, FramesStay DEF StackOK
<1>3. ASSUME NEW i \in 1 .. Len(s) - 1 PROVE Above(s[i + 1], s[i])'
  <2>1. i \in 1 .. Len(s) /\ i + 1 \in 1 .. Len(s)
    BY <1>1
  <2>2. QED
    BY <1>1, <2>1, FramesStay DEF StackOK
<1>4. s # <<>> => Outermost(s[Len(s)])'
  <2>1. s # <<>> => Len(s) \in 1 .. Len(s)
    BY <1>1
  <2>2. QED
    BY <1>1, <2>1, FramesStay DEF StackOK
<1>5. ASSUME NEW j \in 1 .. Len(s), NEW i \in 1 .. j - 1 PROVE LeadsDown(s[j], s[i].node)'
  <2>1. i \in 1 .. Len(s)
    BY <1>1
  <2>2. QED
    BY <1>1, <2>1, FramesStay DEF StackOK
<1>6. s \in Seq(Frames')
  BY <1>1, <1>2
<1>7. QED
  BY <1>2, <1>3, <1>4, <1>5, <1>6 DEF StackOK

\* A call is made, returns, or goes on.
LEMMA PushOK ==
  ASSUME NEW s \in Seq(Frames), StackOK(s), NEW f \in Frames, FrameOK(f),
         s = <<>> => Outermost(f), s # <<>> => Above(s[1], f),
         \A j \in 1 .. Len(s) : LeadsDown(s[j], f.node)
  PROVE  <<f>> \o s \in Seq(Frames) /\ StackOK(<<f>> \o s)
<1> DEFINE t == <<f>> \o s
<1>1. /\ t \in Seq(Frames) /\ Len(s) \in Nat /\ Len(t) = Len(s) + 1
      /\ t[1] = f /\ \A i \in 1 .. Len(s) : t[i + 1] = s[i]
  OBVIOUS
<1> HIDE DEF t
<1>2. \A i \in 1 .. Len(t) : i = 1 \/ (i - 1 \in 1 .. Len(s) /\ t[i] = s[i - 1])
  <2> TAKE i \in 1 .. Len(t)
  <2>1. i # 1 => i - 1 \in 1 .. Len(s) /\ (i - 1) + 1 = i
    BY <1>1
  <2>2. QED
    BY <1>1, <2>1
<1>3. \A i \in 1 .. Len(t) : FrameOK(t[i])
  BY <1>1, <1>2 DEF StackOK
<1>4. ASSUME NEW i \in 1 .. Len(t) - 1 PROVE Above(t[i + 1], t[i])
  <2>1. i \in 1 .. Len(s) /\ t[i + 1] = s[i] /\ s # <<>>
    BY <1>1
  <2>2. CASE i = 1
    BY <1>1, <2>1, <2>2
  <2>3. CASE i # 1
    <3>1. i - 1 \in 1 .. Len(s) - 1 /\ t[i] = s[i - 1] /\ (i - 1) + 1 = i
      BY <1>1, <1>2, <2>1, <2>3
    <3>2. QED
      BY <2>1, <3>1 DEF StackOK
  <2>4. QED
    BY <2>2, <2>3
<1>5. Outermost(t[Len(t)])
  <2>1. CASE s = <<>>
    BY <1>1, <2>1
  <2>2. CASE s # <<>>
    BY <1>1, <2>2 DEF StackOK
  <2>3. QED
    BY <2>1, <2>2
<1>6. ASSUME NEW j \in 1 .. Len(t), NEW i \in 1 .. j - 1 PROVE LeadsDown(t[j], t[i].node)
  <2>1. j - 1 \in 1 .. Len(s) /\ t[j] = s[j - 1] /\ i \in 1 .. Len(t)
    BY <1>1, <1>2
  <2>2. CASE i = 1
    BY <1>1, <2>1, <2>2
  <2>3. CASE i # 1
    <3>1. i - 1 \in 1 .. (j - 1) - 1 /\ t[i] = s[i - 1]
      BY <1>1, <1>2, <2>1, <2>3
    <3>2. QED
      BY <2>1, <3>1 DEF StackOK
  <2>4. QED
    BY <2>2, <2>3
<1>7. QED
  BY <1>1, <1>3, <1>4, <1>5, <1>6 DEF StackOK, t

\* So it is when the innermost call is over.
LEMMA PopOK ==
  ASSUME NEW s \in Seq(Frames), StackOK(s), s # <<>>
  PROVE  /\ Tail(s) \in Seq(Frames) /\ StackOK(Tail(s))
         /\ Len(Tail(s)) = Len(s) - 1 /\ \A i \in 1 .. Len(Tail(s)) : Tail(s)[i] = s[i + 1]
<1> DEFINE t == Tail(s)
<1>1. /\ t \in Seq(Frames) /\ Len(s) \in Nat \ {0} /\ Len(t) = Len(s) - 1
      /\ \A i \in 1 .. Len(t) : t[i] = s[i + 1]
  OBVIOUS
<1> HIDE DEF t
<1>2. \A i \in 1 .. Len(t) : i + 1 \in 1 .. Len(s) /\ t[i] = s[i + 1]
  BY <1>1
<1>3. \A i \in 1 .. Len(t) : FrameOK(t[i])
  BY <1>2 DEF StackOK
<1>4. ASSUME NEW i \in 1 .. Len(t) - 1 PROVE Above(t[i + 1], t[i])
  <2>1. i \in 1 .. Len(t) /\ i + 1 \in 1 .. Len(t) /\ i + 1 \in 1 .. Len(s) - 1
    BY <1>1
  <2>2. QED
    BY <1>2, <2>1 DEF StackOK
<1>5. t # <<>> => Outermost(t[Len(t)])
  <2>1. t # <<>> => Len(t) \in 1 .. Len(t) /\ Len(t) + 1 = Len(s)
    BY <1>1
  <2>2. QED
    BY <1>1, <1>2, <2>1 DEF StackOK
<1>6. ASSUME NEW j \in 1 .. Len(t), NEW i \in 1 .. j - 1 PROVE LeadsDown(t[j], t[i].node)
  <2>1. i \in 1 .. Len(t) /\ j + 1 \in 1 .. Len(s) /\ i + 1 \in 1 .. (j + 1) - 1
    BY <1>1
  <2>2. QED
    BY <1>2, <2>1 DEF StackOK
<1>7. QED
  BY <1>1, <1>3, <1>4, <1>5, <1>6 DEF StackOK, t

\* So it is when the innermost call goes on with the same node.
LEMMA TopOK ==
  ASSUME NEW s \in Seq(Frames), StackOK(s), s # <<>>, NEW f \in Frames, FrameOK(f),
         f.node = s[1].node, f.at # "resource", s[1].at # "resource"
  PROVE  <<f>> \o Tail(s) \in Seq(Frames) /\ StackOK(<<f>> \o Tail(s))
<1> DEFINE t == Tail(s)
<1>1. /\ t \in Seq(Frames) /\ StackOK(t) /\ Len(s) \in Nat \ {0}
      /\ Len(t) = Len(s) - 1 /\ \A i \in 1 .. Len(t) : t[i] = s[i + 1]
  BY PopOK
<1> HIDE DEF t
<1>2. t = <<>> => Outermost(f)
  <2>1. t = <<>> => Len(s) = 1
    BY <1>1
  <2>2. QED
    BY <1>1, <2>1 DEF StackOK, Outermost
<1>3. t # <<>> => Above(t[1], f)
  <2>1. t # <<>> => 1 \in 1 .. Len(t) /\ 1 \in 1 .. Len(s) - 1
    BY <1>1
  <2>2. QED
    BY <1>1, <2>1 DEF StackOK, Above
<1>4. ASSUME NEW j \in 1 .. Len(t) PROVE LeadsDown(t[j], f.node)
  <2>1. j + 1 \in 1 .. Len(s) /\ 1 \in 1 .. (j + 1) - 1 /\ t[j] = s[j + 1]
    BY <1>1
  <2>2. QED
    BY <2>1 DEF StackOK
<1>5. QED
  BY <1>1, <1>2, <1>3, <1>4, PushOK DEF t

\* What the calls are owed does not change either.
LEMMA AwaitsStays ==
  ASSUME SameStory, DerefTyped, Story, NEW s \in Seq(Frames), StackOK(s),
         NEW op, NEW m, op = "go" => s # <<>>, op # "go" => m \in Nodes, Awaits(s, op, m)
  PROVE  Awaits(s, op, m)'
<1>1. Len(s) \in Nat /\ 1 \in Nodes /\ \A i \in 1 .. Len(s) : s[i] \in Frames
  BY NodeTyped
<1>2. s = <<>> /\ PointersAreDirect' => Yields(1, m)'
  BY <1>1, RelationsStay DEF Awaits
<1>3. s # <<>> /\ op # "go" => Expects(s[1], m)'
  <2>1. s # <<>> => 1 \in 1 .. Len(s)
    BY <1>1
  <2>2. QED
    BY <1>1, <2>1, FramesStay DEF Awaits, StackOK
<1>4. op = "walk" => \A j \in 1 .. Len(s) : LeadsDown(s[j], m)'
  BY <1>1, FramesStay DEF Awaits
<1>5. QED
  BY <1>2, <1>3, <1>4 DEF Awaits

\* What was resolved stays so.
Resolves == \A n \in Nodes : resolved[n] # NoNode => resolved'[n] # NoNode

\* A node that is settled stays so.
LEMMA SettledStays ==
  ASSUME SameStory, DerefTyped, Story, Resolves
  PROVE  \A n \in Nodes : Settled(n) => Settled(n)'
BY StoryStays, RelationsStay DEF Settled, Resolves

\* What is data of a node was decided when its walk began.
KeysKept ==
  /\ ownerKey' \in Seq(Names \cup {NoKey}) /\ Len(ownerKey') = Len(heap'.nodes)
  /\ \A n \in Nodes : resolved[n] # NoNode => Data(n)' = Data(n)

LEMMA KeysStay ==
  ASSUME DerefTyped, UNCHANGED <<heap, ownerKey>>
  PROVE  KeysKept /\ \A n : Data(n)' = Data(n)
BY DEF DerefTyped, KeysKept, Data

LEMMA KeysWalk ==
  ASSUME DerefTyped, UNCHANGED heap, NEW n \in Nodes, NEW key \in Names \cup {NoKey}, Walk(n, key)
  PROVE  KeysKept
<1>1. /\ ownerKey \in Seq(Names \cup {NoKey}) /\ Len(ownerKey) = Len(heap.nodes)
      /\ ownerKey' = IF resolved[n] = NoNode THEN [ownerKey EXCEPT ![n] = key] ELSE ownerKey
  BY DEF DerefTyped, Walk
<1>2. \A p \in Nodes : resolved[p] # NoNode => ownerKey'[p] = ownerKey[p]
  BY <1>1 DEF Nodes
<1>3. ownerKey' \in Seq(Names \cup {NoKey}) /\ Len(ownerKey') = Len(heap.nodes)
  BY <1>1
<1>4. QED
  BY <1>2, <1>3 DEF KeysKept, Data

\* The key under which a node is walked is a name, or none.
LEMMA KeyTyped ==
  ASSUME DerefTyped, NEW n \in Nodes
  PROVE  ownerKey[n] \in Names \cup {NoKey}
BY DEF DerefTyped, Nodes

\* The calls that walk members are those there were, with no more to walk.
Continued ==
  \A i \in 1 .. Len(stack') : stack'[i].at = "members" =>
    \E j \in 1 .. Len(stack) : /\ stack[j].at = "members" /\ stack[j].node = stack'[i].node
                              /\ stack'[i].left \subseteq stack[j].left

LEMMA CallsSpare ==
  ASSUME DerefTyped, CallsSpareData, Resolves, Continued,
         \A n \in Nodes : resolved[n] # NoNode => Data(n)' = Data(n)
  PROVE  CallsSpareData'
<1> SUFFICES ASSUME NEW i \in 1 .. Len(stack'), stack'[i].at = "members"
             PROVE  (/\ resolved[stack[i].node] # NoNode
                     /\ \A j \in stack[i].left : Members[j] \notin Data(stack[i].node))'
  BY DEF CallsSpareData
<1>1. PICK j \in 1 .. Len(stack) : /\ stack[j].at = "members" /\ stack[j].node = stack'[i].node
                                  /\ stack'[i].left \subseteq stack[j].left
  BY DEF Continued
<1>2. stack[j] \in Frames
  BY DEF DerefTyped
<1>3. PICK n \in Nodes : n = stack[j].node
  BY <1>2 DEF Frames
<1>4. resolved[n] # NoNode /\ \A l \in stack[j].left : Members[l] \notin Data(n)
  BY <1>1, <1>3 DEF CallsSpareData
<1>5. resolved'[n] # NoNode /\ Data(n)' = Data(n)
  BY <1>4 DEF Resolves
<1>6. PICK left : left = stack'[i].left /\ \A l \in left : Members[l] \notin Data(n)'
  BY <1>1, <1>4, <1>5
<1>7. stack'[i].node = n
  BY <1>1, <1>3
<1>8. QED
  BY <1>5, <1>6, <1>7

\* A step that rewrites no member leaves data alone.
LEMMA DataLeft ==
  ASSUME LeftAlone, UNCHANGED heap, Resolves, KeysKept
  PROVE  LeftAlone'
<1> SUFFICES ASSUME NEW n \in Authored', NEW k \in Names, resolved'[n] = NoNode \/ k \in Data(n)'
             PROVE  Node(n)'.child[k] = Node(n)'.was[k]
  BY DEF LeftAlone
<1>1. n \in Authored /\ n \in Nodes /\ Node(n)' = Node(n)
  BY DEF Authored, Nodes, Node, Base
<1>2. resolved[n] = NoNode \/ k \in Data(n)
  BY <1>1 DEF Resolves, KeysKept
<1>3. Node(n).child[k] = Node(n).was[k]
  BY <1>1, <1>2 DEF LeftAlone
<1>4. QED
  BY <1>1, <1>3

LEMMA SparesOn ==
  ASSUME DerefTyped, Spares, UNCHANGED heap, Resolves, Continued, KeysKept
  PROVE  Spares'
BY CallsSpare, DataLeft DEF Spares, KeysKept

\* A step that rewrites no member of a node.
LEMMA HeapStays ==
  ASSUME DerefTyped, Story, UNCHANGED <<heap, preserve>>
  PROVE  /\ SameStory /\ Story' /\ Nodes' = Nodes /\ Frames' = Frames
         /\ Slots => Slots'
<1>1. SameStory /\ Nodes' = Nodes /\ \A n : Node(n)' = Node(n) /\ Base(n)' = Base(n)
  BY DEF SameStory, Nodes, Node, Base
<1>2. Authored' = Authored
  BY <1>1 DEF Authored
<1>3. Story'
  BY <1>1, <1>2 DEF Story
<1>4. Frames' = Frames
  BY <1>1 DEF Frames
<1>5. ASSUME Slots PROVE Slots'
  <2> SUFFICES ASSUME NEW n \in Nodes, NEW k \in Names
               PROVE  (LET y == Node(n).child[k] w == Node(n).was[k]
                       IN w # NoNode => Yields(w, y))'
    BY <1>1 DEF Slots
  <2>1. PICK y \in 0 .. Len(heap.nodes), w \in 0 .. Len(heap.nodes) :
           y = Node(n).child[k] /\ w = Node(n).was[k]
    BY NodeTyped
  <2>2. /\ y = NoNode <=> w = NoNode
        /\ w # NoNode => Yields(w, y)
    BY <1>5, <2>1 DEF Slots, Story
  <2>3. w # NoNode => y \in Nodes /\ w \in Nodes
    BY <2>1, <2>2, NodeTyped DEF NoNode
  <2>4. w # NoNode => Yields(w, y)'
    BY <1>1, <2>2, <2>3, RelationsStay
  <2>5. Node(n)'.child[k] = y /\ Node(n)'.was[k] = w
    BY <1>1, <2>1
  <2>6. QED
    BY <2>2, <2>4, <2>5
<1>6. QED
  BY <1>1, <1>3, <1>4, <1>5

\* A step that only resolves nodes, and goes on in the calls s.
LEMMA ResolvingStep ==
  ASSUME DerefInv, UNCHANGED <<heap, preserve>>, KeysKept,
         resolved' \in Seq(0 .. Len(heap.nodes)), Len(resolved') = Len(heap.nodes),
         NEW s \in Seq(Frames), NEW op \in {"walk", "return", "go"}, NEW m \in 0 .. Len(heap.nodes),
         op = "go" => s # <<>>, op # "go" => m \in Nodes,
         stack' = s, now' = [op |-> op, node |-> m], outcome' = "done" => op = "return" /\ s = <<>>,
         StackOK(s), Awaits(s, op, m), PointersAreDirect => Resolutions' /\ Settling(s, op, m)'
  PROVE  DerefInv'
<1>1. /\ DerefTyped /\ Story /\ SameStory /\ Story' /\ Nodes' = Nodes /\ Frames' = Frames
      /\ Slots => Slots'
  BY HeapStays DEF DerefInv
<1>2. DerefTyped'
  BY <1>1 DEF DerefTyped, GraphTyped, KeysKept
<1>3. PointersAreDirect' = PointersAreDirect
  BY <1>1, RelationsStay
<1>4. StackOK(s)' /\ Awaits(s, op, m)'
  BY <1>1, StackStays, AwaitsStays
<1>5. stack' = s /\ now'.op = op /\ now'.node = m
  OBVIOUS
<1>6. StackOK(stack)' /\ Awaits(stack, now.op, now.node)'
  BY <1>4, <1>5 DEF StackOK, Awaits
<1>7. PointersAreDirect => Settling(stack, now.op, now.node)'
  BY <1>5 DEF Settling
<1>8. QED
  BY <1>1, <1>2, <1>3, <1>6, <1>7 DEF DerefInv

\* A step that only goes on in other calls.
LEMMA CallingStep ==
  ASSUME DerefInv, UNCHANGED <<heap, preserve, resolved>>, KeysKept,
         NEW s \in Seq(Frames), NEW op \in {"walk", "return", "go"}, NEW m \in 0 .. Len(heap.nodes),
         op = "go" => s # <<>>, op # "go" => m \in Nodes,
         stack' = s, now' = [op |-> op, node |-> m], outcome' = "done" => op = "return" /\ s = <<>>,
         StackOK(s), Awaits(s, op, m), PointersAreDirect => Settling(s, op, m)
  PROVE  DerefInv'
<1>1. /\ DerefTyped /\ Story /\ SameStory /\ Nodes' = Nodes /\ Resolves
      /\ \A n : Node(n)' = Node(n)
  BY HeapStays DEF DerefInv, Resolves, Node
<1>2. resolved' \in Seq(0 .. Len(heap.nodes)) /\ Len(resolved') = Len(heap.nodes)
  BY <1>1 DEF DerefTyped
<1>3. \A n \in Nodes : resolved[n] # NoNode => resolved[n] \in Nodes
  BY <1>1, NodeTyped DEF DerefTyped, NoNode
<1>4. PointersAreDirect => Resolutions'
  <2>1. \A n \in Nodes : resolved[n] # NoNode =>
           (Yields(n, resolved[n]) => \A y \in Nodes : y = resolved[n] => Yields(n, y)')
    BY <1>1, RelationsStay
  <2>2. QED
    BY <1>1, <1>3, <2>1 DEF DerefInv, Resolutions
<1>5. PointersAreDirect => Settling(s, op, m)'
  <2> SUFFICES ASSUME PointersAreDirect PROVE Settling(s, op, m)'
    OBVIOUS
  <2>1. Begun(resolved, s)'
    BY DEF Settling, Begun
  <2>2. op = "return" => Settled(m)'
    BY <1>1, SettledStays DEF Settling
  <2>3. op = "walk" => Proper(m)' \/ resolved'[m] = NoNode
    BY <1>1, RelationsStay DEF Settling
  <2>4. ASSUME NEW p \in Nodes, resolved[p] # NoNode
        PROVE  (Settled(resolved[p]) \/ (resolved[p] = p /\ Reserved(s, p)))'
    <3>1. PICK y \in Nodes : y = resolved[p]
      BY <1>3, <2>4
    <3>2. Settled(y) => Settled(y)'
      BY <1>1, SettledStays
    <3>3. Settled(y) \/ (y = p /\ Reserved(s, p))
      BY <2>4, <3>1 DEF Settling
    <3>4. resolved'[p] = y
      BY <3>1
    <3>5. QED
      BY <3>2, <3>3, <3>4 DEF Reserved
  <2>5. ASSUME NEW n \in Nodes, resolved[n] # NoNode, ~Followed(n),
               NEW k \in Names \ Data(n), Node(n).child[k] # NoNode
        PROVE  (Settled(Node(n).child[k]) \/ Pending(s, n, k))'
    <3>1. PICK y \in Nodes : y = Node(n).child[k]
      BY <1>1, <2>5, NodeTyped DEF NoNode
    <3>2. Settled(y) => Settled(y)'
      BY <1>1, SettledStays
    <3>3. Settled(y) \/ Pending(s, n, k)
      BY <2>5, <3>1 DEF Settling
    <3>4. Node(n)'.child[k] = y
      BY <1>1, <3>1
    <3>5. QED
      BY <3>2, <3>3, <3>4 DEF Pending
  <2>6. \A n \in Nodes : Followed(n)' = Followed(n)
    BY <1>1, StoryStays
  <2>7. \A n \in Nodes : resolved[n] # NoNode => Data(n)' = Data(n)
    BY DEF KeysKept
  <2>8. QED
    BY <1>1, <2>1, <2>2, <2>3, <2>4, <2>5, <2>6, <2>7 DEF Settling
<1>6. QED
  BY <1>2, <1>4, <1>5, ResolvingStep

\* A frame that awaits m may as well get what m yields.
LEMMA ExpectsYields ==
  ASSUME NEW f, NEW m, NEW v, Expects(f, m), PointersAreDirect => Yields(m, v)
  PROVE  Expects(f, v)
<1>1. PointersAreDirect /\ f.at = "members" => Yields(Node(f.node).was[Members[Turn(f.left)]], v)
  BY YieldsTransitive DEF Expects
<1>2. PointersAreDirect /\ f.at = "value" => Leaves(f.node, v)
  BY StandsTransitive, LeadsTransitive DEF Expects, Yields, Leaves
<1>3. QED
  BY <1>1, <1>2 DEF Expects

\* The innermost call, and what replacing it comes to.
LEMMA TopFrame ==
  ASSUME NEW s \in Seq(Frames), s # <<>>
  PROVE  /\ Len(s) \in Nat \ {0} /\ Head(s) = s[1] /\ s[1] \in Frames /\ s[1].node \in Nodes
         /\ s[1].left \in SUBSET DOMAIN Members
         /\ \A f : [s EXCEPT ![1] = f] = <<f>> \o Tail(s)
         /\ \A f : Len(<<f>> \o Tail(s)) = Len(s)
         /\ \A f : (<<f>> \o Tail(s))[1] = f
         /\ \A f : \A i \in 2 .. Len(s) : (<<f>> \o Tail(s))[i] = s[i]
<1>1. Len(s) \in Nat \ {0} /\ Head(s) = s[1] /\ s[1] \in Frames
  OBVIOUS
<1>2. s[1].node \in Nodes /\ s[1].left \in SUBSET DOMAIN Members
  BY <1>1 DEF Frames
<1>3. /\ Tail(s) \in Seq(Frames) /\ Len(Tail(s)) = Len(s) - 1
      /\ \A i \in 1 .. Len(s) - 1 : Tail(s)[i] = s[i + 1]
  BY <1>1
<1>4. ASSUME NEW f
      PROVE  /\ [s EXCEPT ![1] = f] = <<f>> \o Tail(s) /\ Len(<<f>> \o Tail(s)) = Len(s)
             /\ (<<f>> \o Tail(s))[1] = f /\ \A i \in 2 .. Len(s) : (<<f>> \o Tail(s))[i] = s[i]
  <2> DEFINE t == <<f>> \o Tail(s)
  <2>1. Len(t) = Len(s) /\ t[1] = f /\ DOMAIN t = 1 .. Len(s) /\ t = [i \in 1 .. Len(s) |-> t[i]]
    BY <1>1, <1>3
  <2>2. \A i \in 2 .. Len(s) : t[i] = s[i]
    <3> TAKE i \in 2 .. Len(s)
    <3>1. i - 1 \in 1 .. Len(s) - 1 /\ (i - 1) + 1 = i
      BY <1>1
    <3>2. t[i] = Tail(s)[i - 1]
      BY <1>1, <1>3, <3>1
    <3>3. QED
      BY <1>3, <3>1, <3>2
  <2> HIDE DEF t
  <2>3. [s EXCEPT ![1] = f] = [i \in 1 .. Len(s) |-> IF i = 1 THEN f ELSE s[i]]
    BY <1>1
  <2>4. \A i \in 1 .. Len(s) : (IF i = 1 THEN f ELSE s[i]) = t[i]
    <3> TAKE i \in 1 .. Len(s)
    <3>1. i = 1 \/ i \in 2 .. Len(s)
      BY <1>1
    <3>2. QED
      BY <2>1, <2>2, <3>1
  <2>5. [i \in 1 .. Len(s) |-> IF i = 1 THEN f ELSE s[i]] = [i \in 1 .. Len(s) |-> t[i]]
    BY <2>4
  <2>6. QED
    BY <2>1, <2>2, <2>3, <2>5 DEF t
<1>5. QED
  BY <1>1, <1>2, <1>4

\* A walk goes on from the innermost call, and so from those that await it.
LEMMA WalksOn ==
  ASSUME NEW s \in Seq(Frames), StackOK(s), s # <<>>, s[1].at # "resource",
         NEW m, PointersAreDirect => LeadsOn(s[1].node, m)
  PROVE  \A j \in 1 .. Len(s) : LeadsDown(s[j], m)
<1> SUFFICES ASSUME PointersAreDirect, NEW j \in 1 .. Len(s), s[j].at # "resource"
             PROVE  LeadsOn(s[j].node, m)
  BY DEF LeadsDown
<1>1. CASE j = 1
  BY <1>1
<1>2. CASE j # 1
  <2>1. 1 \in 1 .. j - 1
    BY <1>2
  <2>2. LeadsOn(s[j].node, s[1].node)
    BY <2>1 DEF StackOK, LeadsDown
  <2>3. QED
    BY <2>2, LeadsTransitive
<1>3. QED
  BY <1>1, <1>2

\* A call returns what its node yields to the one that awaits it.
LEMMA Returns ==
  ASSUME NEW s \in Seq(Frames), StackOK(s), s # <<>>, s[1].at # "resource",
         NEW v, PointersAreDirect => Yields(s[1].node, v)
  PROVE  Awaits(Tail(s), "return", v)
<1> DEFINE t == Tail(s)
<1>1. /\ Len(s) \in Nat \ {0} /\ Len(t) = Len(s) - 1 /\ t \in Seq(Frames)
      /\ \A i \in 1 .. Len(t) : t[i] = s[i + 1]
  BY PopOK, TopFrame
<1> HIDE DEF t
<1>2. t = <<>> /\ PointersAreDirect => Yields(1, v)
  <2>1. t = <<>> => Len(s) = 1
    BY <1>1
  <2>2. QED
    BY <2>1, YieldsTransitive DEF StackOK, Outermost
<1>3. t # <<>> => Expects(t[1], v)
  <2>1. t # <<>> => 1 \in 1 .. Len(t) /\ 1 \in 1 .. Len(s) - 1
    BY <1>1
  <2>2. t # <<>> => Expects(t[1], s[1].node)
    BY <1>1, <2>1 DEF StackOK, Above
  <2>3. QED
    BY <2>2, ExpectsYields
<1>4. Awaits(t, "return", v)
  BY <1>2, <1>3 DEF Awaits
<1>5. QED
  BY <1>4 DEF t
-----------------------------------------------------------------------------
\* A node that was visited yields what it resolved to, which is settled: were
\* its visit under way, the walk would have come back to it.
LEMMA RevisitStep ==
  ASSUME DerefInv, NEW n \in Nodes, Revisit(n)
  PROVE  DerefInv'
<1>1. /\ DerefTyped /\ Story /\ stack \in Seq(Frames) /\ resolved[n] \in Nodes
      /\ resolved[n] \in 0 .. Len(heap.nodes) /\ resolved[n] # NoNode
  BY NodeTyped DEF DerefInv, DerefTyped, Revisit, NoNode
<1>2. /\ now.op = "walk" /\ now.node = n /\ now' = [op |-> "return", node |-> resolved[n]]
      /\ UNCHANGED <<heap, preserve, resolved, ownerKey, stack, outcome>> /\ outcome = "running"
  BY DEF Revisit, Walks, Return
<1>3. PICK s \in Seq(Frames), v \in Nodes : s = stack /\ v = resolved[n]
  BY <1>1
<1>4. /\ StackOK(s) /\ Awaits(s, "walk", n)
      /\ PointersAreDirect => Settling(s, "walk", n) /\ Yields(n, v)
  BY <1>1, <1>2, <1>3 DEF DerefInv, Resolutions
<1>5. Awaits(s, "return", v)
  BY <1>4, YieldsTransitive, ExpectsYields DEF Awaits
<1>6. ASSUME PointersAreDirect PROVE Settling(s, "return", v)
  <2>1. Settled(v) \/ (v = n /\ Reserved(s, n))
    BY <1>1, <1>3, <1>4, <1>6 DEF Settling
  <2>2. ASSUME v = n, Reserved(s, n) PROVE Settled(n)
    <3>1. PICK i \in 1 .. Len(s) : s[i].node = n /\ s[i].at \in {"target", "fetching", "value"}
      BY <2>2 DEF Reserved
    <3>2. LeadsOn(n, n)
      BY <1>4, <1>6, <3>1 DEF Awaits, LeadsDown
    <3>3. Replaced(n) => n \in Authored
      BY <1>1, <1>4, <1>6 DEF Settling, Proper
    <3>4. QED
      BY <1>1, <3>2, <3>3 DEF Settled, LeadsOn
  <2>3. Settled(v)
    BY <2>1, <2>2
  <2>4. QED
    BY <1>4, <1>6, <2>3 DEF Settling
<1>7. v \in 0 .. Len(heap.nodes)
  BY <1>1, <1>3
<1>8. stack' = s /\ now' = [op |-> "return", node |-> v] /\ outcome' # "done"
  BY <1>2, <1>3
<1>9. QED
  BY <1>1, <1>2, <1>4, <1>5, <1>6, <1>7, <1>8, KeysStay, CallingStep

\* The walk of a node goes on to a member, or to what took its place.
LEMMA NextMemberStep ==
  ASSUME DerefInv, NextMember
  PROVE  DerefInv'
<1>1. DerefTyped /\ Story /\ stack \in Seq(Frames) /\ now.op = "go" /\ stack # <<>>
  BY DEF DerefInv, DerefTyped, NextMember, Proceeds
<1>2. PICK s \in Seq(Frames) : s = stack
  BY <1>1
<1>3. Top = s[1] /\ s # <<>> /\ s[1].node \in Nodes /\ s[1].left \in SUBSET DOMAIN Members
  BY <1>1, <1>2, TopFrame DEF Top
<1>4. s[1].at = "members" /\ s[1].left # {}
  BY <1>3 DEF NextMember, Proceeds
<1>5. Turn(s[1].left) \in s[1].left /\ Members[Turn(s[1].left)] \in Names
  BY <1>3, <1>4, TurnIsLeft
<1>6. PICK m \in 0 .. Len(heap.nodes), w \in 0 .. Len(heap.nodes) :
        /\ m = Node(s[1].node).child[Members[Turn(s[1].left)]]
        /\ w = Node(s[1].node).was[Members[Turn(s[1].left)]]
  BY <1>1, <1>3, <1>5, NodeTyped
<1>7. /\ now' = [op |-> "walk", node |-> m] /\ stack' = s
      /\ UNCHANGED <<heap, preserve, resolved, outcome>> /\ outcome = "running"
  BY <1>2, <1>3, <1>6 DEF NextMember, Walk, Proceeds
<1>8. StackOK(s) /\ (PointersAreDirect => Settling(s, "go", now.node) /\ Slots)
  BY <1>1, <1>2 DEF DerefInv
<1>9. ~Followed(s[1].node) /\ w # NoNode
  <2>1. 1 \in 1 .. Len(s)
    BY <1>3, TopFrame
  <2>2. QED
    BY <1>4, <1>5, <1>6, <1>8, <2>1 DEF StackOK, FrameOK
<1>10. m # NoNode /\ m \in Nodes /\ w \in Nodes
  <2>1. m # NoNode
    BY <1>1, <1>3, <1>5, <1>6, <1>9 DEF Story
  <2>2. QED
    BY <1>1, <1>6, <1>9, <2>1, NodeTyped DEF NoNode
<1>11. PointersAreDirect => Yields(w, m)
  BY <1>3, <1>5, <1>6, <1>8, <1>9 DEF Slots
<1>12. w \in Below(s[1].node) /\ w \in Authored
  <2>1. w \in Below(s[1].node)
    BY <1>5, <1>6, <1>9 DEF Below
  <2>2. QED
    BY <1>1, <1>3, <1>9, <2>1, BelowAuthored
<1>13. PointersAreDirect => LeadsOn(s[1].node, m)
  BY <1>1, <1>3, <1>9, <1>11, <1>12, BelowYields
<1>14. Awaits(s, "walk", m)
  <2>1. Expects(s[1], m)
    BY <1>4, <1>6, <1>11 DEF Expects
  <2>2. \A j \in 1 .. Len(s) : LeadsDown(s[j], m)
    BY <1>3, <1>4, <1>8, <1>13, WalksOn
  <2>3. QED
    BY <1>3, <2>1, <2>2 DEF Awaits
<1>15. PointersAreDirect => Settling(s, "walk", m)
  BY <1>8, <1>11, <1>12 DEF Settling, Yields, Proper
<1>16. KeysKept
  <2>1. Walk(m, Members[Turn(s[1].left)])
    BY <1>3, <1>6 DEF NextMember
  <2>2. QED
    BY <1>1, <1>5, <1>7, <1>10, <2>1, KeysWalk
<1>17. QED
  BY <1>3, <1>6, <1>7, <1>8, <1>10, <1>14, <1>15, <1>16, CallingStep
-----------------------------------------------------------------------------
\* What the innermost call adds to what the calls still have to settle.
LEMMA CallsSplit ==
  ASSUME NEW S, NEW s \in Seq(S), NEW f \in S
  PROVE  /\ \A seen : Begun(seen, <<f>> \o s) <=>
                        (f.at # "resource" => seen[f.node] # NoNode) /\ Begun(seen, s)
         /\ \A n : Reserved(<<f>> \o s, n) <=>
                     (f.node = n /\ f.at \in {"target", "fetching", "value"}) \/ Reserved(s, n)
         /\ \A n, k : Pending(<<f>> \o s, n, k) <=>
                        \/ f.node = n /\ f.at = "members" /\ \E j \in f.left : Members[j] = k
                        \/ Pending(s, n, k)
<1> DEFINE t == <<f>> \o s
<1>1. /\ Len(s) \in Nat /\ Len(t) = Len(s) + 1
      /\ t[1] = f /\ \A i \in 1 .. Len(s) : t[i + 1] = s[i]
  OBVIOUS
<1> HIDE DEF t
<1>2. /\ 1 \in 1 .. Len(t) /\ t[1] = f
      /\ \A i \in 1 .. Len(s) : i + 1 \in 1 .. Len(t) /\ t[i + 1] = s[i]
  BY <1>1
<1>3. \A i \in 1 .. Len(t) : i = 1 \/ \E j \in 1 .. Len(s) : t[i] = s[j]
  <2> TAKE i \in 1 .. Len(t)
  <2>1. i # 1 => i - 1 \in 1 .. Len(s) /\ (i - 1) + 1 = i
    BY <1>1
  <2>2. QED
    BY <1>1, <2>1
<1>4. \A seen : Begun(seen, t) <=> (f.at # "resource" => seen[f.node] # NoNode) /\ Begun(seen, s)
  <2> TAKE seen
  <2>1. ASSUME Begun(seen, t)
        PROVE  (f.at # "resource" => seen[f.node] # NoNode) /\ Begun(seen, s)
    BY <1>2, <2>1 DEF Begun
  <2>2. ASSUME f.at # "resource" => seen[f.node] # NoNode, Begun(seen, s) PROVE Begun(seen, t)
    <3> SUFFICES ASSUME NEW i \in 1 .. Len(t), t[i].at # "resource" PROVE seen[t[i].node] # NoNode
      BY DEF Begun
    <3>1. CASE i = 1
      BY <1>2, <2>2, <3>1
    <3>2. CASE \E j \in 1 .. Len(s) : t[i] = s[j]
      BY <2>2, <3>2 DEF Begun
    <3>3. QED
      BY <1>3, <3>1, <3>2
  <2>3. QED
    BY <2>1, <2>2
<1>5. \A n : Reserved(t, n) <=>
               (f.node = n /\ f.at \in {"target", "fetching", "value"}) \/ Reserved(s, n)
  <2> TAKE n
  <2>1. ASSUME Reserved(t, n)
        PROVE  (f.node = n /\ f.at \in {"target", "fetching", "value"}) \/ Reserved(s, n)
    BY <1>2, <1>3, <2>1 DEF Reserved
  <2>2. ASSUME (f.node = n /\ f.at \in {"target", "fetching", "value"}) \/ Reserved(s, n)
        PROVE  Reserved(t, n)
    BY <1>2, <2>2 DEF Reserved
  <2>3. QED
    BY <2>1, <2>2
<1>6. \A n, k : Pending(t, n, k) <=>
                  \/ f.node = n /\ f.at = "members" /\ \E j \in f.left : Members[j] = k
                  \/ Pending(s, n, k)
  <2> TAKE n, k
  <2>1. ASSUME Pending(t, n, k)
        PROVE  \/ f.node = n /\ f.at = "members" /\ \E j \in f.left : Members[j] = k
               \/ Pending(s, n, k)
    <3>1. PICK i \in 1 .. Len(t) : /\ t[i].node = n /\ t[i].at = "members"
                                   /\ \E j \in t[i].left : Members[j] = k
      BY <2>1 DEF Pending
    <3>2. CASE i = 1
      BY <1>2, <3>1, <3>2
    <3>3. CASE \E j \in 1 .. Len(s) : t[i] = s[j]
      BY <3>1, <3>3 DEF Pending
    <3>4. QED
      BY <1>3, <3>2, <3>3
  <2>2. ASSUME \/ f.node = n /\ f.at = "members" /\ \E j \in f.left : Members[j] = k
               \/ Pending(s, n, k)
        PROVE  Pending(t, n, k)
    BY <1>2, <2>2 DEF Pending
  <2>3. QED
    BY <2>1, <2>2
<1>7. QED
  BY <1>4, <1>5, <1>6 DEF t

\* So it is, told from the innermost call of those there are.
LEMMA TopSplits ==
  ASSUME NEW s \in Seq(Frames), s # <<>>
  PROVE  /\ \A seen : Begun(seen, s) <=>
                        (s[1].at # "resource" => seen[s[1].node] # NoNode) /\ Begun(seen, Tail(s))
         /\ \A n : Reserved(s, n) <=>
                     (s[1].node = n /\ s[1].at \in {"target", "fetching", "value"}) \/ Reserved(Tail(s), n)
         /\ \A n, k : Pending(s, n, k) <=>
                        \/ s[1].node = n /\ s[1].at = "members" /\ \E j \in s[1].left : Members[j] = k
                        \/ Pending(Tail(s), n, k)
<1> DEFINE t == Tail(s) f == s[1] u == <<f>> \o t
<1>1. f \in Frames /\ t \in Seq(Frames)
  OBVIOUS
<1>2. u = s
  OBVIOUS
<1> HIDE DEF t, f
<1>3. /\ \A seen : Begun(seen, u) <=>
                     (f.at # "resource" => seen[f.node] # NoNode) /\ Begun(seen, t)
      /\ \A n : Reserved(u, n) <=>
                  (f.node = n /\ f.at \in {"target", "fetching", "value"}) \/ Reserved(t, n)
      /\ \A n, k : Pending(u, n, k) <=>
                     \/ f.node = n /\ f.at = "members" /\ \E j \in f.left : Members[j] = k
                     \/ Pending(t, n, k)
  BY <1>1, CallsSplit
<1> HIDE DEF u
<1>4. QED
  BY <1>2, <1>3 DEF t, f

\* The calls t still settle what the calls s had to.
LEMMA SettlingGoesOn ==
  ASSUME SameStory, DerefTyped, Story, Resolves, NEW s, NEW t, NEW op, NEW m, Settling(s, op, m)
  PROVE  /\ \A p \in Nodes : /\ resolved[p] # NoNode /\ resolved'[p] = resolved[p]
                             /\ Reserved(s, p) => Reserved(t, p) \/ Settled(p)
                             => (Settled(resolved[p]) \/ (resolved[p] = p /\ Reserved(t, p)))'
         /\ \A n \in Nodes : \A k \in Names \ Data(n) :
              /\ resolved[n] # NoNode /\ ~Followed(n)
              /\ Node(n).child[k] # NoNode /\ Node(n)'.child[k] = Node(n).child[k]
              /\ Pending(s, n, k) => Pending(t, n, k)
              => Settled(Node(n).child[k])' \/ Pending(t, n, k)
<1>1. ASSUME NEW p \in Nodes, resolved[p] # NoNode, resolved'[p] = resolved[p],
             Reserved(s, p) => Reserved(t, p) \/ Settled(p)
      PROVE  (Settled(resolved[p]) \/ (resolved[p] = p /\ Reserved(t, p)))'
  <2>1. resolved[p] \in Nodes
    BY <1>1, NodeTyped DEF DerefTyped, NoNode
  <2>2. PICK y \in Nodes : y = resolved[p]
    BY <2>1
  <2>3. Settled(y) => Settled(y)'
    BY SettledStays
  <2>4. Settled(p) => Settled(p)'
    BY SettledStays
  <2>5. Settled(y) \/ (y = p /\ Reserved(s, p))
    BY <1>1, <2>2 DEF Settling
  <2>6. Settled(y)' \/ (y = p /\ Reserved(t, p))
    BY <1>1, <2>3, <2>4, <2>5
  <2>7. resolved'[p] = y
    BY <1>1, <2>2
  <2>8. QED
    BY <2>6, <2>7
<1>2. ASSUME NEW n \in Nodes, NEW k \in Names \ Data(n), resolved[n] # NoNode, ~Followed(n),
             Node(n).child[k] # NoNode, Node(n)'.child[k] = Node(n).child[k],
             Pending(s, n, k) => Pending(t, n, k)
      PROVE  Settled(Node(n).child[k])' \/ Pending(t, n, k)
  <2>1. PICK y \in Nodes : y = Node(n).child[k]
    BY <1>2, NodeTyped DEF NoNode
  <2>2. Settled(y) => Settled(y)'
    BY SettledStays
  <2>3. Settled(y) \/ Pending(s, n, k)
    BY <1>2, <2>1 DEF Settling
  <2>4. Node(n)'.child[k] = y
    BY <1>2, <2>1
  <2>5. QED
    BY <1>2, <2>2, <2>3, <2>4
<1>3. QED
  BY <1>1, <1>2

\* So it is where nothing is resolved or rewritten.
LEMMA SettlingMoves ==
  ASSUME NEW s, NEW t, NEW op, NEW m, NEW then, NEW result, Settling(s, op, m), Begun(resolved, t),
         \A p \in Nodes : Reserved(s, p) => Reserved(t, p) \/ Settled(p),
         \A n \in Nodes : \A k \in Names : Pending(s, n, k) => Pending(t, n, k),
         then = "return" => Settled(result), then = "walk" => Proper(result) \/ resolved[result] = NoNode
  PROVE  Settling(t, then, result)
<1>1. \A p \in Nodes : resolved[p] # NoNode => Settled(resolved[p]) \/ (resolved[p] = p /\ Reserved(t, p))
  <2> SUFFICES ASSUME NEW p \in Nodes, resolved[p] # NoNode
               PROVE  Settled(resolved[p]) \/ (resolved[p] = p /\ Reserved(t, p))
    OBVIOUS
  <2>1. Settled(resolved[p]) \/ (resolved[p] = p /\ Reserved(s, p))
    BY DEF Settling
  <2>2. Reserved(s, p) => Reserved(t, p) \/ Settled(p)
    OBVIOUS
  <2>3. resolved[p] = p /\ Settled(p) => Settled(resolved[p])
    OBVIOUS
  <2>4. QED
    BY <2>1, <2>2, <2>3
<1>2. \A n \in Nodes : resolved[n] # NoNode /\ ~Followed(n) =>
        \A k \in Names \ Data(n) : Node(n).child[k] # NoNode => Settled(Node(n).child[k]) \/ Pending(t, n, k)
  BY DEF Settling
<1>3. QED
  BY <1>1, <1>2 DEF Settling

\* The walk of a node is over when none of its members is left.
LEMMA MembersDoneStep ==
  ASSUME DerefInv, MembersDone
  PROVE  DerefInv'
<1>1. DerefTyped /\ Story /\ stack \in Seq(Frames) /\ now.op = "go" /\ stack # <<>>
  BY DEF DerefInv, DerefTyped, MembersDone, Proceeds
<1>2. PICK s \in Seq(Frames) : s = stack
  BY <1>1
<1>3. Top = s[1] /\ s # <<>> /\ s[1].node \in Nodes
  BY <1>1, <1>2, TopFrame DEF Top
<1>4. s[1].at = "members" /\ s[1].left = {}
  BY <1>3 DEF MembersDone, Proceeds
<1>5. PICK n \in Nodes, t \in Seq(Frames) : n = s[1].node /\ t = Tail(s)
  <2>1. StackOK(s)
    BY <1>2 DEF DerefInv
  <2>2. s[1].node \in Nodes /\ Tail(s) \in Seq(Frames)
    BY <1>3, <2>1, PopOK
  <2>3. QED
    BY <2>2
<1>6. /\ now' = [op |-> "return", node |-> n] /\ stack' = t
      /\ UNCHANGED <<heap, preserve, resolved, ownerKey, outcome>> /\ outcome = "running"
  BY <1>2, <1>3, <1>5 DEF MembersDone, Return, Proceeds
<1>7. StackOK(s) /\ (PointersAreDirect => Settling(s, "go", now.node))
  BY <1>1, <1>2 DEF DerefInv
<1>8. StackOK(t)
  BY <1>3, <1>5, <1>7, PopOK
<1>9. Awaits(t, "return", n)
  BY <1>3, <1>4, <1>5, <1>7, Returns DEF Yields
<1>10. ~Followed(n)
  <2>1. 1 \in 1 .. Len(s)
    BY <1>3, TopFrame
  <2>2. QED
    BY <1>4, <1>5, <1>7, <2>1 DEF StackOK, FrameOK
<1>11. ASSUME PointersAreDirect PROVE Settling(t, "return", n)
  <2>1. resolved[n] # NoNode /\ Begun(resolved, t)
    BY <1>3, <1>4, <1>5, <1>7, <1>11, TopSplits DEF Settling
  <2>2. Settled(n)
    BY <1>10, <2>1 DEF Settled, Replaced
  <2>3. /\ \A p \in Nodes : Reserved(s, p) => Reserved(t, p)
        /\ \A x \in Nodes : \A k \in Names : Pending(s, x, k) => Pending(t, x, k)
    BY <1>3, <1>4, <1>5, TopSplits
  <2>4. QED
    BY <1>7, <1>11, <2>1, <2>2, <2>3, SettlingMoves
<1>12. n \in 0 .. Len(heap.nodes)
  BY <1>1, <1>5, NodeTyped
<1>13. QED
  BY <1>1, <1>6, <1>8, <1>9, <1>11, <1>12, KeysStay, CallingStep

\* A resource that was never asked for is fetched.
LEMMA AskResourceStep ==
  ASSUME DerefInv, AskResource
  PROVE  DerefInv'
<1>1. /\ DerefTyped /\ Story /\ stack \in Seq(Frames) /\ now.op = "go" /\ stack # <<>>
      /\ now = [op |-> "go", node |-> now.node] /\ now.node \in 0 .. Len(heap.nodes)
  BY DEF DerefInv, DerefTyped, AskResource, Proceeds
<1>2. PICK s \in Seq(Frames) : s = stack
  BY <1>1
<1>3. Top = s[1] /\ s # <<>> /\ s[1] \in Frames
  BY <1>1, <1>2, TopFrame DEF Top
<1>4. s[1].at = "target" /\ Node(s[1].node).ref.to # Here
  BY <1>3 DEF AskResource, Proceeds
<1>5. PICK f \in Frames : f = [s[1] EXCEPT !.at = "fetching"]
  BY <1>3 DEF Frames
<1>6. f.node = s[1].node /\ f.at = "fetching"
  BY <1>3, <1>5 DEF Frames
<1>7. StackOK(s) /\ (PointersAreDirect => Settling(s, "go", now.node))
  BY <1>1, <1>2 DEF DerefInv
<1>8. FrameOK(f)
  <2>1. 1 \in 1 .. Len(s)
    BY <1>3, TopFrame
  <2>2. Followed(s[1].node)
    BY <1>4, <1>7, <2>1 DEF StackOK, FrameOK
  <2>3. QED
    BY <1>4, <1>6, <2>2 DEF FrameOK
<1>9. PICK t \in Seq(Frames) : t = <<f>> \o Tail(s) /\ StackOK(t)
  BY <1>3, <1>4, <1>6, <1>7, <1>8, TopOK
<1>10. t # <<>>
  BY <1>3, <1>9, PopOK, <1>7
<1>11. /\ stack' = t /\ now' = [op |-> "go", node |-> now.node]
       /\ UNCHANGED <<heap, preserve, resolved, ownerKey, outcome>> /\ outcome = "running"
  <2>1. stack' = [s EXCEPT ![1].at = "fetching"]
    BY <1>2 DEF AskResource
  <2>2. [s EXCEPT ![1].at = "fetching"] = [s EXCEPT ![1] = f]
    BY <1>3, <1>5
  <2>3. [s EXCEPT ![1] = f] = <<f>> \o Tail(s)
    BY <1>3, TopFrame
  <2>4. QED
    BY <1>1, <1>9, <2>1, <2>2, <2>3 DEF AskResource, Proceeds
<1>12. Awaits(t, "go", now.node)
  BY <1>10 DEF Awaits
<1>13. ASSUME PointersAreDirect PROVE Settling(t, "go", now.node)
  <2>1. Tail(s) \in Seq(Frames)
    BY <1>3, <1>7, PopOK
  <2>2. /\ Begun(resolved, t)
        /\ \A p \in Nodes : Reserved(s, p) => Reserved(t, p)
        /\ \A x \in Nodes : \A k \in Names : Pending(s, x, k) => Pending(t, x, k)
    <3>1. Begun(resolved, s)
      BY <1>7, <1>13 DEF Settling
    <3>2. Begun(resolved, Tail(s)) /\ resolved[f.node] # NoNode
      BY <1>3, <1>4, <1>6, <3>1, TopSplits
    <3>3. Begun(resolved, t)
      BY <1>9, <2>1, <3>2, CallsSplit
    <3>4. ASSUME NEW p \in Nodes, Reserved(s, p) PROVE Reserved(t, p)
      <4>1. f.node = p \/ Reserved(Tail(s), p)
        BY <1>3, <1>6, <3>4, TopSplits
      <4>2. QED
        BY <1>6, <1>9, <2>1, <4>1, CallsSplit
    <3>5. ASSUME NEW x \in Nodes, NEW k \in Names, Pending(s, x, k) PROVE Pending(t, x, k)
      BY <1>3, <1>4, <1>6, <1>9, <2>1, <3>5, TopSplits, CallsSplit
    <3>6. QED
      BY <3>3, <3>4, <3>5
  <2>3. QED
    BY <1>7, <1>13, <2>2, SettlingMoves
<1>14. QED
  BY <1>1, <1>10, <1>11, <1>9, <1>12, <1>13, KeysStay, CallingStep

\* A fetched document is walked from its root, which the reference leads to.
LEMMA RegisterResourceStep ==
  ASSUME DerefInv, RegisterResource
  PROVE  DerefInv'
<1>1. DerefTyped /\ Story /\ stack \in Seq(Frames) /\ now.op = "go" /\ stack # <<>>
  BY DEF DerefInv, DerefTyped, RegisterResource, Proceeds
<1>2. PICK s \in Seq(Frames) : s = stack
  BY <1>1
<1>3. Top = s[1] /\ s # <<>> /\ s[1].node \in Nodes
  BY <1>1, <1>2, TopFrame DEF Top
<1>4. StackOK(s) /\ (PointersAreDirect => Settling(s, "go", now.node))
  BY <1>1, <1>2 DEF DerefInv
<1>5. s[1].at = "fetching" /\ Followed(s[1].node) /\ Node(s[1].node).ref.to # Here
  <2>1. 1 \in 1 .. Len(s) /\ s[1].at = "fetching"
    BY <1>3, TopFrame DEF RegisterResource, Proceeds
  <2>2. QED
    BY <1>4, <2>1 DEF StackOK, FrameOK
<1>6. Root(Resource(s[1].node)) \in Authored /\ Root(Resource(s[1].node)) \in Nodes
  <2>1. Resource(s[1].node) \in DOMAIN heap.root
    BY <1>1, <1>3, <1>5, NodeTyped DEF Followed
  <2>2. QED
    BY <1>1, <2>1 DEF Story, Root, Authored
<1>7. PICK root \in Nodes : root = Root(Resource(s[1].node)) /\ root \in Authored
  BY <1>6
<1>8. PICK f \in Frames : f = [node |-> root, at |-> "resource", left |-> {}]
  BY DEF Frames
<1>9. f.node = root /\ f.at = "resource"
  BY <1>8
<1>10. PICK t : t = <<f>> \o s
  OBVIOUS
<1>11. /\ now' = [op |-> "walk", node |-> root] /\ stack' = t
       /\ UNCHANGED <<heap, preserve, resolved, outcome>> /\ outcome = "running"
  BY <1>2, <1>3, <1>7, <1>8, <1>10 DEF RegisterResource, Walk, Proceeds, Frame
<1>12. LeadsOn(s[1].node, root)
  <2>1. root \in Below(s[1].node) /\ root # NoNode
    BY <1>1, <1>5, <1>7, NodeTyped DEF Below, NoNode
  <2>2. QED
    BY <1>7, <2>1, LeadsBelow, LeadsOver
<1>13. \A j \in 1 .. Len(s) : LeadsDown(s[j], root)
  BY <1>3, <1>4, <1>5, <1>12, WalksOn
<1>14. t \in Seq(Frames) /\ StackOK(t) /\ t # <<>> /\ t[1] = f
  <2>1. FrameOK(f)
    BY <1>9 DEF FrameOK
  <2>2. Above(s[1], f)
    BY <1>5, <1>7, <1>9 DEF Above, Expects
  <2>3. t \in Seq(Frames) /\ StackOK(t)
    BY <1>3, <1>4, <1>9, <1>10, <1>13, <2>1, <2>2, PushOK
  <2>4. t # <<>> /\ t[1] = f
    BY <1>10
  <2>5. QED
    BY <2>3, <2>4
<1>15. Awaits(t, "walk", root)
  <2>1. \A j \in 1 .. Len(t) : LeadsDown(t[j], root)
    <3> SUFFICES ASSUME NEW j \in 1 .. Len(t) PROVE LeadsDown(t[j], root)
      OBVIOUS
    <3>1. CASE j = 1
      BY <1>9, <1>14, <3>1 DEF LeadsDown
    <3>2. CASE j # 1
      <4>1. j - 1 \in 1 .. Len(s) /\ t[j] = s[j - 1]
        BY <1>10, <3>2
      <4>2. QED
        BY <1>13, <4>1
    <3>3. QED
      BY <3>1, <3>2
  <2>2. Expects(f, root)
    BY <1>9 DEF Expects
  <2>3. QED
    BY <1>14, <2>1, <2>2 DEF Awaits
<1>16. ASSUME PointersAreDirect PROVE Settling(t, "walk", root)
  <2>1. Begun(resolved, s)
    BY <1>4, <1>16 DEF Settling
  <2>2. /\ Begun(resolved, t)
        /\ \A p \in Nodes : Reserved(s, p) => Reserved(t, p)
        /\ \A x \in Nodes : \A k \in Names : Pending(s, x, k) => Pending(t, x, k)
    BY <1>9, <1>10, <2>1, CallsSplit
  <2>3. Proper(root)
    BY <1>7 DEF Proper
  <2>4. QED
    BY <1>4, <1>16, <2>2, <2>3, SettlingMoves
<1>17. root \in 0 .. Len(heap.nodes)
  BY <1>1, NodeTyped
<1>18. KeysKept
  <2>1. Walk(root, NoKey)
    BY <1>3, <1>7 DEF RegisterResource
  <2>2. QED
    BY <1>1, <1>11, <2>1, KeysWalk
<1>19. QED
  BY <1>11, <1>14, <1>15, <1>16, <1>17, <1>18, CallingStep

\* A fetch that fails ends it all.
LEMMA FetchFailsStep ==
  ASSUME DerefInv, FetchFails
  PROVE  DerefInv'
<1>1. /\ DerefTyped /\ stack \in Seq(Frames) /\ now.op = "go" /\ stack # <<>>
      /\ now = [op |-> "go", node |-> now.node] /\ now.node \in 0 .. Len(heap.nodes)
  BY DEF DerefInv, DerefTyped, FetchFails, Proceeds
<1>2. PICK s \in Seq(Frames) : s = stack
  BY <1>1
<1>3. /\ stack' = s /\ now' = [op |-> "go", node |-> now.node] /\ outcome' # "done" /\ s # <<>>
      /\ UNCHANGED <<heap, preserve, resolved, ownerKey>>
  BY <1>1, <1>2 DEF FetchFails
<1>4. /\ StackOK(s) /\ Awaits(s, "go", now.node)
      /\ PointersAreDirect => Settling(s, "go", now.node)
  BY <1>1, <1>2 DEF DerefInv
<1>5. QED
  BY <1>1, <1>3, <1>4, KeysStay, CallingStep

\* The outermost call has returned.
LEMMA FinishStep ==
  ASSUME DerefInv, Finish
  PROVE  DerefInv'
<1>1. /\ DerefTyped /\ stack \in Seq(Frames) /\ now.op = "return" /\ stack = <<>>
      /\ now = [op |-> "return", node |-> now.node] /\ now.node \in 0 .. Len(heap.nodes) /\ now.node \in Nodes
  BY DEF DerefInv, DerefTyped, Finish
<1>2. PICK s \in Seq(Frames) : s = stack
  BY <1>1
<1>3. /\ stack' = s /\ now' = [op |-> "return", node |-> now.node] /\ s = <<>>
      /\ UNCHANGED <<heap, preserve, resolved, ownerKey>>
  BY <1>1, <1>2 DEF Finish
<1>4. /\ StackOK(s) /\ Awaits(s, "return", now.node)
      /\ PointersAreDirect => Settling(s, "return", now.node)
  BY <1>1, <1>2 DEF DerefInv
<1>5. QED
  BY <1>1, <1>3, <1>4, KeysStay, CallingStep

\* The document was walked; the reference to it is followed.
LEMMA ResourceWalkedStep ==
  ASSUME DerefInv, ResourceWalked
  PROVE  DerefInv'
<1>1. DerefTyped /\ Story /\ stack \in Seq(Frames) /\ now.op = "return" /\ stack # <<>>
  BY DEF DerefInv, DerefTyped, ResourceWalked
<1>2. PICK s \in Seq(Frames) : s = stack
  BY <1>1
<1>3. Top = s[1] /\ s # <<>> /\ s[1].node \in Nodes
  BY <1>1, <1>2, TopFrame DEF Top
<1>4. StackOK(s) /\ (PointersAreDirect => Settling(s, "return", now.node)) /\ s[1].at = "resource"
  BY <1>1, <1>2, <1>3 DEF DerefInv, ResourceWalked
<1>5. PICK t \in Seq(Frames) : t = Tail(s) /\ StackOK(t) /\ Len(t) = Len(s) - 1
  BY <1>3, <1>4, PopOK
<1>6. t # <<>> /\ t[1] = s[2] /\ t[1].at = "fetching" /\ FrameOK(t[1]) /\ t[1] \in Frames
  <2>1. Len(s) \in Nat \ {0} /\ (Len(s) = 1 => Outermost(s[1]))
    BY <1>3, <1>4, TopFrame DEF StackOK
  <2>2. Len(s) # 1
    BY <1>4, <2>1 DEF Outermost
  <2>3. t # <<>> /\ 1 \in 1 .. Len(t) /\ 1 \in 1 .. Len(s) - 1
    <3>1. Len(t) \in Nat \ {0} /\ 1 \in 1 .. Len(t) /\ 1 \in 1 .. Len(s) - 1
      BY <1>5, <2>1, <2>2
    <3>2. QED
      BY <3>1
  <2>4. t[1] = s[2]
    BY <1>3, <1>4, <1>5, <2>3, PopOK
  <2>5. Above(s[2], s[1])
    BY <1>4, <2>3 DEF StackOK
  <2>6. QED
    BY <1>4, <1>5, <2>3, <2>4, <2>5 DEF StackOK, Above
<1>7. PICK f \in Frames : f = [t[1] EXCEPT !.at = "target"]
  BY <1>6 DEF Frames
<1>8. f.node = t[1].node /\ f.at = "target" /\ FrameOK(f)
  <2>1. f.node = t[1].node /\ f.at = "target"
    BY <1>6, <1>7 DEF Frames
  <2>2. QED
    BY <1>6, <2>1 DEF FrameOK
<1>9. PICK u \in Seq(Frames) : u = <<f>> \o Tail(t) /\ StackOK(u) /\ u # <<>>
  <2>1. <<f>> \o Tail(t) \in Seq(Frames) /\ StackOK(<<f>> \o Tail(t))
    BY <1>5, <1>6, <1>8, TopOK
  <2>2. Tail(t) \in Seq(Frames)
    BY <1>5, <1>6, PopOK
  <2>3. <<f>> \o Tail(t) # <<>>
    BY <2>2
  <2>4. QED
    BY <2>1, <2>3
<1>10. /\ stack' = u /\ now' = [op |-> "go", node |-> NoNode]
       /\ UNCHANGED <<heap, preserve, resolved, ownerKey, outcome>> /\ outcome = "running"
  <2>1. stack' = [t EXCEPT ![1].at = "target"]
    BY <1>2, <1>5 DEF ResourceWalked
  <2>2. [t EXCEPT ![1].at = "target"] = [t EXCEPT ![1] = f]
    BY <1>6, <1>7
  <2>3. [t EXCEPT ![1] = f] = <<f>> \o Tail(t)
    BY <1>6, TopFrame
  <2>4. QED
    BY <1>9, <2>1, <2>2, <2>3 DEF ResourceWalked, Go
<1>11. Awaits(u, "go", NoNode)
  BY <1>9 DEF Awaits
<1>12. ASSUME PointersAreDirect PROVE Settling(u, "go", NoNode)
  <2>1. Tail(t) \in Seq(Frames)
    BY <1>5, <1>6, PopOK
  <2>2. Begun(resolved, u)
    <3>1. Begun(resolved, s)
      BY <1>4, <1>12 DEF Settling
    <3>2. Begun(resolved, t)
      BY <1>3, <1>5, <3>1, TopSplits
    <3>3. Begun(resolved, Tail(t)) /\ resolved[f.node] # NoNode
      BY <1>6, <1>8, <3>2, TopSplits
    <3>4. QED
      BY <1>9, <2>1, <3>3, CallsSplit
  <2>3. ASSUME NEW p \in Nodes, Reserved(s, p) PROVE Reserved(u, p)
    <3>1. Reserved(t, p)
      BY <1>3, <1>4, <1>5, <2>3, TopSplits
    <3>2. f.node = p \/ Reserved(Tail(t), p)
      BY <1>6, <1>8, <3>1, TopSplits
    <3>3. QED
      BY <1>8, <1>9, <2>1, <3>2, CallsSplit
  <2>4. ASSUME NEW x \in Nodes, NEW k \in Names, Pending(s, x, k) PROVE Pending(u, x, k)
    <3>1. Pending(t, x, k)
      BY <1>3, <1>4, <1>5, <2>4, TopSplits
    <3>2. Pending(Tail(t), x, k)
      BY <1>6, <3>1, TopSplits
    <3>3. QED
      BY <1>9, <2>1, <3>2, CallsSplit
  <2>5. QED
    BY <1>4, <1>12, <2>2, <2>3, <2>4, SettlingMoves
<1>13. QED
  <2>1. NoNode \in 0 .. Len(heap.nodes)
    BY <1>1, NodeTyped DEF NoNode
  <2>2. QED
    BY <1>1, <1>9, <1>10, <1>11, <1>12, <2>1, KeysStay, CallingStep

\* A reference to nothing stays: nothing would replace it.
LEMMA UnresolvableStep ==
  ASSUME DerefInv, Unresolvable
  PROVE  DerefInv'
<1>1. DerefTyped /\ Story /\ stack \in Seq(Frames) /\ now.op = "go" /\ stack # <<>>
  BY DEF DerefInv, DerefTyped, Unresolvable, TargetKnown, Proceeds
<1>2. PICK s \in Seq(Frames) : s = stack
  BY <1>1
<1>3. Top = s[1] /\ s # <<>> /\ s[1].node \in Nodes
  BY <1>1, <1>2, TopFrame DEF Top
<1>4. s[1].at = "target" /\ Target(s[1].node) = NoNode
  BY <1>3 DEF Unresolvable, TargetKnown, Proceeds
<1>5. StackOK(s) /\ (PointersAreDirect => Settling(s, "go", now.node) /\ Slots)
  BY <1>1, <1>2 DEF DerefInv
<1>6. PICK n \in Nodes, t \in Seq(Frames) : n = s[1].node /\ t = Tail(s) /\ StackOK(t)
  <2>1. s[1].node \in Nodes /\ Tail(s) \in Seq(Frames) /\ StackOK(Tail(s))
    BY <1>3, <1>5, PopOK
  <2>2. QED
    BY <2>1
<1>7. /\ now' = [op |-> "return", node |-> n] /\ stack' = t
      /\ UNCHANGED <<heap, preserve, resolved, ownerKey, outcome>> /\ outcome = "running"
  BY <1>2, <1>3, <1>6 DEF Unresolvable, TargetKnown, Return, Proceeds
<1>8. Awaits(t, "return", n)
  BY <1>3, <1>4, <1>5, <1>6, Returns DEF Yields
<1>9. Followed(n)
  <2>1. 1 \in 1 .. Len(s)
    BY <1>3, TopFrame
  <2>2. QED
    BY <1>4, <1>5, <1>6, <2>1 DEF StackOK, FrameOK
<1>10. ASSUME PointersAreDirect PROVE Settling(t, "return", n)
  <2>1. Begun(resolved, s)
    BY <1>5, <1>10 DEF Settling
  <2>2. Begun(resolved, t) /\ resolved[n] # NoNode
    BY <1>3, <1>4, <1>6, <2>1, TopSplits
  <2>3. ~Replaced(n)
    BY <1>1, <1>4, <1>5, <1>6, <1>9, <1>10, TargetFound DEF Replaced
  <2>4. Settled(n)
    BY <2>2, <2>3 DEF Settled
  <2>5. ASSUME NEW p \in Nodes, Reserved(s, p) PROVE Reserved(t, p) \/ Settled(p)
    BY <1>3, <1>6, <2>4, <2>5, TopSplits
  <2>6. ASSUME NEW x \in Nodes, NEW k \in Names, Pending(s, x, k) PROVE Pending(t, x, k)
    BY <1>3, <1>4, <1>6, <2>6, TopSplits
  <2>7. QED
    BY <1>5, <1>10, <2>2, <2>4, <2>5, <2>6, SettlingMoves
<1>11. n \in 0 .. Len(heap.nodes)
  BY <1>1, NodeTyped
<1>12. QED
  BY <1>1, <1>6, <1>7, <1>8, <1>10, <1>11, KeysStay, CallingStep

\* What the walk of a reference goes on with stands for it, and it leads there.
LEMMA TargetLeaves ==
  ASSUME DerefTyped, Story, Slots, PointersAreDirect, NEW n \in Nodes, Followed(n), Target(n) # NoNode
  PROVE  /\ Replaced(n) /\ LeadsOn(n, Target(n)) /\ Leaves(n, Target(n)) /\ Proper(Target(n))
<1>1. /\ Points(n) # NoNode /\ Replaced(n) /\ Yields(Points(n), Target(n))
  BY TargetFound DEF Replaced
<1>2. Points(n) \in Authored /\ StandsFor(Points(n), n)
  BY <1>1, StandsPoints
<1>3. LeadsOn(n, Points(n))
  <2>1. Points(n) \in Below(n)
    BY <1>1 DEF Below
  <2>2. QED
    BY <1>1, <1>2, <2>1, LeadsBelow, LeadsOver
<1>4. LeadsOn(n, Target(n))
  BY <1>1, <1>3, LeadsYields
<1>5. StandsFor(Target(n), n)
  BY <1>1, <1>2, StandsTransitive DEF Yields, Leaves
<1>6. Proper(Target(n))
  BY <1>1, <1>2 DEF Yields, Proper
<1>7. QED
  BY <1>1, <1>4, <1>5, <1>6 DEF Leaves

\* The walk of a reference goes on with what its pointer finds.
LEMMA WalkTargetStep ==
  ASSUME DerefInv, WalkTarget
  PROVE  DerefInv'
<1>1. DerefTyped /\ Story /\ stack \in Seq(Frames) /\ now.op = "go" /\ stack # <<>>
  BY DEF DerefInv, DerefTyped, WalkTarget, TargetKnown, Proceeds
<1>2. PICK s \in Seq(Frames) : s = stack
  BY <1>1
<1>3. Top = s[1] /\ s # <<>> /\ s[1].node \in Nodes /\ s[1] \in Frames
  BY <1>1, <1>2, TopFrame DEF Top
<1>4. s[1].at = "target" /\ Target(s[1].node) # NoNode
  BY <1>3 DEF WalkTarget, TargetKnown, Proceeds
<1>5. StackOK(s) /\ (PointersAreDirect => Settling(s, "go", now.node) /\ Slots)
  BY <1>1, <1>2 DEF DerefInv
<1>6. Followed(s[1].node)
  <2>1. 1 \in 1 .. Len(s)
    BY <1>3, TopFrame
  <2>2. QED
    BY <1>4, <1>5, <2>1 DEF StackOK, FrameOK
<1>7. PICK f \in Frames : f = [s[1] EXCEPT !.at = "value"]
  BY <1>3 DEF Frames
<1>8. f.node = s[1].node /\ f.at = "value" /\ FrameOK(f)
  <2>1. f.node = s[1].node /\ f.at = "value"
    BY <1>3, <1>7 DEF Frames
  <2>2. QED
    BY <1>6, <2>1 DEF FrameOK
<1>9. PICK t \in Seq(Frames) : /\ t = <<f>> \o Tail(s) /\ StackOK(t) /\ t # <<>> /\ t[1] = f
                               /\ Tail(s) \in Seq(Frames)
  <2>1. <<f>> \o Tail(s) \in Seq(Frames) /\ StackOK(<<f>> \o Tail(s))
    BY <1>3, <1>4, <1>5, <1>8, TopOK
  <2>2. Tail(s) \in Seq(Frames)
    BY <1>3, <1>5, PopOK
  <2>3. <<f>> \o Tail(s) # <<>> /\ (<<f>> \o Tail(s))[1] = f
    BY <2>2
  <2>4. QED
    BY <2>1, <2>2, <2>3
<1>10. PICK m \in Nodes : m = Target(s[1].node)
  BY <1>1, <1>3, <1>4, <1>6, TargetTyped
<1>11. /\ stack' = t /\ now' = [op |-> "walk", node |-> m]
       /\ UNCHANGED <<heap, preserve, resolved, outcome>> /\ outcome = "running"
  <2>1. stack' = [s EXCEPT ![1].at = "value"]
    BY <1>2 DEF WalkTarget
  <2>2. [s EXCEPT ![1].at = "value"] = [s EXCEPT ![1] = f]
    BY <1>3, <1>7
  <2>3. [s EXCEPT ![1] = f] = <<f>> \o Tail(s)
    BY <1>3, TopFrame
  <2>4. QED
    BY <1>3, <1>9, <1>10, <2>1, <2>2, <2>3 DEF WalkTarget, TargetKnown, Proceeds, Walk
<1>12. PointersAreDirect => Leaves(s[1].node, m) /\ LeadsOn(s[1].node, m) /\ Proper(m)
  BY <1>1, <1>3, <1>4, <1>5, <1>6, <1>10, TargetLeaves
<1>13. Awaits(t, "walk", m)
  <2>1. Expects(f, m)
    BY <1>8, <1>12 DEF Expects
  <2>2. \A j \in 1 .. Len(t) : LeadsDown(t[j], m)
    BY <1>8, <1>9, <1>12, WalksOn
  <2>3. QED
    BY <1>9, <2>1, <2>2 DEF Awaits
<1>14. ASSUME PointersAreDirect PROVE Settling(t, "walk", m)
  <2>1. Begun(resolved, s)
    BY <1>5, <1>14 DEF Settling
  <2>2. Begun(resolved, Tail(s)) /\ resolved[f.node] # NoNode
    BY <1>3, <1>4, <1>8, <2>1, TopSplits
  <2>3. Begun(resolved, t)
    BY <1>9, <2>2, CallsSplit
  <2>4. ASSUME NEW p \in Nodes, Reserved(s, p) PROVE Reserved(t, p)
    <3>1. f.node = p \/ Reserved(Tail(s), p)
      BY <1>3, <1>8, <2>4, TopSplits
    <3>2. QED
      BY <1>8, <1>9, <3>1, CallsSplit
  <2>5. ASSUME NEW x \in Nodes, NEW k \in Names, Pending(s, x, k) PROVE Pending(t, x, k)
    <3>1. Pending(Tail(s), x, k)
      BY <1>3, <1>4, <2>5, TopSplits
    <3>2. QED
      BY <1>9, <3>1, CallsSplit
  <2>6. QED
    BY <1>5, <1>12, <1>14, <2>3, <2>4, <2>5, SettlingMoves
<1>15. m \in 0 .. Len(heap.nodes)
  BY <1>1, NodeTyped
<1>16. KeysKept
  <2>1. Walk(m, ownerKey[s[1].node]) /\ ownerKey[s[1].node] \in Names \cup {NoKey}
    BY <1>1, <1>3, <1>10, KeyTyped DEF WalkTarget
  <2>2. QED
    BY <1>1, <1>11, <2>1, KeysWalk
<1>17. QED
  BY <1>9, <1>11, <1>13, <1>14, <1>15, <1>16, CallingStep

\* A call is at a node.
LEMMA CallsAreFrames ==
  ASSUME NEW s \in Seq(Frames)
  PROVE  \A i \in 1 .. Len(s) : s[i] \in Frames /\ s[i].node \in Nodes
<1>1. \A i \in 1 .. Len(s) : s[i] \in Frames
  OBVIOUS
<1>2. QED
  BY <1>1 DEF Frames

\* A node is reserved before what it leads to is walked.
LEMMA CallBegins ==
  ASSUME DerefInv, NEW n \in Nodes, Walks(n), resolved[n] = NoNode, NEW f \in Frames,
         f.node = n, f.at \in {"members", "target"}, FrameOK(f),
         f.at = "members" => \A k \in Names \ Data(n) :
                               Node(n).child[k] # NoNode => \E j \in f.left : Members[j] = k,
         Reserve(n, n), stack' = <<f>> \o stack, Go, UNCHANGED <<heap, preserve, ownerKey, outcome>>
  PROVE  DerefInv'
<1>1. /\ DerefTyped /\ Story /\ stack \in Seq(Frames) /\ now.op = "walk" /\ now.node = n
      /\ outcome = "running"
  BY DEF DerefInv, DerefTyped, Walks
<1>2. PICK s \in Seq(Frames) : s = stack
  BY <1>1
<1>3. StackOK(s) /\ Awaits(s, "walk", n) /\ (PointersAreDirect => Settling(s, "walk", n) /\ Resolutions)
  BY <1>1, <1>2 DEF DerefInv
<1>4. PICK t \in Seq(Frames) : t = <<f>> \o s /\ StackOK(t) /\ t # <<>>
  <2>1. s = <<>> => Outermost(f)
    BY <1>3 DEF Awaits, Outermost
  <2>2. s # <<>> => Above(s[1], f)
    BY <1>3 DEF Awaits, Above
  <2>3. \A j \in 1 .. Len(s) : LeadsDown(s[j], f.node)
    BY <1>3 DEF Awaits
  <2>4. <<f>> \o s \in Seq(Frames) /\ StackOK(<<f>> \o s)
    BY <1>3, <2>1, <2>2, <2>3, PushOK
  <2>5. <<f>> \o s # <<>>
    OBVIOUS
  <2>6. QED
    BY <2>4, <2>5
<1>5. stack' = t /\ now' = [op |-> "go", node |-> NoNode] /\ outcome' # "done"
  BY <1>1, <1>2, <1>4 DEF Go
<1>6. /\ resolved \in Seq(0 .. Len(heap.nodes)) /\ Len(resolved) = Len(heap.nodes)
      /\ n \in 1 .. Len(heap.nodes) /\ n \in 0 .. Len(heap.nodes) /\ NoNode \in 0 .. Len(heap.nodes)
  BY <1>1, NodeTyped DEF DerefTyped, NoNode
<1>7. /\ resolved' \in Seq(0 .. Len(heap.nodes)) /\ Len(resolved') = Len(heap.nodes)
      /\ resolved'[n] = n /\ \A p \in Nodes : p # n => resolved'[p] = resolved[p]
  <2>1. resolved' = [resolved EXCEPT ![n] = n]
    BY DEF Reserve
  <2>2. resolved' \in Seq(0 .. Len(heap.nodes)) /\ Len(resolved') = Len(heap.nodes)
    BY <1>6, <2>1
  <2>3. resolved'[n] = n /\ \A p \in Nodes : p # n => resolved'[p] = resolved[p]
    BY <1>1, <1>6, <2>1, NodeTyped
  <2>4. QED
    BY <2>2, <2>3
<1>8. /\ SameStory /\ Nodes' = Nodes /\ \A x : Node(x)' = Node(x)
      /\ Resolves /\ n # NoNode
  <2>1. SameStory /\ Nodes' = Nodes /\ \A x : Node(x)' = Node(x)
    BY <1>1, HeapStays DEF Node
  <2>2. n # NoNode
    BY <1>1, NodeTyped DEF NoNode
  <2>3. QED
    BY <1>7, <2>1, <2>2 DEF Resolves
<1>9. Awaits(t, "go", NoNode)
  BY <1>4 DEF Awaits
<1>10. ASSUME PointersAreDirect PROVE Resolutions'
  <2>1. ASSUME NEW p \in Nodes, resolved'[p] # NoNode PROVE Yields(p, resolved[p])'
    <3>1. CASE p = n
      BY <1>7, <3>1 DEF Yields
    <3>2. CASE p # n
      <4>1. resolved[p] \in Nodes
        BY <1>1, <1>7, <2>1, <3>2, NodeTyped DEF DerefTyped, NoNode
      <4>2. PICK y \in Nodes : y = resolved[p]
        BY <4>1
      <4>3. Yields(p, y)'
        BY <1>1, <1>3, <1>7, <1>8, <1>10, <2>1, <3>2, <4>2, RelationsStay DEF Resolutions
      <4>4. resolved'[p] = y
        BY <1>7, <3>2, <4>2
      <4>5. QED
        BY <4>3, <4>4
    <3>3. QED
      BY <3>1, <3>2
  <2>2. QED
    BY <1>8, <2>1 DEF Resolutions
<1>11. ASSUME PointersAreDirect PROVE Settling(t, "go", NoNode)'
  <2>1. Settling(s, "walk", n)
    BY <1>3, <1>11
  <2>2. Begun(resolved, t)'
    <3>1. Begun(resolved', s)
      <4>1. \A i \in 1 .. Len(s) : s[i].node \in Nodes
        BY CallsAreFrames
      <4>2. QED
        BY <1>8, <2>1, <4>1 DEF Settling, Begun, Resolves
    <3>2. Begun(resolved', t)
      BY <1>4, <1>7, <1>8, <3>1, CallsSplit
    <3>3. QED
      BY <3>2 DEF Begun
  <2>3. /\ \A p \in Nodes : Reserved(s, p) => Reserved(t, p)
        /\ \A x \in Nodes : \A k \in Names : Pending(s, x, k) => Pending(t, x, k)
    BY <1>4, CallsSplit
  <2>4. ASSUME NEW p \in Nodes, resolved'[p] # NoNode
        PROVE  (Settled(resolved[p]) \/ (resolved[p] = p /\ Reserved(t, p)))'
    <3>1. CASE p = n /\ f.at = "members"
      <4>1. ~Followed(n)'
        BY <1>1, <1>8, <3>1, StoryStays DEF FrameOK
      <4>2. Settled(n)'
        BY <1>7, <1>8, <4>1 DEF Settled, Replaced
      <4>3. QED
        BY <1>7, <3>1, <4>2
    <3>2. CASE p = n /\ f.at = "target"
      <4>1. Reserved(t, n)
        BY <1>4, <3>2, CallsSplit
      <4>2. resolved'[n] = n /\ Reserved(t, n)'
        BY <1>7, <4>1 DEF Reserved
      <4>3. QED
        BY <3>2, <4>2
    <3>3. CASE p # n
      BY <1>1, <1>7, <1>8, <2>1, <2>3, <2>4, <3>3, SettlingGoesOn
    <3>4. QED
      BY <3>1, <3>2, <3>3
  <2>5. ASSUME NEW x \in Nodes, resolved'[x] # NoNode, ~Followed(x)',
               NEW k \in Names \ Data(x), Node(x)'.child[k] # NoNode
        PROVE  (Settled(Node(x).child[k]) \/ Pending(t, x, k))'
    <3>1. ~Followed(x) /\ Node(x).child[k] # NoNode
      BY <1>1, <1>8, <2>5, StoryStays
    <3>2. CASE x = n
      <4>1. f.at = "members"
        BY <3>1, <3>2 DEF FrameOK
      <4>2. Pending(t, x, k)
        BY <1>4, <3>1, <3>2, <4>1, CallsSplit
      <4>3. QED
        BY <4>2 DEF Pending
    <3>3. CASE x # n
      <4>1. resolved[x] # NoNode
        BY <1>7, <2>5, <3>3
      <4>2. Settled(Node(x).child[k])' \/ Pending(t, x, k)
        BY <1>1, <1>8, <2>1, <2>3, <3>1, <4>1, SettlingGoesOn
      <4>3. QED
        BY <4>2 DEF Pending
    <3>4. QED
      BY <3>2, <3>3
  <2>6. \A x : Data(x)' = Data(x)
    BY <1>1, KeysStay
  <2>7. QED
    BY <1>8, <2>2, <2>4, <2>5, <2>6 DEF Settling
<1>12. QED
  BY <1>1, <1>3, <1>4, <1>5, <1>6, <1>7, <1>9, <1>10, <1>11, KeysStay, ResolvingStep

\* The walk of a node begins with its members.
LEMMA VisitMembersStep ==
  ASSUME DerefInv, NEW n \in Nodes, VisitMembers(n)
  PROVE  DerefInv'
<1>1. DerefTyped /\ Story
  BY DEF DerefInv
<1>2. Visited(n) \in SUBSET DOMAIN Members
  BY DEF Visited
<1>3. PICK f \in Frames : f = [node |-> n, at |-> "members", left |-> Visited(n)]
  BY <1>2 DEF Frames
<1>4. ~Followed(n)
  BY DEF VisitMembers, Followed
<1>5. \A j \in Visited(n) : Node(n).was[Members[j]] # NoNode
  BY <1>1 DEF Visited, Story, Names
<1>6. FrameOK(f)
  BY <1>3, <1>4, <1>5 DEF FrameOK
<1>7. \A k \in Names \ Data(n) : Node(n).child[k] # NoNode => \E j \in f.left : Members[j] = k
  BY <1>3 DEF Visited, Names
<1>8. f.node = n /\ f.at = "members" /\ f = Frame(n, "members", Visited(n))
  BY <1>3 DEF Frame
<1>9. QED
  BY <1>6, <1>7, <1>8, CallBegins DEF VisitMembers

\* The walk of a reference begins with its target.
LEMMA FollowReferenceStep ==
  ASSUME DerefInv, NEW n \in Nodes, FollowReference(n)
  PROVE  DerefInv'
<1>1. PICK f \in Frames : f = [node |-> n, at |-> "target", left |-> {}]
  BY DEF Frames
<1>2. f.node = n /\ f.at = "target" /\ f = Frame(n, "target", {})
  BY <1>1 DEF Frame
<1>3. FrameOK(f)
  BY <1>2 DEF FrameOK, FollowReference, Followed
<1>4. QED
  BY <1>2, <1>3, CallBegins DEF FollowReference

\* What a reference yields takes its place from now on.
LEMMA ValueResolvedStep ==
  ASSUME DerefInv, ValueResolved
  PROVE  DerefInv'
<1>1. /\ DerefTyped /\ Story /\ stack \in Seq(Frames) /\ now.op = "return" /\ stack # <<>>
      /\ now = [op |-> "return", node |-> now.node] /\ now.node \in 0 .. Len(heap.nodes) /\ now.node \in Nodes
  BY DEF DerefInv, DerefTyped, ValueResolved
<1>2. PICK s \in Seq(Frames), v \in Nodes : s = stack /\ v = now.node
  BY <1>1
<1>3. Top = s[1] /\ s # <<>> /\ s[1].node \in Nodes /\ s[1] \in Frames
  BY <1>1, <1>2, TopFrame DEF Top
<1>4. s[1].at = "value"
  BY <1>3 DEF ValueResolved
<1>5. /\ StackOK(s) /\ Awaits(s, "return", v)
      /\ PointersAreDirect => Settling(s, "return", v) /\ Resolutions
  BY <1>1, <1>2 DEF DerefInv
<1>6. PICK n \in Nodes, t \in Seq(Frames) : n = s[1].node /\ t = Tail(s) /\ StackOK(t)
  <2>1. s[1].node \in Nodes /\ Tail(s) \in Seq(Frames) /\ StackOK(Tail(s))
    BY <1>3, <1>5, PopOK
  <2>2. QED
    BY <2>1
<1>7. /\ now' = [op |-> "return", node |-> v] /\ stack' = t /\ resolved' = [resolved EXCEPT ![n] = v]
      /\ UNCHANGED <<heap, preserve, ownerKey, outcome>> /\ outcome = "running"
  BY <1>1, <1>2, <1>3, <1>6 DEF ValueResolved, Reserve
<1>8. /\ resolved \in Seq(0 .. Len(heap.nodes)) /\ Len(resolved) = Len(heap.nodes)
      /\ n \in 1 .. Len(heap.nodes) /\ v \in 0 .. Len(heap.nodes) /\ v # NoNode
  <2>1. resolved \in Seq(0 .. Len(heap.nodes)) /\ Len(resolved) = Len(heap.nodes)
    BY <1>1 DEF DerefTyped
  <2>2. n \in 1 .. Len(heap.nodes) /\ v \in 1 .. Len(heap.nodes) /\ Len(heap.nodes) \in Nat
    BY <1>1, NodeTyped
  <2>3. QED
    BY <2>1, <2>2 DEF NoNode
<1>9. /\ resolved' \in Seq(0 .. Len(heap.nodes)) /\ Len(resolved') = Len(heap.nodes)
      /\ resolved'[n] = v /\ \A p \in Nodes : p # n => resolved'[p] = resolved[p]
  <2>1. resolved' \in Seq(0 .. Len(heap.nodes)) /\ Len(resolved') = Len(heap.nodes)
    BY <1>7, <1>8
  <2>2. resolved'[n] = v /\ \A p \in Nodes : p # n => resolved'[p] = resolved[p]
    BY <1>1, <1>7, <1>8, NodeTyped
  <2>3. QED
    BY <2>1, <2>2
<1>10. /\ SameStory /\ Nodes' = Nodes /\ \A x : Node(x)' = Node(x) /\ Resolves
  <2>1. SameStory /\ Nodes' = Nodes /\ \A x : Node(x)' = Node(x)
    BY <1>1, <1>7, HeapStays DEF Node
  <2>2. QED
    BY <1>8, <1>9, <2>1 DEF Resolves
<1>11. PointersAreDirect => Yields(n, v)
  <2> SUFFICES ASSUME PointersAreDirect PROVE Yields(n, v)
    OBVIOUS
  <2>1. Leaves(n, v)
    BY <1>3, <1>4, <1>5, <1>6 DEF Awaits, Expects
  <2>2. Replaced(v) => LeadsTo(v, v)
    BY <1>5 DEF Settling, Settled
  <2>3. Proper(v)
    BY <1>1, <2>2, LedAuthored DEF Proper
  <2>4. QED
    BY <2>1, <2>3 DEF Yields
<1>12. Awaits(t, "return", v)
  BY <1>3, <1>4, <1>5, <1>6, <1>11, Returns
<1>13. ASSUME PointersAreDirect PROVE Resolutions'
  <2>1. ASSUME NEW p \in Nodes, resolved'[p] # NoNode PROVE Yields(p, resolved[p])'
    <3>1. PICK y \in Nodes : y = resolved'[p] /\ Yields(p, y)
      <4>1. CASE p = n
        BY <1>9, <1>11, <1>13, <4>1
      <4>2. CASE p # n
        <5>1. resolved[p] \in Nodes /\ resolved'[p] = resolved[p]
          BY <1>1, <1>9, <2>1, <4>2, NodeTyped DEF DerefTyped, NoNode
        <5>2. QED
          BY <1>5, <1>13, <2>1, <5>1 DEF Resolutions
      <4>3. QED
        BY <4>1, <4>2
    <3>2. Yields(p, y)'
      BY <1>1, <1>10, <3>1, RelationsStay
    <3>3. QED
      BY <3>1, <3>2
  <2>2. QED
    BY <1>10, <2>1 DEF Resolutions
<1>14. ASSUME PointersAreDirect PROVE Settling(t, "return", v)'
  <2>1. Settling(s, "return", v)
    BY <1>5, <1>14
  <2>2. Begun(resolved, t)'
    <3>1. Begun(resolved, t)
      BY <1>3, <1>6, <2>1, TopSplits DEF Settling
    <3>2. \A i \in 1 .. Len(t) : t[i].node \in Nodes
      BY CallsAreFrames
    <3>3. QED
      BY <1>10, <3>1, <3>2 DEF Begun, Resolves
  <2>3. Settled(v)'
    BY <1>1, <1>10, <2>1, SettledStays DEF Settling
  <2>4. \A x \in Nodes : \A k \in Names : Pending(s, x, k) => Pending(t, x, k)
    BY <1>3, <1>4, <1>6, TopSplits
  <2>5. ASSUME NEW p \in Nodes, resolved'[p] # NoNode
        PROVE  (Settled(resolved[p]) \/ (resolved[p] = p /\ Reserved(t, p)))'
    <3>1. CASE p = n
      BY <1>9, <2>3, <3>1
    <3>2. CASE p # n
      <4>1. Reserved(s, p) => Reserved(t, p)
        BY <1>3, <1>6, <3>2, TopSplits
      <4>2. QED
        BY <1>1, <1>9, <1>10, <2>1, <2>5, <3>2, <4>1, SettlingGoesOn
    <3>3. QED
      BY <3>1, <3>2
  <2>6. ASSUME NEW x \in Nodes, resolved'[x] # NoNode, ~Followed(x)',
               NEW k \in Names \ Data(x), Node(x)'.child[k] # NoNode
        PROVE  (Settled(Node(x).child[k]) \/ Pending(t, x, k))'
    <3>1. ~Followed(x) /\ Node(x).child[k] # NoNode
      BY <1>1, <1>10, <2>6, StoryStays
    <3>2. resolved[x] # NoNode
      <4>1. x # n
        <5>1. 1 \in 1 .. Len(s)
          BY <1>3, TopFrame
        <5>2. Followed(n)
          BY <1>4, <1>5, <1>6, <5>1 DEF StackOK, FrameOK
        <5>3. QED
          BY <3>1, <5>2
      <4>2. QED
        BY <1>9, <2>6, <4>1
    <3>3. Settled(Node(x).child[k])' \/ Pending(t, x, k)
      BY <1>1, <1>10, <2>1, <2>4, <3>1, <3>2, SettlingGoesOn
    <3>4. QED
      BY <3>3 DEF Pending
  <2>7. \A x : Data(x)' = Data(x)
    BY <1>1, <1>7, KeysStay
  <2>8. QED
    BY <1>10, <2>2, <2>3, <2>5, <2>6, <2>7 DEF Settling
<1>15. QED
  BY <1>1, <1>6, <1>7, <1>8, <1>9, <1>12, <1>13, <1>14, KeysStay, ResolvingStep

\* A member that was walked holds what it resolved to.
LEMMA MemberResolvedStep ==
  ASSUME DerefInv, MemberResolved
  PROVE  DerefInv' /\ (Spares => Spares')
<1>1. /\ DerefTyped /\ Story /\ stack \in Seq(Frames) /\ now.op = "return" /\ stack # <<>>
      /\ now = [op |-> "return", node |-> now.node] /\ now.node \in 0 .. Len(heap.nodes) /\ now.node \in Nodes
  BY DEF DerefInv, DerefTyped, MemberResolved
<1>2. PICK s \in Seq(Frames), v \in Nodes : s = stack /\ v = now.node
  BY <1>1
<1>3. Top = s[1] /\ s # <<>> /\ s[1].node \in Nodes /\ s[1] \in Frames /\ s[1].left \in SUBSET DOMAIN Members
  BY <1>1, <1>2, TopFrame DEF Top
<1>4. s[1].at = "members"
  BY <1>3 DEF MemberResolved
<1>5. /\ StackOK(s) /\ Awaits(s, "return", v)
      /\ PointersAreDirect => Settling(s, "return", v) /\ Resolutions /\ Slots
  BY <1>1, <1>2 DEF DerefInv
<1>6. s[1].left # {}
  BY <1>3, <1>4, <1>5 DEF Awaits, Expects
<1>7. Turn(s[1].left) \in s[1].left /\ Members[Turn(s[1].left)] \in Names
  BY <1>3, <1>6, TurnIsLeft
<1>8. PICK n \in Nodes, c \in Names : n = s[1].node /\ c = Members[Turn(s[1].left)]
  BY <1>3, <1>7
<1>9. ~Followed(n) /\ Node(n).was[c] # NoNode /\ FrameOK(s[1])
  <2>1. 1 \in 1 .. Len(s)
    BY <1>3, TopFrame
  <2>2. FrameOK(s[1])
    BY <1>5, <2>1 DEF StackOK
  <2>3. QED
    BY <1>4, <1>7, <1>8, <2>2 DEF FrameOK
<1>10. PICK f \in Frames : f = [s[1] EXCEPT !.left = @ \ {Turn(@)}]
  <2>1. [s[1] EXCEPT !.left = @ \ {Turn(@)}] \in Frames
    BY <1>3 DEF Frames
  <2>2. QED
    BY <2>1
<1>11. f.node = n /\ f.at = "members" /\ f.left = s[1].left \ {Turn(s[1].left)} /\ FrameOK(f)
  <2>1. f.node = n /\ f.at = "members" /\ f.left = s[1].left \ {Turn(s[1].left)}
    BY <1>3, <1>4, <1>8, <1>10 DEF Frames
  <2>2. QED
    BY <1>4, <1>8, <1>9, <2>1 DEF FrameOK
<1>12. PICK t \in Seq(Frames) : /\ t = <<f>> \o Tail(s) /\ StackOK(t) /\ t # <<>>
                                /\ Tail(s) \in Seq(Frames)
  <2>1. <<f>> \o Tail(s) \in Seq(Frames) /\ StackOK(<<f>> \o Tail(s))
    BY <1>3, <1>4, <1>5, <1>8, <1>11, TopOK
  <2>2. Tail(s) \in Seq(Frames)
    BY <1>3, <1>5, PopOK
  <2>3. <<f>> \o Tail(s) # <<>>
    BY <2>2
  <2>4. QED
    BY <2>1, <2>2, <2>3
<1>13. /\ stack' = t /\ now' = [op |-> "go", node |-> NoNode] /\ outcome' = "running"
       /\ UNCHANGED <<preserve, resolved, ownerKey>>
       /\ heap' = [heap EXCEPT !.nodes[n].child[c] = v]
  <2>1. stack' = [s EXCEPT ![1].left = @ \ {Turn(@)}]
    BY <1>2 DEF MemberResolved
  <2>2. [s EXCEPT ![1].left = @ \ {Turn(@)}] = [s EXCEPT ![1] = f]
    BY <1>3, <1>10
  <2>3. [s EXCEPT ![1] = f] = <<f>> \o Tail(s)
    BY <1>3, TopFrame
  <2>4. QED
    BY <1>2, <1>3, <1>8, <1>12, <2>1, <2>2, <2>3 DEF MemberResolved, Go
<1> DEFINE Record == [home : DOMAIN heap.root,
                   ref : [to : DOMAIN heap.root \cup {Here, Nowhere}, path : Seq(Names)],
                   extra : BOOLEAN, base : 1 .. Len(heap.nodes), child : [Names -> 0 .. Len(heap.nodes)],
                   was : [Names -> 0 .. Len(heap.nodes)]]
           rewritten == [heap.nodes[n] EXCEPT !.child[c] = v]
<1>a. /\ heap \in [root : [DOMAIN heap.root -> 1 .. Len(heap.nodes)], nodes : Seq(Record)]
      /\ Entry \in DOMAIN heap.root /\ heap.root[Entry] = 1
  BY <1>1 DEF DerefTyped, GraphTyped
<1>b. heap.nodes \in Seq(Record) /\ n \in 1 .. Len(heap.nodes) /\ heap.nodes[n] \in Record /\ Len(heap.nodes) \in Nat
  <2>1. heap.nodes \in Seq(Record) /\ n \in 1 .. Len(heap.nodes)
    BY <1>a, <1>8 DEF Nodes
  <2> HIDE DEF Record
  <2>2. QED
    BY <2>1
<1>c. rewritten \in Record /\ rewritten.child = [heap.nodes[n].child EXCEPT ![c] = v]
      /\ rewritten.was = heap.nodes[n].was /\ rewritten.ref = heap.nodes[n].ref
      /\ rewritten.home = heap.nodes[n].home /\ rewritten.base = heap.nodes[n].base
  <2>1. v \in 0 .. Len(heap.nodes)
    BY <1>1, <1>2
  <2>2. QED
    BY <1>b, <2>1
<1>d. heap.nodes[n].child \in [Names -> 0 .. Len(heap.nodes)]
  BY <1>b
<1>e. heap'.root = heap.root /\ heap'.nodes = [heap.nodes EXCEPT ![n] = rewritten]
      /\ heap' = [root |-> heap.root, nodes |-> heap'.nodes]
  BY <1>13, <1>a
<1> HIDE DEF Record, rewritten
<1>14. /\ heap'.root = heap.root /\ Nodes' = Nodes /\ Len(heap'.nodes) = Len(heap.nodes)
       /\ heap'.nodes \in Seq(Record)
       /\ Node(n)' = rewritten /\ \A x \in Nodes : x # n => Node(x)' = Node(x)
  BY <1>b, <1>c, <1>e DEF Nodes, Node
<1>15. /\ Node(n)'.child[c] = v /\ \A k \in Names \ {c} : Node(n)'.child[k] = Node(n).child[k]
       /\ \A x \in Nodes : /\ Node(x)'.was = Node(x).was /\ Node(x)'.ref = Node(x).ref
                           /\ Node(x)'.home = Node(x).home /\ Node(x)'.base = Node(x).base
                           /\ x # n => Node(x)'.child = Node(x).child
  BY <1>c, <1>d, <1>14 DEF Node
<1>16. GraphTyped(heap)'
  <2>1. heap' \in [root : [DOMAIN heap.root -> 1 .. Len(heap.nodes)], nodes : Seq(Record)]
    BY <1>a, <1>e, <1>14
  <2>2. QED
    BY <1>a, <1>14, <2>1 DEF GraphTyped, Record
<1>17. SameStory /\ Resolves
  BY <1>13, <1>14, <1>15 DEF SameStory, Resolves
<1>18. Frames' = Frames /\ DerefTyped'
  <2>1. Frames' = Frames
    BY <1>14 DEF Frames
  <2>2. NoNode \in 0 .. Len(heap.nodes)
    BY <1>1, NodeTyped DEF NoNode
  <2>3. QED
    BY <1>1, <1>12, <1>13, <1>14, <1>16, <2>1, <2>2 DEF DerefTyped
<1>19. v # NoNode
  BY <1>1, NodeTyped DEF NoNode
<1>20. Story'
  <2>1. \A r \in DOMAIN heap'.root : heap'.root[r] \in Authored'
    BY <1>1, <1>14, <1>17, StoryStays DEF Story
  <2>2. ASSUME NEW x \in Nodes
        PROVE  (/\ Base(x) \in Authored
                /\ Node(x).ref = Node(Base(x)).ref /\ Node(x).home = Node(Base(x)).home)'
    <3>1. PICK b \in Authored : b = Base(x) /\ b \in Nodes
      BY <1>1 DEF Story, Authored
    <3>2. Base(x)' = b
      BY <1>17, <3>1, StoryStays
    <3>3. Node(b)'.ref = Node(b).ref /\ Node(b)'.home = Node(b).home
      BY <1>15, <3>1
    <3>4. Node(x).ref = Node(b).ref /\ Node(x).home = Node(b).home
      BY <1>1, <3>1 DEF Story
    <3>5. Authored' = Authored
      BY <1>17, StoryStays
    <3>6. QED
      BY <1>15, <3>1, <3>2, <3>3, <3>4, <3>5
  <2>3. ASSUME NEW x \in Nodes, NEW k \in Names
        PROVE  (/\ Node(x).was[k] \in Authored \cup {NoNode}
                /\ Node(x).child[k] = NoNode <=> Node(x).was[k] = NoNode)'
    <3>1. Authored' = Authored /\ Node(x)'.was[k] = Node(x).was[k]
      BY <1>15, <1>17, StoryStays
    <3>2. Node(x)'.child[k] = Node(x).child[k] \/ (x = n /\ k = c /\ Node(x)'.child[k] = v)
      BY <1>15
    <3>3. QED
      BY <1>1, <1>8, <1>9, <1>19, <3>1, <3>2 DEF Story
  <2>4. QED
    BY <1>14, <2>1, <2>2, <2>3 DEF Story
<1>21. StackOK(stack)' /\ Awaits(stack, now.op, now.node)'
  <2>1. StackOK(t)'
    BY <1>1, <1>12, <1>17, StackStays
  <2>2. Awaits(t, "go", NoNode)'
    BY <1>12 DEF Awaits
  <2>3. stack' = t /\ now'.op = "go" /\ now'.node = NoNode
    BY <1>13
  <2>4. QED
    BY <2>1, <2>2, <2>3 DEF StackOK, Awaits
<1>22. PointersAreDirect' = PointersAreDirect
  BY <1>1, <1>17, RelationsStay
<1>23. ASSUME PointersAreDirect PROVE Slots'
  <2> SUFFICES ASSUME NEW x \in Nodes, NEW k \in Names
               PROVE  (LET y == Node(x).child[k] w == Node(x).was[k]
                       IN w # NoNode => Yields(w, y))'
    BY <1>14 DEF Slots
  <2>1. PICK w \in 0 .. Len(heap.nodes) : w = Node(x).was[k] /\ Node(x)'.was[k] = w
    BY <1>1, <1>15, NodeTyped
  <2>2. w # NoNode => w \in Nodes
    BY <1>1, <2>1, NodeTyped DEF NoNode
  <2>3. CASE x = n /\ k = c
    <3>1. Yields(w, v)
      BY <1>3, <1>4, <1>5, <1>8, <1>23, <2>1, <2>3 DEF Awaits, Expects
    <3>2. w # NoNode => Yields(w, v)'
      BY <1>1, <1>17, <2>2, <3>1, RelationsStay
    <3>3. Node(x)'.child[k] = v
      BY <1>15, <2>3
    <3>4. QED
      BY <1>9, <2>1, <2>3, <3>2, <3>3
  <2>4. CASE ~(x = n /\ k = c)
    <3>a. Node(x)'.child[k] = Node(x).child[k] /\ Node(x).child[k] \in 0 .. Len(heap.nodes)
      BY <1>1, <1>15, <2>4, NodeTyped
    <3>1. PICK y \in 0 .. Len(heap.nodes) : y = Node(x).child[k] /\ Node(x)'.child[k] = y
      BY <3>a
    <3>2. /\ y = NoNode <=> w = NoNode
          /\ w # NoNode => Yields(w, y)
      BY <1>1, <1>5, <1>23, <2>1, <3>1 DEF Slots, Story
    <3>3. y # NoNode => y \in Nodes
      BY <1>1, <3>1, NodeTyped DEF NoNode
    <3>4. w # NoNode => Yields(w, y)'
      BY <1>1, <1>17, <2>2, <3>2, <3>3, RelationsStay
    <3>5. QED
      BY <2>1, <3>1, <3>2, <3>4
  <2>5. QED
    BY <2>3, <2>4
<1>24. ASSUME PointersAreDirect PROVE Resolutions'
  <2>1. ASSUME NEW p \in Nodes, resolved[p] # NoNode PROVE Yields(p, resolved[p])'
    <3>1. resolved[p] \in Nodes
      BY <1>1, <2>1, NodeTyped DEF DerefTyped, NoNode
    <3>2. PICK y \in Nodes : y = resolved[p] /\ Yields(p, y)
      BY <1>5, <1>24, <2>1, <3>1 DEF Resolutions
    <3>3. Yields(p, y)' /\ resolved'[p] = y
      BY <1>1, <1>13, <1>17, <3>2, RelationsStay
    <3>4. QED
      BY <3>3
  <2>2. QED
    BY <1>13, <1>14, <2>1 DEF Resolutions
<1>25. ASSUME PointersAreDirect PROVE Settling(t, "go", NoNode)'
  <2>1. Settling(s, "return", v)
    BY <1>5, <1>25
  <2>2. Begun(resolved, t)'
    <3>1. Begun(resolved, s)
      BY <2>1 DEF Settling
    <3>2. Begun(resolved, Tail(s)) /\ resolved[f.node] # NoNode
      BY <1>3, <1>4, <1>8, <1>11, <3>1, TopSplits
    <3>3. Begun(resolved, t)
      BY <1>12, <3>2, CallsSplit
    <3>4. QED
      BY <1>13, <3>3 DEF Begun
  <2>3. ASSUME NEW p \in Nodes, Reserved(s, p) PROVE Reserved(t, p)
    <3>1. Reserved(Tail(s), p)
      BY <1>3, <1>4, <2>3, TopSplits
    <3>2. QED
      BY <1>12, <3>1, CallsSplit
  <2>4. ASSUME NEW x \in Nodes, NEW k \in Names, ~(x = n /\ k = c), Pending(s, x, k) PROVE Pending(t, x, k)
    <3>1. CASE Pending(Tail(s), x, k)
      BY <1>12, <3>1, CallsSplit
    <3>2. CASE s[1].node = x /\ \E j \in s[1].left : Members[j] = k
      <4>1. k # c
        BY <1>8, <2>4, <3>2
      <4>2. \E j \in f.left : Members[j] = k
        BY <1>8, <1>11, <3>2, <4>1
      <4>3. QED
        BY <1>8, <1>11, <1>12, <3>2, <4>2, CallsSplit
    <3>3. QED
      BY <1>3, <2>4, <3>1, <3>2, TopSplits
  <2>5. ASSUME NEW p \in Nodes, resolved'[p] # NoNode
        PROVE  (Settled(resolved[p]) \/ (resolved[p] = p /\ Reserved(t, p)))'
    BY <1>1, <1>13, <1>17, <2>1, <2>3, <2>5, SettlingGoesOn
  <2>6. ASSUME NEW x \in Nodes, resolved'[x] # NoNode, ~Followed(x)',
               NEW k \in Names \ Data(x), Node(x)'.child[k] # NoNode
        PROVE  (Settled(Node(x).child[k]) \/ Pending(t, x, k))'
    <3>1. CASE x = n /\ k = c
      <4>1. Settled(v)'
        BY <1>1, <1>17, <2>1, SettledStays DEF Settling
      <4>2. QED
        BY <1>15, <3>1, <4>1
    <3>2. CASE ~(x = n /\ k = c)
      <4>1. ~Followed(x) /\ Node(x)'.child[k] = Node(x).child[k] /\ resolved[x] # NoNode
        BY <1>13, <1>15, <1>17, <2>6, <3>2, StoryStays
      <4>2. Settled(Node(x).child[k])' \/ Pending(t, x, k)
        BY <1>1, <1>17, <2>1, <2>4, <2>6, <3>2, <4>1, SettlingGoesOn
      <4>3. QED
        BY <4>2 DEF Pending
    <3>3. QED
      BY <3>1, <3>2
  <2>7. \A x : Data(x)' = Data(x)
    BY <1>13 DEF Data
  <2>8. QED
    BY <1>14, <2>2, <2>5, <2>6, <2>7 DEF Settling
<1>26. PointersAreDirect => Settling(stack, now.op, now.node)'
  BY <1>13, <1>25 DEF Settling
<1>27. DerefInv'
  BY <1>18, <1>20, <1>21, <1>22, <1>23, <1>24, <1>26 DEF DerefInv
<1>28. ASSUME Spares PROVE Spares'
  <2>1. \A x : Data(x)' = Data(x)
    BY <1>13 DEF Data
  <2>2. Continued
    <3>1. Len(s) \in Nat \ {0} /\ Len(t) = Len(s) /\ t[1] = f /\ \A i \in 2 .. Len(s) : t[i] = s[i]
      BY <1>3, <1>12, TopFrame
    <3> SUFFICES ASSUME NEW i \in 1 .. Len(t), t[i].at = "members"
                 PROVE  \E j \in 1 .. Len(s) : /\ s[j].at = "members" /\ s[j].node = t[i].node
                                               /\ t[i].left \subseteq s[j].left
      BY <1>2, <1>13 DEF Continued
    <3>2. CASE i = 1
      <4>1. 1 \in 1 .. Len(s)
        BY <3>1
      <4>2. QED
        BY <1>4, <1>8, <1>11, <3>1, <3>2, <4>1
    <3>3. CASE i # 1
      <4>1. i \in 1 .. Len(s) /\ t[i] = s[i]
        BY <3>1, <3>3
      <4>2. QED
        BY <4>1
    <3>4. QED
      BY <3>2, <3>3
  <2>3. CallsSpareData'
    BY <1>1, <1>17, <1>28, <2>1, <2>2, CallsSpare DEF Spares
  <2>4. resolved[n] # NoNode /\ c \notin Data(n)
    <3>1. 1 \in 1 .. Len(s)
      BY <1>3, TopFrame
    <3>2. QED
      BY <1>2, <1>4, <1>7, <1>8, <1>28, <3>1 DEF Spares, CallsSpareData
  <2>5. ASSUME NEW x \in Authored', NEW k \in Names, resolved'[x] = NoNode \/ k \in Data(x)'
        PROVE  Node(x)'.child[k] = Node(x)'.was[k]
    <3>1. x \in Authored /\ x \in Nodes /\ (resolved[x] = NoNode \/ k \in Data(x))
      BY <1>13, <1>17, <2>1, <2>5, StoryStays DEF Authored
    <3>2. Node(x).child[k] = Node(x).was[k] /\ ~(x = n /\ k = c)
      BY <1>28, <2>4, <3>1 DEF Spares, LeftAlone
    <3>3. QED
      BY <1>15, <3>1, <3>2
  <2>6. QED
    BY <2>3, <2>5 DEF Spares, LeftAlone
<1>29. QED
  BY <1>27, <1>28

\* A copy refers as what it was copied from.
LEMMA CopyPoints ==
  ASSUME SameStory, DerefTyped, Story, NEW m \in Nodes, NEW copy,
         Node(copy)'.ref = Node(m).ref, Node(copy)'.home = Node(m).home
  PROVE  /\ Followed(copy)' = Followed(m) /\ Replaced(copy)' = Replaced(m)
         /\ Points(copy)' = Points(m) /\ Root(Resource(copy))' = Root(Resource(m))
<1>1. heap'.root = heap.root /\ preserve' = preserve /\ AsAuthored' = AsAuthored
  BY StoryStays DEF SameStory
<1>2. IsReference(copy)' = IsReference(m) /\ Resource(copy)' = Resource(m)
  BY DEF IsReference, Resource
<1>3. Root(Resource(copy))' = Root(Resource(m))
  BY <1>1, <1>2 DEF Root
<1>4. Pointer(copy)' = Pointer(m)
  BY <1>1, <1>3 DEF Pointer
<1>5. Points(copy)' = Points(m)
  BY <1>4 DEF Points
<1>6. Followed(copy)' = Followed(m)
  BY <1>1, <1>2 DEF Followed, StaysReference
<1>7. QED
  BY <1>3, <1>5, <1>6 DEF Replaced

\* A reference leads to the copy it yields, if it leads to all that is below it.
LEMMA CopyLeads ==
  ASSUME SameStory, DerefTyped, Story, NEW n \in Nodes, NEW copy \in Nodes', copy \notin Nodes,
         \A x \in Below(copy)' \ {NoNode} : LeadsTo(n, x)
  PROVE  LeadsOn(n, copy)'
<1>1. /\ Authored' = Authored /\ copy \notin Authored
      /\ \A x \in Authored : Below(x)' = Below(x)
  BY StoryStays DEF Authored
<1> SUFFICES ASSUME NEW v \in Authored, LeadsTo(copy, v)' PROVE LeadsTo(n, v)
  BY <1>1, RelationsStay DEF LeadsOn
<1> DEFINE steps == {<<x, Below(x) \ {NoNode}>> : x \in Authored \cup {n}}
           copied == {<<x, (Below(x) \ {NoNode})'>> : x \in Authored \cup {copy}}
<1>2. \A P \in SUBSET Authored : (\A s \in copied : s[1] \in P \cup {copy} => s[2] \subseteq P) => v \in P
  BY <1>1 DEF LeadsTo
<1>3. ASSUME NEW P \in SUBSET Authored, \A s \in steps : s[1] \in P \cup {n} => s[2] \subseteq P
      PROVE  v \in P
  <2>1. Below(copy)' \ {NoNode} \subseteq P
    BY <1>3 DEF LeadsTo
  <2>2. ASSUME NEW s \in copied, s[1] \in P \cup {copy} PROVE s[2] \subseteq P
    <3>1. PICK x \in Authored \cup {copy} : s = <<x, (Below(x) \ {NoNode})'>>
      BY <2>2
    <3>2. CASE x = copy
      BY <2>1, <3>1, <3>2
    <3>3. CASE x \in Authored
      <4>1. s = <<x, Below(x) \ {NoNode}>> /\ s \in steps /\ s[1] \in P
        BY <1>1, <2>2, <3>1, <3>3
      <4>2. QED
        BY <1>3, <4>1
    <3>4. QED
      BY <3>2, <3>3
  <2> HIDE DEF copied
  <2>3. QED
    BY <1>2, <2>2
<1>4. QED
  BY <1>3 DEF LeadsTo

\* A reference with members of its own yields a copy of its target.
LEMMA MergeTargetStep ==
  ASSUME DerefInv, MergeTarget
  PROVE  DerefInv' /\ (Spares => Spares')
<1>1. DerefTyped /\ Story /\ stack \in Seq(Frames) /\ now.op = "go" /\ stack # <<>>
  BY DEF DerefInv, DerefTyped, MergeTarget, TargetKnown, Proceeds
<1>2. PICK s \in Seq(Frames) : s = stack
  BY <1>1
<1>3. Top = s[1] /\ s # <<>> /\ s[1].node \in Nodes /\ s[1] \in Frames
  BY <1>1, <1>2, TopFrame DEF Top
<1>4. s[1].at = "target" /\ Target(s[1].node) # NoNode
  BY <1>3 DEF MergeTarget, TargetKnown, Proceeds
<1>5. StackOK(s) /\ (PointersAreDirect => Settling(s, "go", now.node) /\ Slots /\ Resolutions)
  BY <1>1, <1>2 DEF DerefInv
<1>6. Followed(s[1].node)
  <2>1. 1 \in 1 .. Len(s)
    BY <1>3, TopFrame
  <2>2. QED
    BY <1>4, <1>5, <2>1 DEF StackOK, FrameOK
<1>7. PICK f \in Frames : f = [s[1] EXCEPT !.at = "value"]
  BY <1>3 DEF Frames
<1>8. f.node = s[1].node /\ f.at = "value" /\ FrameOK(f)
  <2>1. f.node = s[1].node /\ f.at = "value"
    BY <1>3, <1>7 DEF Frames
  <2>2. QED
    BY <1>6, <2>1 DEF FrameOK
<1>9. PICK t \in Seq(Frames) : /\ t = <<f>> \o Tail(s) /\ StackOK(t) /\ t # <<>> /\ t[1] = f
                               /\ Tail(s) \in Seq(Frames)
  <2>1. <<f>> \o Tail(s) \in Seq(Frames) /\ StackOK(<<f>> \o Tail(s))
    BY <1>3, <1>4, <1>5, <1>8, TopOK
  <2>2. Tail(s) \in Seq(Frames)
    BY <1>3, <1>5, PopOK
  <2>3. <<f>> \o Tail(s) # <<>> /\ (<<f>> \o Tail(s))[1] = f
    BY <2>2
  <2>4. QED
    BY <2>1, <2>2, <2>3
<1>10. PICK n \in Nodes, m \in Nodes : n = s[1].node /\ m = Target(n)
  <2>1. s[1].node \in Nodes /\ Target(s[1].node) \in Nodes
    BY <1>1, <1>3, <1>4, <1>6, TargetTyped
  <2>2. QED
    BY <2>1
<1>11. PICK copy : copy = Len(heap.nodes) + 1
  OBVIOUS
<1>12. PICK merged : merged = CopyOf(n, m)
  OBVIOUS
<1>13. /\ stack' = t /\ now' = [op |-> "walk", node |-> copy] /\ outcome' = "running"
       /\ preserve' = preserve /\ resolved' = Append(resolved, NoNode)
       /\ ownerKey' = Append(ownerKey, ownerKey[n])
       /\ heap' = [heap EXCEPT !.nodes = Append(heap.nodes, merged)]
  <2>1. stack' = [s EXCEPT ![1].at = "value"]
    BY <1>2 DEF MergeTarget
  <2>2. [s EXCEPT ![1].at = "value"] = [s EXCEPT ![1] = f]
    BY <1>3, <1>7
  <2>3. [s EXCEPT ![1] = f] = <<f>> \o Tail(s)
    BY <1>3, TopFrame
  <2>4. QED
    BY <1>3, <1>9, <1>10, <1>11, <1>12, <2>1, <2>2, <2>3 DEF MergeTarget, TargetKnown, Proceeds, Walk
<1> DEFINE Record(top) == [home : DOMAIN heap.root,
                   ref : [to : DOMAIN heap.root \cup {Here, Nowhere}, path : Seq(Names)],
                   extra : BOOLEAN, base : 1 .. top, child : [Names -> 0 .. top],
                   was : [Names -> 0 .. top]]
<1>14. /\ heap \in [root : [DOMAIN heap.root -> 1 .. Len(heap.nodes)], nodes : Seq(Record(Len(heap.nodes)))]
       /\ Entry \in DOMAIN heap.root /\ heap.root[Entry] = 1
  BY <1>1 DEF DerefTyped, GraphTyped
<1>15. Len(heap.nodes) \in Nat /\ n \in 1 .. Len(heap.nodes) /\ m \in 1 .. Len(heap.nodes)
  BY <1>1, NodeTyped
<1>16. /\ \A x \in Nodes : Node(x) \in Record(Len(heap.nodes)) /\ Node(x) \in Record(copy)
  <2>1. \A x \in Nodes : Node(x) \in Record(Len(heap.nodes))
    <3> HIDE DEF Record
    <3>1. QED
      BY <1>14 DEF Nodes, Node
  <2>2. Record(Len(heap.nodes)) \subseteq Record(copy)
    <3>1. 1 .. Len(heap.nodes) \subseteq 1 .. copy /\ 0 .. Len(heap.nodes) \subseteq 0 .. copy
      BY <1>11, <1>15
    <3>2. [Names -> 0 .. Len(heap.nodes)] \subseteq [Names -> 0 .. copy]
      BY <3>1
    <3>3. QED
      BY <3>1, <3>2
  <2>3. QED
    BY <2>1, <2>2
<1>17. /\ merged \in Record(copy)
       /\ merged.ref = Node(m).ref /\ merged.home = Node(m).home /\ merged.base = Node(m).base
       /\ \A k \in Names : \/ merged.child[k] = Node(m).child[k] /\ merged.was[k] = Node(m).was[k]
                           \/ merged.child[k] = Node(n).child[k] /\ merged.was[k] = Node(n).was[k]
  <2> DEFINE child == Merged(Node(m).child, Node(n).child)
             was == Merged(Node(m).was, Node(n).was)
  <2>1. /\ Node(m) \in Record(copy) /\ Node(n) \in Record(copy)
        /\ \A k \in Names : Node(m).child[k] = NoNode <=> Node(m).was[k] = NoNode
    BY <1>1, <1>16 DEF Story
  <2>2. /\ Node(m).child \in [Names -> 0 .. copy] /\ Node(m).was \in [Names -> 0 .. copy]
        /\ Node(n).child \in [Names -> 0 .. copy] /\ Node(n).was \in [Names -> 0 .. copy]
    BY <2>1
  <2>3. child \in [Names -> 0 .. copy] /\ was \in [Names -> 0 .. copy]
    BY <2>2 DEF Merged
  <2>4. \A k \in Names : \/ child[k] = Node(m).child[k] /\ was[k] = Node(m).was[k]
                         \/ child[k] = Node(n).child[k] /\ was[k] = Node(n).was[k]
    BY <2>1 DEF Merged
  <2>5. merged = [Node(m) EXCEPT !.extra = TRUE, !.child = child, !.was = was]
    BY <1>12 DEF CopyOf
  <2> HIDE DEF child, was
  <2>6. merged \in Record(copy) /\ merged.child = child /\ merged.was = was
    BY <2>1, <2>3, <2>5
  <2>7. merged.ref = Node(m).ref /\ merged.home = Node(m).home /\ merged.base = Node(m).base
    BY <2>1, <2>5
  <2>8. QED
    BY <2>4, <2>6, <2>7
<1>18. heap'.root = heap.root /\ heap'.nodes = Append(heap.nodes, merged)
       /\ heap' = [root |-> heap.root, nodes |-> heap'.nodes]
  BY <1>13, <1>14
<1> HIDE DEF Record
<1>19. /\ Len(heap'.nodes) = copy /\ Nodes' = Nodes \cup {copy} /\ copy \notin Nodes /\ Nodes' = 1 .. copy
       /\ heap'.nodes \in Seq(Record(copy))
       /\ Node(copy)' = merged /\ \A x \in Nodes : Node(x)' = Node(x)
  <2>1. \A x \in Nodes : heap.nodes[x] \in Record(copy)
    BY <1>16 DEF Node
  <2>2. Nodes = 1 .. Len(heap.nodes) /\ heap.nodes = [x \in 1 .. Len(heap.nodes) |-> heap.nodes[x]]
    <3>1. heap.nodes \in Seq(Record(Len(heap.nodes)))
      BY <1>14
    <3>2. QED
      BY <3>1 DEF Nodes
  <2>3. heap.nodes \in Seq(Record(copy))
    <3>1. Len(heap.nodes) \in Nat /\ \A x \in 1 .. Len(heap.nodes) : heap.nodes[x] \in Record(copy)
      BY <1>15, <2>1, <2>2
    <3> DEFINE bound == Len(heap.nodes)
    <3>2. heap.nodes = [x \in 1 .. bound |-> heap.nodes[x]]
      BY <2>2
    <3> HIDE DEF bound
    <3>3. [x \in 1 .. bound |-> heap.nodes[x]] \in Seq(Record(copy))
      BY <3>1 DEF bound
    <3>4. QED
      BY <3>2, <3>3
  <2>4. /\ Len(heap'.nodes) = copy /\ heap'.nodes \in Seq(Record(copy)) /\ heap'.nodes[copy] = merged
        /\ \A x \in Nodes : heap'.nodes[x] = heap.nodes[x]
    BY <1>11, <1>17, <1>18, <2>2, <2>3
  <2>5. Nodes' = 1 .. copy /\ Nodes' = Nodes \cup {copy} /\ copy \notin Nodes
    BY <1>11, <1>15, <2>2, <2>4 DEF Nodes
  <2>6. QED
    BY <2>4, <2>5 DEF Node
<1>20. GraphTyped(heap)'
  <2>1. heap' \in [root : [DOMAIN heap.root -> 1 .. copy], nodes : Seq(Record(copy))]
    <3>1. heap.root \in [DOMAIN heap.root -> 1 .. copy]
      <4>1. heap.root \in [DOMAIN heap.root -> 1 .. Len(heap.nodes)]
        BY <1>14
      <4>2. 1 .. Len(heap.nodes) \subseteq 1 .. copy
        BY <1>11, <1>15
      <4>3. QED
        BY <4>1, <4>2
    <3>2. QED
      BY <1>18, <1>19, <3>1
  <2>2. QED
    BY <1>14, <1>18, <1>19, <2>1 DEF GraphTyped, Record
<1>21. Base(m) \in Authored /\ Base(m) \in Nodes /\ Base(copy)' = Base(m)
  BY <1>1, <1>17, <1>19 DEF Story, Authored, Base
<1>22. SameStory
  BY <1>13, <1>18, <1>19, <1>21 DEF SameStory
<1>23. /\ Len(resolved') = copy /\ resolved' \in Seq(0 .. copy)
       /\ resolved'[copy] = NoNode /\ \A x \in Nodes : resolved'[x] = resolved[x]
  <2>1. resolved \in Seq(0 .. Len(heap.nodes)) /\ Len(resolved) = Len(heap.nodes)
    BY <1>1 DEF DerefTyped
  <2>2. 0 .. Len(heap.nodes) \subseteq 0 .. copy /\ NoNode \in 0 .. copy /\ Nodes = 1 .. Len(heap.nodes)
    BY <1>11, <1>15 DEF Nodes, NoNode
  <2>3. resolved \in Seq(0 .. copy)
    <3> DEFINE upper == 0 .. copy
    <3>1. \A x \in 1 .. Len(resolved) : resolved[x] \in 0 .. Len(heap.nodes)
      BY <2>1
    <3>2. \A x \in 1 .. Len(resolved) : resolved[x] \in upper
      BY <2>2, <3>1
    <3>3. resolved = [x \in 1 .. Len(resolved) |-> resolved[x]] /\ Len(resolved) \in Nat
      BY <2>1
    <3> HIDE DEF upper
    <3>4. resolved \in Seq(upper)
      BY <3>2, <3>3
    <3>5. QED
      BY <3>4 DEF upper
  <2>4. resolved' = Append(resolved, NoNode) /\ Len(resolved) + 1 = copy
    BY <1>11, <1>13, <2>1
  <2>5. Len(resolved') = copy /\ resolved'[copy] = NoNode /\ \A x \in Nodes : resolved'[x] = resolved[x]
    <3>1. PICK S : resolved \in Seq(S)
      BY <2>1
    <3>2. Nodes = 1 .. Len(resolved) /\ Len(resolved) \in Nat
      BY <2>1, <2>2, <3>1
    <3>3. QED
      BY <2>4, <3>1, <3>2
  <2>6. resolved' \in Seq(0 .. copy)
    <3> DEFINE upper == 0 .. copy
    <3>1. resolved \in Seq(upper) /\ NoNode \in upper
      BY <2>2, <2>3
    <3> HIDE DEF upper
    <3>2. resolved' \in Seq(upper)
      BY <2>4, <3>1
    <3>3. QED
      BY <3>2 DEF upper
  <2>7. QED
    BY <2>5, <2>6
<1>24. /\ Authored' = Authored /\ PointersAreDirect' = PointersAreDirect /\ Resolves
       /\ \A x \in Nodes : Base(x)' = Base(x)
  BY <1>1, <1>22, <1>23, StoryStays, RelationsStay DEF Resolves
<1>25. \A x \in Nodes' : \A k \in Names : \E z \in Nodes :
         Node(x)'.child[k] = Node(z).child[k] /\ Node(x)'.was[k] = Node(z).was[k]
  <2> SUFFICES ASSUME NEW x \in Nodes', NEW k \in Names
               PROVE  \E z \in Nodes : Node(x)'.child[k] = Node(z).child[k] /\ Node(x)'.was[k] = Node(z).was[k]
    OBVIOUS
  <2>1. CASE x \in Nodes
    BY <1>19, <2>1
  <2>2. CASE x = copy
    BY <1>17, <1>19, <2>2
  <2>3. QED
    BY <1>19, <2>1, <2>2
<1>26. Story'
  <2>1. \A r \in DOMAIN heap'.root : heap'.root[r] \in Authored'
    BY <1>1, <1>18, <1>24 DEF Story
  <2>2. ASSUME NEW x \in Nodes'
        PROVE  (/\ Base(x) \in Authored
                /\ Node(x).ref = Node(Base(x)).ref /\ Node(x).home = Node(Base(x)).home)'
    <3>1. PICK z \in Nodes : Base(x)' = Base(z) /\ Node(x)'.ref = Node(z).ref /\ Node(x)'.home = Node(z).home
      BY <1>17, <1>19, <1>21, <1>24
    <3>2. PICK b \in Authored : b = Base(z) /\ b \in Nodes
      BY <1>1 DEF Story, Authored
    <3>3. Node(z).ref = Node(b).ref /\ Node(z).home = Node(b).home
      BY <1>1, <3>2 DEF Story
    <3>4. Node(b)' = Node(b)
      BY <1>19, <3>2
    <3>5. Base(x)' = b
      BY <3>1, <3>2
    <3>6. QED
      BY <1>24, <3>1, <3>2, <3>3, <3>4, <3>5
  <2>3. ASSUME NEW x \in Nodes', NEW k \in Names
        PROVE  (/\ Node(x).was[k] \in Authored \cup {NoNode}
                /\ Node(x).child[k] = NoNode <=> Node(x).was[k] = NoNode)'
    <3>1. PICK z \in Nodes : Node(x)'.child[k] = Node(z).child[k] /\ Node(x)'.was[k] = Node(z).was[k]
      BY <1>25
    <3>2. QED
      BY <1>1, <1>24, <3>1 DEF Story
  <2>4. QED
    BY <2>1, <2>2, <2>3 DEF Story
<1>27. StackOK(t)' /\ t \in Seq(Frames')
  BY <1>1, <1>9, <1>22, StackStays
<1>b. /\ ownerKey' \in Seq(Names \cup {NoKey}) /\ Len(ownerKey') = copy
      /\ \A x \in Nodes : ownerKey'[x] = ownerKey[x]
  <2>1. ownerKey \in Seq(Names \cup {NoKey}) /\ Len(ownerKey) = Len(heap.nodes)
    BY <1>1 DEF DerefTyped
  <2>2. ownerKey[n] \in Names \cup {NoKey}
    BY <1>1, KeyTyped
  <2>3. QED
    BY <1>11, <1>13, <2>1, <2>2 DEF Nodes
<1>c. \A x \in Nodes : Data(x)' = Data(x)
  BY <1>b DEF Data
<1>28. DerefTyped'
  BY <1>9, <1>13, <1>19, <1>20, <1>23, <1>27, <1>11, <1>15, <1>b DEF DerefTyped
<1>29. ASSUME PointersAreDirect PROVE Replaced(n)' /\ StandsFor(copy, n)' /\ LeadsOn(n, copy)'
  <2>1. Replaced(n) /\ LeadsOn(n, m) /\ StandsFor(m, n)
    BY <1>1, <1>4, <1>5, <1>6, <1>10, <1>29, TargetLeaves DEF Leaves
  <2>2. Replaced(n)' /\ StandsFor(m, n)'
    BY <1>1, <1>22, <2>1, StoryStays, RelationsStay
  <2>3. StandsFor(copy, n)'
    <3>1. Base(copy)' = Base(m)'
      BY <1>21, <1>24
    <3>2. QED
      BY <2>2, <3>1 DEF StandsFor
  <2>4. Below(copy)' \subseteq Below(m) \cup Below(n)
    <3>1. /\ Followed(copy)' = Followed(m) /\ Replaced(copy)' = Replaced(m)
          /\ Points(copy)' = Points(m) /\ Root(Resource(copy))' = Root(Resource(m))
      BY <1>1, <1>17, <1>19, <1>22, CopyPoints
    <3>2. Node(copy)'.ref = Node(m).ref /\ \A k \in Names : Node(copy)'.was[k] \in {Node(m).was[k], Node(n).was[k]}
      BY <1>17, <1>19
    <3>3. QED
      BY <3>1, <3>2 DEF Below
  <2>5. ASSUME NEW x \in Below(copy)' \ {NoNode} PROVE LeadsTo(n, x)
    <3>1. x \in Below(n) => LeadsTo(n, x)
      BY LeadsBelow
    <3>2. x \in Below(m) => LeadsTo(m, x) /\ x \in Authored
      BY <1>1, LeadsBelow, BelowAuthored
    <3>3. QED
      BY <2>1, <2>4, <3>1, <3>2 DEF LeadsOn
  <2>6. LeadsOn(n, copy)'
    BY <1>1, <1>19, <1>22, <2>5, CopyLeads
  <2>7. QED
    BY <2>2, <2>3, <2>6
<1>30. Awaits(t, "walk", copy)'
  <2>1. Expects(f, copy)'
    BY <1>8, <1>10, <1>24, <1>29 DEF Expects, Leaves
  <2>2. ASSUME NEW j \in 1 .. Len(t) PROVE LeadsDown(t[j], copy)'
    <3> SUFFICES ASSUME PointersAreDirect, t[j].at # "resource" PROVE LeadsOn(t[j].node, copy)'
      BY <1>24 DEF LeadsDown
    <3>1. CASE j = 1
      BY <1>8, <1>9, <1>10, <1>29, <3>1
    <3>2. CASE j # 1
      <4>1. 1 \in 1 .. j - 1 /\ t[j].node \in Nodes
        BY <3>2, CallsAreFrames
      <4>2. LeadsOn(t[j].node, n)
        BY <1>8, <1>9, <1>10, <4>1 DEF StackOK, LeadsDown
      <4>3. PICK a \in Nodes : a = t[j].node /\ LeadsOn(a, n)
        BY <4>1, <4>2
      <4>4. LeadsOn(a, n)'
        BY <1>1, <1>22, <4>3, RelationsStay
      <4>5. LeadsOn(a, copy)'
        BY <1>19, <1>24, <1>29, <4>4 DEF LeadsOn, Authored
      <4>6. QED
        BY <4>3, <4>5
    <3>3. QED
      BY <3>1, <3>2
  <2>3. QED
    BY <1>9, <2>1, <2>2 DEF Awaits
<1>31. ASSUME PointersAreDirect PROVE Slots'
  <2> SUFFICES ASSUME NEW x \in Nodes', NEW k \in Names
               PROVE  (LET y == Node(x).child[k] w == Node(x).was[k]
                       IN w # NoNode => Yields(w, y))'
    BY DEF Slots
  <2>1. PICK z \in Nodes : Node(x)'.child[k] = Node(z).child[k] /\ Node(x)'.was[k] = Node(z).was[k]
    BY <1>25
  <2>2. Node(z).child[k] \in 0 .. Len(heap.nodes) /\ Node(z).was[k] \in 0 .. Len(heap.nodes)
    BY <1>1, NodeTyped
  <2>3. PICK y \in 0 .. Len(heap.nodes), w \in 0 .. Len(heap.nodes) : y = Node(z).child[k] /\ w = Node(z).was[k]
    BY <2>2
  <2>4. /\ y = NoNode <=> w = NoNode
        /\ w # NoNode => Yields(w, y)
    BY <1>1, <1>5, <1>31, <2>3 DEF Slots, Story
  <2>5. w # NoNode => y \in Nodes /\ w \in Nodes
    BY <1>1, <2>4, NodeTyped DEF NoNode
  <2>6. w # NoNode => Yields(w, y)'
    BY <1>1, <1>22, <2>4, <2>5, RelationsStay
  <2>7. Node(x)'.child[k] = y /\ Node(x)'.was[k] = w
    BY <2>1, <2>3
  <2>8. QED
    BY <2>4, <2>6, <2>7
<1>32. ASSUME PointersAreDirect PROVE Resolutions'
  <2>1. ASSUME NEW p \in Nodes, resolved[p] # NoNode PROVE Yields(p, resolved[p])'
    <3>1. resolved[p] \in Nodes
      BY <1>1, <2>1, NodeTyped DEF DerefTyped, NoNode
    <3>2. PICK y \in Nodes : y = resolved[p] /\ Yields(p, y)
      BY <1>5, <1>32, <2>1, <3>1 DEF Resolutions
    <3>3. Yields(p, y)' /\ resolved'[p] = y
      BY <1>1, <1>22, <1>23, <3>2, RelationsStay
    <3>4. QED
      BY <3>3
  <2>2. QED
    BY <1>19, <1>23, <2>1 DEF Resolutions
<1>33. ASSUME PointersAreDirect PROVE Settling(t, "walk", copy)'
  <2>1. Settling(s, "go", now.node)
    BY <1>5, <1>33
  <2>2. Begun(resolved, t)'
    <3>1. Begun(resolved, s)
      BY <2>1 DEF Settling
    <3>2. Begun(resolved, Tail(s)) /\ resolved[f.node] # NoNode
      BY <1>3, <1>4, <1>8, <3>1, TopSplits
    <3>3. Begun(resolved, t)
      BY <1>9, <3>2, CallsSplit
    <3>4. \A i \in 1 .. Len(t) : t[i].node \in Nodes
      BY CallsAreFrames
    <3>5. QED
      BY <1>24, <3>3, <3>4 DEF Begun, Resolves
  <2>3. ASSUME NEW p \in Nodes, Reserved(s, p) PROVE Reserved(t, p)
    <3>1. f.node = p \/ Reserved(Tail(s), p)
      BY <1>3, <1>8, <2>3, TopSplits
    <3>2. QED
      BY <1>8, <1>9, <3>1, CallsSplit
  <2>4. ASSUME NEW x \in Nodes, NEW k \in Names, Pending(s, x, k) PROVE Pending(t, x, k)
    <3>1. Pending(Tail(s), x, k)
      BY <1>3, <1>4, <2>4, TopSplits
    <3>2. QED
      BY <1>9, <3>1, CallsSplit
  <2>5. ASSUME NEW p \in Nodes', resolved'[p] # NoNode
        PROVE  (Settled(resolved[p]) \/ (resolved[p] = p /\ Reserved(t, p)))'
    <3>1. p \in Nodes /\ resolved'[p] = resolved[p] /\ resolved[p] # NoNode
      BY <1>19, <1>23, <2>5
    <3>2. QED
      BY <1>1, <1>22, <1>24, <2>1, <2>3, <3>1, SettlingGoesOn
  <2>6. ASSUME NEW x \in Nodes', resolved'[x] # NoNode, ~Followed(x)',
               NEW k \in Names \ Data(x), Node(x)'.child[k] # NoNode
        PROVE  (Settled(Node(x).child[k]) \/ Pending(t, x, k))'
    <3>1. x \in Nodes /\ resolved[x] # NoNode /\ Node(x)'.child[k] = Node(x).child[k]
      BY <1>19, <1>23, <2>6
    <3>2. ~Followed(x)
      BY <1>22, <2>6, <3>1, StoryStays
    <3>3. Settled(Node(x).child[k])' \/ Pending(t, x, k)
      BY <1>1, <1>22, <1>24, <2>1, <2>4, <2>6, <3>1, <3>2, SettlingGoesOn
    <3>4. QED
      BY <3>3 DEF Pending
  <2>7. \A x \in Nodes' : resolved'[x] # NoNode => Data(x)' = Data(x)
    BY <1>19, <1>23, <1>c
  <2>8. QED
    BY <1>23, <2>2, <2>5, <2>6, <2>7 DEF Settling
<1>34. stack' = t /\ now'.op = "walk" /\ now'.node = copy
  BY <1>13
<1>35. StackOK(stack)' /\ Awaits(stack, now.op, now.node)'
  BY <1>27, <1>30, <1>34 DEF StackOK, Awaits
<1>36. PointersAreDirect => Settling(stack, now.op, now.node)'
  BY <1>33, <1>34 DEF Settling
<1>37. DerefInv'
  <2>1. PointersAreDirect' => Slots' /\ Resolutions' /\ Settling(stack, now.op, now.node)'
    BY <1>24, <1>31, <1>32, <1>36
  <2>2. QED
    BY <1>26, <1>28, <1>35, <2>1 DEF DerefInv
<1>38. ASSUME Spares PROVE Spares'
  <2>1. Continued
    <3>1. Len(s) \in Nat \ {0} /\ Len(t) = Len(s) /\ t[1] = f /\ \A i \in 2 .. Len(s) : t[i] = s[i]
      BY <1>3, <1>9, TopFrame
    <3>2. ASSUME NEW i \in 1 .. Len(t), t[i].at = "members" PROVE i \in 1 .. Len(s) /\ t[i] = s[i]
      BY <1>8, <3>1, <3>2
    <3>3. QED
      BY <1>2, <1>13, <3>2 DEF Continued
  <2>2. CallsSpareData'
    BY <1>1, <1>24, <1>38, <1>c, <2>1, CallsSpare DEF Spares
  <2>3. ASSUME NEW x \in Authored', NEW k \in Names, resolved'[x] = NoNode \/ k \in Data(x)'
        PROVE  Node(x)'.child[k] = Node(x)'.was[k]
    <3>1. x \in Authored /\ x \in Nodes
      BY <1>24 DEF Authored
    <3>2. Node(x)' = Node(x) /\ resolved'[x] = resolved[x] /\ Data(x)' = Data(x)
      BY <1>19, <1>23, <1>c, <3>1
    <3>3. QED
      BY <1>38, <2>3, <3>1, <3>2 DEF Spares, LeftAlone
  <2>4. QED
    BY <2>2, <2>3 DEF Spares, LeftAlone
<1>39. QED
  BY <1>37, <1>38
-----------------------------------------------------------------------------
\* Nothing has been replaced at first.
LEMMA DerefStarts ==
  ASSUME DerefInit
  PROVE  DerefInv /\ Spares
<1>1. GraphOK(heap)
  BY DocumentsAreGraphs DEF DerefInit
<1>2. GraphTyped(heap) /\ Nodes = 1 .. Len(heap.nodes) /\ Len(heap.nodes) \in Nat
  <2>1. GraphTyped(heap)
    BY <1>1 DEF GraphOK
  <2>2. PICK S : heap.nodes \in Seq(S)
    BY <2>1 DEF GraphTyped
  <2>3. QED
    BY <2>1, <2>2 DEF Nodes
<1>3. \A n \in Nodes : Base(n) = n /\ Node(n).was = Node(n).child
  BY <1>1, <1>2 DEF GraphOK, Base, Node
<1>4. /\ stack = <<>> /\ now = [op |-> "walk", node |-> 1] /\ outcome = "running"
      /\ resolved = [n \in 1 .. Len(heap.nodes) |-> NoNode]
      /\ ownerKey = [n \in 1 .. Len(heap.nodes) |-> NoKey]
  BY DEF DerefInit
<1>5. 1 \in Nodes
  <2>1. Entry \in DOMAIN heap.root /\ heap.root[Entry] = 1 /\ heap.root \in [DOMAIN heap.root -> 1 .. Len(heap.nodes)]
    BY <1>2 DEF GraphTyped
  <2>2. QED
    BY <1>2, <2>1
<1>6. DerefTyped
  BY <1>2, <1>4, <1>5 DEF DerefTyped, NoNode
<1>7. Authored = Nodes
  BY <1>3 DEF Authored
<1>8. Story
  <2>1. \A n \in Nodes : \A k \in Names : Node(n).was[k] \in Nodes \cup {NoNode}
    BY <1>6, NodeTyped DEF NoNode
  <2>2. \A r \in DOMAIN heap.root : heap.root[r] \in Nodes
    BY <1>6, NodeTyped
  <2>3. QED
    BY <1>3, <1>7, <2>1, <2>2 DEF Story
<1>9. StackOK(stack)
  BY <1>4 DEF StackOK
<1>10. Awaits(stack, now.op, now.node)
  BY <1>4 DEF Awaits, Yields
<1>11. Slots
  BY <1>3 DEF Slots, Yields
<1>12. \A n \in Nodes : resolved[n] = NoNode
  BY <1>2, <1>4
<1>13. Resolutions /\ Settling(stack, now.op, now.node)
  <2>1. Resolutions
    BY <1>12 DEF Resolutions
  <2>2. Begun(resolved, stack)
    BY <1>4 DEF Begun
  <2>3. now.op = "walk" /\ resolved[now.node] = NoNode
    BY <1>4, <1>5, <1>12
  <2>4. QED
    BY <1>12, <2>1, <2>2, <2>3 DEF Settling
<1>14. Spares
  BY <1>3, <1>4 DEF Spares, CallsSpareData, LeftAlone, Authored
<1>15. QED
  BY <1>6, <1>8, <1>9, <1>10, <1>11, <1>13, <1>14 DEF DerefInv

\* Each step keeps the invariant.
LEMMA DerefSteps ==
  ASSUME DerefInv, [DerefNext \/ DerefDone]_derefVars
  PROVE  DerefInv'
<1>1. ASSUME UNCHANGED derefVars PROVE DerefInv'
  <2>1. /\ DerefTyped /\ stack \in Seq(Frames) /\ UNCHANGED <<heap, preserve, resolved, ownerKey, stack, now, outcome>>
        /\ now \in [op : {"walk", "return", "go"}, node : 0 .. Len(heap.nodes)]
        /\ now.op = "go" => stack # <<>>
        /\ now.op # "go" => now.node \in Nodes
        /\ outcome = "done" => now.op = "return" /\ stack = <<>>
    BY <1>1 DEF derefVars, DerefInv, DerefTyped
  <2>2. PICK s \in Seq(Frames), op \in {"walk", "return", "go"}, m \in 0 .. Len(heap.nodes) :
          s = stack /\ op = now.op /\ m = now.node /\ now = [op |-> op, node |-> m]
    BY <2>1
  <2>3. StackOK(s) /\ Awaits(s, op, m) /\ (PointersAreDirect => Settling(s, op, m))
    BY <2>2 DEF DerefInv
  <2>4. QED
    BY <2>1, <2>2, <2>3, KeysStay, CallingStep
<1>2. CASE DerefNext
  <2>1. ASSUME NEW n \in 1 .. Len(heap.nodes), Revisit(n) \/ VisitMembers(n) \/ FollowReference(n)
        PROVE  DerefInv'
    <3>1. n \in Nodes
      BY DEF Nodes
    <3>2. QED
      BY <2>1, <3>1, RevisitStep, VisitMembersStep, FollowReferenceStep
  <2>2. QED
    BY <1>2, <2>1, NextMemberStep, MemberResolvedStep, MembersDoneStep, AskResourceStep,
       RegisterResourceStep, FetchFailsStep, ResourceWalkedStep, UnresolvableStep,
       MergeTargetStep, WalkTargetStep, ValueResolvedStep, FinishStep DEF DerefNext
<1>3. CASE DerefDone
  BY <1>1, <1>3 DEF DerefDone
<1>4. QED
  BY <1>1, <1>2, <1>3

\* The calls that walk members, whatever step replaces the innermost one.
LEMMA CallsContinue ==
  ASSUME DerefTyped,
         \/ stack' = stack
         \/ stack # <<>> /\ stack' = Tail(stack)
         \/ \E f : f.at # "members" /\ stack' = <<f>> \o stack
         \/ \E f : f.at # "members" /\ stack # <<>> /\ stack' = [stack EXCEPT ![1] = f]
         \/ /\ stack # <<>> /\ Tail(stack) # <<>>
            /\ \E f : f.at # "members" /\ stack' = [Tail(stack) EXCEPT ![1] = f]
  PROVE  Continued
<1>1. PICK s \in Seq(Frames) : s = stack
  BY DEF DerefTyped
<1> DEFINE Kept(t) == \A i \in 1 .. Len(t) : t[i].at = "members" => \E j \in 1 .. Len(s) : t[i] = s[j]
<1>2. Len(s) \in Nat
  OBVIOUS
<1>3. Kept(s)
  OBVIOUS
<1>4. s # <<>> => Kept(Tail(s)) /\ Tail(s) \in Seq(Frames)
  <2> SUFFICES ASSUME s # <<>> PROVE Kept(Tail(s)) /\ Tail(s) \in Seq(Frames)
    OBVIOUS
  <2>1. Tail(s) \in Seq(Frames) /\ Len(Tail(s)) = Len(s) - 1 /\ \A i \in 1 .. Len(s) - 1 : Tail(s)[i] = s[i + 1]
    OBVIOUS
  <2>2. \A i \in 1 .. Len(s) - 1 : i + 1 \in 1 .. Len(s)
    BY <1>2
  <2>3. QED
    BY <2>1, <2>2
<1>5. ASSUME NEW f, f.at # "members" PROVE Kept(<<f>> \o s)
  <2> DEFINE t == <<f>> \o s
  <2>1. Len(t) = Len(s) + 1 /\ t[1] = f /\ \A i \in 1 .. Len(s) : t[i + 1] = s[i]
    BY <1>1
  <2> HIDE DEF t
  <2>2. ASSUME NEW i \in 1 .. Len(t), t[i].at = "members" PROVE \E j \in 1 .. Len(s) : t[i] = s[j]
    <3>1. i - 1 \in 1 .. Len(s) /\ (i - 1) + 1 = i
      BY <1>2, <1>5, <2>1, <2>2
    <3>2. QED
      BY <2>1, <3>1
  <2>3. QED
    BY <2>2 DEF t
<1>6. ASSUME NEW f, f.at # "members", NEW t \in Seq(Frames), t # <<>>, Kept(t) PROVE Kept([t EXCEPT ![1] = f])
  <2>1. Len([t EXCEPT ![1] = f]) = Len(t) /\ [t EXCEPT ![1] = f][1] = f
        /\ \A i \in 2 .. Len(t) : [t EXCEPT ![1] = f][i] = t[i]
    <3>1. PICK u : u = <<f>> \o Tail(t)
      OBVIOUS
    <3>2. [t EXCEPT ![1] = f] = u /\ Len(u) = Len(t) /\ u[1] = f /\ \A i \in 2 .. Len(t) : u[i] = t[i]
      BY <1>6, <3>1, TopFrame
    <3>3. QED
      BY <3>2
  <2>2. \A i \in 1 .. Len(t) : i = 1 \/ i \in 2 .. Len(t)
    OBVIOUS
  <2>3. QED
    BY <1>6, <2>1, <2>2
<1>7. Kept(stack')
  <2> HIDE DEF Kept
  <2>1. CASE \E f : f.at # "members" /\ stack' = <<f>> \o stack
    BY <1>1, <1>5, <2>1
  <2>2. CASE \E f : f.at # "members" /\ stack # <<>> /\ stack' = [stack EXCEPT ![1] = f]
    BY <1>1, <1>3, <1>6, <2>2
  <2>3. CASE /\ stack # <<>> /\ Tail(stack) # <<>>
             /\ \E f : f.at # "members" /\ stack' = [Tail(stack) EXCEPT ![1] = f]
    <3>1. PICK f : f.at # "members" /\ stack' = [Tail(stack) EXCEPT ![1] = f]
      BY <2>3
    <3>2. PICK t \in Seq(Frames) : t = Tail(stack) /\ t # <<>> /\ Kept(t)
      BY <1>1, <1>4, <2>3
    <3>3. Kept([t EXCEPT ![1] = f])
      BY <1>6, <3>1, <3>2
    <3>4. QED
      BY <3>1, <3>2, <3>3
  <2>4. QED
    BY <1>1, <1>3, <1>4, <2>1, <2>2, <2>3
<1>8. QED
  BY <1>1, <1>7 DEF Continued

\* A node that begins to be walked, or yields a value, is resolved.
LEMMA ReserveResolves ==
  ASSUME DerefTyped, NEW n \in Nodes, NEW v \in Nodes, Reserve(n, v)
  PROVE  Resolves /\ resolved'[n] # NoNode
<1>1. resolved \in Seq(0 .. Len(heap.nodes)) /\ Len(resolved) = Len(heap.nodes) /\ v # NoNode
  BY NodeTyped DEF DerefTyped, NoNode
<1>2. resolved' = [resolved EXCEPT ![n] = v] /\ n \in DOMAIN resolved
  BY <1>1 DEF Reserve, Nodes
<1>3. \A p \in Nodes : resolved'[p] = IF p = n THEN v ELSE resolved[p]
  BY <1>1, <1>2 DEF Nodes
<1>4. QED
  BY <1>1, <1>3 DEF Resolves

\* The walk of a node begins with the members that are not data.
LEMMA VisitSpares ==
  ASSUME DerefInv, Spares, NEW n \in Nodes, VisitMembers(n)
  PROVE  Spares'
<1>1. DerefTyped /\ UNCHANGED <<heap, ownerKey>> /\ stack \in Seq(Frames)
  BY DEF DerefInv, DerefTyped, VisitMembers
<1>2. KeysKept /\ (\A x : Data(x)' = Data(x)) /\ Resolves /\ resolved'[n] # NoNode
  BY <1>1, KeysStay, ReserveResolves DEF VisitMembers
<1>3. PICK f : f = Frame(n, "members", Visited(n)) /\ stack' = <<f>> \o stack
  BY DEF VisitMembers
<1>4. f.node = n /\ \A j \in f.left : Members[j] \notin Data(n)
  BY <1>3 DEF Frame, Visited
<1>5. ASSUME NEW i \in 1 .. Len(stack'), stack'[i].at = "members"
      PROVE  /\ resolved'[stack'[i].node] # NoNode
             /\ \A j \in stack'[i].left : Members[j] \notin Data(stack'[i].node)
  <2>1. /\ Len(stack) \in Nat /\ Len(stack') = Len(stack) + 1 /\ stack'[1] = f
        /\ \A j \in 1 .. Len(stack) : stack'[j + 1] = stack[j]
    BY <1>1, <1>3
  <2>2. CASE i = 1
    BY <1>2, <1>4, <2>1, <2>2
  <2>3. CASE i # 1
    <3>1. PICK j \in 1 .. Len(stack) : stack'[i] = stack[j]
      <4>1. i - 1 \in 1 .. Len(stack) /\ (i - 1) + 1 = i
        BY <2>1, <2>3
      <4>2. QED
        BY <2>1, <4>1
    <3>2. stack[j].node \in Nodes
      BY <1>1, CallsAreFrames
    <3>3. QED
      BY <1>2, <1>5, <3>1, <3>2 DEF Spares, CallsSpareData, Resolves
  <2>4. QED
    BY <2>2, <2>3
<1>6. CallsSpareData'
  BY <1>2, <1>5 DEF CallsSpareData
<1>7. QED
  BY <1>1, <1>2, <1>6, DataLeft DEF Spares

\* Each step spares what is data.
LEMMA SparesSteps ==
  ASSUME DerefInv, Spares, [DerefNext \/ DerefDone]_derefVars
  PROVE  Spares'
<1>1. /\ DerefTyped /\ stack \in Seq(Frames)
      /\ stack # <<>> => Top = stack[1] /\ Top \in Frames /\ Top.node \in Nodes
  BY TopFrame DEF DerefInv, DerefTyped, Top
<1>2. ASSUME UNCHANGED <<heap, resolved, ownerKey>>, Continued PROVE Spares'
  BY <1>1, <1>2, KeysStay, SparesOn DEF Resolves
<1>3. ASSUME UNCHANGED <<heap, resolved>>, NEW n \in Nodes, NEW key \in Names \cup {NoKey},
             Walk(n, key), Continued
      PROVE  Spares'
  BY <1>1, <1>3, KeysWalk, SparesOn DEF Resolves
<1>4. ASSUME UNCHANGED <<heap, ownerKey>>, NEW n \in Nodes, NEW v \in Nodes, Reserve(n, v), Continued
      PROVE  Spares'
  BY <1>1, <1>4, KeysStay, ReserveResolves, SparesOn
<1>5. ASSUME UNCHANGED derefVars PROVE Spares'
  BY <1>1, <1>2, <1>5, CallsContinue DEF derefVars
<1>6. ASSUME NEW n \in Nodes, Revisit(n) PROVE Spares'
  BY <1>1, <1>2, <1>6, CallsContinue DEF Revisit
<1>7. ASSUME NEW n \in Nodes, FollowReference(n) PROVE Spares'
  <2>1. PICK f : f = Frame(n, "target", {}) /\ stack' = <<f>> \o stack
    BY <1>7 DEF FollowReference
  <2>2. Continued
    BY <1>1, <2>1, CallsContinue DEF Frame
  <2>3. QED
    BY <1>4, <1>7, <2>2 DEF FollowReference
<1>8. CASE NextMember
  <2>1. /\ stack # <<>> /\ Top.at = "members" /\ Top.left # {}
    BY <1>1, <1>8 DEF NextMember, Proceeds, DerefTyped
  <2>2. Turn(Top.left) \in Top.left /\ Members[Turn(Top.left)] \in Names
    BY <1>1, <2>1, TurnIsLeft DEF Frames
  <2>3. Node(Top.node).child[Members[Turn(Top.left)]] \in Nodes
    <3>1. Node(Top.node).was[Members[Turn(Top.left)]] # NoNode
      <4>1. FrameOK(Top)
        <5>1. 1 \in 1 .. Len(stack)
          BY <1>1, <2>1
        <5>2. QED
          BY <1>1, <2>1, <5>1 DEF DerefInv, StackOK
      <4>2. QED
        BY <2>1, <2>2, <4>1 DEF FrameOK
    <3>2. Node(Top.node).child[Members[Turn(Top.left)]] # NoNode
      BY <1>1, <2>1, <2>2, <3>1 DEF DerefInv, Story
    <3>3. QED
      BY <1>1, <2>1, <2>2, <3>2, NodeTyped DEF NoNode
  <2>4. Continued
    BY <1>1, <1>8, CallsContinue DEF NextMember
  <2>5. QED
    BY <1>3, <1>8, <2>2, <2>3, <2>4 DEF NextMember
<1>9. CASE MembersDone
  <2>1. stack # <<>> /\ stack' = Tail(stack)
    BY <1>1, <1>9 DEF MembersDone, Proceeds, DerefTyped
  <2>2. QED
    BY <1>1, <1>2, <1>9, <2>1, CallsContinue DEF MembersDone
<1>10. ASSUME stack # <<>>, NEW place, place # "members", stack' = [stack EXCEPT ![1].at = place] PROVE Continued
  <2>1. PICK f : f = [stack[1] EXCEPT !.at = place]
    OBVIOUS
  <2>2. stack' = [stack EXCEPT ![1] = f] /\ f.at # "members"
    BY <1>1, <1>10, <2>1 DEF Frames
  <2>3. QED
    BY <1>1, <1>10, <2>2, CallsContinue
<1>11. CASE AskResource
  BY <1>1, <1>2, <1>10, <1>11 DEF AskResource, Proceeds, DerefTyped
<1>12. CASE RegisterResource
  <2>1. stack # <<>> /\ Top.at = "fetching"
    BY <1>1, <1>12 DEF RegisterResource, Proceeds, DerefTyped
  <2>2. FrameOK(Top)
    <3>1. 1 \in 1 .. Len(stack)
      BY <1>1, <2>1
    <3>2. QED
      BY <1>1, <2>1, <3>1 DEF DerefInv, StackOK
  <2>3. Root(Resource(Top.node)) \in Nodes
    BY <1>1, <2>1, <2>2, NodeTyped DEF FrameOK, Followed, Root
  <2>4. PICK f : f = Frame(Root(Resource(Top.node)), "resource", {}) /\ stack' = <<f>> \o stack
    BY <1>12 DEF RegisterResource
  <2>5. Continued
    BY <1>1, <2>4, CallsContinue DEF Frame
  <2>6. QED
    BY <1>3, <1>12, <2>3, <2>5 DEF RegisterResource
<1>13. CASE FetchFails
  BY <1>1, <1>2, <1>13, CallsContinue DEF FetchFails
<1>14. CASE ResourceWalked
  <2>1. stack # <<>> /\ Tail(stack) # <<>> /\ Tail(stack)[1] \in Frames
    <3>1. Len(stack) \in Nat \ {0} /\ stack # <<>> /\ stack[1].at = "resource"
      BY <1>1, <1>14 DEF ResourceWalked
    <3>2. Len(stack) # 1
      BY <3>1 DEF DerefInv, StackOK, Outermost
    <3>3. Tail(stack) \in Seq(Frames) /\ Len(Tail(stack)) = Len(stack) - 1
      BY <1>1, <3>1
    <3>4. Len(Tail(stack)) \in Nat \ {0}
      BY <3>1, <3>2, <3>3
    <3>5. PICK t \in Seq(Frames), l \in Nat \ {0} : t = Tail(stack) /\ Len(t) = l
      BY <3>3, <3>4
    <3>6. t # <<>>
      BY ONLY <3>5
    <3>7. t[1] \in Frames
      BY ONLY <3>5
    <3>8. QED
      BY <3>1, <3>5, <3>6, <3>7
  <2>2. PICK f : f = [Tail(stack)[1] EXCEPT !.at = "target"]
    OBVIOUS
  <2>3. stack' = [Tail(stack) EXCEPT ![1] = f] /\ f.at # "members"
    BY <1>14, <2>1, <2>2 DEF ResourceWalked, Frames
  <2>4. Continued
    BY <1>1, <2>1, <2>3, CallsContinue
  <2>5. QED
    BY <1>2, <1>14, <2>4 DEF ResourceWalked
<1>15. CASE Unresolvable
  <2>1. stack # <<>> /\ stack' = Tail(stack)
    BY <1>1, <1>15 DEF Unresolvable, TargetKnown, Proceeds, DerefTyped
  <2>2. QED
    BY <1>1, <1>2, <1>15, <2>1, CallsContinue DEF Unresolvable
<1>16. CASE WalkTarget
  <2>1. /\ stack # <<>> /\ Top.at = "target" /\ Target(Top.node) # NoNode
        /\ stack' = [stack EXCEPT ![1].at = "value"]
    BY <1>1, <1>16 DEF WalkTarget, TargetKnown, Proceeds, DerefTyped
  <2>2. FrameOK(Top)
    <3>1. 1 \in 1 .. Len(stack)
      BY <1>1, <2>1
    <3>2. QED
      BY <1>1, <2>1, <3>1 DEF DerefInv, StackOK
  <2>3. Target(Top.node) \in Nodes /\ ownerKey[Top.node] \in Names \cup {NoKey}
    BY <1>1, <2>1, <2>2, TargetTyped, KeyTyped DEF FrameOK, DerefInv
  <2>4. Continued
    BY <1>10, <2>1
  <2>5. QED
    BY <1>3, <1>16, <2>3, <2>4 DEF WalkTarget
<1>17. CASE ValueResolved
  <2>1. stack # <<>> /\ stack' = Tail(stack) /\ now.node \in Nodes
    BY <1>1, <1>17 DEF ValueResolved, DerefTyped
  <2>2. Continued
    BY <1>1, <2>1, CallsContinue
  <2>3. QED
    BY <1>1, <1>4, <1>17, <2>1, <2>2 DEF ValueResolved
<1>18. CASE Finish
  BY <1>1, <1>2, <1>18, CallsContinue DEF Finish
<1>19. CASE DerefNext
  <2>1. ASSUME NEW n \in 1 .. Len(heap.nodes), Revisit(n) \/ VisitMembers(n) \/ FollowReference(n)
        PROVE  Spares'
    <3>1. n \in Nodes
      BY DEF Nodes
    <3>2. QED
      BY <1>6, <1>7, <2>1, <3>1, VisitSpares
  <2>2. QED
    BY <1>8, <1>9, <1>11, <1>12, <1>13, <1>14, <1>15, <1>16, <1>17, <1>18, <1>19, <2>1,
       MemberResolvedStep, MergeTargetStep DEF DerefNext
<1>20. CASE DerefDone
  BY <1>5, <1>20 DEF DerefDone
<1>21. QED
  BY <1>5, <1>19, <1>20

\* The invariant says what the property says, once no call is left.
LEMMA DerefFaithful ==
  ASSUME DerefInv, Spares
  PROVE  GraphIsFaithful
<1> SUFFICES ASSUME outcome = "done", PointersAreDirect PROVE MeaningIsKept /\ SurvivorsAreCircular
  BY DEF GraphIsFaithful
<1>1. now.op = "return" /\ stack = <<>> /\ Slots /\ Story
  BY DEF DerefInv, DerefTyped
<1>2. MeaningIsKept
  <2>1. StandsFor(now.node, 1)
    BY <1>1 DEF DerefInv, Awaits, Yields, Leaves, StandsFor
  <2>2. QED
    BY <1>1, <2>1 DEF MeaningIsKept, Slots, Story, Yields, Leaves, StandsFor, Spares, LeftAlone
<1>3. SurvivorsAreCircular
  <2>1. Settling(stack, "return", now.node)
    BY <1>1 DEF DerefInv
  <2>2. \A n, k : ~Pending(stack, n, k)
    BY <1>1 DEF Pending
  <2>3. QED
    BY <2>1, <2>2 DEF Settling, SurvivorsAreCircular
<1>4. QED
  BY <1>2, <1>3

\* Whatever documents are dereferenced, fetched or not, and in whatever order
\* their references meet one another: the graph that dereference returns says
\* what the document said at every member, and keeps a reference only where its
\* walk comes back to it.
THEOREM GraphFaithful == DerefSpec => []GraphIsFaithful
<1>1. DerefInit => DerefInv /\ Spares
  BY DerefStarts
<1>2. DerefInv /\ Spares /\ [DerefNext \/ DerefDone]_derefVars => (DerefInv /\ Spares)'
  BY DerefSteps, SparesSteps
<1>3. DerefInv /\ Spares => GraphIsFaithful
  BY DerefFaithful
<1>4. QED
  BY <1>1, <1>2, <1>3, PTL DEF DerefSpec
=============================================================================
