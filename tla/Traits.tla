-------------------------------- MODULE Traits --------------------------------
(***************************************************************************)
(* The merge of an operation's traits: traits.ts, as parseAsyncAPIDocument *)
(* applies it to the operation of a document that was loaded.              *)
(*                                                                         *)
(* A JSON value is a leaf, null, or an object; values that are shared by   *)
(* several members are left out.                                           *)
(***************************************************************************)
EXTENDS Loading, Functions

Leaf(v) == [kind |-> "leaf", v |-> v]
Null == [kind |-> "null"]
Absent == [kind |-> "absent"]
Object(members) == [kind |-> "object", of |-> members]
NoMembers == [k \in {} |-> Absent]

\* Mutant of MergePatch: an object that is there already is replaced.
RECURSIVE MergeShallow(_, _)
MergeShallow(target, patch) ==
  IF patch.kind # "object" THEN patch
  ELSE LET base == IF target.kind = "object" THEN target.of ELSE NoMembers
           kept == {k \in DOMAIN base : k \notin DOMAIN patch.of}
           set == {k \in DOMAIN patch.of : patch.of[k] # Null}
       IN Object([k \in kept \cup set |->
            IF k \in set THEN MergeShallow(Absent, patch.of[k]) ELSE base[k]])

RECURSIVE MergePatch(_, _)
MergePatch(target, patch) ==
  IF patch.kind # "object" THEN patch
  ELSE LET base == IF target.kind = "object" THEN target.of ELSE NoMembers
           kept == {k \in DOMAIN base : k \notin DOMAIN patch.of}
           set == {k \in DOMAIN patch.of : patch.of[k] # Null}
       IN Object([k \in kept \cup set |->
            IF k \in set THEN MergePatch(IF k \in DOMAIN base THEN base[k] ELSE Absent, patch.of[k])
            ELSE base[k]])

\* The traits in their order, then the operation itself; an operation that
\* declares none stays as it is.
ApplyTraits(doc) ==
  LET traits == SelectSeq(doc.traits, LAMBDA t : t.kind = "object")
  IN IF ~doc.declares THEN doc.operation
     ELSE MergePatch(FoldLeft(MergePatch, Object(NoMembers), traits), doc.operation)
-----------------------------------------------------------------------------
\* What a value says at a path of members.
Says(value, path) ==
  FoldLeft(LAMBDA n, k : IF n.kind = "object" /\ k \in DOMAIN n.of THEN n.of[k] ELSE Absent, value, path)

Keys == {"a", "b"}
Paths == {<<k>> : k \in Keys} \cup (Keys \X Keys)

\* Replaces whatever was at the path or above it.
Overrides(value, path) ==
  \/ Says(value, path).kind # "absent"
  \/ \E n \in 1 .. (Len(path) - 1) : Says(value, SubSeq(path, 1, n)).kind \in {"leaf", "null"}

\* "A trait never overrides an explicitly declared property" (traits.ts:13-15):
\* what an operation says at a path is the last word of those that speak of it,
\* the traits in their order and then the operation, where an object is merged
\* and a null removes.
LastWordCounts ==
  \A c \in DOMAIN asks : at[c] = "prepared" /\ loaded[c][1].declares =>
    LET doc == loaded[c][1]
        words == SelectSeq(doc.traits, LAMBDA t : t.kind = "object") \o <<doc.operation>>
        result == ApplyTraits(doc)
    IN \A path \in Paths : \A v \in {"x", "y"} :
         Says(result, path) = Leaf(v) <=>
           \E i \in DOMAIN words : /\ Says(words[i], path) = Leaf(v)
                                   /\ \A j \in DOMAIN words : j > i => ~Overrides(words[j], path)
=============================================================================
