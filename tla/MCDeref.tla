------------------------------ MODULE MCDeref ------------------------------
(***************************************************************************)
(* Two small documents for Deref, which may refer to themselves and to one *)
(* another: the entry has an object, within it a reference, and beside it  *)
(* a reference or a map of schemas; the other has two members, which may   *)
(* be references too.  One of the entry's objects has a member named as a  *)
(* literal, which looks like a reference.  A reference of the entry may    *)
(* have members of its own.  They point at either root, at a member, at    *)
(* one another, past one another, or at nothing.                           *)
(***************************************************************************)
EXTENDS Deref, SequencesExt

MCMembers == <<"a", "b", "x">>
MCLiterals == {"x"}
MCContainers == {"b"}
Ref(to, path) == [to |-> to, path |-> path]
NoRef == Ref("nowhere", <<>>)
Refs == {Ref("here", <<>>), Ref("here", <<"a">>), Ref("here", <<"b">>), Ref("here", <<"a", "a">>),
         Ref("other", <<>>), Ref("other", <<"a">>), Ref("other", <<"b">>), Ref("entry", <<"a">>)}
NoForm == [ref |-> NoRef, extra |-> FALSE]
Forms == {NoForm} \cup [ref : Refs, extra : BOOLEAN]
Bare == {form \in Forms : ~form.extra}
Others == {NoForm, [ref |-> Ref("here", <<"a">>), extra |-> FALSE],
           [ref |-> Ref("entry", <<"a", "a">>), extra |-> FALSE]}

Tree(home, n, form, a, b, x) ==
  LET child == [k \in ToSet(MCMembers) |-> CASE k = "a" -> a [] k = "b" -> b [] k = "x" -> x]
  IN [home |-> home, ref |-> form.ref, extra |-> form.extra, base |-> n,
      child |-> child, was |-> child]
Literal == [ref |-> Ref("here", <<"b">>), extra |-> FALSE]

\* Where b is a map of schemas, the literal's name is among its members.
Graph(f3, f4, f7, f8) ==
  [root |-> [r \in {"entry", "other"} |-> IF r = "entry" THEN 1 ELSE 6],
   nodes |-> <<Tree("entry", 1, NoForm, 2, 3, 0),
               Tree("entry", 2, NoForm, 4, 0, IF f3 = NoForm THEN 0 ELSE 5),
               Tree("entry", 3, f3, 0, 0, IF f3 = NoForm THEN 5 ELSE 0), Tree("entry", 4, f4, 0, 0, 0),
               Tree("entry", 5, Literal, 0, 0, 0), Tree("other", 6, NoForm, 7, 8, 0),
               Tree("other", 7, f7, 0, 0, 0), Tree("other", 8, f8, 0, 0, 0)>>]
MCDocuments == {Graph(f3, f4, f7, f8) : f3 \in Forms, f4 \in Forms, f7 \in Bare, f8 \in Others}

\* Where the references of a node lead in the end, if they come to an end.
Step(g, n) ==
  LET x == g.nodes[n]
  IN IF x.ref.to = "nowhere" THEN NoNode
     ELSE Follow(g.nodes, g.root[IF x.ref.to = "here" THEN x.home ELSE x.ref.to], x.ref.path)
End(g, n) ==
  FoldLeft(LAMBDA m, x : IF Step(g, m) = NoNode THEN m ELSE Step(g, m), n, g.nodes)

\* No reference with members of its own leads into a chain of references alone
\* that has no end: dereference would copy that chain for ever.
MCSettling ==
  {g \in MCDocuments : \A n \in 1 .. 8 : g.nodes[n].extra => Step(g, End(g, n)) = NoNode}
=============================================================================
