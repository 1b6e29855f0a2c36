-------------------------------- MODULE Deref --------------------------------
(***************************************************************************)
(* dereference: typescript/src/internal/deref.ts, which replaces each      *)
(* reference of a document by what it points at.  The function recurses    *)
(* over a graph that it rewrites as it goes, awaiting a fetch when it      *)
(* meets a resource for the first time; here its recursion is a stack, so  *)
(* that what it finds half-rewritten can be seen.                          *)
(*                                                                         *)
(* Nodes are the objects of the parsed documents, numbered: a tree per     *)
(* resource, until references are replaced.  A reference names the members *)
(* to follow from the root of a resource.  Whether a member is data is     *)
(* asked with literalAwareTraversal, which both users of dereference pass. *)
(* Arrays are objects whose members are neither literals nor containers;   *)
(* anchors and $id are left out.                                           *)
(***************************************************************************)
EXTENDS Naturals, Sequences, FiniteSets

CONSTANTS
  Documents, \* the graphs to dereference: see GraphOK
  Members,   \* the names of members, in the order Object.keys yields them
  Literals,  \* the keys whose values are data: default, enum, x-...
  Containers,   \* the keys whose values are maps of schemas: properties, $defs
  Entry,     \* the resource of the document itself
  Here,      \* stands for the resource of a reference that is a fragment only
  Nowhere    \* the resource that a node without $ref names

VARIABLES
  heap,     \* the nodes; "was" is a history: the members as they were authored
  preserve, \* options.internalRefs = "preserve"
  resolved, \* resolvedNodes, 0 for a node that it lacks
  ownerKey, \* the ownerKey each node was first walked with
  requested,    \* externalCache
  known,    \* resourcesByURI
  stack,    \* the calls that are awaiting one another, the innermost first
  now,      \* what the innermost call does next
  outcome   \* what dereference returned

derefVars == <<heap, preserve, resolved, ownerKey, requested, known, stack, now, outcome>>

NoNode == 0
NoKey == "" \* ownerKey is undefined
Names == {Members[i] : i \in DOMAIN Members}

\* Every resource's root and its nodes, of which base and was tell what they
\* were copied from and which members they were authored with.
GraphTyped(g) ==
  LET n == 1 .. Len(g.nodes) resources == DOMAIN g.root
      record == [home : resources, ref : [to : resources \cup {Here, Nowhere}, path : Seq(Names)],
                 extra : BOOLEAN, base : n, child : [Names -> 0 .. Len(g.nodes)],
                 was : [Names -> 0 .. Len(g.nodes)]]
  IN /\ g \in [root : [resources -> n], nodes : Seq(record)]
     /\ Entry \in resources /\ g.root[Entry] = 1
GraphOK(g) ==
  /\ GraphTyped(g)
  /\ \A n \in 1 .. Len(g.nodes) : g.nodes[n].base = n /\ g.nodes[n].was = g.nodes[n].child

ASSUME MembersAreNames ==
  Members \in Seq(Names) /\ Literals \cup Containers \subseteq Names /\ NoKey \notin Names
ASSUME DocumentsAreGraphs == \A g \in Documents : GraphOK(g)

Root(resource) == heap.root[resource]
Node(n) == heap.nodes[n]
IsReference(n) == Node(n).ref.to # Nowhere

\* The resource a reference names: its own for a fragment.
Resource(n) == IF Node(n).ref.to = Here THEN Node(n).home ELSE Node(n).ref.to

\* resolvePointer, in the graph as it is at the moment: the nodes on the way.
Trail(nodes, from, path) ==
  LET node[i \in 0 .. Len(path)] ==
        IF i = 0 THEN from
        ELSE IF node[i - 1] = NoNode THEN NoNode ELSE nodes[node[i - 1]].child[path[i]]
  IN node
Follow(nodes, from, path) == Trail(nodes, from, path)[Len(path)]

Target(n) == Follow(heap.nodes, Root(Resource(n)), Node(n).ref.path)

\* literalAwareTraversal: below a container each key is the name of a member,
\* and elsewhere a literal's value is data.  The key is that of the path by which
\* the node was first met; other paths find it in resolvedNodes.
Data(n) == IF ownerKey[n] \in Containers THEN {} ELSE Literals

\* The members that a walk visits, by their place, and the one whose turn it is.
Visited(n) ==
  {i \in DOMAIN Members : Node(n).child[Members[i]] # NoNode /\ Members[i] \notin Data(n)}
Turn(left) == CHOOSE i \in left : \A j \in left : i <= j

DerefInit ==
  /\ heap \in Documents
  /\ preserve \in BOOLEAN
  /\ resolved = [n \in 1 .. Len(heap.nodes) |-> NoNode]
  /\ ownerKey = [n \in 1 .. Len(heap.nodes) |-> NoKey]
  /\ requested = {} /\ known = {Entry}
  /\ stack = <<>> /\ now = [op |-> "walk", node |-> 1]
  /\ outcome = "running"

Top == Head(stack)
Walks(n) == outcome = "running" /\ now = [op |-> "walk", node |-> n]
Proceeds(at) == outcome = "running" /\ now.op = "go" /\ Top.at = at
Walk(n, key) ==
  /\ now' = [op |-> "walk", node |-> n]
  /\ ownerKey' = IF resolved[n] = NoNode THEN [ownerKey EXCEPT ![n] = key] ELSE ownerKey
Return(n) == now' = [op |-> "return", node |-> n]
Go == now' = [op |-> "go", node |-> NoNode]
Frame(n, at, left) == [node |-> n, at |-> at, left |-> left]
Reserve(n, value) == resolved' = [resolved EXCEPT ![n] = value]
-----------------------------------------------------------------------------
\* A node that was visited yields what it resolved to: itself while its own
\* visit is under way.
Revisit(n) ==
  /\ Walks(n) /\ resolved[n] # NoNode
  /\ Return(resolved[n])
  /\ UNCHANGED <<heap, preserve, resolved, ownerKey, requested, known, stack, outcome>>

\* A reference within the document is kept in the pass before normalization.
StaysReference(n) == preserve /\ Node(n).ref.to = Here /\ Node(n).home = Entry

VisitMembers(n) ==
  /\ Walks(n) /\ resolved[n] = NoNode
  /\ IsReference(n) => StaysReference(n)
  /\ Reserve(n, n)
  /\ stack' = <<Frame(n, "members", Visited(n))>> \o stack
  /\ Go
  /\ UNCHANGED <<heap, preserve, ownerKey, requested, known, outcome>>

NextMember ==
  /\ Proceeds("members") /\ Top.left # {}
  /\ Walk(Node(Top.node).child[Members[Turn(Top.left)]], Members[Turn(Top.left)])
  /\ UNCHANGED <<heap, preserve, resolved, requested, known, stack, outcome>>

MemberResolved ==
  /\ outcome = "running" /\ now.op = "return" /\ stack # <<>> /\ Top.at = "members"
  /\ heap' = [heap EXCEPT !.nodes[Top.node].child[Members[Turn(Top.left)]] = now.node]
  /\ stack' = [stack EXCEPT ![1].left = @ \ {Turn(@)}]
  /\ Go
  /\ UNCHANGED <<preserve, resolved, ownerKey, requested, known, outcome>>

MembersDone ==
  /\ Proceeds("members") /\ Top.left = {}
  /\ stack' = Tail(stack)
  /\ Return(Top.node)
  /\ UNCHANGED <<heap, preserve, resolved, ownerKey, requested, known, outcome>>

\* The reference yields itself to whoever meets it before its target is known.
FollowReference(n) ==
  /\ Walks(n) /\ resolved[n] = NoNode
  /\ IsReference(n) /\ ~StaysReference(n)
  /\ Reserve(n, n)
  /\ stack' = <<Frame(n, "target", {})>> \o stack
  /\ Go
  /\ UNCHANGED <<heap, preserve, ownerKey, requested, known, outcome>>
-----------------------------------------------------------------------------
\* A resource met for the first time is fetched; the call waits for a record
\* that exists, and so waits for ever if that record waits for the call.
AskResource ==
  /\ Proceeds("target")
  /\ Node(Top.node).ref.to # Here
  /\ LET r == Resource(Top.node)
     IN /\ r \notin known \cup requested
        /\ requested' = requested \cup {r}
        /\ stack' = [stack EXCEPT ![1].at = "fetching"]
  /\ UNCHANGED <<heap, preserve, resolved, ownerKey, known, now, outcome>>

\* Mutant of RegisterResource: the document is published once it was walked.
RegisterWalked ==
  /\ Proceeds("fetching")
  /\ stack' = <<Frame(Root(Resource(Top.node)), "resource", {})>> \o stack
  /\ Walk(Root(Resource(Top.node)), NoKey)
  /\ UNCHANGED <<heap, preserve, resolved, requested, known, outcome>>

\* The document is published before it is walked.
RegisterResource ==
  /\ Proceeds("fetching")
  /\ known' = known \cup {Resource(Top.node)}
  /\ stack' = <<Frame(Root(Resource(Top.node)), "resource", {})>> \o stack
  /\ Walk(Root(Resource(Top.node)), NoKey)
  /\ UNCHANGED <<heap, preserve, resolved, requested, outcome>>

FetchFails ==
  /\ Proceeds("fetching")
  /\ outcome' = "failed"
  /\ UNCHANGED <<heap, preserve, resolved, ownerKey, requested, known, stack, now>>

ResourceWalked ==
  /\ outcome = "running" /\ now.op = "return" /\ stack # <<>> /\ Top.at = "resource"
  /\ known' = known \cup {Node(Top.node).home}
  /\ stack' = [Tail(stack) EXCEPT ![1].at = "target"]
  /\ Go
  /\ UNCHANGED <<heap, preserve, resolved, ownerKey, requested, outcome>>
-----------------------------------------------------------------------------
\* A fragment needs no lookup: its resource is the one being walked.
TargetKnown ==
  /\ Proceeds("target")
  /\ Node(Top.node).ref.to # Here => Resource(Top.node) \in known

\* allowUnresolved: a reference to nothing stays.
Unresolvable ==
  /\ TargetKnown /\ Target(Top.node) = NoNode
  /\ stack' = Tail(stack)
  /\ Return(Top.node)
  /\ UNCHANGED <<heap, preserve, resolved, ownerKey, requested, known, outcome>>

\* A member of the reference beside its target's: only the pass before
\* normalization copies those, mergeRefSiblings ignores them.
Merged(target, reference) ==
  [k \in Names |-> IF target[k] = NoNode /\ preserve THEN reference[k] ELSE target[k]]

\* Mutant of CopyOf: the copy belongs to the resource of the reference.
CopyOfReference(n, t) ==
  [Node(t) EXCEPT !.extra = TRUE, !.home = Node(n).home,
                  !.child = Merged(@, Node(n).child), !.was = Merged(@, Node(n).was)]

\* A reference with members of its own yields a copy of its target, which
\* belongs to the target's resource.
CopyOf(n, t) ==
  [Node(t) EXCEPT !.extra = TRUE,
                  !.child = Merged(@, Node(n).child), !.was = Merged(@, Node(n).was)]

\* A target, and a copy of it, is walked under the reference's own key.
MergeTarget ==
  /\ TargetKnown /\ Target(Top.node) # NoNode /\ Node(Top.node).extra
  /\ heap' = [heap EXCEPT !.nodes = Append(@, CopyOf(Top.node, Target(Top.node)))]
  /\ resolved' = Append(resolved, NoNode)
  /\ ownerKey' = Append(ownerKey, ownerKey[Top.node])
  /\ stack' = [stack EXCEPT ![1].at = "value"]
  /\ now' = [op |-> "walk", node |-> Len(heap.nodes) + 1]
  /\ UNCHANGED <<preserve, requested, known, outcome>>

WalkTarget ==
  /\ TargetKnown /\ Target(Top.node) # NoNode /\ ~Node(Top.node).extra
  /\ stack' = [stack EXCEPT ![1].at = "value"]
  /\ Walk(Target(Top.node), ownerKey[Top.node])
  /\ UNCHANGED <<heap, preserve, resolved, requested, known, outcome>>

ValueResolved ==
  /\ outcome = "running" /\ now.op = "return" /\ stack # <<>> /\ Top.at = "value"
  /\ Reserve(Top.node, now.node)
  /\ stack' = Tail(stack)
  /\ UNCHANGED <<heap, preserve, ownerKey, requested, known, now, outcome>>

Finish ==
  /\ outcome = "running" /\ now.op = "return" /\ stack = <<>>
  /\ outcome' = "done"
  /\ UNCHANGED <<heap, preserve, resolved, ownerKey, requested, known, stack, now>>

DerefNext ==
  \/ \E n \in 1 .. Len(heap.nodes) : Revisit(n) \/ VisitMembers(n) \/ FollowReference(n)
  \/ NextMember \/ MemberResolved \/ MembersDone
  \/ AskResource \/ RegisterResource \/ FetchFails \/ ResourceWalked
  \/ Unresolvable \/ MergeTarget \/ WalkTarget \/ ValueResolved
  \/ Finish

DerefDone == outcome # "running" /\ UNCHANGED derefVars
DerefSpec == DerefInit /\ [][DerefNext \/ DerefDone]_derefVars

\* A fetch settles and the call goes on.
DerefFairSpec == DerefSpec /\ WF_derefVars(DerefNext)
-----------------------------------------------------------------------------
(* What dereferencing means, told from the documents as they were authored. *)

Nodes == 1 .. Len(heap.nodes)
Base(n) == Node(n).base
Authored == {n \in Nodes : Base(n) = n}

\* The graph as it was parsed, where a reference of it points, and whether the
\* walk follows it and puts its target in its place.
AsAuthored == [n \in Authored |-> [child |-> Node(n).was]]
Pointer(n) == Trail(AsAuthored, Root(Resource(n)), Node(n).ref.path)
Points(n) == Pointer(n)[Len(Node(n).ref.path)]
Followed(n) == IsReference(n) /\ ~StaysReference(n)
Replaced(n) == Followed(n) /\ Points(n) # NoNode

\* No pointer passes through a reference on its way to its target: whether such
\* a pointer finds anything depends on what was replaced before.
PointersAreDirect ==
  \A n \in Authored : IsReference(n) =>
    \A i \in 1 .. Len(Node(n).ref.path) - 1 :
      LET m == Pointer(n)[i] IN m # NoNode => ~Replaced(m)

\* y stands for w: they are copies of the same node, or references join them.
StandsFor(y, w) ==
  LET joined == {<<x, Points(x)>> : x \in {x \in Authored : Replaced(x)}}
  IN \/ y = w
     \/ \A P \in SUBSET Authored :
          (\A e \in joined : e[1] \in P <=> e[2] \in P) => (Base(y) \in P <=> Base(w) \in P)

\* What the walk of a node may go on to, and all that it leads to.
Below(n) ==
  {Node(n).was[k] : k \in Names}
  \cup (IF Replaced(n) THEN {Points(n)} ELSE {})
  \cup (IF Followed(n) /\ Node(n).ref.to # Here THEN {Root(Resource(n))} ELSE {})
LeadsTo(n, m) ==
  LET steps == {<<x, Below(x) \ {NoNode}>> : x \in Authored \cup {n}}
  IN \A P \in SUBSET Authored :
       (\A s \in steps : s[1] \in P \cup {n} => s[2] \subseteq P) => m \in P

\* Replacing references changes what a document says nowhere: each member stands
\* for what its author wrote there, whatever had been rewritten when it was
\* looked up, and what the walk took for data of an authored node is left alone.
MeaningIsKept ==
  /\ \A n \in Nodes : \A k \in Names :
       LET y == Node(n).child[k] w == Node(n).was[k]
       IN /\ y = NoNode <=> w = NoNode
          /\ n \in Authored /\ k \in Data(n) => y = w
          /\ w # NoNode => StandsFor(y, w)
  /\ StandsFor(now.node, 1)

\* A node that needs no further walk: a reference with a target is left only if
\* its walk comes back to it.
Settled(n) == resolved[n] # NoNode /\ (Replaced(n) => LeadsTo(n, n))

\* The result is settled, and so are the members of every node that was walked,
\* but for those the walk took for data.
SurvivorsAreCircular ==
  /\ Settled(now.node)
  /\ \A n \in Nodes : resolved[n] # NoNode /\ ~Followed(n) =>
       \A k \in Names \ Data(n) : Node(n).child[k] # NoNode => Settled(Node(n).child[k])

\* The graph that dereference returns says what the document said, and keeps a
\* reference only where it must.
GraphIsFaithful == outcome = "done" /\ PointersAreDirect => MeaningIsKept /\ SurvivorsAreCircular

\* "Inside a map-of-schemas container ... every child key is a member NAME, not a
\* keyword" (util.ts:499-501), and a reference there is replaced as any other.  It
\* is not so in a map of the document that a reference elsewhere, under a key that
\* is no container, leads to first.
NamesAreNoKeywords ==
  outcome = "done" =>
    \A container \in Containers :
      LET n == Node(1).was[container]
      IN n # NoNode /\ ~IsReference(n) =>
           \A k \in Literals : Node(n).child[k] # NoNode => Settled(Node(n).child[k])

\* "Circular references are detected and left as shared object references (no
\* infinite recursion)" (deref.ts:8-9).  The calls that await one another are
\* no more than a document of n nodes has pairs of them; it is not so for a
\* reference with members of its own in a chain that has no end, which is
\* copied, and the copy followed, over and over.
NoInfiniteRecursion == Len(stack) <= Cardinality(Authored) * Cardinality(Authored)

\* dereference returns, even for documents that refer to one another: a call
\* never waits for a record that waits for the call.
Finishes == outcome = "running" ~> outcome # "running"
=============================================================================
