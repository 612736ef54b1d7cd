---------------------------- MODULE DiscoveryTree ----------------------------
(***************************************************************************)
(* The discovery tree (tree.py), as the operators both phases share.       *)
(*                                                                         *)
(* A tree is the sequence of its non-root nodes' parents: node n (n >= 1)  *)
(* has the n-th id in id order, parent[n] is the node it continues, and 0  *)
(* is the root.  Ids minted by add_child sort in creation order, so in a   *)
(* tree grown here every parent is older; a file written elsewhere may     *)
(* name a later one.                                                       *)
(***************************************************************************)
EXTENDS Naturals, Sequences, FiniteSets

Root == 0
Nodes(parent)       == 0 .. Len(parent)
Children(parent, v) == {n \in DOMAIN parent : parent[n] = v}

\* What add_child grows: every parent is older.
IsTree(parent) == \A n \in DOMAIN parent : parent[n] \in 0 .. n - 1

\* What _validate accepts of a file with one root: every parent is known, and the walk
\* down from the root reaches every node, which no parent cycle lets it.
Accepts(parent) ==
  LET reached[k \in Nodes(parent)] ==
        IF k = 0 THEN {Root}
        ELSE reached[k - 1] \cup {n \in DOMAIN parent : parent[n] \in reached[k - 1]}
  IN  /\ \A n \in DOMAIN parent : parent[n] \in Nodes(parent)
      /\ reached[Len(parent)] = Nodes(parent)

\* A(T): the root, and every leaf.  (eligible_nodes lists it in id order.)
IsLeaf(parent, v) == v # Root /\ Children(parent, v) = {}
Eligible(parent)  == {v \in Nodes(parent) : v = Root \/ IsLeaf(parent, v)}

\* How many attempts deep a node sits: the root is 0, a branch's first is 1.
Depth(parent, v) ==
  LET depth[n \in Nodes(parent)] == IF n = Root THEN 0 ELSE depth[parent[n]] + 1
  IN  depth[v]

\* What both drivers refuse of a batch: a node outside A(T), or a leaf named twice
\* (orchestrator.py _check_batch, replay.py ReplayRun._check).
\* (Seeded defect: a leaf may be named twice.)
IsActionRepeats(batch, eligible) == \A i \in DOMAIN batch : batch[i] \in eligible
IsAction(batch, eligible) ==
  /\ \A i \in DOMAIN batch : batch[i] \in eligible
  /\ \A i, j \in DOMAIN batch : batch[i] = batch[j] => i = j \/ batch[i] = Root

\* What keeps a recorded tree replayable: only the root ever branches.
OnlyRootBranches(parent) ==
  \A v \in Nodes(parent) \ {Root} : Cardinality(Children(parent, v)) <= 1

=============================================================================
