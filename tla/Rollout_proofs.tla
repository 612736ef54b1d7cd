--------------------------- MODULE Rollout_proofs ----------------------------
(***************************************************************************)
(* Theorems about Rollout, for any policy, number of workers, outcomes and *)
(* budgets: its type invariant and both invariants its run checks; and     *)
(* about Retrace, that a replay of the recording retraces it.              *)
(*                                                                         *)
(* Rows ties each attempt in hand to the node it will become, however far  *)
(* it is; Tree says what is recorded already; Legal what the batch in hand *)
(* may still add.  For the replay, LogInv says that the round log numbers  *)
(* the nodes in order, and ReplayInv how far into it the replay is.        *)
(***************************************************************************)
EXTENDS Retrace, Inductions, SequenceTheorems, FiniteSetTheorems, TLAPS

Slots  == [at : SlotStates, outcome : AllOutcomes \cup {Unknown}, left : Seq(Nat)]
Rounds == [k : Nat, selected : Seq(Nat), produced : Seq(Nat)]

Typed ==
  /\ plan \in Grids \cup {NoPlan}
  /\ parent \in Seq(Nat) /\ IsTree(parent)
  /\ outcome \in Seq(AllOutcomes) /\ Len(outcome) = Len(parent)
  /\ snapshot \in Seq(Seq(Nat)) /\ Len(snapshot) = Len(parent)
  /\ rounds \in Seq(Rounds) /\ evaluations \in Nat
  /\ pc \in {"plan", "select", "expand", "raised"} \cup StopReasons
  /\ batch \in 0 .. MaxBatch
  /\ scheduled \in Seq(Nodes(parent))
  /\ slots \in Seq(Slots) /\ Len(slots) = Len(scheduled)

\* Nothing is in hand between rounds, and nothing recorded before the first.
Between ==
  /\ pc \notin {"expand", "raised"} => scheduled = <<>>
  /\ pc = "plan" => parent = <<>> /\ plan = NoPlan

\* What a slot's workspace holds once its attempt has worked in it.
Left(i) == Append(Base(i), Number(i))

\* The attempts in hand: which have a workspace and what is in it, which have run.
Rows ==
  /\ workspaces = [n \in {Number(i) : i \in InFlight} |-> workspaces[n]]
  /\ \A i \in DOMAIN slots :
       /\ slots[i].at = "running" => workspaces[Number(i)] = Base(i)
       /\ slots[i].at = "attempted" => workspaces[Number(i)] = Left(i)
       /\ slots[i].at = "captured" => slots[i].left = Left(i)
       /\ slots[i].at \in {"attempted", "captured"} =>
            /\ Number(i) \in DOMAIN ran /\ ran[Number(i)] = slots[i].outcome
            /\ slots[i].outcome \in AllOutcomes
  /\ DOMAIN ran \subseteq 1 .. Attempts + Len(slots)
  /\ \A n \in DOMAIN ran : ran[n] \in AllOutcomes

\* What is recorded: every node its own attempt, every round its own nodes.
Tree ==
  /\ \A n \in DOMAIN parent :
       /\ n \in DOMAIN ran /\ outcome[n] = ran[n]
       /\ snapshot[n] = Append(IF parent[n] = Root THEN <<>> ELSE snapshot[parent[n]], n)
       /\ snapshot[n] \in Seq(1 .. n)
  /\ \A r \in DOMAIN rounds :
       /\ Len(rounds[r].selected) = Len(rounds[r].produced)
       /\ \A i \in DOMAIN rounds[r].selected :
            /\ rounds[r].produced[i] \in DOMAIN parent
            /\ parent[rounds[r].produced[i]] = rounds[r].selected[i]
  /\ evaluations = Cardinality({n \in DOMAIN outcome : outcome[n] # NoProposal})

Inv == Typed /\ Between /\ Rows /\ Tree

\* What may be attached: leaves once, the root as often as the grid has room for.
Legal ==
  /\ \A m, n \in DOMAIN parent : parent[m] = parent[n] => m = n \/ parent[m] = Root
  /\ \A i \in DOMAIN scheduled : scheduled[i] \in Offered
  /\ \A i, j \in DOMAIN scheduled : scheduled[i] = scheduled[j] => i = j \/ scheduled[i] = Root
  /\ Attempts + Len(scheduled) <= MaxNodes
  /\ Planned => /\ Opened + Cardinality({i \in DOMAIN scheduled : scheduled[i] = Root})
                     <= plan.branches
                /\ \A n \in DOMAIN parent : Depth(parent, n) <= plan.refinements + 1

-----------------------------------------------------------------------------
(* How deep a node is, by induction over the tree.                           *)

Deeper(d, p, n) == IF n = Root THEN 0 ELSE d[p[n]] + 1
Depths(p) == CHOOSE d : d = [n \in Nodes(p) |-> IF n = Root THEN 0 ELSE d[p[n]] + 1]

LEMMA DepthExists ==
  ASSUME NEW p \in Seq(Nat), IsTree(p)
  PROVE  \E d \in [Nodes(p) -> Nat] : \A n \in Nodes(p) : d[n] = Deeper(d, p, n)
<1>. DEFINE T == {k \in Nat : k <= Len(p) =>
                    \E d \in [0 .. k -> Nat] : \A n \in 0 .. k : d[n] = Deeper(d, p, n)}
<1>1. 0 \in T
  <2>. DEFINE d == [n \in 0 .. 0 |-> 0]
  <2>1. d \in [0 .. 0 -> Nat] /\ \A n \in 0 .. 0 : n = 0 /\ d[n] = 0
    OBVIOUS
  <2>2. \A n \in 0 .. 0 : d[n] = Deeper(d, p, n)
    BY <2>1 DEF Deeper, Root
  <2>. QED
    BY <2>1, <2>2
<1>2. ASSUME NEW k \in T PROVE k + 1 \in T
  <2>. SUFFICES k + 1 <= Len(p) =>
                  \E d \in [0 .. k + 1 -> Nat] : \A n \in 0 .. k + 1 : d[n] = Deeper(d, p, n)
    BY k + 1 \in Nat, Zenon
  <2>. HAVE k + 1 <= Len(p)
  <2>0. k \in Nat /\ Len(p) \in Nat
    OBVIOUS
  <2>1. PICK d \in [0 .. k -> Nat] : \A n \in 0 .. k : d[n] = Deeper(d, p, n)
    BY <2>0
  <2>2. \A n \in 1 .. k + 1 : p[n] \in 0 .. n - 1
    BY <2>0 DEF IsTree
  <2>. DEFINE e == [n \in 0 .. k + 1 |-> IF n = k + 1 THEN d[p[n]] + 1 ELSE d[n]]
  <2>3. p[k + 1] \in 0 .. k
    BY <2>0, <2>2
  <2>4. e \in [0 .. k + 1 -> Nat]
    BY <2>0, <2>1, <2>3
  <2>5. ASSUME NEW n \in 0 .. k + 1 PROVE e[n] = Deeper(e, p, n)
    <3>1. CASE n = k + 1
      BY <2>0, <2>3, <3>1 DEF Deeper, Root
    <3>2. CASE n = 0
      BY <2>0, <2>1, <3>2 DEF Deeper, Root
    <3>3. CASE n \in 1 .. k
      <4>1. p[n] \in 0 .. k
        BY <2>0, <2>2, <3>3
      <4>2. e[n] = d[n] /\ e[p[n]] = d[p[n]] /\ n # Root
        BY <2>0, <3>3, <4>1 DEF Root
      <4>3. Deeper(e, p, n) = e[p[n]] + 1 /\ Deeper(d, p, n) = d[p[n]] + 1
        BY <4>2, Zenon DEF Deeper
      <4>4. d[n] = Deeper(d, p, n)
        BY <2>0, <2>1, <3>3
      <4>. HIDE DEF e
      <4>. QED
        BY <4>2, <4>3, <4>4
    <3>. QED
      BY <2>0, <3>1, <3>2, <3>3
  <2>. QED
    BY <2>4, <2>5
<1>3. T = Nat
  <2>. HIDE DEF T
  <2>. QED
    BY <1>1, <1>2, Inductive, T \subseteq Nat DEF T
<1>4. Len(p) \in T
  BY <1>3
<1>. QED
  BY <1>4 DEF Nodes

\* The recursive function is defined, and the depth of a node is one more than its parent's.
LEMMA DepthIs ==
  ASSUME NEW p \in Seq(Nat), IsTree(p), NEW n \in Nodes(p)
  PROVE  /\ Depth(p, n) = IF n = Root THEN 0 ELSE Depth(p, p[n]) + 1
         /\ Depth(p, n) \in Nat
<1>1. PICK d \in [Nodes(p) -> Nat] : \A m \in Nodes(p) : d[m] = Deeper(d, p, m)
  BY DepthExists
<1>2. d = [m \in Nodes(p) |-> IF m = Root THEN 0 ELSE d[p[m]] + 1]
  BY <1>1 DEF Deeper
<1>3. Depths(p) = [m \in Nodes(p) |-> IF m = Root THEN 0 ELSE Depths(p)[p[m]] + 1]
  BY <1>2 DEF Depths
<1>4. \A v : Depth(p, v) = Depths(p)[v]
  BY DEF Depth, Depths
<1>5. \A m \in Nodes(p) : Depths(p)[m] = IF m = Root THEN 0 ELSE Depths(p)[p[m]] + 1
  BY <1>3
<1>6. \A m \in 1 .. Len(p) : p[m] \in 0 .. m - 1
  BY DEF IsTree
<1>. DEFINE T == {k \in Nat : \A m \in Nodes(p) : m <= k => Depths(p)[m] \in Nat}
<1>7. 0 \in T
  BY <1>3 DEF Nodes, Root
<1>8. ASSUME NEW k \in T PROVE k + 1 \in T
  <2>1. ASSUME k + 1 \in Nodes(p) PROVE Depths(p)[k + 1] \in Nat
    <3>1. p[k + 1] \in Nodes(p) /\ p[k + 1] <= k /\ k + 1 # Root
      BY <1>6, <2>1 DEF Nodes, Root
    <3>2. Depths(p)[p[k + 1]] \in Nat
      BY <3>1
    <3>. QED
      BY <1>5, <2>1, <3>1, <3>2
  <2>2. \A m \in Nodes(p) : m <= k + 1 => m <= k \/ m = k + 1
    BY DEF Nodes
  <2>. QED
    BY <2>1, <2>2
<1>9. T = Nat
  <2>. HIDE DEF T
  <2>. QED
    BY <1>7, <1>8, Inductive, T \subseteq Nat DEF T
<1>10. n \in T /\ n <= n
  BY <1>9 DEF Nodes
<1>. QED
  BY <1>3, <1>4, <1>10

\* Attaching nodes leaves those there where they are.
LEMMA DepthStays ==
  ASSUME NEW p \in Seq(Nat), IsTree(p), NEW q \in Seq(Nat), IsTree(q),
         Len(p) <= Len(q), \A n \in DOMAIN p : q[n] = p[n], NEW v \in Nodes(p)
  PROVE  Depth(q, v) = Depth(p, v)
<1>. DEFINE T == {k \in Nat : \A m \in Nodes(p) : m <= k => Depth(q, m) = Depth(p, m)}
<1>0. Nodes(p) \subseteq Nodes(q) /\ 0 \in Nodes(p)
  BY DEF Nodes
<1>1. 0 \in T
  BY <1>0, DepthIs DEF Nodes, Root
<1>2. ASSUME NEW k \in T PROVE k + 1 \in T
  <2>1. ASSUME k + 1 \in Nodes(p) PROVE Depth(q, k + 1) = Depth(p, k + 1)
    <3>1. p[k + 1] \in Nodes(p) /\ p[k + 1] <= k /\ q[k + 1] = p[k + 1]
      BY <2>1 DEF Nodes, IsTree
    <3>2. Depth(q, p[k + 1]) = Depth(p, p[k + 1])
      BY <3>1
    <3>3. k + 1 # Root /\ k + 1 \in Nodes(q)
      BY <1>0, <2>1 DEF Root
    <3>4. Depth(p, k + 1) = Depth(p, p[k + 1]) + 1
      BY <2>1, <3>3, DepthIs
    <3>5. Depth(q, k + 1) = Depth(q, q[k + 1]) + 1
      BY <3>3, DepthIs
    <3>. QED
      BY <3>1, <3>2, <3>4, <3>5
  <2>2. \A m \in Nodes(p) : m <= k + 1 => m <= k \/ m = k + 1
    BY DEF Nodes
  <2>. QED
    BY <2>1, <2>2
<1>3. T = Nat
  <2>. HIDE DEF T
  <2>. QED
    BY <1>1, <1>2, Inductive, T \subseteq Nat DEF T
<1>4. v \in Nat /\ v <= v
  BY DEF Nodes
<1>5. v \in T
  <2>. HIDE DEF T
  <2>. QED
    BY <1>3, <1>4
<1>. QED
  BY <1>4, <1>5

-----------------------------------------------------------------------------
(* Counting.                                                                 *)

\* Numbering from further on changes no count.
LEMMA ShiftedCount ==
  ASSUME NEW k \in Nat, NEW T \in SUBSET (0 .. k), NEW a \in Nat
  PROVE  /\ IsFiniteSet({a + i : i \in T})
         /\ Cardinality({a + i : i \in T}) = Cardinality(T)
<1>. DEFINE f == [i \in T |-> a + i]
            U == {a + i : i \in T}
<1>1. f \in Bijection(T, U)
  BY DEF Bijection, Injection, IsInjective, Surjection
<1>2. ExistsBijection(T, U)
  BY <1>1 DEF ExistsBijection
<1>. HIDE DEF U
<1>3. IsFiniteSet(U) /\ Cardinality(U) = Cardinality(T)
  BY <1>2, Finitely, FS_Bijection
<1>. QED
  BY <1>3 DEF U

Upto(kept, i) == {j \in kept : j <= i}

LEMMA UptoIs ==
  ASSUME NEW k \in Nat, NEW kept \in SUBSET (1 .. k), NEW i \in 0 .. k
  PROVE  /\ IsFiniteSet(Upto(kept, i)) /\ Cardinality(Upto(kept, i)) \in Nat
         /\ Cardinality(Upto(kept, 0)) = 0 /\ Upto(kept, k) = kept
         /\ i # 0 /\ i \in kept => Cardinality(Upto(kept, i)) = Cardinality(Upto(kept, i - 1)) + 1
         /\ i # 0 /\ i \notin kept => Cardinality(Upto(kept, i)) = Cardinality(Upto(kept, i - 1))
<1>1. \A j \in kept : j \in Nat /\ 1 <= j /\ j <= k
  OBVIOUS
<1>2. ASSUME NEW h PROVE IsFiniteSet(Upto(kept, h)) /\ Cardinality(Upto(kept, h)) \in Nat
  <2>1. \A j \in Upto(kept, h) : j \in kept
    BY DEF Upto
  <2>2. \A j \in kept : j \in 0 .. k
    BY <1>1
  <2>3. Upto(kept, h) \in SUBSET (0 .. k)
    BY <2>1, <2>2
  <2>. QED
    BY <2>3, Finitely
<1>3. Cardinality(Upto(kept, 0)) = 0
  <2>1. \A j \in kept : ~(j <= 0)
    BY <1>1
  <2>2. Upto(kept, 0) = {}
    BY <2>1 DEF Upto
  <2>. QED
    BY <2>2, FS_EmptySet
<1>4. Upto(kept, k) = kept
  <2>1. \A j \in kept : j <= k
    BY <1>1
  <2>. QED
    BY <2>1 DEF Upto
<1>5. ASSUME i # 0
      PROVE  Cardinality(Upto(kept, i))
               = Cardinality(Upto(kept, i - 1)) + IF i \in kept THEN 1 ELSE 0
  <2>1. \A j \in kept : j <= i <=> j <= i - 1 \/ j = i
    BY <1>1, <1>5
  <2>2. CASE i \in kept
    <3>1. Upto(kept, i) = Upto(kept, i - 1) \cup {i}
      BY <2>1, <2>2 DEF Upto
    <3>2. ~(i <= i - 1)
      BY <1>5
    <3>3. i \notin Upto(kept, i - 1)
      BY <3>2 DEF Upto
    <3>. QED
      BY <1>2, <2>2, <3>1, <3>3, FS_AddElement
  <2>3. CASE i \notin kept
    <3>1. Upto(kept, i) = Upto(kept, i - 1)
      BY <2>1, <2>3 DEF Upto
    <3>. QED
      BY <1>2, <2>3, <3>1
  <2>. QED
    BY <2>2, <2>3
<1>. QED
  BY <1>2, <1>3, <1>4, <1>5

\* The rank of a place among those kept runs through all numbers up to their count.
LEMMA Ranks ==
  ASSUME NEW k \in Nat, NEW kept \in SUBSET (1 .. k), NEW r \in 1 .. Cardinality(kept)
  PROVE  \E i \in kept : Cardinality(Upto(kept, i)) = r
<1>. DEFINE C(i) == Cardinality(Upto(kept, i))
            T == {i \in 1 .. k : r <= C(i)}
<1>1. \A j \in kept : j \in Nat /\ 1 <= j /\ j <= k
  OBVIOUS
<1>2. kept \in SUBSET (0 .. k)
  BY <1>1
<1>3. Cardinality(kept) \in Nat /\ IsFiniteSet(kept)
  BY <1>2, Finitely
<1>4. r \in Nat /\ 1 <= r /\ r <= Cardinality(kept)
  BY <1>3
<1>5. kept # {}
  BY <1>3, <1>4, FS_EmptySet
<1>6. k \in 1 .. k /\ C(k) = Cardinality(kept)
  BY <1>1, <1>5, UptoIs
<1>7. k \in T /\ T \in SUBSET Nat
  BY <1>4, <1>6
<1>8. \E i \in T : \A j \in T : i <= j
  <2>. HIDE DEF T
  <2>. QED
    BY <1>7, Least
<1>9. PICK i \in T : \A j \in T : i <= j
  BY <1>8
<1>10. i \in 1 .. k /\ r <= C(i) /\ i \in 0 .. k /\ i - 1 \in 0 .. k /\ i # 0 /\ 0 \in 0 .. k
  OBVIOUS
<1>. HIDE DEF T
<1>11. C(i) \in Nat /\ C(i - 1) \in Nat
  BY <1>10, UptoIs
<1>12. C(i - 1) < r
  <2>1. CASE i = 1
    <3>1. C(0) = 0
      BY <1>10, UptoIs
    <3>. QED
      BY <1>4, <2>1, <3>1
  <2>2. CASE i # 1
    <3>1. i - 1 \in 1 .. k /\ ~(i <= i - 1)
      BY <1>10, <2>2
    <3>2. i - 1 \notin T
      BY <1>9, <3>1
    <3>3. ~(r <= C(i - 1))
      BY <3>1, <3>2 DEF T
    <3>. QED
      BY <1>4, <1>11, <3>3
  <2>. QED
    BY <2>1, <2>2
<1>13. C(i) = IF i \in kept THEN C(i - 1) + 1 ELSE C(i - 1)
  <2>1. CASE i \in kept
    BY <1>10, <2>1, UptoIs
  <2>2. CASE i \notin kept
    BY <1>10, <2>2, UptoIs
  <2>. QED
    BY <2>1, <2>2
<1>. QED
  BY <1>4, <1>10, <1>11, <1>12, <1>13

-----------------------------------------------------------------------------
(* What is admitted of a batch.                                              *)

Kept(s) == {i \in DOMAIN s : Planned /\ s[i] = Root => RootsUpTo(s, i) <= plan.branches - Opened}
Place(s, r) == CHOOSE i \in Kept(s) : Cardinality(Upto(Kept(s), i)) = r

\* Each admitted selection is one of the batch's, no two of them the same one.
LEMMA AdmittedIs ==
  ASSUME NEW k \in Nat, NEW s, DOMAIN s = 1 .. k
  PROVE  /\ Cardinality(Kept(s)) \in Nat
         /\ Admitted(s) = [r \in 1 .. Cardinality(Kept(s)) |-> s[Place(s, r)]]
         /\ \A r \in 1 .. Cardinality(Kept(s)) : Place(s, r) \in Kept(s)
         /\ \A q, r \in 1 .. Cardinality(Kept(s)) : Place(s, q) = Place(s, r) => q = r
<1>1. Kept(s) \in SUBSET (1 .. k)
  BY DEF Kept
<1>2. Cardinality(Kept(s)) \in Nat
  <2>1. Kept(s) \in SUBSET (0 .. k)
    BY <1>1
  <2>. QED
    BY <2>1, Finitely
<1>3. ASSUME NEW r \in 1 .. Cardinality(Kept(s))
      PROVE  Place(s, r) \in Kept(s) /\ Cardinality(Upto(Kept(s), Place(s, r))) = r
  <2>1. \E i \in Kept(s) : Cardinality(Upto(Kept(s), i)) = r
    BY <1>1, Ranks
  <2>. QED
    BY <2>1 DEF Place
<1>4. Admitted(s) = [r \in 1 .. Cardinality(Kept(s)) |-> s[Place(s, r)]]
  BY Zenon DEF Admitted, Kept, Place, Upto
<1>. QED
  BY <1>2, <1>3, <1>4

\* A grid's root is selected no more often than it has branches to open.
LEMMA RootsKept ==
  ASSUME NEW k \in Nat, NEW s, DOMAIN s = 1 .. k, Planned, NEW b \in Nat,
         plan.branches - Opened = b
  PROVE  /\ IsFiniteSet({i \in Kept(s) : s[i] = Root})
         /\ Cardinality({i \in Kept(s) : s[i] = Root}) \in 0 .. b
<1>. DEFINE roots == {i \in Kept(s) : s[i] = Root}
<1>. SUFFICES IsFiniteSet(roots) /\ Cardinality(roots) \in 0 .. b
  OBVIOUS
<1>1. roots \in SUBSET (0 .. k) /\ roots \in SUBSET (1 .. k)
  <2>1. \A i \in roots : i \in 1 .. k /\ i \in 0 .. k
    BY DEF Kept
  <2>. QED
    BY <2>1
<1>. HIDE DEF roots
<1>2. IsFiniteSet(roots) /\ Cardinality(roots) \in Nat
  BY <1>1, Finitely
<1>3. CASE roots = {}
  BY <1>2, <1>3, FS_EmptySet
<1>4. CASE roots # {}
  <2>1. PICK m \in roots : \A n \in roots : n <= m
    BY <1>1, <1>4, Greatest
  <2>. DEFINE upto == {j \in 1 .. m : s[j] = Root}
  <2>2. m \in 1 .. k /\ m \in Nat
    BY <1>1
  <2>3. upto \in SUBSET (0 .. m)
    BY <2>2
  <2>4. IsFiniteSet(upto) /\ Cardinality(upto) \in Nat
    <3>. HIDE DEF upto
    <3>. QED
      BY <2>2, <2>3, Finitely
  <2>5. Cardinality(upto) <= b
    <3>1. m \in Kept(s) /\ s[m] = Root
      BY DEF roots
    <3>2. RootsUpTo(s, m) <= b
      BY <3>1 DEF Kept
    <3>. QED
      BY <3>2 DEF RootsUpTo
  <2>6. roots \in SUBSET upto
    <3>1. \A j \in roots : j \in 1 .. k /\ j <= m /\ s[j] = Root
      BY <1>1, <2>1 DEF roots
    <3>. QED
      BY <2>2, <3>1
  <2>7. Cardinality(roots) <= Cardinality(upto)
    BY <2>4, <2>6, FS_Subset
  <2>. QED
    BY <1>2, <2>4, <2>5, <2>7
<1>. QED
  BY <1>3, <1>4

LEMMA OpenedIs ==
  ASSUME Typed, NEW v
  PROVE  /\ IsFiniteSet(Children(parent, v)) /\ Cardinality(Children(parent, v)) \in Nat
         /\ Children(parent, v) \subseteq 1 .. Len(parent)
<1>1. Len(parent) \in Nat /\ DOMAIN parent = 1 .. Len(parent)
  BY DEF Typed
<1>2. \A n \in Children(parent, v) : n \in 1 .. Len(parent) /\ n \in 0 .. Len(parent)
  BY <1>1 DEF Children
<1>3. Children(parent, v) \in SUBSET (0 .. Len(parent))
  BY <1>2
<1>. QED
  BY <1>1, <1>2, <1>3, Finitely

Chosen(s) == Truncated(Admitted(s))

\* The round a batch comes to is legal, and fits the grid and the nodes left.
LEMMA ChosenIs ==
  ASSUME Typed, NEW s \in Answers, IsAction(s, Offered), Attempts < MaxNodes
  PROVE  /\ Chosen(s) \in Seq(Nodes(parent))
         /\ Attempts + Len(Chosen(s)) <= MaxNodes
         /\ \A i \in DOMAIN Chosen(s) : Chosen(s)[i] \in Offered
         /\ \A i, j \in DOMAIN Chosen(s) : Chosen(s)[i] = Chosen(s)[j] => i = j \/ Chosen(s)[i] = Root
         /\ Planned /\ Opened <= plan.branches =>
              Opened + Cardinality({i \in DOMAIN Chosen(s) : Chosen(s)[i] = Root}) <= plan.branches
<1>1. PICK k \in 0 .. MaxBatch : s \in [1 .. k -> 0 .. Attempts + 1]
  BY DEF Answers
<1>2. k \in Nat /\ DOMAIN s = 1 .. k /\ MaxNodes \in Nat /\ Attempts \in Nat
  BY <1>1, RolloutConfig DEF Typed, Attempts
<1>. DEFINE c == Cardinality(Kept(s))
            a == Admitted(s)
            n == Shortest(c, MaxNodes - Attempts)
<1>3. /\ c \in Nat /\ a = [r \in 1 .. c |-> s[Place(s, r)]]
      /\ \A r \in 1 .. c : Place(s, r) \in Kept(s) /\ Place(s, r) \in DOMAIN s
      /\ \A q, r \in 1 .. c : Place(s, q) = Place(s, r) => q = r
  BY <1>2, AdmittedIs DEF Kept
<1>4. \A i \in DOMAIN s : s[i] \in Offered /\ s[i] \in Nodes(parent)
  BY DEF IsAction, Offered, Eligible
<1>. HIDE DEF c, a
<1>5. a \in Seq(Nodes(parent)) /\ Len(a) = c
  BY <1>3, <1>4
<1>6. n \in Nat /\ n <= c /\ n <= MaxNodes - Attempts
  BY <1>2, <1>3 DEF Shortest
<1>7. Chosen(s) = SubSeq(a, 1, n)
  BY <1>5 DEF Chosen, Truncated, a
<1>. HIDE DEF n
<1>8. /\ Chosen(s) \in Seq(Nodes(parent)) /\ Len(Chosen(s)) = n /\ DOMAIN Chosen(s) = 1 .. n
      /\ \A i \in 1 .. n : Chosen(s)[i] = a[i]
  <2>1. \A i \in 1 .. n : a[i] \in Nodes(parent)
    BY <1>3, <1>5, <1>6
  <2>. QED
    BY <1>6, <1>7, <2>1, SubSeqProperties
<1>9. \A i \in 1 .. n : /\ i \in 1 .. c /\ Chosen(s)[i] = s[Place(s, i)]
                        /\ Place(s, i) \in Kept(s) /\ Place(s, i) \in DOMAIN s
  <2>1. \A i \in 1 .. n : i \in 1 .. c
    BY <1>3, <1>6
  <2>2. \A i \in 1 .. c : a[i] = s[Place(s, i)]
    BY <1>3
  <2>. QED
    BY <1>3, <1>8, <2>1, <2>2, Zenon
<1>10. \A i, j \in DOMAIN Chosen(s) : Chosen(s)[i] = Chosen(s)[j] => i = j \/ Chosen(s)[i] = Root
  BY <1>3, <1>8, <1>9 DEF IsAction
<1>11. ASSUME Planned, Opened <= plan.branches
       PROVE  Opened + Cardinality({i \in DOMAIN Chosen(s) : Chosen(s)[i] = Root}) <= plan.branches
  <2>. DEFINE roots == {i \in Kept(s) : s[i] = Root}
              mine  == {i \in DOMAIN Chosen(s) : Chosen(s)[i] = Root}
              f     == [i \in mine |-> Place(s, i)]
  <2>1. Opened \in Nat /\ plan.branches \in Nat
    <3>1. plan \in Grids
      BY <1>11 DEF Typed, Planned
    <3>. QED
      BY <3>1, OpenedIs, RolloutConfig DEF Opened, Grids
  <2>. DEFINE b == plan.branches - Opened
  <2>2. b \in Nat
    BY <1>11, <2>1
  <2>3. IsFiniteSet(roots) /\ Cardinality(roots) \in 0 .. b
    BY <1>2, <1>11, <2>2, RootsKept
  <2>4. \A i \in mine : Place(s, i) \in roots
    BY <1>8, <1>9
  <2>5. \A i, j \in mine : Place(s, i) = Place(s, j) => i = j
    BY <1>3, <1>8, <1>9
  <2>6. f \in Injection(mine, roots)
    <3>. HIDE DEF mine, roots
    <3>. QED
      BY <2>4, <2>5 DEF Injection, IsInjective
  <2>7. IsFiniteSet(mine) /\ Cardinality(mine) <= Cardinality(roots)
    <3>. HIDE DEF mine, roots, f
    <3>. QED
      BY <2>3, <2>6, FS_Injection
  <2>8. Cardinality(mine) \in Nat
    <3>. HIDE DEF mine
    <3>. QED
      BY <2>7, FS_CardinalityType
  <2>. QED
    <3>. HIDE DEF mine, roots
    <3>1. Cardinality(mine) <= b
      BY <2>2, <2>3, <2>7, <2>8
    <3>2. Opened + Cardinality(mine) <= plan.branches
      BY <2>1, <2>8, <3>1
    <3>. QED
      BY <3>2 DEF mine
<1>. QED
  BY <1>2, <1>4, <1>6, <1>8, <1>9, <1>10, <1>11

-----------------------------------------------------------------------------
(* Nothing is recorded yet, and a stop changes only where the loop is.       *)

LEMMA Begins == Init => Inv /\ Legal
<1>. SUFFICES ASSUME Init PROVE Inv /\ Legal
  OBVIOUS
<1>1. /\ parent = <<>> /\ outcome = <<>> /\ rounds = <<>> /\ evaluations = 0 /\ pc = "plan"
      /\ batch = 0 /\ scheduled = <<>> /\ slots = <<>> /\ workspaces = <<>> /\ snapshot = <<>>
      /\ ran = <<>> /\ plan = NoPlan
  BY DEF Init
<1>2. Typed /\ Between
  BY <1>1, RolloutConfig DEF Typed, Between, IsTree, Nodes, StopReasons
<1>3. Rows
  <2>1. {Number(i) : i \in InFlight} = {}
    BY <1>1 DEF InFlight
  <2>2. workspaces = [n \in {Number(i) : i \in InFlight} |-> workspaces[n]]
    BY <1>1, <2>1
  <2>. QED
    BY <1>1, <2>2 DEF Rows, Attempts
<1>4. Tree
  <2>1. {n \in DOMAIN outcome : outcome[n] # NoProposal} = {}
    BY <1>1
  <2>. QED
    BY <1>1, <2>1, FS_EmptySet DEF Tree
<1>5. Legal
  BY <1>1, RolloutConfig DEF Legal, Planned, Attempts
<1>. QED
  BY <1>2, <1>3, <1>4, <1>5 DEF Inv

LEMMA RowsStay ==
  ASSUME Rows, UNCHANGED <<parent, snapshot, scheduled, slots, workspaces, ran>>
  PROVE  Rows'
<1>1. InFlight' = InFlight /\ Attempts' = Attempts
  BY DEF InFlight, Attempts
<1>2. \A i : Number(i)' = Number(i) /\ Base(i)' = Base(i) /\ Left(i)' = Left(i)
  BY <1>1 DEF Number, Base, Left
<1>3. {Number(i) : i \in InFlight}' = {Number(i) : i \in InFlight}
  BY <1>1, <1>2
<1>. QED
  BY <1>1, <1>2, <1>3 DEF Rows

LEMMA StopKeeps ==
  ASSUME Inv, Legal, NEW reason \in StopReasons \cup {"raised"}, Stop(reason),
         reason = "raised" \/ scheduled = <<>>
  PROVE  Inv' /\ Legal'
<1>1. pc' = reason /\ UNCHANGED <<treeVars, batch, scheduled, slots, workspaces, ran>>
  BY DEF Stop
<1>2. Typed'
  BY <1>1 DEF Inv, Typed, treeVars
<1>3. Between'
  BY <1>1 DEF Inv, Between, treeVars, StopReasons
<1>4. Rows'
  BY <1>1, RowsStay DEF Inv, treeVars
<1>5. Tree'
  BY <1>1 DEF Inv, Tree, treeVars
<1>6. Legal'
  BY <1>1 DEF Legal, treeVars, Attempts, Offered, Opened, Planned
<1>. QED
  BY <1>2, <1>3, <1>4, <1>5, <1>6 DEF Inv

LEMMA PlanGridKeeps ==
  ASSUME Inv, Legal, NEW grid \in Grids \cup {NoPlan}, PlanGrid(grid)
  PROVE  Inv' /\ Legal'
<1>1. /\ pc = "plan" /\ plan' = grid /\ pc' = "select" /\ parent = <<>> /\ scheduled = <<>>
      /\ UNCHANGED <<parent, outcome, rounds, evaluations, snapshot, batch, scheduled, slots,
                     workspaces, ran>>
  BY DEF PlanGrid, Inv, Between
<1>2. Typed'
  BY <1>1 DEF Inv, Typed
<1>3. Between'
  BY <1>1 DEF Between
<1>4. Rows'
  BY <1>1, RowsStay DEF Inv
<1>5. Tree'
  BY <1>1 DEF Inv, Tree
<1>6. Legal'
  <2>1. Opened' = 0
    <3>1. Children(parent, Root)' = {}
      BY <1>1 DEF Children
    <3>. QED
      BY <3>1, FS_EmptySet DEF Opened
  <2>2. {i \in DOMAIN scheduled : scheduled[i] = Root}' = {}
    BY <1>1
  <2>3. Cardinality({i \in DOMAIN scheduled : scheduled[i] = Root})' = 0
    BY <2>2, FS_EmptySet
  <2>4. Planned' => plan'.branches \in Nat
    BY <1>1, RolloutConfig DEF Planned, Grids
  <2>5. Planned' => /\ Opened' + Cardinality({i \in DOMAIN scheduled : scheduled[i] = Root})'
                          <= plan'.branches
                    /\ \A n \in DOMAIN parent' : FALSE
    BY <1>1, <2>1, <2>3, <2>4
  <2>. QED
    BY <1>1, <2>5 DEF Legal, Attempts
<1>. QED
  BY <1>2, <1>3, <1>4, <1>5, <1>6 DEF Inv

\* A round is in hand: every attempt queued, no workspace yet.
LEMMA SelectKeeps ==
  ASSUME Inv, Legal, NEW s \in Answers, Select(s)
  PROVE  Inv' /\ Legal'
<1>1. /\ pc = "select" /\ Attempts < MaxNodes /\ IsAction(s, Offered) /\ batch' = Len(s)
      /\ scheduled' = Chosen(s) /\ pc' = "expand"
      /\ slots' = [i \in DOMAIN scheduled' |-> [at |-> "queued", outcome |-> Unknown, left |-> <<>>]]
      /\ UNCHANGED <<plan, parent, outcome, rounds, evaluations, snapshot, workspaces, ran>>
  BY DEF Select, MaySelect, Chosen, treeVars
<1>2. Typed /\ scheduled = <<>> /\ slots = <<>> /\ Rows /\ Tree
  <2>1. Typed /\ Rows /\ Tree /\ scheduled = <<>>
    BY <1>1 DEF Inv, Between
  <2>2. slots \in Seq(Slots) /\ Len(slots) = 0
    BY <2>1 DEF Typed
  <2>. QED
    BY <2>1, <2>2
<1>3. /\ Chosen(s) \in Seq(Nodes(parent))
      /\ Attempts + Len(Chosen(s)) <= MaxNodes
      /\ \A i \in DOMAIN Chosen(s) : Chosen(s)[i] \in Offered
      /\ \A i, j \in DOMAIN Chosen(s) : Chosen(s)[i] = Chosen(s)[j] => i = j \/ Chosen(s)[i] = Root
      /\ Planned /\ Opened <= plan.branches =>
           Opened + Cardinality({i \in DOMAIN Chosen(s) : Chosen(s)[i] = Root}) <= plan.branches
  BY <1>1, <1>2, ChosenIs
<1>4. PICK k \in 0 .. MaxBatch : s \in [1 .. k -> 0 .. Attempts + 1]
  BY DEF Answers
<1>5. Len(s) \in 0 .. MaxBatch
  BY <1>4, RolloutConfig
<1>6. /\ slots' \in Seq(Slots) /\ Len(slots') = Len(scheduled') /\ DOMAIN slots' = DOMAIN scheduled'
      /\ \A i \in DOMAIN slots' : slots'[i].at = "queued"
  <2>1. DOMAIN scheduled' = 1 .. Len(scheduled') /\ Len(scheduled') \in Nat
    BY <1>1, <1>3
  <2>2. [at |-> "queued", outcome |-> Unknown, left |-> <<>>] \in Slots
    BY DEF Slots, SlotStates
  <2>. QED
    BY <1>1, <2>1, <2>2
<1>7. Typed'
  BY <1>1, <1>2, <1>3, <1>5, <1>6 DEF Typed
<1>8. Between'
  BY <1>1 DEF Between
<1>9. Rows'
  <2>1. InFlight = {} /\ InFlight' = {}
    BY <1>2, <1>6 DEF InFlight
  <2>2. {Number(i) : i \in InFlight} = {} /\ {Number(i) : i \in InFlight}' = {}
    BY <2>1
  <2>3. workspaces = [n \in {} |-> workspaces[n]]
    BY <1>2, <2>2 DEF Rows
  <2>4. workspaces' = [n \in {Number(i) : i \in InFlight}' |-> workspaces'[n]]
    BY <1>1, <2>2, <2>3
  <2>5. DOMAIN ran' \subseteq 1 .. Attempts' + Len(slots')
    <3>1. Attempts \in Nat /\ Len(slots') \in Nat /\ Attempts' = Attempts /\ Len(slots) = 0
      BY <1>1, <1>2, <1>6 DEF Typed, Attempts
    <3>2. DOMAIN ran \subseteq 1 .. Attempts
      BY <1>2, <3>1 DEF Rows
    <3>. QED
      BY <1>1, <3>1, <3>2
  <2>6. \A n \in DOMAIN ran' : ran'[n] \in AllOutcomes
    BY <1>1, <1>2 DEF Rows
  <2>7. \A i \in DOMAIN slots' : slots'[i].at \notin {"running", "attempted", "captured"}
    BY <1>6
  <2>. QED
    BY <2>4, <2>5, <2>6, <2>7 DEF Rows
<1>10. Tree'
  BY <1>1, <1>2 DEF Tree
<1>11. Legal'
  <2>1. /\ Attempts' = Attempts /\ Offered' = Offered /\ Planned' = Planned /\ Opened' = Opened
        /\ plan' = plan /\ parent' = parent /\ scheduled' = Chosen(s)
    BY <1>1 DEF Attempts, Offered, Planned, Opened
  <2>2. ASSUME Planned PROVE Opened <= plan.branches
    <3>1. {i \in DOMAIN scheduled : scheduled[i] = Root} = {}
      BY <1>2
    <3>2. Cardinality({i \in DOMAIN scheduled : scheduled[i] = Root}) = 0
      BY <3>1, FS_EmptySet
    <3>3. Opened \in Nat
      BY <1>2, OpenedIs DEF Opened
    <3>. QED
      BY <2>2, <3>2, <3>3 DEF Legal
  <2>3. Cardinality({i \in DOMAIN scheduled : scheduled[i] = Root})'
          = Cardinality({i \in DOMAIN Chosen(s) : Chosen(s)[i] = Root})
    BY <2>1
  <2>. QED
    BY <1>3, <2>1, <2>2, <2>3 DEF Legal
<1>. QED
  BY <1>7, <1>8, <1>9, <1>10, <1>11 DEF Inv

-----------------------------------------------------------------------------
(* Working an attempt changes neither the tree nor what is selected.         *)

\* What a worker's step leaves alone, and what it comes to for one slot.
Works(i) ==
  /\ pc = "expand" /\ i \in DOMAIN slots
  /\ UNCHANGED <<plan, parent, outcome, rounds, evaluations, snapshot, pc, batch, scheduled>>
  /\ slots' \in Seq(Slots) /\ Len(slots') = Len(slots)
  /\ \A j \in DOMAIN slots : j # i => slots'[j] = slots[j]

\* Every slot has a number, and no two the same.
LEMMA Numbers ==
  ASSUME Typed
  PROVE  /\ Attempts \in Nat /\ DOMAIN slots = 1 .. Len(slots) /\ DOMAIN parent = 1 .. Attempts
         /\ \A i \in DOMAIN slots : Number(i) \in Nat \ DOMAIN parent
         /\ \A i \in DOMAIN slots : Number(i) \in 1 .. Attempts + Len(slots)
         /\ \A i, j \in DOMAIN slots : Number(i) = Number(j) => i = j
BY DEF Typed, Attempts, Number

\* A slot's step keeps Rows if it leaves the other slots' workspaces and results alone.
LEMMA RowsKept ==
  ASSUME Inv, NEW i, Works(i),
         workspaces' = [n \in {Number(j) : j \in InFlight'} |-> workspaces'[n]],
         \A j \in InFlight : j # i => workspaces'[Number(j)] = workspaces[Number(j)],
         slots'[i].at = "running" => workspaces'[Number(i)] = Base(i),
         slots'[i].at = "attempted" => workspaces'[Number(i)] = Left(i),
         slots'[i].at = "captured" => slots'[i].left = Left(i),
         slots'[i].at \in {"attempted", "captured"} =>
           /\ Number(i) \in DOMAIN ran' /\ ran'[Number(i)] = slots'[i].outcome
           /\ slots'[i].outcome \in AllOutcomes,
         DOMAIN ran \subseteq DOMAIN ran', DOMAIN ran' \subseteq DOMAIN ran \cup {Number(i)},
         \A n \in DOMAIN ran : n # Number(i) => ran'[n] = ran[n],
         \A n \in DOMAIN ran' : ran'[n] \in AllOutcomes
  PROVE  Rows'
<1>1. Typed /\ Rows
  BY DEF Inv
<1>2. \A j : Number(j)' = Number(j) /\ Base(j)' = Base(j) /\ Left(j)' = Left(j)
  BY DEF Works, Number, Attempts, Base, Left
<1>3. Attempts' = Attempts /\ Len(slots') = Len(slots) /\ DOMAIN slots' = DOMAIN slots
  BY <1>1 DEF Works, Attempts, Typed
<1>4. {Number(j) : j \in InFlight}' = {Number(j) : j \in InFlight'}
  BY <1>2
<1>5. ASSUME NEW j \in DOMAIN slots', j # i
      PROVE  /\ slots'[j].at = "running" => workspaces'[Number(j)] = Base(j)
             /\ slots'[j].at = "attempted" => workspaces'[Number(j)] = Left(j)
             /\ slots'[j].at = "captured" => slots'[j].left = Left(j)
             /\ slots'[j].at \in {"attempted", "captured"} =>
                  /\ Number(j) \in DOMAIN ran' /\ ran'[Number(j)] = slots'[j].outcome
                  /\ slots'[j].outcome \in AllOutcomes
  <2>1. slots'[j] = slots[j] /\ j \in DOMAIN slots /\ i \in DOMAIN slots
    BY <1>3, <1>5 DEF Works
  <2>2. Number(j) # Number(i)
    BY <1>1, <1>5, <2>1, Numbers
  <2>3. slots[j].at \in {"running", "attempted"} => workspaces'[Number(j)] = workspaces[Number(j)]
    BY <1>5, <2>1 DEF InFlight
  <2>. QED
    BY <1>1, <2>1, <2>2, <2>3 DEF Rows
<1>6. DOMAIN ran' \subseteq 1 .. Attempts' + Len(slots')
  <2>1. Number(i) \in 1 .. Attempts + Len(slots)
    BY <1>1, Numbers DEF Works
  <2>. QED
    BY <1>1, <1>3, <2>1 DEF Rows
<1>. QED
  BY <1>2, <1>4, <1>5, <1>6 DEF Rows

\* And everything else with it.
LEMMA WorkKeeps ==
  ASSUME Inv, Legal, NEW i, Works(i), Rows',
         \A n \in DOMAIN parent : n \in DOMAIN ran' /\ ran'[n] = ran[n]
  PROVE  Inv' /\ Legal'
<1>1. /\ UNCHANGED <<plan, parent, outcome, rounds, evaluations, snapshot, pc, batch, scheduled>>
      /\ slots' \in Seq(Slots) /\ Len(slots') = Len(slots)
  BY DEF Works
<1>2. Typed'
  BY <1>1 DEF Inv, Typed
<1>3. Between'
  BY <1>1 DEF Inv, Between
<1>4. Tree'
  BY <1>1 DEF Inv, Tree
<1>5. Legal'
  BY <1>1 DEF Legal, Attempts, Offered, Opened, Planned
<1>. QED
  BY <1>2, <1>3, <1>4, <1>5 DEF Inv

Held == {Number(j) : j \in InFlight}

LEMMA Checkouts ==
  ASSUME Rows, NEW name, NEW ws
  PROVE  /\ DOMAIN workspaces = Held
         /\ Holding(name, ws)[name] = ws
         /\ Without(name) = [n \in Held \ {name} |-> Without(name)[n]]
         /\ \A n \in Held : n # name => Without(name)[n] = workspaces[n]
<1>1. workspaces = [n \in Held |-> workspaces[n]]
  BY DEF Rows, Held
<1>2. DOMAIN workspaces = Held
  BY <1>1
<1>. QED
  BY <1>2 DEF Holding, Without

\* The slots in flight after a slot's step are the others and, if it still is, that one.
LEMMA Flying ==
  ASSUME Typed, NEW i, Works(i)
  PROVE  /\ slots'[i].at \in {"running", "attempted"} =>
              {Number(j) : j \in InFlight'} = Held \cup {Number(i)}
         /\ slots'[i].at \notin {"running", "attempted"} =>
              {Number(j) : j \in InFlight'} = Held \ {Number(i)}
<1>1. i \in DOMAIN slots /\ DOMAIN slots' = DOMAIN slots
  BY DEF Works, Typed
<1>2. \A j \in DOMAIN slots : j # i => (j \in InFlight' <=> j \in InFlight)
  BY <1>1 DEF Works, InFlight
<1>3. InFlight' \subseteq DOMAIN slots /\ InFlight \subseteq DOMAIN slots
  BY <1>1 DEF InFlight
<1>4. i \in InFlight' <=> slots'[i].at \in {"running", "attempted"}
  BY <1>1 DEF InFlight
<1>5. \A j \in DOMAIN slots : Number(j) = Number(i) => j = i
  BY <1>1, Numbers
<1>6. ASSUME i \in InFlight' PROVE {Number(j) : j \in InFlight'} = Held \cup {Number(i)}
  BY <1>2, <1>3, <1>6 DEF Held
<1>7. ASSUME i \notin InFlight' PROVE {Number(j) : j \in InFlight'} = Held \ {Number(i)}
  BY <1>2, <1>3, <1>5, <1>7 DEF Held
<1>. QED
  BY <1>4, <1>6, <1>7

LEMMA CheckedOut ==
  ASSUME Rows, NEW i, \E ws : workspaces' = Holding(Number(i), ws)
  PROVE  /\ workspaces' = [n \in Held \cup {Number(i)} |-> workspaces'[n]]
         /\ \A n \in Held : n # Number(i) => workspaces'[n] = workspaces[n]
<1>1. PICK ws : workspaces' = Holding(Number(i), ws)
  OBVIOUS
<1>2. DOMAIN workspaces = Held
  <2>1. DOMAIN [n \in Held |-> workspaces[n]] = Held
    OBVIOUS
  <2>. QED
    BY <2>1, Zenon DEF Rows, Held
<1>. QED
  BY <1>1, <1>2 DEF Holding

LEMMA BaseIs ==
  ASSUME Typed, NEW i \in DOMAIN slots
  PROVE  Base(i) \in Seq(Nat)
<1>1. scheduled[i] \in 0 .. Len(parent) /\ Len(parent) \in Nat
  BY DEF Typed, Nodes
<1>2. scheduled[i] # Root => scheduled[i] \in DOMAIN snapshot
  BY <1>1 DEF Typed, Root
<1>. QED
  BY <1>2 DEF Base, Typed

LEMMA SlotReplaced ==
  ASSUME NEW ss \in Seq(Slots), NEW i \in DOMAIN ss, NEW row \in Slots
  PROVE  /\ [ss EXCEPT ![i] = row] \in Seq(Slots) /\ Len([ss EXCEPT ![i] = row]) = Len(ss)
         /\ [ss EXCEPT ![i] = row][i] = row
         /\ \A j \in DOMAIN ss : j # i => [ss EXCEPT ![i] = row][j] = ss[j]
OBVIOUS

LEMMA StartKeeps ==
  ASSUME Inv, Legal, NEW i \in DOMAIN slots, Start(i)
  PROVE  Inv' /\ Legal'
<1>1. Typed /\ Rows /\ Tree
  BY DEF Inv
<1>2. slots[i] \in Slots /\ slots[i].at = "queued" /\ DOMAIN slots = 1 .. Len(slots)
  BY <1>1 DEF Typed, Start, Queued
<1>3. /\ slots' \in Seq(Slots) /\ Len(slots') = Len(slots) /\ slots'[i].at = "running"
      /\ \A j \in DOMAIN slots : j # i => slots'[j] = slots[j]
  <2>1. PICK row : row = [slots[i] EXCEPT !.at = "running"]
    OBVIOUS
  <2>2. row \in Slots /\ row.at = "running"
    BY <1>2, <2>1 DEF Slots, SlotStates
  <2>3. slots' = [slots EXCEPT ![i] = row]
    BY <2>1 DEF Start
  <2>. QED
    BY <1>1, <2>1, <2>2, <2>3, SlotReplaced DEF Typed
<1>4. Works(i)
  BY <1>3 DEF Works, Start, treeVars
<1>5. workspaces' = Holding(Number(i), Base(i)) /\ ran' = ran
  BY DEF Start
<1>6. {Number(j) : j \in InFlight'} = Held \cup {Number(i)}
  BY <1>1, <1>3, <1>4, Flying
<1>7. workspaces' = [n \in {Number(j) : j \in InFlight'} |-> workspaces'[n]]
  BY <1>1, <1>5, <1>6, CheckedOut
<1>8. workspaces'[Number(i)] = Base(i)
  BY <1>1, <1>5, Checkouts
<1>9. \A j \in InFlight : j # i => workspaces'[Number(j)] = workspaces[Number(j)]
  <2>1. \A j \in InFlight : j # i => Number(j) \in Held /\ Number(j) # Number(i)
    BY <1>1, Numbers DEF Held, InFlight
  <2>. QED
    BY <1>1, <1>5, <2>1, CheckedOut
<1>10. Rows'
  BY <1>1, <1>3, <1>4, <1>5, <1>7, <1>8, <1>9, RowsKept DEF Rows
<1>. QED
  BY <1>1, <1>4, <1>5, <1>10, WorkKeeps DEF Tree

LEMMA AttemptKeeps ==
  ASSUME Inv, Legal, NEW i \in DOMAIN slots, NEW result \in AllOutcomes, Attempt(i, result)
  PROVE  Inv' /\ Legal'
<1>1. Typed /\ Rows /\ Tree
  BY DEF Inv
<1>2. slots[i] \in Slots /\ slots[i].at = "running" /\ DOMAIN slots = 1 .. Len(slots)
  BY <1>1 DEF Typed, Attempt
<1>3. /\ slots' \in Seq(Slots) /\ Len(slots') = Len(slots)
      /\ slots'[i].at = "attempted" /\ slots'[i].outcome = result
      /\ \A j \in DOMAIN slots : j # i => slots'[j] = slots[j]
  <2>1. PICK row : row = [slots[i] EXCEPT !.at = "attempted", !.outcome = result]
    OBVIOUS
  <2>2. row \in Slots /\ row.at = "attempted" /\ row.outcome = result
    BY <1>2, <2>1 DEF Slots, SlotStates
  <2>3. slots' = [slots EXCEPT ![i] = row]
    BY <2>1 DEF Attempt
  <2>. QED
    BY <1>1, <2>1, <2>2, <2>3, SlotReplaced DEF Typed
<1>4. Works(i)
  BY <1>3 DEF Works, Attempt, treeVars
<1>5. /\ workspaces' = Holding(Number(i), Append(workspaces[Number(i)], Number(i)))
      /\ ran' = [n \in DOMAIN ran \cup {Number(i)} |-> IF n = Number(i) THEN result ELSE ran[n]]
  BY DEF Attempt
<1>6. {Number(j) : j \in InFlight'} = Held \cup {Number(i)}
  BY <1>1, <1>3, <1>4, Flying
<1>7. workspaces' = [n \in {Number(j) : j \in InFlight'} |-> workspaces'[n]]
  BY <1>1, <1>5, <1>6, CheckedOut
<1>8. workspaces'[Number(i)] = Left(i)
  <2>1. workspaces[Number(i)] = Base(i)
    BY <1>1, <1>2 DEF Rows
  <2>2. workspaces'[Number(i)] = Append(workspaces[Number(i)], Number(i))
    BY <1>1, <1>5, Checkouts
  <2>. QED
    BY <2>1, <2>2 DEF Left
<1>9. \A j \in InFlight : j # i => workspaces'[Number(j)] = workspaces[Number(j)]
  <2>1. \A j \in InFlight : j # i => Number(j) \in Held /\ Number(j) # Number(i)
    BY <1>1, Numbers DEF Held, InFlight
  <2>. QED
    BY <1>1, <1>5, <2>1, CheckedOut
<1>10. /\ DOMAIN ran' = DOMAIN ran \cup {Number(i)} /\ ran'[Number(i)] = result
       /\ \A n \in DOMAIN ran : n # Number(i) => ran'[n] = ran[n]
  BY <1>5
<1>11. \A n \in DOMAIN ran' : ran'[n] \in AllOutcomes
  BY <1>1, <1>10 DEF Rows
<1>12. Rows'
  BY <1>3, <1>4, <1>7, <1>8, <1>9, <1>10, <1>11, RowsKept
<1>13. \A n \in DOMAIN parent : n \in DOMAIN ran' /\ ran'[n] = ran[n]
  BY <1>1, <1>10, Numbers DEF Tree
<1>. QED
  BY <1>4, <1>12, <1>13, WorkKeeps

LEMMA CaptureKeeps ==
  ASSUME Inv, Legal, NEW i \in DOMAIN slots, Capture(i)
  PROVE  Inv' /\ Legal'
<1>1. Typed /\ Rows /\ Tree
  BY DEF Inv
<1>2. slots[i] \in Slots /\ slots[i].at = "attempted" /\ DOMAIN slots = 1 .. Len(slots)
  BY <1>1 DEF Typed, Capture
<1>3. /\ workspaces[Number(i)] = Left(i) /\ Left(i) \in Seq(Nat)
      /\ Number(i) \in DOMAIN ran /\ ran[Number(i)] = slots[i].outcome
      /\ slots[i].outcome \in AllOutcomes
  <2>1. Base(i) \in Seq(Nat)
    BY <1>1, BaseIs
  <2>2. Left(i) \in Seq(Nat)
    BY <1>1, <2>1, Numbers DEF Left
  <2>. QED
    BY <1>1, <1>2, <2>2 DEF Rows
<1>4. /\ slots' \in Seq(Slots) /\ Len(slots') = Len(slots)
      /\ slots'[i].at = "captured" /\ slots'[i].outcome = slots[i].outcome
      /\ slots'[i].left = Left(i)
      /\ \A j \in DOMAIN slots : j # i => slots'[j] = slots[j]
  <2>1. PICK row : row = [slots[i] EXCEPT !.at = "captured", !.left = Left(i)]
    OBVIOUS
  <2>2. /\ row \in Slots /\ row.at = "captured"
        /\ row.outcome = slots[i].outcome /\ row.left = Left(i)
    BY <1>2, <1>3, <2>1 DEF Slots, SlotStates
  <2>3. slots' = [slots EXCEPT ![i] = row]
    BY <2>1, <1>3 DEF Capture
  <2>. QED
    BY <1>1, <2>1, <2>2, <2>3, SlotReplaced DEF Typed
<1>5. Works(i)
  BY <1>4 DEF Works, Capture, treeVars
<1>6. workspaces' = Without(Number(i)) /\ ran' = ran
  BY DEF Capture
<1>7. {Number(j) : j \in InFlight'} = Held \ {Number(i)}
  BY <1>1, <1>4, <1>5, Flying
<1>8. workspaces' = [n \in {Number(j) : j \in InFlight'} |-> workspaces'[n]]
  BY <1>1, <1>6, <1>7, Checkouts
<1>9. \A j \in InFlight : j # i => workspaces'[Number(j)] = workspaces[Number(j)]
  <2>1. \A j \in InFlight : j # i => Number(j) \in Held /\ Number(j) # Number(i)
    BY <1>1, Numbers DEF Held, InFlight
  <2>. QED
    BY <1>1, <1>6, <2>1, Checkouts
<1>10. Rows'
  BY <1>1, <1>3, <1>4, <1>5, <1>6, <1>8, <1>9, RowsKept DEF Rows
<1>. QED
  BY <1>1, <1>5, <1>6, <1>10, WorkKeeps DEF Tree

LEMMA StoreFailsKeeps ==
  ASSUME Inv, Legal, NEW i \in DOMAIN slots, StoreFails(i)
  PROVE  Inv' /\ Legal'
<1>1. Typed /\ Rows /\ Tree
  BY DEF Inv
<1>2. slots[i] \in Slots /\ DOMAIN slots = 1 .. Len(slots)
  BY <1>1 DEF Typed
<1>3. /\ slots' \in Seq(Slots) /\ Len(slots') = Len(slots) /\ slots'[i].at = "raised"
      /\ \A j \in DOMAIN slots : j # i => slots'[j] = slots[j]
  <2>1. PICK row : row = [slots[i] EXCEPT !.at = "raised"]
    OBVIOUS
  <2>2. row \in Slots /\ row.at = "raised"
    BY <1>2, <2>1 DEF Slots, SlotStates
  <2>3. slots' = [slots EXCEPT ![i] = row]
    BY <2>1 DEF StoreFails
  <2>. QED
    BY <1>1, <2>1, <2>2, <2>3, SlotReplaced DEF Typed
<1>4. Works(i)
  BY <1>3 DEF Works, StoreFails, treeVars
<1>5. workspaces' = Without(Number(i)) /\ ran' = ran
  BY DEF StoreFails
<1>6. {Number(j) : j \in InFlight'} = Held \ {Number(i)}
  BY <1>1, <1>3, <1>4, Flying
<1>7. workspaces' = [n \in {Number(j) : j \in InFlight'} |-> workspaces'[n]]
  BY <1>1, <1>5, <1>6, Checkouts
<1>8. \A j \in InFlight : j # i => workspaces'[Number(j)] = workspaces[Number(j)]
  <2>1. \A j \in InFlight : j # i => Number(j) \in Held /\ Number(j) # Number(i)
    BY <1>1, Numbers DEF Held, InFlight
  <2>. QED
    BY <1>1, <1>5, <2>1, Checkouts
<1>9. Rows'
  BY <1>1, <1>3, <1>4, <1>5, <1>7, <1>8, RowsKept DEF Rows
<1>. QED
  BY <1>1, <1>4, <1>5, <1>9, WorkKeeps DEF Tree

-----------------------------------------------------------------------------
(* Attaching the round.                                                      *)

\* U is some of the first a places of a sequence, S, and some of the w after them, T.
Adjoin(U, S, a, T, w) ==
  /\ a \in Nat /\ w \in Nat
  /\ S \subseteq 1 .. a /\ T \subseteq 1 .. w
  /\ \A n : n \in U <=> n \in S \/ \E i \in T : n = a + i

LEMMA CountsAdd ==
  ASSUME NEW U, NEW S, NEW a, NEW T, NEW w, Adjoin(U, S, a, T, w)
  PROVE  Cardinality(U) = Cardinality(S) + Cardinality(T)
<1>0. /\ a \in Nat /\ w \in Nat /\ S \in SUBSET (1 .. a) /\ T \in SUBSET (1 .. w)
      /\ \A n : n \in U <=> n \in S \/ \E i \in T : n = a + i
  BY DEF Adjoin
<1>1. S \in SUBSET (0 .. a) /\ T \in SUBSET (0 .. w)
  <2>1. \A n \in 1 .. a : n \in 0 .. a
    BY <1>0
  <2>2. \A n \in 1 .. w : n \in 0 .. w
    BY <1>0
  <2>. QED
    BY <1>0, <2>1, <2>2
<1>2. IsFiniteSet(S) /\ IsFiniteSet(T) /\ Cardinality(S) \in Nat /\ Cardinality(T) \in Nat
  BY <1>0, <1>1, Finitely
<1>. DEFINE V == {a + i : i \in T}
<1>3. IsFiniteSet(V) /\ Cardinality(V) = Cardinality(T)
  BY <1>0, <1>1, ShiftedCount
<1>4. \A n \in V : n \notin S
  BY <1>0
<1>. HIDE DEF V
<1>5. S \cap V = {}
  BY <1>4
<1>6. Cardinality(S \cap V) = 0
  BY <1>5, FS_EmptySet
<1>7. Cardinality(S \cup V) = Cardinality(S) + Cardinality(V) - Cardinality(S \cap V)
  BY <1>2, <1>3, FS_Union
<1>8. U = S \cup V
  BY <1>0 DEF V
<1>. QED
  BY <1>2, <1>3, <1>6, <1>7, <1>8

\* What follows a sequence comes after what it holds.
LEMMA Joined ==
  ASSUME NEW R, NEW s \in Seq(R), NEW S, NEW t \in Seq(S)
  PROVE  /\ Len(s \o t) = Len(s) + Len(t) /\ DOMAIN (s \o t) = 1 .. Len(s) + Len(t)
         /\ \A n \in DOMAIN s : (s \o t)[n] = s[n]
         /\ \A i \in DOMAIN t : (s \o t)[Len(s) + i] = t[i]
         /\ \A n \in DOMAIN (s \o t) : n \in DOMAIN s \/ \E i \in DOMAIN t : n = Len(s) + i
<1>1. /\ Len(s) \in Nat /\ Len(t) \in Nat /\ DOMAIN s = 1 .. Len(s) /\ DOMAIN t = 1 .. Len(t)
      /\ Len(s \o t) = Len(s) + Len(t) /\ DOMAIN (s \o t) = 1 .. Len(s) + Len(t)
      /\ \A n \in 1 .. Len(s) + Len(t) :
           (s \o t)[n] = IF n <= Len(s) THEN s[n] ELSE t[n - Len(s)]
  OBVIOUS
<1>2. ASSUME NEW n \in DOMAIN s PROVE (s \o t)[n] = s[n]
  <2>1. n \in 1 .. Len(s) + Len(t) /\ n <= Len(s)
    BY <1>1
  <2>. QED
    BY <1>1, <2>1
<1>3. ASSUME NEW i \in DOMAIN t PROVE (s \o t)[Len(s) + i] = t[i]
  <2>1. /\ Len(s) + i \in 1 .. Len(s) + Len(t) /\ ~(Len(s) + i <= Len(s))
        /\ (Len(s) + i) - Len(s) = i
    BY <1>1
  <2>. QED
    BY <1>1, <2>1
<1>4. ASSUME NEW n \in 1 .. Len(s) + Len(t), ~(n <= Len(s))
      PROVE  \E i \in DOMAIN t : n = Len(s) + i
  <2>1. n - Len(s) \in DOMAIN t /\ n = Len(s) + (n - Len(s))
    BY <1>1, <1>4
  <2>. QED
    BY <2>1
<1>5. \A n \in DOMAIN (s \o t) : n \in DOMAIN s \/ \E i \in DOMAIN t : n = Len(s) + i
  <2>1. \A n \in 1 .. Len(s) + Len(t) : n <= Len(s) => n \in DOMAIN s
    BY <1>1
  <2>. QED
    BY <1>1, <1>4, <2>1
<1>. QED
  BY <1>1, <1>2, <1>3, <1>5

LEMMA Wider ==
  ASSUME NEW R, NEW S, R \subseteq S, NEW s \in Seq(R)
  PROVE  s \in Seq(S)
OBVIOUS

\* The tree after a round: the nodes there were, and one for each slot.
LEMMA Grown ==
  ASSUME Inv, Attach
  PROVE  /\ Len(parent') = Attempts + Len(slots) /\ DOMAIN parent' = 1 .. Attempts + Len(slots)
         /\ parent' \in Seq(Nat) /\ IsTree(parent')
         /\ \A n \in DOMAIN parent : n \in DOMAIN parent' /\ parent'[n] = parent[n]
         /\ \A i \in DOMAIN slots : Number(i) \in DOMAIN parent' /\ parent'[Number(i)] = scheduled[i]
         /\ \A n \in DOMAIN parent' : n \in DOMAIN parent \/ \E i \in DOMAIN slots : n = Number(i)
<1>1. /\ Typed /\ parent \in Seq(Nat) /\ scheduled \in Seq(0 .. Len(parent)) /\ IsTree(parent)
      /\ Len(parent) \in Nat /\ Len(slots) = Len(scheduled) /\ DOMAIN scheduled = DOMAIN slots
      /\ parent' = parent \o scheduled
  BY DEF Inv, Typed, Nodes, Attach
<1>2. /\ Len(parent') = Len(parent) + Len(scheduled)
      /\ DOMAIN parent' = 1 .. Len(parent) + Len(scheduled)
      /\ \A n \in DOMAIN parent : parent'[n] = parent[n]
      /\ \A i \in DOMAIN slots : parent'[Len(parent) + i] = scheduled[i]
      /\ \A n \in DOMAIN parent' : n \in DOMAIN parent \/ \E i \in DOMAIN slots : n = Len(parent) + i
  BY <1>1, Joined
<1>3. /\ \A n \in DOMAIN parent : n \in DOMAIN parent'
      /\ \A i \in DOMAIN slots : Len(parent) + i \in DOMAIN parent'
  BY <1>1, <1>2
<1>4. \A i \in DOMAIN slots : scheduled[i] \in 0 .. Len(parent)
  BY <1>1
<1>5. ASSUME NEW n \in DOMAIN parent' PROVE parent'[n] \in 0 .. n - 1 /\ parent'[n] \in Nat
  <2>1. CASE n \in DOMAIN parent
    BY <1>1, <1>2, <2>1 DEF IsTree
  <2>2. ASSUME NEW i \in DOMAIN slots, n = Len(parent) + i PROVE parent'[n] \in 0 .. n - 1
    BY <1>1, <1>2, <1>4, <2>2
  <2>. QED
    BY <1>2, <2>1, <2>2
<1>6. IsTree(parent')
  BY <1>5 DEF IsTree
<1>7. parent' \in Seq(Nat)
  <2>1. scheduled \in Seq(Nat)
    BY <1>1, <1>4
  <2>. QED
    BY <1>1, <2>1
<1>. QED
  BY <1>1, <1>2, <1>3, <1>6, <1>7 DEF Attempts, Number

\* What the tree records after it: each attempt's outcome and the state it left.
LEMMA RecordedRows ==
  ASSUME Inv, Attach
  PROVE  /\ outcome' \in Seq(AllOutcomes) /\ Len(outcome') = Attempts + Len(slots)
         /\ DOMAIN outcome' = 1 .. Attempts + Len(slots)
         /\ snapshot' \in Seq(Seq(Nat)) /\ Len(snapshot') = Attempts + Len(slots)
         /\ \A n \in DOMAIN parent : outcome'[n] = outcome[n] /\ snapshot'[n] = snapshot[n]
         /\ \A i \in DOMAIN slots : /\ outcome'[Number(i)] = slots[i].outcome
                                    /\ snapshot'[Number(i)] = Left(i)
<1>1. /\ Typed /\ Rows /\ Attempts \in Nat /\ Len(slots) \in Nat /\ DOMAIN slots = 1 .. Len(slots)
      /\ outcome \in Seq(AllOutcomes) /\ Len(outcome) = Attempts /\ DOMAIN outcome = DOMAIN parent
      /\ snapshot \in Seq(Seq(Nat)) /\ Len(snapshot) = Attempts /\ DOMAIN snapshot = DOMAIN parent
  BY Numbers DEF Inv, Typed, Attempts
<1>0. PICK os, ls : /\ os = [i \in DOMAIN slots |-> slots[i].outcome]
                    /\ ls = [i \in DOMAIN slots |-> slots[i].left]
  OBVIOUS
<1>2. outcome' = outcome \o os /\ snapshot' = snapshot \o ls
  BY <1>0 DEF Attach
<1>3. \A i \in DOMAIN slots : /\ slots[i].at = "captured" /\ slots[i] \in Slots
                              /\ slots[i].outcome \in AllOutcomes /\ slots[i].left = Left(i)
  <2>1. ASSUME NEW i \in DOMAIN slots PROVE slots[i].at = "captured" /\ slots[i] \in Slots
    BY <1>1 DEF Attach, Typed
  <2>. QED
    BY <1>1, <2>1 DEF Rows
<1>4. os \in Seq(AllOutcomes) /\ Len(os) = Len(slots) /\ DOMAIN os = DOMAIN slots
  BY <1>0, <1>1, <1>3
<1>5. ls \in Seq(Seq(Nat)) /\ Len(ls) = Len(slots) /\ DOMAIN ls = DOMAIN slots
  BY <1>0, <1>1, <1>3 DEF Slots
<1>6. \A i \in DOMAIN slots : os[i] = slots[i].outcome /\ ls[i] = Left(i)
  BY <1>0, <1>3
<1>7. outcome' \in Seq(AllOutcomes) /\ snapshot' \in Seq(Seq(Nat))
  BY <1>1, <1>2, <1>4, <1>5, ConcatProperties
<1>8. /\ Len(outcome') = Attempts + Len(slots) /\ DOMAIN outcome' = 1 .. Attempts + Len(slots)
      /\ \A n \in DOMAIN outcome : outcome'[n] = outcome[n]
      /\ \A i \in DOMAIN os : outcome'[Attempts + i] = os[i]
  <2>1. /\ Len(outcome \o os) = Len(outcome) + Len(os)
        /\ DOMAIN (outcome \o os) = 1 .. Len(outcome) + Len(os)
        /\ \A n \in DOMAIN outcome : (outcome \o os)[n] = outcome[n]
        /\ \A i \in DOMAIN os : (outcome \o os)[Len(outcome) + i] = os[i]
    <3>1. outcome \in Seq(AllOutcomes) /\ os \in Seq(AllOutcomes)
      BY <1>1, <1>4
    <3>. QED
      BY <3>1, Joined
  <2>. QED
    BY <1>1, <1>2, <1>4, <2>1
<1>9. /\ Len(snapshot') = Attempts + Len(slots)
      /\ \A n \in DOMAIN snapshot : snapshot'[n] = snapshot[n]
      /\ \A i \in DOMAIN ls : snapshot'[Attempts + i] = ls[i]
  <2>1. /\ Len(snapshot \o ls) = Len(snapshot) + Len(ls)
        /\ \A n \in DOMAIN snapshot : (snapshot \o ls)[n] = snapshot[n]
        /\ \A i \in DOMAIN ls : (snapshot \o ls)[Len(snapshot) + i] = ls[i]
    <3>1. snapshot \in Seq(Seq(Nat)) /\ ls \in Seq(Seq(Nat))
      BY <1>1, <1>5
    <3>. QED
      BY <3>1, Joined
  <2>. QED
    BY <1>1, <1>2, <1>5, <2>1
<1>. QED
  BY <1>1, <1>4, <1>5, <1>6, <1>7, <1>8, <1>9 DEF Number

LEMMA AttachKeepsTree ==
  ASSUME Inv, Attach
  PROVE  Tree'
<1>1. /\ Typed /\ Rows /\ Tree /\ Attempts \in Nat /\ Len(slots) \in Nat
      /\ DOMAIN slots = 1 .. Len(slots) /\ DOMAIN parent = 1 .. Attempts
      /\ DOMAIN outcome = DOMAIN parent /\ ran' = ran
      /\ \A i \in DOMAIN slots : slots[i].at = "captured" /\ Number(i) \in Nat
  BY Numbers DEF Inv, Typed, Attempts, Attach
<1>2. ASSUME NEW n \in DOMAIN parent'
      PROVE  /\ n \in DOMAIN ran' /\ outcome'[n] = ran'[n]
             /\ snapshot'[n] = Append(IF parent'[n] = Root THEN <<>> ELSE snapshot'[parent'[n]], n)
             /\ snapshot'[n] \in Seq(1 .. n)
  <2>1. CASE n \in DOMAIN parent
    <3>1. parent'[n] = parent[n] /\ outcome'[n] = outcome[n] /\ snapshot'[n] = snapshot[n]
      BY <2>1, Grown, RecordedRows
    <3>2. parent[n] # Root => parent[n] \in DOMAIN parent
      BY <1>1, <2>1 DEF Typed, IsTree, Root
    <3>3. parent[n] # Root => snapshot'[parent[n]] = snapshot[parent[n]]
      BY <3>2, RecordedRows
    <3>. QED
      BY <1>1, <2>1, <3>1, <3>3 DEF Tree
  <2>2. ASSUME NEW i \in DOMAIN slots, n = Number(i)
        PROVE  /\ n \in DOMAIN ran' /\ outcome'[n] = ran'[n]
               /\ snapshot'[n] = Append(IF parent'[n] = Root THEN <<>> ELSE snapshot'[parent'[n]], n)
               /\ snapshot'[n] \in Seq(1 .. n)
    <3>1. parent'[n] = scheduled[i] /\ outcome'[n] = slots[i].outcome /\ snapshot'[n] = Left(i)
      BY <2>2, Grown, RecordedRows
    <3>2. n \in DOMAIN ran' /\ outcome'[n] = ran'[n]
      BY <1>1, <2>2, <3>1 DEF Rows
    <3>3. scheduled[i] \in 0 .. Attempts
      BY <1>1 DEF Typed, Nodes, Attempts
    <3>4. scheduled[i] # Root => scheduled[i] \in DOMAIN parent
      BY <1>1, <3>3 DEF Root
    <3>5. scheduled[i] # Root => snapshot'[scheduled[i]] = snapshot[scheduled[i]]
      BY <3>4, RecordedRows
    <3>6. Base(i) \in Seq(1 .. n)
      <4>1. CASE scheduled[i] = Root
        BY <4>1 DEF Base
      <4>2. CASE scheduled[i] # Root
        <5>1. Base(i) \in Seq(1 .. scheduled[i])
          BY <1>1, <3>4, <4>2 DEF Base, Tree
        <5>2. n \in Nat /\ scheduled[i] <= n
          BY <1>1, <2>2, <3>3 DEF Number
        <5>3. 1 .. scheduled[i] \subseteq 1 .. n
          BY <3>3, <5>2
        <5>. QED
          BY <5>1, <5>3, Wider
      <4>. QED
        BY <4>1, <4>2
    <3>7. Left(i) \in Seq(1 .. n)
      <4>1. n \in 1 .. n
        BY <1>1, <2>2 DEF Number
      <4>. QED
        BY <2>2, <3>6, <4>1 DEF Left
    <3>8. Left(i) = Append(IF parent'[n] = Root THEN <<>> ELSE snapshot'[parent'[n]], n)
      BY <2>2, <3>1, <3>5 DEF Left, Base
    <3>. QED
      BY <3>1, <3>2, <3>7, <3>8
  <2>. QED
    BY <2>1, <2>2, Grown
<1>3. ASSUME NEW r \in DOMAIN rounds'
      PROVE  /\ Len(rounds'[r].selected) = Len(rounds'[r].produced)
             /\ \A i \in DOMAIN rounds'[r].selected :
                  /\ rounds'[r].produced[i] \in DOMAIN parent'
                  /\ parent'[rounds'[r].produced[i]] = rounds'[r].selected[i]
  <2>1. /\ rounds \in Seq(Rounds) /\ Len(rounds) \in Nat
        /\ rounds' = Append(rounds, [k |-> batch, selected |-> scheduled, produced |-> Produced])
    BY <1>1 DEF Typed, Attach
  <2>2. CASE r \in DOMAIN rounds
    <3>1. rounds'[r] = rounds[r]
      BY <2>1, <2>2
    <3>. QED
      BY <1>1, <2>2, <3>1, Grown DEF Tree
  <2>3. CASE r = Len(rounds) + 1
    <3>1. rounds'[r].selected = scheduled /\ rounds'[r].produced = Produced
      BY <2>1, <2>3
    <3>2. DOMAIN scheduled = DOMAIN slots /\ Len(Produced) = Len(scheduled)
      BY <1>1 DEF Typed, Produced
    <3>3. \A i \in DOMAIN scheduled : Produced[i] = Number(i)
      BY DEF Produced
    <3>. QED
      BY <3>1, <3>2, <3>3, Grown
  <2>4. r \in DOMAIN rounds \/ r = Len(rounds) + 1
    BY <2>1
  <2>. QED
    BY <2>2, <2>3, <2>4
<1>4. evaluations' = Cardinality({n \in DOMAIN outcome' : outcome'[n] # NoProposal})
  <2>. DEFINE S == {n \in DOMAIN outcome : outcome[n] # NoProposal}
              T == {i \in DOMAIN slots : slots[i].outcome # NoProposal}
              U == {n \in DOMAIN outcome' : outcome'[n] # NoProposal}
  <2>1. evaluations' = Cardinality(S) + Cardinality(T)
    BY <1>1 DEF Tree, Attach
  <2>2. S \in SUBSET (1 .. Attempts) /\ T \in SUBSET (1 .. Len(slots))
    BY <1>1
  <2>3. ASSUME NEW n \in U PROVE n \in S \/ \E i \in T : n = Attempts + i
    <3>1. n \in DOMAIN parent' /\ outcome'[n] # NoProposal
      BY Grown, RecordedRows
    <3>2. CASE n \in DOMAIN parent
      BY <1>1, <3>1, <3>2, RecordedRows
    <3>3. ASSUME NEW i \in DOMAIN slots, n = Number(i) PROVE \E j \in T : n = Attempts + j
      <4>1. i \in T
        BY <3>1, <3>3, RecordedRows
      <4>. QED
        BY <3>3, <4>1 DEF Number
    <3>. QED
      BY <3>1, <3>2, <3>3, Grown
  <2>4. ASSUME NEW n \in S PROVE n \in U
    <3>1. n \in DOMAIN parent /\ n \in DOMAIN parent'
      BY <1>1, Grown
    <3>. QED
      BY <3>1, Grown, RecordedRows
  <2>5. ASSUME NEW i \in T PROVE Attempts + i \in U
    <3>1. Number(i) \in DOMAIN parent'
      BY Grown
    <3>. QED
      BY <3>1, Grown, RecordedRows DEF Number
  <2>. HIDE DEF S, T, U
  <2>6. \A n : n \in U <=> n \in S \/ \E i \in T : n = Attempts + i
    BY <2>3, <2>4, <2>5
  <2>7. Cardinality(U) = Cardinality(S) + Cardinality(T)
    <3>1. Adjoin(U, S, Attempts, T, Len(slots))
      BY <1>1, <2>2, <2>6 DEF Adjoin
    <3>. QED
      BY <3>1, CountsAdd
  <2>. QED
    BY <2>1, <2>7 DEF U
<1>. QED
  BY <1>2, <1>3, <1>4 DEF Tree

LEMMA AttachKeepsRows ==
  ASSUME Inv, Attach
  PROVE  Rows'
<1>1. /\ Typed /\ Rows /\ slots' = <<>> /\ workspaces' = workspaces /\ ran' = ran
      /\ \A i \in DOMAIN slots : slots[i].at = "captured"
  BY DEF Inv, Attach
<1>2. InFlight = {} /\ InFlight' = {}
  BY <1>1 DEF InFlight
<1>3. {Number(i) : i \in InFlight} = {} /\ {Number(i) : i \in InFlight}' = {}
  BY <1>2
<1>4. workspaces = [n \in {} |-> workspaces[n]]
  BY <1>1, <1>3 DEF Rows
<1>5. workspaces' = [n \in {Number(i) : i \in InFlight}' |-> workspaces'[n]]
  BY <1>1, <1>3, <1>4
<1>6. Attempts' = Attempts + Len(slots) /\ Len(slots') = 0 /\ Attempts' \in Nat
  BY <1>1, Grown DEF Attempts, Typed
<1>7. DOMAIN ran' \subseteq 1 .. Attempts' + Len(slots')
  BY <1>1, <1>6 DEF Rows
<1>8. DOMAIN slots' = {} /\ \A n \in DOMAIN ran' : ran'[n] \in AllOutcomes
  BY <1>1 DEF Rows
<1>. QED
  BY <1>5, <1>7, <1>8 DEF Rows

LEMMA AttachKeepsTyped ==
  ASSUME Inv, Attach
  PROVE  Typed'
<1>1. /\ Typed /\ Attempts \in Nat /\ Len(slots) \in Nat /\ DOMAIN slots = 1 .. Len(slots)
      /\ slots' = <<>> /\ scheduled' = <<>> /\ batch' = 0 /\ pc' = "select" /\ plan' = plan
  BY Numbers DEF Inv, Typed, Attach
<1>2. rounds' \in Seq(Rounds)
  <2>1. /\ rounds \in Seq(Rounds)
        /\ rounds' = Append(rounds, [k |-> batch, selected |-> scheduled, produced |-> Produced])
    BY <1>1 DEF Typed, Attach
  <2>2. scheduled \in Seq(Nat) /\ Len(scheduled) = Len(slots)
    <3>1. scheduled \in Seq(0 .. Len(parent)) /\ 0 .. Len(parent) \subseteq Nat
      BY <1>1 DEF Typed, Nodes
    <3>. QED
      BY <1>1, <3>1, Wider DEF Typed
  <2>3. Produced \in Seq(Nat)
    <3>1. DOMAIN scheduled = 1 .. Len(slots) /\ \A i \in 1 .. Len(slots) : Number(i) \in Nat
      BY <1>1, <2>2, Numbers
    <3>. QED
      BY <1>1, <3>1 DEF Produced
  <2>4. batch \in Nat
    BY <1>1, RolloutConfig DEF Typed
  <2>5. [k |-> batch, selected |-> scheduled, produced |-> Produced] \in Rounds
    BY <2>2, <2>3, <2>4 DEF Rounds
  <2>. QED
    BY <2>1, <2>5
<1>3. evaluations' \in Nat
  <2>1. {i \in DOMAIN slots : slots[i].outcome # NoProposal} \in SUBSET (0 .. Len(slots))
    BY <1>1
  <2>2. Cardinality({i \in DOMAIN slots : slots[i].outcome # NoProposal}) \in Nat
    BY <1>1, <2>1, Finitely
  <2>. QED
    BY <1>1, <2>2 DEF Typed, Attach
<1>4. 0 \in 0 .. MaxBatch /\ <<>> \in Seq(Nodes(parent)') /\ <<>> \in Seq(Slots)
  BY RolloutConfig
<1>. QED
  BY <1>1, <1>2, <1>3, <1>4, Grown, RecordedRows DEF Typed

\* No node but the root is continued twice, in the tree or in the round.
LEMMA AttachKeepsLegal ==
  ASSUME Inv, Legal, Attach
  PROVE  Legal'
<1>1. /\ Typed /\ Attempts \in Nat /\ Len(slots) \in Nat /\ DOMAIN slots = 1 .. Len(slots)
      /\ DOMAIN scheduled = DOMAIN slots /\ Len(scheduled) = Len(slots)
      /\ DOMAIN parent = 1 .. Attempts /\ parent \in Seq(Nat) /\ IsTree(parent)
      /\ slots' = <<>> /\ scheduled' = <<>> /\ plan' = plan
  BY Numbers DEF Inv, Typed, Attach
<1>2. \A i \in DOMAIN slots : /\ scheduled[i] \in 0 .. Attempts
                              /\ scheduled[i] \in Nodes(parent)
                              /\ scheduled[i] \in Offered
  BY <1>1 DEF Typed, Nodes, Attempts, Legal
<1>3. ASSUME NEW m \in DOMAIN parent', NEW n \in DOMAIN parent', parent'[m] = parent'[n]
      PROVE  m = n \/ parent'[m] = Root
  <2>1. ASSUME NEW j \in DOMAIN parent, NEW i \in DOMAIN slots, parent[j] = scheduled[i]
        PROVE  scheduled[i] = Root
    <3>1. scheduled[i] = Root \/ Children(parent, scheduled[i]) = {}
      BY <1>2 DEF Offered, Eligible, IsLeaf
    <3>2. j \in Children(parent, scheduled[i])
      BY <2>1 DEF Children
    <3>. QED
      BY <3>1, <3>2
  <2>2. CASE m \in DOMAIN parent /\ n \in DOMAIN parent
    BY <1>3, <2>2, Grown DEF Legal
  <2>3. ASSUME NEW i \in DOMAIN slots, m = Number(i), n \in DOMAIN parent
        PROVE  parent'[m] = Root
    BY <1>3, <2>1, <2>3, Grown
  <2>4. ASSUME NEW i \in DOMAIN slots, n = Number(i), m \in DOMAIN parent
        PROVE  parent'[m] = Root
    BY <1>3, <2>1, <2>4, Grown
  <2>5. ASSUME NEW i \in DOMAIN slots, m = Number(i), NEW j \in DOMAIN slots, n = Number(j)
        PROVE  m = n \/ parent'[m] = Root
    <3>1. parent'[m] = scheduled[i] /\ scheduled[i] = scheduled[j]
      BY <1>3, <2>5, Grown
    <3>2. i = j \/ scheduled[i] = Root
      BY <1>1, <3>1 DEF Legal
    <3>. QED
      BY <2>5, <3>1, <3>2
  <2>. QED
    BY <2>2, <2>3, <2>4, <2>5, Grown
<1>4. Attempts' + Len(scheduled') <= MaxNodes
  <2>1. Attempts' = Attempts + Len(slots) /\ Len(scheduled') = 0
    BY <1>1, Grown DEF Attempts
  <2>. QED
    BY <1>1, <2>1 DEF Legal
<1>5. Opened' + Cardinality({i \in DOMAIN scheduled : scheduled[i] = Root})'
        = Opened + Cardinality({i \in DOMAIN scheduled : scheduled[i] = Root})
  <2>. DEFINE S == Children(parent, Root)
              T == {i \in DOMAIN scheduled : scheduled[i] = Root}
              U == Children(parent', Root)
  <2>1. \A n : n \in U <=> n \in S \/ \E i \in T : n = Attempts + i
    <3>1. \A n : n \in U <=> n \in DOMAIN parent' /\ parent'[n] = Root
      BY DEF Children
    <3>2. \A n : n \in S <=> n \in DOMAIN parent /\ parent[n] = Root
      BY DEF Children
    <3>3. \A i : i \in T <=> i \in DOMAIN slots /\ scheduled[i] = Root
      BY <1>1
    <3>4. \A i : Number(i) = Attempts + i
      BY DEF Number
    <3>. HIDE DEF S, T, U
    <3>5. ASSUME NEW n \in U PROVE n \in S \/ \E i \in T : n = Attempts + i
      BY <3>1, <3>2, <3>3, <3>4, <3>5, Grown
    <3>6. ASSUME NEW n \in S PROVE n \in U
      BY <3>1, <3>2, <3>6, Grown
    <3>7. ASSUME NEW i \in T PROVE Attempts + i \in U
      <4>1. Number(i) \in DOMAIN parent' /\ parent'[Number(i)] = Root
        BY <3>3, <3>7, Grown
      <4>. QED
        BY <3>1, <3>4, <4>1
    <3>. QED
      BY <3>5, <3>6, <3>7
  <2>2. S \subseteq 1 .. Attempts /\ T \subseteq 1 .. Len(slots)
    BY <1>1 DEF Children
  <2>3. Cardinality(U) = Cardinality(S) + Cardinality(T)
    <3>. HIDE DEF S, T, U
    <3>1. Adjoin(U, S, Attempts, T, Len(slots))
      BY <1>1, <2>1, <2>2 DEF Adjoin
    <3>. QED
      BY <3>1, CountsAdd
  <2>4. {i \in DOMAIN scheduled : scheduled[i] = Root}' = {}
    BY <1>1
  <2>5. Cardinality({i \in DOMAIN scheduled : scheduled[i] = Root})' = 0
    BY <2>4, FS_EmptySet
  <2>6. Cardinality(S) \in Nat
    BY <1>1, OpenedIs
  <2>7. Cardinality(T) \in Nat
    <3>1. T \in SUBSET (0 .. Len(slots))
      BY <1>1
    <3>. HIDE DEF T
    <3>. QED
      BY <1>1, <3>1, Finitely
  <2>. QED
    BY <2>3, <2>5, <2>6, <2>7 DEF Opened
<1>6. ASSUME Planned, NEW n \in DOMAIN parent'
      PROVE  Depth(parent', n) <= plan.refinements + 1
  <2>1. plan.refinements \in Nat
    BY <1>1, <1>6, RolloutConfig DEF Typed, Planned, Grids
  <2>2. /\ parent' \in Seq(Nat) /\ IsTree(parent') /\ Len(parent) <= Len(parent')
        /\ \A v \in DOMAIN parent : parent'[v] = parent[v]
    BY <1>1, Grown DEF Attempts
  <2>3. \A v \in Nodes(parent) : Depth(parent', v) = Depth(parent, v)
    BY <1>1, <2>2, DepthStays
  <2>4. CASE n \in DOMAIN parent
    <3>1. n \in Nodes(parent)
      BY <1>1, <2>4 DEF Nodes, Attempts
    <3>. QED
      BY <1>6, <2>3, <2>4, <3>1 DEF Legal
  <2>5. ASSUME NEW i \in DOMAIN slots, n = Number(i)
        PROVE  Depth(parent', n) <= plan.refinements + 1
    <3>1. parent'[n] = scheduled[i] /\ n # Root /\ n \in Nodes(parent')
      BY <1>1, <1>6, <2>5, Grown DEF Number, Root, Nodes
    <3>2. Depth(parent', n) = Depth(parent', scheduled[i]) + 1
      BY <2>2, <3>1, DepthIs
    <3>3. Depth(parent', scheduled[i]) = Depth(parent, scheduled[i])
      BY <1>2, <2>3
    <3>4. Depth(parent, scheduled[i]) <= plan.refinements /\ Depth(parent, scheduled[i]) \in Nat
      <4>1. CASE scheduled[i] = Root
        BY <1>1, <1>2, <2>1, <4>1, DepthIs
      <4>2. CASE scheduled[i] # Root
        BY <1>1, <1>2, <1>6, <4>2, DepthIs DEF Offered
      <4>. QED
        BY <4>1, <4>2
    <3>. QED
      BY <2>1, <3>2, <3>3, <3>4
  <2>. QED
    BY <2>4, <2>5, Grown
<1>7. Planned' = Planned /\ plan' = plan
  BY <1>1 DEF Planned
<1>8. Planned' => /\ Opened' + Cardinality({i \in DOMAIN scheduled : scheduled[i] = Root})'
                       <= plan'.branches
                  /\ \A n \in DOMAIN parent' : Depth(parent', n) <= plan'.refinements + 1
  BY <1>5, <1>6, <1>7 DEF Legal
<1>. QED
  BY <1>1, <1>3, <1>4, <1>8 DEF Legal

LEMMA AttachKeeps ==
  ASSUME Inv, Legal, Attach
  PROVE  Inv' /\ Legal'
<1>1. Between'
  BY DEF Attach, Between
<1>. QED
  BY <1>1, AttachKeepsTree, AttachKeepsRows, AttachKeepsTyped, AttachKeepsLegal DEF Inv

-----------------------------------------------------------------------------
(* The theorems.                                                             *)

LEMMA NextKeeps ==
  ASSUME Inv, Legal, [Next]_vars
  PROVE  Inv' /\ Legal'
<1>1. pc \notin {"expand", "raised"} => scheduled = <<>>
  BY DEF Inv, Between
<1>2. CASE RefuseGrid \/ \E s \in Answers : RefuseBatch(s)
  BY <1>2, StopKeeps DEF RefuseGrid, RefuseBatch
<1>3. CASE RaiseOut
  BY <1>3, StopKeeps DEF RaiseOut
<1>4. CASE StopAtRounds \/ StopAtDeadline \/ StopAtNodes \/ StopOnEmpty
  <2>1. scheduled = <<>>
    BY <1>1, <1>4 DEF StopAtRounds, StopAtDeadline, StopAtNodes, StopOnEmpty, MaySelect
  <2>. QED
    BY <1>4, <2>1, StopKeeps
    DEF StopAtRounds, StopAtDeadline, StopAtNodes, StopOnEmpty, StopReasons
<1>5. CASE \E grid \in Grids \cup {NoPlan} : PlanGrid(grid)
  BY <1>5, PlanGridKeeps
<1>6. CASE \E s \in Answers : Select(s)
  BY <1>6, SelectKeeps
<1>7. CASE Attach
  BY <1>7, AttachKeeps
<1>8. CASE Worker
  BY <1>8, StartKeeps, AttemptKeeps, CaptureKeeps, StoreFailsKeeps DEF Worker
<1>9. CASE UNCHANGED vars
  <2>1. Typed'
    BY <1>9 DEF vars, Inv, Typed
  <2>2. Between'
    BY <1>9 DEF vars, Inv, Between
  <2>3. Rows'
    BY <1>9, RowsStay DEF vars, Inv
  <2>4. Tree'
    BY <1>9 DEF vars, Inv, Tree
  <2>5. Legal'
    BY <1>9 DEF vars, Legal, Attempts, Offered, Opened, Planned
  <2>. QED
    BY <2>1, <2>2, <2>3, <2>4, <2>5 DEF Inv
<1>. QED
  BY <1>2, <1>3, <1>4, <1>5, <1>6, <1>7, <1>8, <1>9 DEF Next, Runner

LEMMA Invariant == Spec => [](Inv /\ Legal)
BY Begins, NextKeeps, PTL DEF Spec

LEMMA Evaluated ==
  ASSUME Typed, Tree
  PROVE  evaluations \in 0 .. Attempts
<1>. DEFINE S == {n \in DOMAIN outcome : outcome[n] # NoProposal}
<1>1. Attempts \in Nat /\ DOMAIN outcome = 1 .. Attempts
  BY DEF Typed, Attempts
<1>2. IsFiniteSet(1 .. Attempts) /\ Cardinality(1 .. Attempts) = Attempts
  BY <1>1, FS_Interval
<1>3. S \in SUBSET (1 .. Attempts)
  BY <1>1
<1>4. Cardinality(S) <= Attempts /\ Cardinality(S) \in Nat
  <2>. HIDE DEF S
  <2>. QED
    BY <1>2, <1>3, FS_Subset, FS_CardinalityType
<1>. QED
  BY <1>1, <1>4 DEF Tree

\* Every variable keeps its type: the tree's sequences stay as long as one another, and so
\* does what is in hand, whatever a policy answers and wherever the store fails.
THEOREM TypeCorrect == Spec => []TypeOK
<1>1. ASSUME Inv PROVE TypeOK
  <2>1. Typed /\ Rows /\ Tree
    BY <1>1 DEF Inv
  <2>2. \A n \in DOMAIN snapshot : snapshot[n] \in Seq(1 .. n)
    <3>1. DOMAIN snapshot = DOMAIN parent
      BY <2>1 DEF Typed
    <3>. QED
      BY <2>1, <3>1 DEF Tree
  <2>3. ASSUME NEW n \in DOMAIN workspaces PROVE workspaces[n] \in Seq(Nat)
    <3>1. PICK i \in InFlight : n = Number(i)
      BY <2>1, Checkouts DEF Held
    <3>2. i \in DOMAIN slots /\ workspaces[n] \in {Base(i), Left(i)}
      BY <2>1, <3>1 DEF InFlight, Rows
    <3>3. Base(i) \in Seq(Nat)
      BY <2>1, <3>2, BaseIs
    <3>4. Left(i) \in Seq(Nat)
      BY <2>1, <3>2, <3>3, Numbers DEF Left
    <3>. QED
      BY <3>2, <3>3, <3>4
  <2>4. evaluations \in 0 .. Attempts
    BY <2>1, Evaluated
  <2>5. slots \in Seq([at : SlotStates, outcome : AllOutcomes \cup {Unknown}, left : Seq(Nat)])
    BY <2>1 DEF Typed, Slots
  <2>. QED
    BY <2>1, <2>2, <2>3, <2>4, <2>5 DEF TypeOK, Typed, Rows, Tree
<1>. QED
  BY <1>1, Invariant, PTL

\* However the workers interleave and wherever the store fails, node n is attempt n: its
\* outcome, its state and its parent, and a rollout that stops is charged for each of its
\* attempts once (_run_attempt, _record).
THEOREM NodesAreAttempts == Spec => []NodeIsItsAttempt
<1>1. ASSUME Inv PROVE NodeIsItsAttempt
  <2>1. Typed /\ Between /\ Rows /\ Tree
    BY <1>1 DEF Inv
  <2>2. ASSUME pc \in StopReasons
        PROVE  /\ workspaces = <<>>
               /\ OnlineCost = [agent_calls |-> Cardinality(DOMAIN ran),
                                evaluations |-> Cardinality({n \in DOMAIN ran : ran[n] # NoProposal})]
    <3>1. scheduled = <<>>
      BY <2>1, <2>2 DEF Between, StopReasons
    <3>2. slots \in Seq(Slots) /\ Len(slots) = 0 /\ Attempts \in Nat /\ DOMAIN parent = 1 .. Attempts
      BY <2>1, <3>1 DEF Typed, Attempts
    <3>3. workspaces = <<>>
      <4>1. InFlight = {}
        BY <3>2 DEF InFlight
      <4>2. {Number(i) : i \in InFlight} = {}
        BY <4>1
      <4>. QED
        BY <2>1, <4>2 DEF Rows
    <3>4. DOMAIN ran = 1 .. Attempts
      <4>1. DOMAIN ran \subseteq 1 .. Attempts + Len(slots)
        BY <2>1 DEF Rows
      <4>2. Attempts + Len(slots) = Attempts
        BY <3>2
      <4>3. \A n \in 1 .. Attempts : n \in DOMAIN ran
        BY <2>1, <3>2 DEF Tree
      <4>. QED
        BY <4>1, <4>2, <4>3
    <3>5. Cardinality(DOMAIN ran) = Attempts
      BY <3>2, <3>4, FS_Interval
    <3>6. {n \in DOMAIN outcome : outcome[n] # NoProposal} = {n \in DOMAIN ran : ran[n] # NoProposal}
      <4>1. DOMAIN outcome = DOMAIN ran
        BY <2>1, <3>2, <3>4 DEF Typed, Attempts
      <4>2. \A n \in DOMAIN ran : outcome[n] = ran[n]
        BY <2>1, <3>2, <3>4 DEF Tree
      <4>. QED
        BY <4>1, <4>2
    <3>. QED
      BY <2>1, <3>3, <3>5, <3>6 DEF OnlineCost, Tree
  <2>. QED
    BY <2>1, <2>2 DEF NodeIsItsAttempt, Tree
<1>. QED
  BY <1>1, Invariant, PTL

\* Whatever the policy asks for, no node but the root is continued twice, the caps on nodes
\* hold with the round in hand counted, and a planned grid is neither wider nor deeper than
\* planned (_check_batch, _eligible, _admitted).
THEOREM RecordingsAreLegal == Spec => []RecordingIsLegal
<1>1. ASSUME Inv, Legal PROVE RecordingIsLegal
  <2>1. ASSUME NEW v \in Nodes(parent) \ {Root} PROVE Cardinality(Children(parent, v)) <= 1
    <3>1. CASE Children(parent, v) = {}
      BY <3>1, FS_EmptySet
    <3>2. CASE Children(parent, v) # {}
      <4>1. PICK n : n \in Children(parent, v)
        BY <3>2
      <4>2. \A m : m \in Children(parent, v) <=> m = n
        BY <1>1, <2>1, <4>1 DEF Legal, Children
      <4>3. Children(parent, v) = {n}
        BY <4>2
      <4>4. Cardinality(Children(parent, v)) = 1
        BY <4>3, FS_Singleton
      <4>. QED
        BY <4>4
    <3>. QED
      BY <3>1, <3>2
  <2>2. OnlyRootBranches(parent)
    BY <2>1 DEF OnlyRootBranches
  <2>. QED
    BY <1>1, <2>2 DEF RecordingIsLegal, Legal
<1>. QED
  BY <1>1, Invariant, PTL

-----------------------------------------------------------------------------
(* The round log.                                                            *)

\* The youngest node the first r rounds of the log created.
Reach(r) == IF r = 0 THEN 0 ELSE rounds[r].produced[Len(rounds[r].produced)]

\* The rounds of the log, one after the other, created the nodes in order, each under a
\* node there was before its round; and no round is empty.
LogInv ==
  /\ Reach(Len(rounds)) = Attempts
  /\ \A r \in DOMAIN rounds :
       /\ rounds[r].selected # <<>>
       /\ \A i \in DOMAIN rounds[r].selected :
            /\ rounds[r].produced[i] = Reach(r - 1) + i
            /\ rounds[r].selected[i] \in 0 .. Reach(r - 1)
  /\ pc = "expand" => scheduled # <<>>

LEMMA LogStays ==
  ASSUME LogInv, UNCHANGED <<parent, rounds, scheduled>>, pc' = "expand" => pc = "expand"
  PROVE  LogInv'
<1>1. Attempts' = Attempts /\ \A r : Reach(r)' = Reach(r)
  BY DEF Attempts, Reach
<1>. QED
  BY <1>1 DEF LogInv

\* Something is admitted of every batch: its first selection fits the grid, and a node is left.
LEMMA ChosenIsSome ==
  ASSUME Typed, NEW s \in Answers, s # <<>>, IsAction(s, Offered), Attempts < MaxNodes
  PROVE  Chosen(s) # <<>>
<1>1. PICK k \in 0 .. MaxBatch : s \in [1 .. k -> 0 .. Attempts + 1]
  BY DEF Answers
<1>2. k \in Nat /\ DOMAIN s = 1 .. k /\ MaxNodes \in Nat /\ Attempts \in Nat
  BY <1>1, RolloutConfig DEF Typed, Attempts
<1>3. k # 0 /\ 1 \in DOMAIN s
  BY <1>1, <1>2
<1>. DEFINE c == Cardinality(Kept(s))
<1>4. 1 \in Kept(s)
  <2>1. ASSUME Planned, s[1] = Root PROVE RootsUpTo(s, 1) <= plan.branches - Opened
    <3>1. plan.branches \in Nat /\ Opened \in Nat
      <4>1. plan \in Grids
        BY <2>1 DEF Typed, Planned
      <4>. QED
        BY <4>1, OpenedIs, RolloutConfig DEF Opened, Grids
    <3>2. s[1] \in Offered
      BY <1>3 DEF IsAction
    <3>3. Opened < plan.branches
      BY <2>1, <3>2 DEF Offered
    <3>4. {j \in 1 .. 1 : s[j] = Root} = {1}
      BY <2>1
    <3>5. RootsUpTo(s, 1) = 1
      BY <3>4, FS_Singleton DEF RootsUpTo
    <3>. QED
      BY <3>1, <3>3, <3>5
  <2>. QED
    BY <1>3, <2>1 DEF Kept
<1>5. c \in Nat /\ Admitted(s) = [r \in 1 .. c |-> s[Place(s, r)]]
  BY <1>2, AdmittedIs
<1>6. c # 0
  <2>1. Kept(s) \in SUBSET (0 .. k)
    BY <1>2 DEF Kept
  <2>2. IsFiniteSet(Kept(s))
    BY <1>2, <2>1, Finitely
  <2>. QED
    BY <1>4, <2>2, FS_EmptySet
<1>. HIDE DEF c
<1>7. Len(Admitted(s)) = c
  BY <1>5
<1>. DEFINE n == Shortest(c, MaxNodes - Attempts)
<1>8. n \in Nat /\ n # 0 /\ n <= c
  BY <1>2, <1>5, <1>6 DEF Shortest
<1>9. Chosen(s) = SubSeq(Admitted(s), 1, n)
  BY <1>7 DEF Chosen, Truncated
<1>. HIDE DEF n
<1>10. Admitted(s) \in Seq({s[Place(s, r)] : r \in 1 .. c})
  BY <1>5
<1>11. Len(Chosen(s)) = n
  <2>1. \A i \in 1 .. n : Admitted(s)[i] \in {s[Place(s, r)] : r \in 1 .. c}
    BY <1>5, <1>8
  <2>. QED
    BY <1>7, <1>8, <1>9, <1>10, <2>1, SubSeqProperties
<1>. QED
  BY <1>8, <1>11

LEMMA SelectKeepsLog ==
  ASSUME Inv, LogInv, NEW s \in Answers, Select(s)
  PROVE  LogInv'
<1>1. scheduled' = Chosen(s) /\ UNCHANGED <<parent, rounds>>
  BY DEF Select, Chosen, treeVars
<1>2. Chosen(s) # <<>>
  BY ChosenIsSome DEF Inv, Select, MaySelect
<1>3. Attempts' = Attempts /\ \A r : Reach(r)' = Reach(r)
  BY <1>1 DEF Attempts, Reach
<1>. QED
  BY <1>1, <1>2, <1>3 DEF LogInv

LEMMA AttachKeepsLog ==
  ASSUME Inv, LogInv, Attach
  PROVE  LogInv'
<1>. PICK m, R, e : /\ m = Len(scheduled) /\ R = Len(rounds)
                    /\ e = [k |-> batch, selected |-> scheduled, produced |-> Produced]
  OBVIOUS
<1>1. /\ Typed /\ rounds' = Append(rounds, e) /\ pc' = "select" /\ scheduled # <<>>
      /\ Len(slots) = m /\ scheduled \in Seq(0 .. Attempts) /\ Attempts \in Nat
  BY DEF Inv, Typed, Attach, LogInv, Nodes, Attempts
<1>2. m \in Nat \ {0} /\ DOMAIN scheduled = 1 .. m
  BY <1>1
<1>3. Produced = [i \in 1 .. m |-> Attempts + i]
  BY <1>2 DEF Produced, Number
<1>4. Len(Produced) = m
  BY <1>2, <1>3
<1>5. /\ R \in Nat /\ DOMAIN rounds = 1 .. R /\ DOMAIN rounds' = 1 .. R + 1 /\ Len(rounds') = R + 1
      /\ \A r \in 1 .. R : rounds'[r] = rounds[r]
      /\ rounds'[R + 1] = e
  <2>1. rounds \in Seq(Rounds)
    BY <1>1 DEF Typed
  <2>. QED
    BY <1>1, <2>1, AppendProperties
<1>6. /\ rounds'[R + 1].selected = scheduled /\ rounds'[R + 1].produced = Produced
  BY <1>5
<1>7. Attempts' = Attempts + m
  BY <1>1, Grown DEF Attempts
<1>8. \A r \in 0 .. R : Reach(r)' = Reach(r)
  BY <1>5 DEF Reach
<1>9. Reach(R + 1)' = Attempts'
  BY <1>2, <1>3, <1>4, <1>5, <1>6, <1>7 DEF Reach
<1>10. Reach(R) = Attempts
  BY DEF LogInv
<1>11. ASSUME NEW r \in 1 .. R
       PROVE  /\ rounds'[r].selected # <<>>
              /\ \A i \in DOMAIN rounds'[r].selected :
                   /\ rounds'[r].produced[i] = Reach(r - 1)' + i
                   /\ rounds'[r].selected[i] \in 0 .. Reach(r - 1)'
  <2>1. r - 1 \in 0 .. R
    BY <1>5
  <2>. QED
    BY <1>5, <1>8, <2>1 DEF LogInv
<1>12. /\ rounds'[R + 1].selected # <<>>
       /\ \A i \in DOMAIN rounds'[R + 1].selected :
            /\ rounds'[R + 1].produced[i] = Reach(R)' + i
            /\ rounds'[R + 1].selected[i] \in 0 .. Reach(R)'
  <2>1. Reach(R)' = Attempts
    BY <1>5, <1>8, <1>10
  <2>. QED
    BY <1>1, <1>2, <1>3, <1>6, <2>1
<1>13. \A r \in DOMAIN rounds' :
         /\ rounds'[r].selected # <<>>
         /\ \A i \in DOMAIN rounds'[r].selected :
              /\ rounds'[r].produced[i] = Reach(r - 1)' + i
              /\ rounds'[r].selected[i] \in 0 .. Reach(r - 1)'
  <2>1. \A r \in 1 .. R + 1 : r \in 1 .. R \/ r = R + 1
    BY <1>5
  <2>2. (R + 1) - 1 = R
    BY <1>5
  <2>. QED
    BY <1>5, <1>11, <1>12, <2>1, <2>2
<1>. QED
  BY <1>1, <1>5, <1>9, <1>13 DEF LogInv

LEMMA LogKept ==
  ASSUME Inv, LogInv, [Next]_vars
  PROVE  LogInv'
<1>1. CASE UNCHANGED vars
  BY <1>1, LogStays DEF vars
<1>2. CASE \E s \in Answers : Select(s)
  BY <1>2, SelectKeepsLog
<1>3. CASE Attach
  BY <1>3, AttachKeepsLog
<1>4. ASSUME NEW reason \in StopReasons \cup {"raised"}, Stop(reason) PROVE LogInv'
  BY <1>4, LogStays DEF Stop, treeVars, StopReasons
<1>5. CASE RefuseGrid \/ RaiseOut \/ StopAtRounds \/ StopAtDeadline \/ StopAtNodes \/ StopOnEmpty
  BY <1>4, <1>5
  DEF RefuseGrid, RaiseOut, StopAtRounds, StopAtDeadline, StopAtNodes, StopOnEmpty, StopReasons
<1>6. CASE \E s \in Answers : RefuseBatch(s)
  BY <1>4, <1>6 DEF RefuseBatch
<1>7. CASE \E grid \in Grids \cup {NoPlan} : PlanGrid(grid)
  BY <1>7, LogStays DEF PlanGrid
<1>8. CASE Worker
  BY <1>8, LogStays DEF Worker, Start, Attempt, Capture, StoreFails, treeVars
<1>. QED
  BY <1>1, <1>2, <1>3, <1>5, <1>6, <1>7, <1>8 DEF Next, Runner

\* Each round of the log takes the tree on by as many nodes as it selected.
LEMMA LogIs ==
  ASSUME Typed, Tree, LogInv
  PROVE  /\ \A r \in 0 .. Len(rounds) : Reach(r) \in 0 .. Attempts
         /\ \A r \in 1 .. Len(rounds) :
              /\ Len(rounds[r].selected) \in Nat \ {0}
              /\ DOMAIN rounds[r].selected = 1 .. Len(rounds[r].selected)
              /\ Reach(r) = Reach(r - 1) + Len(rounds[r].selected)
              /\ rounds[r].produced
                   = [i \in 1 .. Len(rounds[r].selected) |-> Reach(r - 1) + i]
<1>1. /\ rounds \in Seq(Rounds) /\ Len(rounds) \in Nat /\ DOMAIN rounds = 1 .. Len(rounds)
      /\ Attempts \in Nat /\ DOMAIN parent = 1 .. Attempts
  BY DEF Typed, Attempts
<1>2. ASSUME NEW r \in 1 .. Len(rounds)
      PROVE  /\ rounds[r].selected \in Seq(Nat) /\ rounds[r].produced \in Seq(Nat)
             /\ Len(rounds[r].selected) = Len(rounds[r].produced)
             /\ Len(rounds[r].selected) \in Nat \ {0}
             /\ DOMAIN rounds[r].selected = 1 .. Len(rounds[r].selected)
             /\ DOMAIN rounds[r].produced = 1 .. Len(rounds[r].selected)
             /\ \A i \in 1 .. Len(rounds[r].selected) :
                  rounds[r].produced[i] = Reach(r - 1) + i /\ rounds[r].produced[i] \in 1 .. Attempts
  <2>1. rounds[r] \in Rounds
    BY <1>1
  <2>2. rounds[r].selected \in Seq(Nat) /\ rounds[r].produced \in Seq(Nat)
    BY <2>1 DEF Rounds
  <2>3. Len(rounds[r].selected) = Len(rounds[r].produced) /\ rounds[r].selected # <<>>
    BY <1>1 DEF Tree, LogInv
  <2>4. \A i \in DOMAIN rounds[r].selected :
          rounds[r].produced[i] = Reach(r - 1) + i /\ rounds[r].produced[i] \in 1 .. Attempts
    BY <1>1 DEF Tree, LogInv
  <2>. QED
    BY <2>2, <2>3, <2>4
<1>3. ASSUME NEW r \in 1 .. Len(rounds)
      PROVE  Reach(r) = Reach(r - 1) + Len(rounds[r].selected) /\ Reach(r) \in 0 .. Attempts
  <2>1. r # 0 /\ Reach(r) = rounds[r].produced[Len(rounds[r].selected)]
    BY <1>2 DEF Reach
  <2>2. Len(rounds[r].selected) \in 1 .. Len(rounds[r].selected)
    BY <1>2
  <2>3. rounds[r].produced[Len(rounds[r].selected)] = Reach(r - 1) + Len(rounds[r].selected)
    BY <1>2, <2>2
  <2>4. rounds[r].produced[Len(rounds[r].selected)] \in 1 .. Attempts
    BY <1>2, <2>2
  <2>. QED
    BY <1>1, <2>1, <2>3, <2>4
<1>4. Reach(0) = 0 /\ 0 \in 0 .. Attempts
  BY <1>1 DEF Reach
<1>5. \A r \in 0 .. Len(rounds) : r = 0 \/ r \in 1 .. Len(rounds)
  BY <1>1
<1>6. ASSUME NEW r \in 1 .. Len(rounds)
      PROVE  rounds[r].produced = [i \in 1 .. Len(rounds[r].selected) |-> Reach(r - 1) + i]
  <2>. DEFINE p == rounds[r].produced
              f == [i \in 1 .. Len(rounds[r].selected) |-> Reach(r - 1) + i]
  <2>1. p \in Seq(Nat) /\ DOMAIN p = 1 .. Len(rounds[r].selected)
    BY <1>2
  <2>2. \A i \in 1 .. Len(rounds[r].selected) : p[i] = f[i]
    BY <1>2
  <2>. HIDE DEF p
  <2>3. p \in [1 .. Len(rounds[r].selected) -> Nat]
    BY <2>1, LenProperties
  <2>4. p = f
    BY <2>2, <2>3
  <2>. QED
    BY <2>4 DEF p
<1>7. \A r \in 0 .. Len(rounds) : Reach(r) \in 0 .. Attempts
  BY <1>3, <1>4, <1>5
<1>. QED
  BY <1>2, <1>3, <1>6, <1>7

-----------------------------------------------------------------------------
(* The replay of it.                                                         *)

\* The replay's operators are an instance's: those of the library mean what they mean here.
LEMMA SameWords ==
  ASSUME NEW S
  PROVE  Again!Cardinality(S) = Cardinality(S) /\ Again!ToSet(S) = ToSet(S)
<1>1. Again!Cardinality(S) = Cardinality(S)
  BY Zenon DEF Again!Cardinality, Cardinality
<1>2. Again!ToSet(S) = ToSet(S)
  BY Zenon DEF Again!ToSet, ToSet
<1>. QED
  BY <1>1, <1>2

LEMMA Exceeds ==
  ASSUME NEW k \in Nat, NEW B \in SUBSET (0 .. k), NEW A \in SUBSET B, NEW x \in B \ A
  PROVE  Cardinality(A) \in Nat /\ Cardinality(B) \in Nat /\ Cardinality(A) < Cardinality(B)
<1>1. A \in SUBSET (0 .. k)
  OBVIOUS
<1>2. IsFiniteSet(A) /\ IsFiniteSet(B) /\ Cardinality(A) \in Nat /\ Cardinality(B) \in Nat
  BY <1>1, Finitely
<1>3. Cardinality(A \cup {x}) = Cardinality(A) + 1
  BY <1>2, FS_AddElement
<1>4. A \cup {x} \subseteq B
  OBVIOUS
<1>5. Cardinality(A \cup {x}) <= Cardinality(B)
  BY <1>2, <1>4, FS_Subset
<1>. QED
  BY <1>2, <1>3, <1>5

Below(nodes, c) == {d \in nodes : d < c}

\* The member of a set that has so many smaller ones in it is that one.
LEMMA NthIs ==
  ASSUME NEW k \in Nat, NEW nodes \in SUBSET (0 .. k), NEW c \in nodes
  PROVE  /\ Again!Nth(nodes, Cardinality(Below(nodes, c))) = c
         /\ ~(Cardinality(nodes) <= Cardinality(Below(nodes, c)))
<1>1. \A d \in nodes : d \in Nat
  OBVIOUS
<1>2. ASSUME NEW d \in nodes, NEW e \in nodes, d < e
      PROVE  Cardinality(Below(nodes, d)) # Cardinality(Below(nodes, e))
  <2>1. \A n \in Below(nodes, d) : n \in Below(nodes, e)
    BY <1>1, <1>2 DEF Below
  <2>2. d \in Below(nodes, e) /\ ~(d < d)
    BY <1>1, <1>2 DEF Below
  <2>3. d \notin Below(nodes, d)
    BY <2>2 DEF Below
  <2>4. Below(nodes, e) \in SUBSET (0 .. k) /\ Below(nodes, d) \in SUBSET Below(nodes, e)
    <3>1. Below(nodes, e) \subseteq nodes
      BY DEF Below
    <3>. QED
      BY <2>1, <3>1
  <2>5. /\ Cardinality(Below(nodes, d)) \in Nat /\ Cardinality(Below(nodes, e)) \in Nat
        /\ Cardinality(Below(nodes, d)) < Cardinality(Below(nodes, e))
    BY <2>2, <2>3, <2>4, Exceeds
  <2>. QED
    BY <2>5
<1>3. \A d \in nodes : Cardinality(Below(nodes, d)) = Cardinality(Below(nodes, c)) => d = c
  BY <1>1, <1>2
<1>4. Again!Nth(nodes, Cardinality(Below(nodes, c))) = c
  <2>. DEFINE n == Cardinality(Below(nodes, c))
  <2>1. \A d \in nodes : Again!Cardinality({e \in nodes : e < d}) = Cardinality(Below(nodes, d))
    BY SameWords, Zenon DEF Below
  <2>2. \A d \in nodes : Again!Cardinality({e \in nodes : e < d}) = n <=> d = c
    BY <1>3, <2>1
  <2>3. Again!Nth(nodes, n) = CHOOSE d \in nodes : Again!Cardinality({e \in nodes : e < d}) = n
    BY Zenon DEF Again!Nth
  <2>. HIDE DEF n
  <2>4. Again!Nth(nodes, n) = c
    BY <2>2, <2>3, Zenon
  <2>. QED
    BY <2>4 DEF n
<1>5. Below(nodes, c) \in SUBSET nodes /\ c \in nodes \ Below(nodes, c)
  BY <1>1 DEF Below
<1>6. /\ Cardinality(Below(nodes, c)) \in Nat /\ Cardinality(nodes) \in Nat
      /\ Cardinality(Below(nodes, c)) < Cardinality(nodes)
  BY <1>5, Exceeds
<1>. QED
  BY <1>4, <1>6

\* Where a replay that has taken the first rounds of the log stands, whatever the policy
\* asked for: at the nodes they created, in order, and it ends only when that is all.
ReplayInv ==
  /\ ~ Recorded => taken = 0 /\ stop = "running"
  /\ taken \in 0 .. Len(rounds) /\ taken <= Reach(taken)
  /\ revealed = [i \in 1 .. Reach(taken) + 1 |-> i - 1]
  /\ taken > 0 => last = [selected |-> rounds[taken].selected, revealed |-> rounds[taken].produced]
  /\ stop \in {"running", "all_revealed"}
  /\ stop = "all_revealed" => taken = Len(rounds)

\* All that the lemmas below ask of the state, and what it says of the next round.
Replayed == Inv /\ Legal /\ LogInv /\ ReplayInv
Width == Len(Ask)

LEMMA RevealedIs ==
  ASSUME Replayed
  PROVE  /\ taken \in 0 .. Len(rounds) /\ Len(rounds) \in Nat /\ Attempts \in Nat
         /\ Reach(taken) \in 0 .. Attempts /\ revealed \in Seq(Nat)
         /\ Len(revealed) = Reach(taken) + 1 /\ Again!Revealed = 0 .. Reach(taken)
         /\ Again!Complete <=> Reach(taken) = Attempts
<1>1. /\ taken \in 0 .. Len(rounds) /\ Len(rounds) \in Nat /\ Attempts \in Nat
      /\ Reach(taken) \in 0 .. Attempts /\ revealed = [i \in 1 .. Reach(taken) + 1 |-> i - 1]
  BY LogIs DEF Replayed, Inv, ReplayInv, Typed, Attempts
<1>2. PICK b \in Nat : b = Reach(taken)
  BY <1>1
<1>3. revealed \in Seq(Nat) /\ Len(revealed) = b + 1
  BY <1>1, <1>2
<1>4. Again!Revealed = 0 .. b
  <2>1. Again!Revealed = {revealed[i] : i \in 1 .. b + 1}
    BY <1>1, <1>2, SameWords DEF Again!Revealed, ToSet
  <2>2. \A i \in 1 .. b + 1 : revealed[i] = i - 1 /\ i - 1 \in 0 .. b
    BY <1>1, <1>2
  <2>3. \A n \in 0 .. b : n + 1 \in 1 .. b + 1 /\ revealed[n + 1] = n
    BY <1>1, <1>2
  <2>. QED
    BY <2>1, <2>2, <2>3
<1>5. Again!Complete <=> b = Attempts
  BY <1>1, <1>2, <1>3 DEF Again!Complete, Attempts
<1>. QED
  BY <1>1, <1>2, <1>3, <1>4, <1>5

\* The next round of the log, and where its nodes are in the tree.
LEMMA AskIs ==
  ASSUME Replayed, taken < Len(rounds)
  PROVE  /\ Width \in Nat \ {0} /\ DOMAIN Ask = 1 .. Width
         /\ Reach(taken + 1) = Reach(taken) + Width /\ Reach(taken + 1) \in 0 .. Attempts
         /\ rounds[taken + 1].produced = [i \in 1 .. Width |-> Reach(taken) + i]
         /\ DOMAIN parent = 1 .. Attempts
         /\ \A i \in 1 .. Width : /\ Reach(taken) + i \in DOMAIN parent
                                  /\ parent[Reach(taken) + i] = Ask[i]
                                  /\ Ask[i] \in 0 .. Reach(taken)
<1>1. /\ taken \in 0 .. Len(rounds) /\ Len(rounds) \in Nat /\ Reach(taken) \in Nat
      /\ Typed /\ Tree /\ LogInv
  BY RevealedIs DEF Replayed, Inv
<1>2. /\ taken + 1 \in 1 .. Len(rounds) /\ taken + 1 \in 0 .. Len(rounds) /\ (taken + 1) - 1 = taken
      /\ taken + 1 \in DOMAIN rounds
  BY <1>1 DEF Typed
<1>3. /\ Width \in Nat \ {0} /\ DOMAIN Ask = 1 .. Width
      /\ Reach(taken + 1) = Reach(taken) + Width /\ Reach(taken + 1) \in 0 .. Attempts
      /\ rounds[taken + 1].produced = [i \in 1 .. Width |-> Reach(taken) + i]
  BY <1>1, <1>2, LogIs DEF Width, Ask
<1>4. \A i \in DOMAIN Ask :
        /\ rounds[taken + 1].produced[i] \in DOMAIN parent
        /\ parent[rounds[taken + 1].produced[i]] = Ask[i]
        /\ Ask[i] \in 0 .. Reach(taken)
  BY <1>1, <1>2 DEF Tree, LogInv, Ask
<1>5. DOMAIN parent = 1 .. Attempts
  BY <1>1 DEF Typed, Attempts
<1>. QED
  BY <1>3, <1>4, <1>5

\* It is an action of the tree revealed so far: what it selects has no child there yet.
LEMMA AskIsAction ==
  ASSUME Replayed, taken < Len(rounds)
  PROVE  Ask # <<>> /\ Again!IsAction(Ask, Again!Frontier)
<1>. PICK b : b = Reach(taken)
  OBVIOUS
<1>1. /\ b \in Nat /\ Again!Revealed = 0 .. b /\ Width \in Nat \ {0} /\ DOMAIN Ask = 1 .. Width
      /\ \A i \in 1 .. Width : /\ b + i \in DOMAIN parent /\ parent[b + i] = Ask[i]
                               /\ Ask[i] \in 0 .. b
  <2>1. Reach(taken) \in Nat
    BY RevealedIs
  <2>. QED
    BY <2>1, RevealedIs, AskIs
<1>2. \A m, n \in DOMAIN parent : parent[m] = parent[n] => m = n \/ parent[m] = Root
  BY DEF Replayed, Legal
<1>3. ASSUME NEW i \in 1 .. Width, Ask[i] # Root, NEW c \in DOMAIN parent, parent[c] = Ask[i]
      PROVE  c \notin 0 .. b
  <2>1. c = b + i
    BY <1>1, <1>2, <1>3
  <2>. QED
    BY <1>1, <2>1
<1>4. ASSUME NEW i \in 1 .. Width PROVE Ask[i] \in Again!Frontier
  <2>1. Ask[i] # Root => Again!Children(parent, Ask[i]) \cap Again!Revealed = {}
    BY <1>1, <1>3 DEF Again!Children
  <2>. QED
    BY <1>1, <2>1 DEF Again!Frontier, Root, Again!Root
<1>5. ASSUME NEW i \in 1 .. Width, NEW j \in 1 .. Width, Ask[i] = Ask[j], Ask[i] # Root
      PROVE  i = j
  <2>1. b + i = b + j
    BY <1>1, <1>2, <1>5
  <2>. QED
    BY <1>1, <2>1
<1>6. Ask # <<>>
  BY <1>1 DEF Width
<1>. QED
  BY <1>1, <1>4, <1>5, <1>6 DEF Again!IsAction, Root, Again!Root

\* And each of its selections retrieves the very node it created.
LEMMA Retrieves ==
  ASSUME Replayed, taken < Len(rounds), NEW i \in 1 .. Width
  PROVE  Again!Retrieved(Ask, i) = Reach(taken) + i
<1>. PICK b : b = Reach(taken)
  OBVIOUS
<1>1. /\ b \in Nat /\ Again!Revealed = 0 .. b /\ Width \in Nat \ {0} /\ DOMAIN Ask = 1 .. Width
      /\ Attempts \in Nat /\ DOMAIN parent = 1 .. Attempts
      /\ \A j \in 1 .. Width : b + j \in DOMAIN parent /\ parent[b + j] = Ask[j]
  BY RevealedIs, AskIs
<1>. DEFINE left == Again!Children(parent, Ask[i]) \ Again!Revealed
            same == {j \in 1 .. i - 1 : Ask[j] = Ask[i]}
<1>2. \A n : n \in left <=> n \in 1 .. Attempts /\ parent[n] = Ask[i] /\ ~(n \in 0 .. b)
  BY <1>1 DEF Again!Children
<1>3. left \in SUBSET (0 .. Attempts) /\ b + i \in left
  BY <1>1, <1>2
<1>. HIDE DEF left
<1>4. Below(left, b + i) = {b + j : j \in same}
  <2>1. ASSUME NEW n \in left, n < b + i PROVE \E j \in same : n = b + j
    <3>1. n \in 1 .. Attempts /\ parent[n] = Ask[i] /\ b < n
      BY <1>1, <1>2, <2>1
    <3>2. n - b \in 1 .. i - 1 /\ n = b + (n - b) /\ n - b \in 1 .. Width
      BY <1>1, <2>1, <3>1
    <3>3. Ask[n - b] = Ask[i]
      BY <1>1, <3>1, <3>2
    <3>. QED
      BY <3>2, <3>3
  <2>2. ASSUME NEW j \in same PROVE b + j \in left /\ b + j < b + i
    <3>1. j \in 1 .. Width /\ j < i /\ Ask[j] = Ask[i] /\ ~(b + j \in 0 .. b)
      BY <1>1
    <3>. QED
      BY <1>1, <1>2, <3>1
  <2>. HIDE DEF same
  <2>. QED
    BY <2>1, <2>2 DEF Below
<1>5. Cardinality({b + j : j \in same}) = Cardinality(same)
  <2>1. same \in SUBSET (0 .. Width)
    BY <1>1
  <2>. HIDE DEF same
  <2>. QED
    BY <1>1, <2>1, ShiftedCount
<1>. HIDE DEF same
<1>6. Again!Nth(left, Cardinality(same)) = b + i /\ ~(Cardinality(left) <= Cardinality(same))
  BY <1>1, <1>3, <1>4, <1>5, NthIs
<1>7. Again!Retrieved(Ask, i)
        = IF Cardinality(left) <= Cardinality(same) THEN Again!None ELSE Again!Nth(left, Cardinality(same))
  <2>1. Again!Retrieved(Ask, i)
          = IF Again!Cardinality(left) <= Again!Cardinality(same)
              THEN Again!None ELSE Again!Nth(left, Again!Cardinality(same))
    BY Zenon DEF Again!Retrieved, left, same
  <2>2. Again!Cardinality(left) = Cardinality(left) /\ Again!Cardinality(same) = Cardinality(same)
    BY SameWords
  <2>. QED
    BY <2>1, <2>2, Zenon
<1>. QED
  BY <1>6, <1>7

LEMMA FoundIs ==
  ASSUME Replayed, taken < Len(rounds)
  PROVE  /\ Again!Found(Ask) = rounds[taken + 1].produced
         /\ Again!New(Ask) = [i \in 1 .. Width |-> Reach(taken) + i]
<1>. PICK b, w : b = Reach(taken) /\ w = Width
  OBVIOUS
<1>1. /\ b \in Nat /\ w \in Nat \ {0} /\ DOMAIN Ask = 1 .. w
      /\ rounds[taken + 1].produced = [i \in 1 .. w |-> b + i]
  BY RevealedIs, AskIs
<1>2. Again!Found(Ask) = [i \in 1 .. w |-> b + i]
  BY <1>1, Retrieves DEF Again!Found
<1>. DEFINE hits == {i \in DOMAIN Ask : Again!Found(Ask)[i] # Again!None}
<1>3. hits = 1 .. w
  BY <1>1, <1>2 DEF Again!None, Again!Root
<1>4. Cardinality(1 .. w) = w /\ 1 .. w \in SUBSET (0 .. w)
  BY <1>1, FS_Interval
<1>5. ASSUME NEW r \in 1 .. w PROVE Again!Nth(1 .. w, r - 1) = r
  <2>1. Below(1 .. w, r) = 1 .. r - 1
    BY <1>1 DEF Below
  <2>2. Cardinality(Below(1 .. w, r)) = r - 1
    BY <1>1, <2>1, FS_Interval
  <2>. QED
    BY <1>1, <1>4, <2>2, NthIs
<1>6. Again!New(Ask) = [r \in 1 .. Cardinality(hits) |-> Again!Found(Ask)[Again!Nth(hits, r - 1)]]
  BY SameWords, Zenon DEF Again!New
<1>. HIDE DEF hits
<1>7. Again!New(Ask) = [r \in 1 .. w |-> b + r]
  BY <1>2, <1>3, <1>4, <1>5, <1>6
<1>. QED
  BY <1>1, <1>2, <1>7

\* No node of a rollout holds what a trajectory cannot: what an attempt came to is known.
LEMMA AskIsHoldable ==
  ASSUME Replayed, taken < Len(rounds)
  PROVE  Again!Holdable(Ask)
<1>1. ASSUME NEW i \in 1 .. Width
      PROVE  /\ Reach(taken) + i \in Nodes(parent) /\ Reach(taken) + i # Root
             /\ outcome[Reach(taken) + i] # Unknown
  <2>1. Reach(taken) \in Nat /\ Reach(taken) + i \in 1 .. Len(parent) /\ Width \in Nat
    BY RevealedIs, AskIs DEF Attempts
  <2>2. outcome[Reach(taken) + i] \in AllOutcomes
    BY <2>1 DEF Replayed, Inv, Typed
  <2>. QED
    BY <2>1, <2>2, RolloutConfig DEF AllOutcomes, Nodes, Root
<1>2. \A i \in 1 .. Width :
        [n \in Nodes(parent) |-> IF n = Root THEN NoProposal ELSE outcome[n]][Reach(taken) + i] # Unknown
  BY <1>1
<1>3. Width \in Nat /\ Again!New(Ask) = [i \in 1 .. Width |-> Reach(taken) + i]
  BY AskIs, FoundIs
<1>4. \A c \in ToSet(Again!New(Ask)) : \E i \in 1 .. Width : c = Reach(taken) + i
  BY <1>3 DEF ToSet
<1>. QED
  BY <1>2, <1>4, SameWords, Zenon DEF Again!Holdable

LEMMA RoundKeeps ==
  ASSUME Replayed, RetraceRound
  PROVE  ReplayInv'
<1>. PICK b, w, s : b = Reach(taken) /\ w = Width /\ s = Ask
  OBVIOUS
<1>1. Recorded /\ taken < Len(rounds) /\ UNCHANGED vars
  BY DEF RetraceRound
<1>2. /\ s # <<>> /\ Again!IsAction(s, Again!Frontier) /\ Again!Holdable(s)
      /\ Again!Found(s) = rounds[taken + 1].produced
      /\ Again!New(s) = [i \in 1 .. w |-> b + i]
  BY <1>1, AskIsAction, AskIsHoldable, FoundIs
<1>3. Again!Decide(s)
  BY <1>2 DEF RetraceRound, Again!RefuseBatch, Again!Refuse
<1>4. /\ stop = "running" /\ stop' = stop /\ taken' = taken + 1
      /\ revealed' = revealed \o Again!New(s)
      /\ last' = [selected |-> s, revealed |-> Again!Found(s)]
  BY <1>3 DEF Again!Decide, Again!MaySelect, Again!Running, Again!Reveal
<1>5. /\ taken \in Nat /\ Len(rounds) \in Nat /\ b \in Nat /\ w \in Nat \ {0}
      /\ Reach(taken + 1) = b + w
      /\ revealed = [i \in 1 .. b + 1 |-> i - 1] /\ revealed \in Seq(Nat) /\ Len(revealed) = b + 1
  BY <1>1, RevealedIs, AskIs DEF Replayed, ReplayInv
<1>6. revealed' = [i \in 1 .. (b + w) + 1 |-> i - 1]
  <2>1. PICK new : new = Again!New(s)
    OBVIOUS
  <2>2. new \in Seq(Nat) /\ Len(new) = w /\ \A i \in 1 .. w : new[i] = b + i
    BY <1>2, <1>5, <2>1
  <2>3. revealed' \in [1 .. (b + w) + 1 -> Nat]
    <3>1. revealed' \in Seq(Nat) /\ Len(revealed') = (b + w) + 1
      BY <1>4, <1>5, <2>1, <2>2
    <3>. QED
      BY <3>1, LenProperties
  <2>4. /\ \A n \in DOMAIN revealed : revealed'[n] = revealed[n]
        /\ \A j \in DOMAIN new : revealed'[Len(revealed) + j] = new[j]
    <3>1. /\ \A n \in DOMAIN revealed : (revealed \o new)[n] = revealed[n]
          /\ \A j \in DOMAIN new : (revealed \o new)[Len(revealed) + j] = new[j]
      <4>1. revealed \in Seq(Nat) /\ new \in Seq(Nat)
        BY <1>5, <2>2
      <4>. QED
        BY <4>1, Joined
    <3>2. revealed' = revealed \o new
      BY <1>4, <2>1
    <3>. QED
      BY <3>1, <3>2, Zenon
  <2>5. /\ \A i \in 1 .. b + 1 : revealed'[i] = i - 1
        /\ \A j \in 1 .. w : revealed'[(b + 1) + j] = b + j
    <3>1. DOMAIN revealed = 1 .. b + 1 /\ \A i \in 1 .. b + 1 : revealed[i] = i - 1
      BY <1>5
    <3>2. DOMAIN new = 1 .. w
      BY <2>2
    <3>. QED
      BY <1>5, <2>2, <2>4, <3>1, <3>2
  <2>6. ASSUME NEW i \in 1 .. (b + w) + 1 PROVE revealed'[i] = i - 1
    <3>1. i \in 1 .. b + 1 \/ i - (b + 1) \in 1 .. w
      BY <1>5
    <3>2. i = (b + 1) + (i - (b + 1)) /\ b + (i - (b + 1)) = i - 1
      BY <1>5
    <3>. QED
      BY <2>5, <3>1, <3>2
  <2>. QED
    BY <2>3, <2>6
<1>7. rounds' = rounds /\ Recorded'
  BY <1>1 DEF vars, Recorded
<1>8. Reach(taken)' = b + w
  <2>1. Reach(taken)' = rounds[taken + 1].produced[Len(rounds[taken + 1].produced)]
    BY <1>1, <1>4, <1>5 DEF Reach, vars
  <2>. QED
    BY <1>5, <2>1 DEF Reach
<1>9. taken <= b
  BY DEF Replayed, ReplayInv
<1>10. taken' \in 0 .. Len(rounds)' /\ taken' <= b + w
  BY <1>1, <1>4, <1>5, <1>7, <1>9
<1>11. last' = [selected |-> rounds'[taken'].selected, revealed |-> rounds'[taken'].produced]
  BY <1>2, <1>4, <1>7 DEF Ask
<1>. QED
  BY <1>4, <1>6, <1>7, <1>8, <1>10, <1>11 DEF ReplayInv

\* A replay ends where the rollout did: no earlier, since the whole tree is not revealed, and
\* the cap, one round for each node, is not met.
LEMMA EndKeeps ==
  ASSUME Replayed, RetraceEnd
  PROVE  ReplayInv'
<1>1. /\ taken \in 0 .. Len(rounds) /\ Len(rounds) \in Nat /\ Attempts \in Nat
      /\ Reach(taken) \in 0 .. Attempts /\ taken <= Reach(taken)
      /\ Again!Complete <=> Reach(taken) = Attempts
      /\ Reach(Len(rounds)) = Attempts
  BY RevealedIs DEF Replayed, ReplayInv, LogInv
<1>2. Again!Complete => taken = Len(rounds)
  <2>1. ASSUME taken < Len(rounds) PROVE Reach(taken) < Attempts
    <3>1. Width \in Nat \ {0} /\ Reach(taken) + Width <= Attempts
      BY <1>1, <2>1, AskIs
    <3>. QED
      BY <1>1, <3>1
  <2>. QED
    BY <1>1, <2>1
<1>3. ~ Again!OutOfRounds
  <2>1. ASSUME Again!OutOfRounds PROVE FALSE
    <3>1. ~ Again!Complete /\ Attempts - taken <= 0
      BY <2>1 DEF Again!OutOfRounds, Again!RoundsLeft, Attempts
    <3>. QED
      BY <1>1, <3>1
  <2>. QED
    BY <2>1
<1>4. ~(taken = Len(rounds) /\ Again!PolicyStops)
  BY <1>1 DEF Again!PolicyStops, Again!MaySelect
<1>5. Again!AllRevealed /\ Recorded /\ UNCHANGED vars
  BY <1>3, <1>4 DEF RetraceEnd
<1>6. /\ stop' = "all_revealed" /\ taken = Len(rounds)
      /\ UNCHANGED <<rounds, revealed, taken, last, pc>>
  BY <1>2, <1>5 DEF Again!AllRevealed, Again!StopFor, Again!log, vars
<1>7. Reach(taken)' = Reach(taken) /\ Recorded'
  BY <1>5, <1>6 DEF Reach, Recorded
<1>. QED
  BY <1>6, <1>7 DEF Replayed, ReplayInv

\* The replay waits for the rollout to end, and a rollout that has ended stays as it is.
LEMMA RolloutKeeps ==
  ASSUME Replayed, Next, UNCHANGED replayVars
  PROVE  ReplayInv'
<1>1. ~ Recorded
  <2>1. Next => pc \in {"plan", "select", "expand"}
    BY DEF Next, Runner, Worker, RefuseGrid, PlanGrid, StopAtRounds, StopAtDeadline, StopAtNodes,
           StopOnEmpty, MaySelect, RefuseBatch, Select, RaiseOut, Attach, Start, Capture,
           StoreFails, Attempt
  <2>. QED
    BY <2>1 DEF Recorded, StopReasons
<1>2. /\ taken = 0 /\ stop = "running" /\ revealed = [i \in 1 .. 1 |-> i - 1]
      /\ taken' = taken /\ stop' = stop /\ revealed' = revealed /\ last' = last
  BY <1>1 DEF Replayed, ReplayInv, Reach, replayVars
<1>3. Reach(taken)' = 0
  BY <1>2 DEF Reach
<1>4. Len(rounds)' \in Nat
  <2>1. Typed'
    BY NextKeeps DEF Replayed, Inv
  <2>. QED
    BY <2>1 DEF Typed
<1>5. 0 + 1 = 1
  OBVIOUS
<1>. QED
  BY <1>2, <1>3, <1>4, <1>5 DEF ReplayInv

LEMMA RetraceInit ==
  ASSUME InitRetrace
  PROVE  Replayed
<1>1. Init /\ revealed = <<Root>> /\ taken = 0 /\ stop = "running" /\ rounds = <<>> /\ parent = <<>>
      /\ pc = "plan"
  BY DEF InitRetrace, Init
<1>2. Reach(0) = 0 /\ Reach(Len(rounds)) = 0 /\ Attempts = 0 /\ Len(rounds) = 0
  BY <1>1 DEF Reach, Attempts
<1>3. LogInv
  BY <1>1, <1>2 DEF LogInv
<1>4. revealed = [i \in 1 .. 0 + 1 |-> i - 1]
  BY <1>1 DEF Root
<1>5. ReplayInv
  BY <1>1, <1>2, <1>4 DEF ReplayInv
<1>. QED
  BY <1>1, <1>3, <1>5, Begins DEF Replayed

LEMMA RetraceStep ==
  ASSUME Replayed, [NextRetrace]_<<vars, replayVars>>
  PROVE  Replayed'
<1>1. [Next]_vars
  BY DEF NextRetrace, RetraceRound, RetraceEnd
<1>2. Inv' /\ Legal' /\ LogInv'
  BY <1>1, NextKeeps, LogKept DEF Replayed
<1>3. CASE UNCHANGED <<vars, replayVars>>
  <2>1. UNCHANGED <<rounds, pc, revealed, taken, last, stop>>
    BY <1>3 DEF vars, replayVars
  <2>2. Reach(taken)' = Reach(taken) /\ Recorded' = Recorded
    BY <2>1 DEF Reach, Recorded
  <2>3. ReplayInv'
    BY <2>1, <2>2 DEF Replayed, ReplayInv
  <2>. QED
    BY <1>2, <2>3 DEF Replayed
<1>4. CASE NextRetrace
  BY <1>2, <1>4, RolloutKeeps, RoundKeeps, EndKeeps DEF NextRetrace, Replayed
<1>. QED
  BY <1>3, <1>4

\* A replay of a recorded rollout by the selections that recorded it retraces it: each is
\* taken, reveals the nodes it created, and the replay ends with the whole tree revealed, in
\* as many rounds, whatever the policy selected and however its attempts ended
\* (replay.py replay, _next_child; orchestrator.py _check_batch).
THEOREM RecordingsRetrace == SpecRetrace => []RetraceIsExact
<1>1. Replayed => RetraceIsExact
  BY DEF Replayed, ReplayInv, RetraceIsExact
<1>. QED
  BY <1>1, RetraceInit, RetraceStep, PTL DEF SpecRetrace

=============================================================================
