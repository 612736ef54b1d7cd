-------------------------- MODULE PolicyLoop_proofs --------------------------
(***************************************************************************)
(* Theorems about PolicyLoop, and so about Replay and Strategies: for any  *)
(* world the loader accepts, whatever its size, branching and numbering,   *)
(* any scores, batch sizes, budgets and betas, any cap, and any strategy.  *)
(*                                                                         *)
(* ReplayInd says what a replay is at every moment (what is revealed, the  *)
(* curve, the log), MemoryInd what the policy remembers of it, SolveInd    *)
(* how long solve has gone on, TrackInd what BudgetAwarePolicy has         *)
(* measured; StepIs says what the steps of the three loops have in common. *)
(***************************************************************************)
EXTENDS PolicyLoop, Inductions

-----------------------------------------------------------------------------
(* What a batch retrieves.                                                   *)

\* Nth names each member of a finite set of numbers by how many are under it.
LEMMA NthIs ==
  ASSUME NEW S \in SUBSET Int, IsFiniteSet(S)
  PROVE  /\ Cardinality(S) \in Nat
         /\ \A n \in 0 .. Cardinality(S) - 1 :
              Nth(S, n) \in S /\ Cardinality({d \in S : d < Nth(S, n)}) = n
         /\ \A m, n \in 0 .. Cardinality(S) - 1 : m < n => Nth(S, m) < Nth(S, n)
         /\ \A v \in S : \E n \in 0 .. Cardinality(S) - 1 :
              v = Nth(S, n) /\ n = Cardinality({d \in S : d < v})
<1>. DEFINE c == Cardinality(S)
            q(v) == Cardinality({d \in S : d < v})
<1>1. /\ c \in Nat
      /\ \A v \in S : q(v) \in 0 .. c - 1
      /\ \A u, v \in S : u < v => q(u) < q(v)
      /\ \A u, v \in S : q(u) = q(v) => u = v
      /\ \A n \in 0 .. c - 1 : \E v \in S : q(v) = n
  BY NumbersRanked
<1>2. \A n : Nth(S, n) = CHOOSE v \in S : q(v) = n
  BY DEF Nth
<1>. HIDE DEF q, Nth
<1>3. \A n \in 0 .. c - 1 : Nth(S, n) \in S /\ q(Nth(S, n)) = n
  BY <1>1, <1>2, Zenon
<1>4. ASSUME NEW m \in 0 .. c - 1, NEW n \in 0 .. c - 1, m < n PROVE Nth(S, m) < Nth(S, n)
  <2>1. Nth(S, m) \in S /\ Nth(S, n) \in S /\ q(Nth(S, m)) = m /\ q(Nth(S, n)) = n
    BY <1>3
  <2>2. PICK x, y : x = Nth(S, m) /\ y = Nth(S, n)
    OBVIOUS
  <2>3. x \in S /\ y \in S /\ q(x) = m /\ q(y) = n
    BY <2>1, <2>2
  <2>4. ~(y < x) /\ x # y
    BY <1>1, <1>4, <2>3
  <2>. QED
    BY <2>2, <2>3, <2>4
<1>5. ASSUME NEW v \in S PROVE \E n \in 0 .. c - 1 : v = Nth(S, n) /\ n = q(v)
  <2>1. q(v) \in 0 .. c - 1
    BY <1>1
  <2>2. Nth(S, q(v)) \in S /\ q(Nth(S, q(v))) = q(v)
    BY <1>3, <2>1
  <2>3. v = Nth(S, q(v))
    BY <1>1, <2>2, Zenon
  <2>. QED
    BY <2>1, <2>3
<1>. QED
  BY <1>1, <1>3, <1>4, <1>5 DEF q

\* A tree as a file may hold it, and what is revealed of it.
Shown ==
  /\ parent \in Seq(Nat) /\ \A n \in DOMAIN parent : parent[n] \in Nodes(parent)
  /\ revealed \in Seq(Nodes(parent))

Hits(s) == {i \in DOMAIN s : Retrieved(s, i) # None}
Left(v) == Children(parent, v) \ Revealed

\* What of a node's children is still to be revealed.
LEMMA LeftIs ==
  ASSUME Shown
  PROVE  /\ \A v : Left(v) \in SUBSET Int /\ IsFiniteSet(Left(v)) /\ None \notin Left(v)
         /\ \A v : Left(v) \subseteq Nodes(parent) \ Revealed
         /\ \A v, c : c \in Left(v) <=> c \in Children(parent, v) /\ c \notin Revealed
         /\ \A v, c : c \in Children(parent, v) <=> c \in DOMAIN parent /\ parent[c] = v
<1>1. Len(parent) \in Nat /\ DOMAIN parent = 1 .. Len(parent)
  BY DEF Shown
<1>2. \A v : Children(parent, v) \in SUBSET (0 .. Len(parent)) /\ 0 \notin Children(parent, v)
  BY <1>1 DEF Children
<1>3. \A v : IsFiniteSet(Children(parent, v))
  BY <1>1, <1>2, Finitely
<1>4. \A v : IsFiniteSet(Left(v))
  BY <1>3, FS_Subset DEF Left
<1>5. \A v, c : c \in Children(parent, v) <=> c \in DOMAIN parent /\ parent[c] = v
  BY DEF Children
<1>6. \A v, c : c \in Left(v) <=> c \in Children(parent, v) /\ c \notin Revealed
  BY DEF Left
<1>7. \A v : Left(v) \subseteq Children(parent, v)
  BY <1>6
<1>8. \A v : Children(parent, v) \in SUBSET Int /\ Children(parent, v) \subseteq Nodes(parent)
  BY <1>1, <1>2 DEF Nodes
<1>9. \A v : None \notin Left(v)
  BY <1>2, <1>7 DEF None, Root
<1>. QED
  BY <1>4, <1>5, <1>6, <1>7, <1>8, <1>9

\* The selections of one node before the i-th.
Earlier(s, i) == {j \in 1 .. i - 1 : s[j] = s[i]}

\* A selection finds its node's next unrevealed child, past those that earlier selections
\* of the same node take, if there are that many.
LEMMA RetrievedIs ==
  ASSUME Shown, NEW s \in Seq(Nat), NEW i \in DOMAIN s
  PROVE  /\ Cardinality(Earlier(s, i)) \in Nat /\ IsFiniteSet(Earlier(s, i))
         /\ Cardinality(Left(s[i])) \in Nat
         /\ Retrieved(s, i) # None <=> Cardinality(Earlier(s, i)) < Cardinality(Left(s[i]))
         /\ Retrieved(s, i) # None =>
              /\ Retrieved(s, i) = Nth(Left(s[i]), Cardinality(Earlier(s, i)))
              /\ Retrieved(s, i) \in Left(s[i])
              /\ Cardinality({d \in Left(s[i]) : d < Retrieved(s, i)}) = Cardinality(Earlier(s, i))
<1>. DEFINE T == Left(s[i])
            t == Cardinality(Earlier(s, i))
<1>1. i \in Nat /\ Earlier(s, i) \in SUBSET (0 .. i)
  BY DEF Earlier
<1>2. IsFiniteSet(Earlier(s, i)) /\ t \in Nat
  BY <1>1, Finitely
<1>3. T \in SUBSET Int /\ IsFiniteSet(T) /\ None \notin T
  BY LeftIs
<1>4. Retrieved(s, i) = IF Cardinality(T) <= t THEN None ELSE Nth(T, t)
  BY DEF Retrieved, Earlier, Left
<1>. HIDE DEF T, t
<1>5. Cardinality(T) \in Nat
  BY <1>3, NthIs
<1>6. CASE Cardinality(T) <= t
  BY <1>2, <1>4, <1>5, <1>6 DEF T, t
<1>7. CASE t < Cardinality(T)
  <2>1. t \in 0 .. Cardinality(T) - 1
    BY <1>2, <1>5, <1>7
  <2>2. Nth(T, t) \in T /\ Cardinality({d \in T : d < Nth(T, t)}) = t
    BY <1>3, <2>1, NthIs
  <2>3. Retrieved(s, i) = Nth(T, t)
    BY <1>2, <1>4, <1>5, <1>7
  <2>4. Retrieved(s, i) # None
    BY <1>3, <2>2, <2>3
  <2>5. Cardinality({d \in T : d < Retrieved(s, i)}) = t
    BY <2>2, <2>3
  <2>. QED
    BY <1>2, <1>5, <1>7, <2>2, <2>3, <2>4, <2>5 DEF T, t
<1>. QED
  BY <1>2, <1>5, <1>6, <1>7

\* No two selections retrieve one node, and what one passes over is revealed already or
\* taken earlier in the batch.
LEMMA RetrievedApart ==
  ASSUME Shown, NEW s \in Seq(Nat)
  PROVE  /\ \A i, j \in DOMAIN s : Retrieved(s, i) # None /\ Retrieved(s, i) = Retrieved(s, j) => i = j
         /\ \A i \in DOMAIN s : \A d \in Children(parent, s[i]) :
              Retrieved(s, i) # None /\ d < Retrieved(s, i) =>
                d \in Revealed \/ \E j \in DOMAIN s : j < i /\ Retrieved(s, j) = d
         /\ \A i \in DOMAIN s : Retrieved(s, i) = None =>
              \A d \in Children(parent, s[i]) :
                d \in Revealed \/ \E j \in DOMAIN s : j < i /\ Retrieved(s, j) = d
<1>1. DOMAIN s \in SUBSET Nat /\ \A i \in DOMAIN s : \A j \in 1 .. i - 1 : j \in DOMAIN s /\ j < i
  OBVIOUS
<1>2. ASSUME NEW i \in DOMAIN s, NEW j \in DOMAIN s, i < j, s[i] = s[j]
      PROVE  Cardinality(Earlier(s, i)) < Cardinality(Earlier(s, j))
  <2>1. /\ Earlier(s, i) \subseteq Earlier(s, j)
        /\ i \in Earlier(s, j) /\ i \notin Earlier(s, i)
    BY <1>1, <1>2 DEF Earlier
  <2>2. /\ IsFiniteSet(Earlier(s, i)) /\ IsFiniteSet(Earlier(s, j))
        /\ Cardinality(Earlier(s, i)) \in Nat /\ Cardinality(Earlier(s, j)) \in Nat
    BY RetrievedIs
  <2>3. Cardinality(Earlier(s, i) \cup {i}) = Cardinality(Earlier(s, i)) + 1
    BY <2>1, <2>2, FS_AddElement
  <2>4. Earlier(s, i) \cup {i} \in SUBSET Earlier(s, j)
    BY <2>1
  <2>5. Cardinality(Earlier(s, i) \cup {i}) <= Cardinality(Earlier(s, j))
    BY <2>2, <2>4, FS_Subset
  <2>. QED
    BY <2>2, <2>3, <2>5
<1>3. ASSUME NEW i \in DOMAIN s, NEW j \in DOMAIN s, i < j, Retrieved(s, i) # None
      PROVE  Retrieved(s, i) # Retrieved(s, j)
  <2>1. SUFFICES ASSUME Retrieved(s, i) = Retrieved(s, j) PROVE FALSE
    OBVIOUS
  <2>2. Retrieved(s, i) \in Left(s[i]) /\ Retrieved(s, j) \in Left(s[j])
    BY <1>3, <2>1, RetrievedIs
  <2>3. s[i] = s[j]
    BY <2>1, <2>2, LeftIs
  <2>4. Cardinality(Earlier(s, i)) < Cardinality(Earlier(s, j))
    BY <1>2, <1>3, <2>3
  <2>5. /\ Cardinality({d \in Left(s[i]) : d < Retrieved(s, i)}) = Cardinality(Earlier(s, i))
        /\ Cardinality({d \in Left(s[j]) : d < Retrieved(s, j)}) = Cardinality(Earlier(s, j))
        /\ Cardinality(Earlier(s, i)) \in Nat
    BY <1>3, <2>1, RetrievedIs
  <2>6. Cardinality(Earlier(s, i)) = Cardinality(Earlier(s, j))
    BY <2>1, <2>3, <2>5
  <2>. QED
    BY <2>4, <2>5, <2>6
<1>4. ASSUME NEW i \in DOMAIN s, NEW m \in Nat, m < Cardinality(Earlier(s, i)), m < Cardinality(Left(s[i]))
      PROVE  \E j \in DOMAIN s : j < i /\ Retrieved(s, j) = Nth(Left(s[i]), m)
  <2>. DEFINE E == Earlier(s, i)
  <2>1. /\ IsFiniteSet(E) /\ E \in SUBSET Int /\ Cardinality(E) \in Nat
        /\ m \in 0 .. Cardinality(E) - 1
    <3>1. IsFiniteSet(E) /\ Cardinality(E) \in Nat
      BY RetrievedIs
    <3>2. E \in SUBSET Int
      BY <1>1 DEF Earlier
    <3>. QED
      BY <1>4, <3>1, <3>2
  <2>. HIDE DEF E
  <2>2. Nth(E, m) \in E /\ Cardinality({d \in E : d < Nth(E, m)}) = m
    BY <2>1, NthIs
  <2>3. PICK j : j = Nth(E, m)
    OBVIOUS
  <2>4. j \in E /\ Cardinality({d \in E : d < j}) = m
    BY <2>2, <2>3
  <2>5. j \in DOMAIN s /\ j < i /\ s[j] = s[i]
    BY <1>1, <2>4 DEF E, Earlier
  <2>6. {d \in E : d < j} = Earlier(s, j)
    BY <1>1, <2>5 DEF E, Earlier
  <2>7. Cardinality(Earlier(s, j)) = m
    BY <2>4, <2>6
  <2>8. Retrieved(s, j) = Nth(Left(s[j]), Cardinality(Earlier(s, j)))
    BY <1>4, <2>5, <2>7, RetrievedIs
  <2>. QED
    BY <2>5, <2>7, <2>8
<1>5. ASSUME NEW i \in DOMAIN s, NEW d \in Children(parent, s[i]), d \notin Revealed,
             \/ Retrieved(s, i) = None
             \/ Retrieved(s, i) # None /\ d < Retrieved(s, i)
      PROVE  \E j \in DOMAIN s : j < i /\ Retrieved(s, j) = d
  <2>. DEFINE L == Left(s[i])
  <2>1. L \in SUBSET Int /\ IsFiniteSet(L) /\ d \in L
    BY <1>5, LeftIs
  <2>. HIDE DEF L
  <2>2. /\ Cardinality(L) \in Nat
        /\ \A m, n \in 0 .. Cardinality(L) - 1 : m < n => Nth(L, m) < Nth(L, n)
        /\ \E m \in 0 .. Cardinality(L) - 1 : d = Nth(L, m)
    BY <2>1, NthIs
  <2>3. PICK m \in 0 .. Cardinality(L) - 1 : d = Nth(L, m)
    BY <2>2
  <2>4. m \in Nat /\ m < Cardinality(L)
    BY <2>2
  <2>5. m < Cardinality(Earlier(s, i))
    <3>1. CASE Retrieved(s, i) = None
      <4>1. Cardinality(Earlier(s, i)) \in Nat /\ ~(Cardinality(Earlier(s, i)) < Cardinality(L))
        BY <3>1, RetrievedIs DEF L
      <4>. QED
        BY <2>2, <2>4, <4>1
    <3>2. CASE Retrieved(s, i) # None /\ d < Retrieved(s, i)
      <4>1. PICK c, n : c = Retrieved(s, i) /\ n = Cardinality(Earlier(s, i))
        OBVIOUS
      <4>2. n \in Nat /\ n < Cardinality(L) /\ c = Nth(L, n) /\ c \in L
        BY <3>2, <4>1, RetrievedIs DEF L
      <4>3. n \in 0 .. Cardinality(L) - 1 /\ c \in Int /\ d \in Int
        BY <2>1, <2>2, <4>2
      <4>4. ~(n < m) /\ n # m
        BY <2>2, <2>3, <3>2, <4>1, <4>2, <4>3
      <4>. QED
        BY <2>4, <4>1, <4>2, <4>4
    <3>. QED
      BY <1>5, <3>1, <3>2
  <2>. QED
    BY <1>4, <2>3, <2>4, <2>5 DEF L
<1>6. \A i, j \in DOMAIN s : Retrieved(s, i) # None /\ Retrieved(s, i) = Retrieved(s, j) => i = j
  BY <1>1, <1>3
<1>. QED
  BY <1>5, <1>6

\* What a round reveals: what its selections retrieve, in their order, none of it twice.
LEMMA NewIs ==
  ASSUME Shown, NEW s \in Seq(Nat)
  PROVE  /\ Found(s) \in Seq(Nodes(parent)) /\ Len(Found(s)) = Len(s) /\ DOMAIN Found(s) = DOMAIN s
         /\ \A i \in DOMAIN s : Found(s)[i] = Retrieved(s, i)
         /\ New(s) \in Seq(Nodes(parent) \ Revealed)
         /\ IsFiniteSet(Hits(s)) /\ Cardinality(Hits(s)) \in Nat
         /\ Len(New(s)) = Cardinality(Hits(s)) /\ Len(New(s)) <= Len(s)
         /\ \A r \in DOMAIN New(s) : \E i \in Hits(s) :
              /\ New(s)[r] = Retrieved(s, i)
              /\ Retrieved(s, i) \in Children(parent, s[i])
              /\ \A j \in Hits(s) : j < i => \E q \in DOMAIN New(s) : q < r /\ New(s)[q] = Retrieved(s, j)
         /\ \A q, r \in DOMAIN New(s) : New(s)[q] = New(s)[r] => q = r
         /\ ToSet(New(s)) = {Retrieved(s, i) : i \in Hits(s)}
<1>. DEFINE H == Hits(s)
            c == Cardinality(H)
            at(r) == Nth(H, r - 1)
<1>1. s = [i \in 1 .. Len(s) |-> s[i]] /\ Len(s) \in Nat /\ DOMAIN s = 1 .. Len(s)
  OBVIOUS
<1>2. \A i \in DOMAIN s : Retrieved(s, i) \in Nodes(parent) /\ (Retrieved(s, i) # None => Retrieved(s, i) \in Left(s[i]))
  <2>1. ASSUME NEW i \in DOMAIN s PROVE Retrieved(s, i) \in Nodes(parent)
    <3>1. CASE Retrieved(s, i) = None
      BY <3>1 DEF None, Root, Nodes, Shown
    <3>2. CASE Retrieved(s, i) # None
      BY <3>2, RetrievedIs, LeftIs
    <3>. QED
      BY <3>1, <3>2
  <2>. QED
    BY <2>1, RetrievedIs
<1>3. Found(s) = [i \in DOMAIN s |-> Retrieved(s, i)]
  BY DEF Found
<1>4. Found(s) \in Seq(Nodes(parent)) /\ Len(Found(s)) = Len(s) /\ DOMAIN Found(s) = DOMAIN s
  BY <1>1, <1>2, <1>3
<1>5. \A i \in DOMAIN s : Found(s)[i] = Retrieved(s, i)
  BY <1>3
<1>6. H = {i \in DOMAIN s : Found(s)[i] # None} /\ H \in SUBSET DOMAIN s
  BY <1>5 DEF Hits
<1>7. H \in SUBSET (0 .. Len(s)) /\ H \in SUBSET Int /\ IsFiniteSet(DOMAIN s)
  <2>0. PICK n \in Nat : n = Len(s)
    BY <1>1
  <2>1. IsFiniteSet(1 .. n)
    BY FS_Interval
  <2>. HIDE DEF H
  <2>2. DOMAIN s = 1 .. n /\ H \subseteq DOMAIN s
    BY <1>1, <1>6, <2>0
  <2>3. IsFiniteSet(DOMAIN s)
    BY <2>1, <2>2
  <2>4. 1 .. Len(s) \subseteq 0 .. Len(s) /\ 0 .. Len(s) \subseteq Int
    BY <1>1
  <2>. QED
    BY <2>2, <2>3, <2>4
<1>8. IsFiniteSet(H) /\ c \in Nat
  BY <1>1, <1>7, Finitely
<1>9. c <= Len(s)
  <2>1. c <= Cardinality(DOMAIN s)
    BY <1>6, <1>7, FS_Subset
  <2>2. Cardinality(DOMAIN s) = Len(s)
    BY <1>1, FS_Interval
  <2>. QED
    BY <2>1, <2>2
<1>10. New(s) = [r \in 1 .. c |-> Found(s)[at(r)]]
  BY <1>6 DEF New
<1>. HIDE DEF H, c, at
<1>11. /\ \A r \in 1 .. c : at(r) \in H
       /\ \A q, r \in 1 .. c : q < r => at(q) < at(r)
       /\ \A i \in H : \E r \in 1 .. c : i = at(r)
  <2>1. /\ \A n \in 0 .. c - 1 : Nth(H, n) \in H
        /\ \A m, n \in 0 .. c - 1 : m < n => Nth(H, m) < Nth(H, n)
        /\ \A v \in H : \E n \in 0 .. c - 1 : v = Nth(H, n)
    BY <1>7, <1>8, NthIs DEF c
  <2>2. \A r \in 1 .. c : r - 1 \in 0 .. c - 1
    BY <1>8
  <2>3. \A n \in 0 .. c - 1 : n + 1 \in 1 .. c /\ (n + 1) - 1 = n
    BY <1>8
  <2>4. \A r \in 1 .. c : at(r) = Nth(H, r - 1)
    BY DEF at
  <2>5. ASSUME NEW q \in 1 .. c, NEW r \in 1 .. c, q < r PROVE at(q) < at(r)
    <3>1. q - 1 < r - 1
      BY <2>5
    <3>. QED
      BY <2>1, <2>2, <2>4, <3>1
  <2>6. ASSUME NEW i \in H PROVE \E r \in 1 .. c : i = at(r)
    <3>1. PICK n \in 0 .. c - 1 : i = Nth(H, n)
      BY <2>1
    <3>. QED
      BY <2>3, <2>4, <3>1
  <2>. QED
    BY <2>1, <2>2, <2>4, <2>5, <2>6
<1>12. DOMAIN New(s) = 1 .. c /\ \A r \in 1 .. c : New(s)[r] = Retrieved(s, at(r))
  BY <1>5, <1>6, <1>10, <1>11
<1>13. \A i \in H : Retrieved(s, i) # None /\ Retrieved(s, i) \in Left(s[i]) /\ i \in DOMAIN s
  BY <1>2 DEF H, Hits
<1>14. \A i \in H : Retrieved(s, i) \in Nodes(parent) \ Revealed /\ Retrieved(s, i) \in Children(parent, s[i])
  BY <1>13, LeftIs
<1>15. New(s) \in Seq(Nodes(parent) \ Revealed) /\ Len(New(s)) = c
  <2>1. New(s) \in [1 .. c -> Nodes(parent) \ Revealed]
    BY <1>10, <1>11, <1>12, <1>14
  <2>. QED
    BY <1>8, <2>1
<1>16. ASSUME NEW r \in DOMAIN New(s)
       PROVE  \E i \in H :
                /\ New(s)[r] = Retrieved(s, i)
                /\ Retrieved(s, i) \in Children(parent, s[i])
                /\ \A j \in H : j < i => \E q \in DOMAIN New(s) : q < r /\ New(s)[q] = Retrieved(s, j)
  <2>1. at(r) \in H /\ New(s)[r] = Retrieved(s, at(r))
    BY <1>11, <1>12
  <2>2. ASSUME NEW j \in H, j < at(r)
        PROVE  \E q \in DOMAIN New(s) : q < r /\ New(s)[q] = Retrieved(s, j)
    <3>1. PICK q \in 1 .. c : j = at(q)
      BY <1>11
    <3>2. r \in 1 .. c /\ ~(r < q) /\ q # r
      <4>1. r \in 1 .. c
        BY <1>12
      <4>2. at(q) \in Int /\ at(r) \in Int
        BY <1>7, <1>11, <4>1
      <4>3. PICK x, y : x = at(q) /\ y = at(r)
        OBVIOUS
      <4>. QED
        BY <1>11, <2>2, <3>1, <4>1, <4>2, <4>3
    <3>3. q < r
      BY <1>8, <3>1, <3>2
    <3>. QED
      BY <1>12, <3>1, <3>3
  <2>3. Retrieved(s, at(r)) \in Children(parent, s[at(r)])
    BY <1>14, <2>1
  <2>. QED
    BY <2>1, <2>2, <2>3
<1>17. ASSUME NEW q \in DOMAIN New(s), NEW r \in DOMAIN New(s), New(s)[q] = New(s)[r] PROVE q = r
  <2>1. at(q) \in H /\ at(r) \in H /\ Retrieved(s, at(q)) = Retrieved(s, at(r))
    BY <1>11, <1>12, <1>17
  <2>2. at(q) = at(r)
    BY <1>13, <2>1, RetrievedApart
  <2>3. q \in 1 .. c /\ r \in 1 .. c /\ at(q) \in Int /\ at(r) \in Int
    BY <1>7, <1>12, <2>1
  <2>. QED
    BY <1>8, <1>11, <2>2, <2>3
<1>18. ToSet(New(s)) = {Retrieved(s, i) : i \in H}
  BY <1>11, <1>12 DEF ToSet
<1>. QED
  BY <1>4, <1>5, <1>8, <1>9, <1>15, <1>16, <1>17, <1>18 DEF H, c

-----------------------------------------------------------------------------
(* The tree, and the paths through it.                                       *)

\* One more level down from a set of nodes, and the levels of a tree from its root.
Below(p, S) == S \cup {n \in DOMAIN p : p[n] \in S}
Levels(p) == CHOOSE r : r = [k \in Nodes(p) |-> IF k = 0 THEN {Root} ELSE Below(p, r[k - 1])]

\* The walk down from the root, and that it reaches the whole of an accepted tree.
LEMMA LevelsAre ==
  ASSUME NEW p \in Seq(Nat), Accepts(p)
  PROVE  /\ \A n \in DOMAIN p : p[n] \in Nodes(p)
         /\ Levels(p) \in [Nodes(p) -> SUBSET Nodes(p)]
         /\ Levels(p)[0] = {Root} /\ Levels(p)[Len(p)] = Nodes(p)
         /\ \A k \in 1 .. Len(p) : Levels(p)[k] = Below(p, Levels(p)[k - 1])
<1>. DEFINE N == Len(p)
            A == SUBSET Nodes(p)
            G == [S \in A |-> Below(p, S)]
            Body(r) == [k \in Nodes(p) |-> IF k = 0 THEN {Root} ELSE Below(p, r[k - 1])]
            R == Levels(p)
<1>1. N \in Nat /\ Nodes(p) = 0 .. N /\ DOMAIN p = 1 .. N /\ DOMAIN p \subseteq Nodes(p)
  BY DEF Nodes
<1>2. {Root} \in A
  BY <1>1 DEF Root
<1>3. \A S \in A : Below(p, S) \in A
  BY <1>1 DEF Below
<1>4. G \in [A -> A]
  BY <1>3
<1>5. PICK h \in [0 .. N -> A] : h[0] = {Root} /\ \A j \in 1 .. N : h[j] = G[h[j - 1]]
  <2>. HIDE DEF N, A, G
  <2>. QED
    <3>1. Steps(N, A, {Root}, G)
      BY <1>1, <1>2, <1>4 DEF Steps
    <3>. QED
      BY <3>1, Stepwise
<1>6. \A j \in 1 .. N : j - 1 \in 0 .. N /\ h[j - 1] \in A /\ h[j] = Below(p, h[j - 1])
  <2>1. \A j \in 1 .. N : j - 1 \in 0 .. N
    BY <1>1
  <2>. HIDE DEF A
  <2>2. \A j \in 1 .. N : h[j - 1] \in A
    BY <1>5, <2>1
  <2>3. \A S \in A : G[S] = Below(p, S)
    OBVIOUS
  <2>. HIDE DEF G
  <2>. QED
    BY <1>5, <2>1, <2>2, <2>3
<1>7. h = Body(h)
  BY <1>1, <1>5, <1>6
<1>8. R = CHOOSE r : r = Body(r)
  BY Zenon DEF Levels
<1>. HIDE DEF Body, R
<1>9. R = Body(R)
  BY <1>7, <1>8, Zenon
<1>10. DOMAIN R = 0 .. N /\ R[0] = {Root} /\ \A k \in 1 .. N : R[k] = Below(p, R[k - 1])
  <2>1. R = [k \in Nodes(p) |-> IF k = 0 THEN {Root} ELSE Below(p, R[k - 1])]
    BY <1>9 DEF Body
  <2>2. DOMAIN R = Nodes(p)
    BY <2>1, Zenon
  <2>3. \A k \in Nodes(p) : R[k] = IF k = 0 THEN {Root} ELSE Below(p, R[k - 1])
    BY <2>1, Zenon
  <2>4. 0 \in Nodes(p) /\ \A k \in 1 .. N : k \in Nodes(p) /\ k # 0
    BY <1>1
  <2>. QED
    BY <1>1, <2>2, <2>3, <2>4, Zenon
<1>11. R \in [Nodes(p) -> A]
  <2>. DEFINE K == {k \in Nat : k <= N => R[k] \in A}
  <2>1. 0 \in K
    BY <1>2, <1>10
  <2>2. ASSUME NEW k \in K PROVE k + 1 \in K
    <3>1. CASE k + 1 <= N
      <4>1. R[k] \in A /\ k + 1 \in 1 .. N /\ (k + 1) - 1 = k
        BY <1>1, <3>1
      <4>2. R[k + 1] = Below(p, R[k])
        BY <1>10, <4>1
      <4>. QED
        BY <1>3, <4>1, <4>2
    <3>2. CASE ~(k + 1 <= N)
      BY <3>2
    <3>. QED
      BY <3>1, <3>2
  <2>3. K = Nat
    <3>. HIDE DEF K
    <3>1. K \in SUBSET Nat
      BY DEF K
    <3>. QED
      BY <2>1, <2>2, <3>1, Inductive
  <2>4. \A k \in 0 .. N : R[k] \in A
    BY <1>1, <2>3
  <2>5. R = [k \in 0 .. N |-> R[k]]
    BY <1>1, <1>9 DEF Body
  <2>. QED
    BY <1>1, <2>4, <2>5
<1>12. \A n \in DOMAIN p : p[n] \in Nodes(p)
  BY DEF Accepts
<1>13. R[Len(p)] = Nodes(p)
  <2>1. (CHOOSE r : r = [k \in Nodes(p) |->
           IF k = 0 THEN {Root}
           ELSE r[k - 1] \cup {n \in DOMAIN p : p[n] \in r[k - 1]}])[Len(p)] = Nodes(p)
    BY Zenon DEF Accepts
  <2>. QED
    BY <1>8, <2>1, Zenon DEF Body, Below
<1>. QED
  BY <1>10, <1>11, <1>12, <1>13 DEF R

\* What holds the root and, with a node, its children, is all of an accepted tree.
LEMMA DownTheTree ==
  ASSUME NEW p \in Seq(Nat), Accepts(p), NEW T, Root \in T,
         \A n \in DOMAIN p : p[n] \in T => n \in T
  PROVE  Nodes(p) \subseteq T
<1>. DEFINE R == Levels(p)
            K == {k \in Nat : k <= Len(p) => R[k] \subseteq T}
<1>1. /\ R[0] = {Root} /\ R[Len(p)] = Nodes(p) /\ Len(p) \in Nat
      /\ \A k \in 1 .. Len(p) : R[k] = Below(p, R[k - 1])
  BY LevelsAre
<1>. HIDE DEF R
<1>2. 0 \in K
  BY <1>1
<1>3. ASSUME NEW k \in K PROVE k + 1 \in K
  <2>1. CASE k + 1 <= Len(p)
    <3>1. R[k] \subseteq T /\ k + 1 \in 1 .. Len(p) /\ (k + 1) - 1 = k
      BY <1>1, <2>1
    <3>2. R[k + 1] = Below(p, R[k])
      BY <1>1, <3>1
    <3>3. R[k + 1] \subseteq T
      BY <3>1, <3>2 DEF Below
    <3>. QED
      BY <3>3
  <2>2. CASE ~(k + 1 <= Len(p))
    BY <2>2
  <2>. QED
    BY <2>1, <2>2
<1>4. K = Nat
  <2>. HIDE DEF K
  <2>1. K \in SUBSET Nat
    BY DEF K
  <2>. QED
    BY <1>2, <1>3, <2>1, Inductive
<1>. QED
  BY <1>1, <1>4

\* A tree with an attempt in it has one off the root.
LEMMA RootHasChild ==
  ASSUME NEW p \in Seq(Nat), Accepts(p), Len(p) > 0
  PROVE  Children(p, Root) # {}
<1>. SUFFICES ASSUME Children(p, Root) = {} PROVE FALSE
  OBVIOUS
<1>1. \A n \in DOMAIN p : p[n] \in {Root} => n \in {Root}
  BY DEF Children
<1>2. Nodes(p) \subseteq {Root}
  BY <1>1, DownTheTree
<1>3. 1 \in Nodes(p)
  BY DEF Nodes
<1>. QED
  BY <1>2, <1>3 DEF Root

\* Each node has one path from the root: that of its parent, and then itself.
LEMMA PathIs ==
  ASSUME parent \in Seq(Nat), Accepts(parent)
  PROVE  /\ \A v \in Nodes(parent) : Path(v) \in Seq(DOMAIN parent)
         /\ Path(Root) = <<>>
         /\ \A v \in DOMAIN parent : /\ parent[v] \in Nodes(parent)
                                     /\ Path(v) = Append(Path(parent[v]), v)
<1>. DEFINE N == Len(parent)
            R == Levels(parent)
            A == Seq(DOMAIN parent)
            Deep(h, n) == IF n = Root THEN <<>> ELSE Append(h[parent[n]], n)
            K == {k \in Nat : k <= N => \E h \in [R[k] -> A] : \A n \in R[k] : h[n] = Deep(h, n)}
            Body(h) == [n \in Nodes(parent) |-> Deep(h, n)]
            F == CHOOSE h : h = Body(h)
<1>1. /\ R[0] = {Root} /\ R[N] = Nodes(parent) /\ N \in Nat
      /\ \A k \in 1 .. N : R[k] = Below(parent, R[k - 1])
      /\ \A n \in DOMAIN parent : parent[n] \in Nodes(parent)
      /\ R \in [0 .. N -> SUBSET Nodes(parent)]
  BY LevelsAre DEF Nodes
<1>2. Root \notin DOMAIN parent /\ Nodes(parent) = {Root} \cup DOMAIN parent
  BY DEF Root, Nodes
<1>. HIDE DEF R, N, A
<1>3. ASSUME NEW k \in Nat, k <= N, NEW n \in R[k], n # Root
      PROVE  n \in DOMAIN parent /\ k > 0 /\ parent[n] \in R[k - 1]
  <2>. DEFINE J == {j \in Nat : j <= N => \A m \in R[j] : m # Root =>
                      m \in DOMAIN parent /\ j > 0 /\ parent[m] \in R[j - 1]}
  <2>1. 0 \in J
    BY <1>1
  <2>2. ASSUME NEW j \in J PROVE j + 1 \in J
    <3>. SUFFICES ASSUME j + 1 <= N, NEW m \in R[j + 1], m # Root
                  PROVE  m \in DOMAIN parent /\ j + 1 > 0 /\ parent[m] \in R[j]
      OBVIOUS
    <3>1. j \in Nat /\ j <= N /\ j + 1 \in 1 .. N /\ (j + 1) - 1 = j
      BY <1>1
    <3>2. R[j + 1] = Below(parent, R[j])
      BY <1>1, <3>1
    <3>3. CASE m \in R[j]
      <4>1. m \in DOMAIN parent /\ j > 0 /\ parent[m] \in R[j - 1]
        BY <3>1, <3>3
      <4>2. R[j] = Below(parent, R[j - 1])
        <5>1. j \in 1 .. N
          BY <1>1, <3>1, <4>1
        <5>. QED
          BY <1>1, <5>1
      <4>3. parent[m] \in R[j]
        BY <4>1, <4>2 DEF Below
      <4>. QED
        BY <3>1, <4>1, <4>3
    <3>4. CASE m \in DOMAIN parent /\ parent[m] \in R[j]
      BY <3>1, <3>4
    <3>. QED
      BY <3>2, <3>3, <3>4 DEF Below
  <2>3. J = Nat
    <3>. HIDE DEF J
    <3>1. J \in SUBSET Nat
      BY DEF J
    <3>. QED
      BY <2>1, <2>2, <3>1, Inductive
  <2>. QED
    BY <1>3, <2>3
<1>4. 0 \in K
  <2>. DEFINE h == [n \in R[0] |-> <<>>]
  <2>1. h \in [R[0] -> A] /\ \A n \in R[0] : h[n] = Deep(h, n)
    BY <1>1 DEF A
  <2>. QED
    BY <2>1
<1>5. ASSUME NEW k \in K PROVE k + 1 \in K
  <2>. SUFFICES ASSUME k + 1 <= N
                PROVE  \E h \in [R[k + 1] -> A] : \A n \in R[k + 1] : h[n] = Deep(h, n)
    OBVIOUS
  <2>1. k \in Nat /\ k <= N /\ k + 1 \in Nat /\ (k + 1) - 1 = k /\ k + 1 \in 1 .. N
    BY <1>1
  <2>2. PICK h \in [R[k] -> A] : \A n \in R[k] : h[n] = Deep(h, n)
    BY <2>1
  <2>. DEFINE g == [n \in R[k + 1] |-> Deep(h, n)]
  <2>3. R[k] \subseteq R[k + 1]
    BY <1>1, <2>1 DEF Below
  <2>4. \A n \in R[k + 1] : n # Root => n \in DOMAIN parent /\ parent[n] \in R[k]
    BY <1>3, <2>1
  <2>5. \A n \in R[k + 1] : g[n] = Deep(h, n)
    OBVIOUS
  <2>6. ASSUME NEW n \in R[k + 1] PROVE Deep(h, n) \in A /\ Deep(h, n) = Deep(g, n)
    <3>1. CASE n = Root
      BY <3>1 DEF A
    <3>2. CASE n # Root
      <4>1. n \in DOMAIN parent /\ parent[n] \in R[k] /\ parent[n] \in R[k + 1]
        BY <2>3, <2>4, <3>2
      <4>2. g[parent[n]] = Deep(h, parent[n]) /\ h[parent[n]] = Deep(h, parent[n])
        BY <2>2, <2>5, <4>1
      <4>3. h[parent[n]] \in A
        BY <4>1
      <4>. HIDE DEF g
      <4>. QED
        BY <3>2, <4>1, <4>2, <4>3 DEF A
    <3>. QED
      BY <3>1, <3>2
  <2>. HIDE DEF Deep
  <2>7. g \in [R[k + 1] -> A] /\ \A n \in R[k + 1] : g[n] = Deep(g, n)
    BY <2>5, <2>6
  <2>. HIDE DEF g
  <2>. QED
    BY <2>7
<1>6. K = Nat
  <2>. HIDE DEF K
  <2>1. K \in SUBSET Nat
    BY DEF K
  <2>. QED
    BY <1>4, <1>5, <2>1, Inductive
<1>7. PICK h \in [Nodes(parent) -> A] : \A n \in Nodes(parent) : h[n] = Deep(h, n)
  <2>1. N \in K
    BY <1>1, <1>6
  <2>. HIDE DEF Deep
  <2>. QED
    BY <1>1, <2>1
<1>8. h = Body(h)
  <2>. HIDE DEF Deep
  <2>. QED
    BY <1>7
<1>9. F = Body(F)
  <2>. HIDE DEF Body
  <2>. QED
    BY <1>8, Zenon
<1>10. \A v : Path(v) = F[v]
  BY Zenon DEF Path
<1>. HIDE DEF F
<1>11. DOMAIN F = Nodes(parent) /\ \A n \in Nodes(parent) : F[n] = Deep(F, n)
  <2>. HIDE DEF Deep
  <2>. QED
    BY <1>9
<1>12. \A n \in Nodes(parent) : F[n] \in A
  <2>. DEFINE T == {n \in Nodes(parent) : F[n] \in A}
  <2>1. Root \in T
    <3>1. Root \in Nodes(parent)
      BY <1>2
    <3>2. F[Root] = <<>>
      BY <1>11, <3>1
    <3>3. <<>> \in A
      BY DEF A
    <3>. QED
      BY <3>1, <3>2, <3>3
  <2>2. ASSUME NEW n \in DOMAIN parent, parent[n] \in T PROVE n \in T
    <3>1. n \in Nodes(parent) /\ n # Root /\ F[parent[n]] \in A
      BY <1>2, <2>2
    <3>2. F[n] = Append(F[parent[n]], n)
      BY <1>11, <3>1
    <3>3. \A s \in A : Append(s, n) \in A
      BY <2>2 DEF A
    <3>. QED
      BY <3>1, <3>2, <3>3
  <2>. HIDE DEF T
  <2>3. Nodes(parent) \subseteq T
    BY <2>1, <2>2, DownTheTree
  <2>. QED
    BY <2>3 DEF T
<1>13. \A v \in Nodes(parent) : Path(v) \in Seq(DOMAIN parent)
  BY <1>10, <1>12 DEF A
<1>14. Path(Root) = <<>>
  BY <1>2, <1>10, <1>11
<1>15. ASSUME NEW v \in DOMAIN parent PROVE Path(v) = Append(Path(parent[v]), v)
  BY <1>2, <1>10, <1>11
<1>. QED
  BY <1>1, <1>13, <1>14, <1>15

-----------------------------------------------------------------------------
(* The best of some scores.                                                  *)

Marks == Scores \cup {NoScore}
Best(T) == IF T \ {NoScore} = {} THEN NoScore ELSE Max(T \ {NoScore})
Tops(b, T) ==
  /\ b \in T \cup {NoScore}
  /\ b = NoScore => T \subseteq {NoScore}
  /\ \A t \in T : t # NoScore => b # NoScore /\ t <= b

\* The best of a finite set of scores is one of them, and none is better.
LEMMA BestIs ==
  ASSUME NEW T \in SUBSET Marks, IsFiniteSet(T)
  PROVE  Tops(Best(T), T) /\ Best(T) \in Marks
<1>. DEFINE S == T \ {NoScore}
<1>1. S \in SUBSET Int /\ IsFiniteSet(S) /\ S \subseteq Scores
  BY ReplayConfig, FS_Subset DEF Marks
<1>2. CASE S = {}
  BY <1>2 DEF Best, Tops, Marks
<1>3. CASE S # {}
  <2>. DEFINE c == Cardinality(S)
              q(v) == Cardinality({w \in S : w < v})
  <2>. HIDE DEF S
  <2>1. /\ c \in Nat
        /\ \A v \in S : q(v) \in 0 .. c - 1
        /\ \A u, v \in S : u < v => q(u) < q(v)
        /\ \A n \in 0 .. c - 1 : \E v \in S : q(v) = n
    BY <1>1, NumbersRanked
  <2>. HIDE DEF q, c
  <2>2. c - 1 \in 0 .. c - 1
    <3>1. PICK v \in S : TRUE
      BY <1>3
    <3>2. q(v) \in 0 .. c - 1
      BY <2>1
    <3>. QED
      BY <2>1, <3>2
  <2>3. PICK m \in S : q(m) = c - 1
    BY <2>1, <2>2
  <2>4. \A y \in S : m >= y
    <3>1. ASSUME NEW y \in S, ~(m >= y) PROVE FALSE
      <4>1. m < y
        BY <1>1, <3>1
      <4>2. q(m) < q(y) /\ q(y) \in 0 .. c - 1
        BY <2>1, <4>1
      <4>. QED
        BY <2>1, <2>3, <4>2
    <3>. QED
      BY <3>1
  <2>5. Max(S) \in S /\ \A y \in S : Max(S) >= y
    BY <2>4, Zenon DEF Max
  <2>6. Best(T) = Max(S)
    BY <1>3 DEF Best, S
  <2>7. PICK b : b = Max(S)
    OBVIOUS
  <2>8. b \in S /\ \A y \in S : y <= b
    BY <1>1, <2>5, <2>7
  <2>. QED
    BY <1>1, <2>6, <2>7, <2>8 DEF Tops, Marks, S
<1>. QED
  BY <1>2, <1>3

\* There is one best.
LEMMA BestIsOne ==
  ASSUME NEW T \in SUBSET Marks, NEW a, NEW b, Tops(a, T), Tops(b, T)
  PROVE  a = b
<1>1. Scores \subseteq Int
  BY ReplayConfig
<1>. QED
  BY <1>1 DEF Tops, Marks

\* The best of two sets is the best of one and of the best of the other.
LEMMA BestJoin ==
  ASSUME NEW A \in SUBSET Marks, NEW B \in SUBSET Marks, IsFiniteSet(A), IsFiniteSet(B)
  PROVE  Best({Best(A)} \cup B) = Best(A \cup B)
<1>. PICK a : a = Best(A)
  OBVIOUS
<1>1. Tops(a, A) /\ a \in Marks
  BY BestIs
<1>2. {a} \cup B \in SUBSET Marks /\ IsFiniteSet({a} \cup B) /\ A \cup B \in SUBSET Marks /\ IsFiniteSet(A \cup B)
  BY <1>1, FS_Singleton, FS_Union
<1>3. PICK b : b = Best({a} \cup B)
  OBVIOUS
<1>4. Tops(b, {a} \cup B) /\ b \in Marks
  BY <1>2, <1>3, BestIs
<1>5. Tops(Best(A \cup B), A \cup B)
  BY <1>2, BestIs
<1>6. Scores \subseteq Int
  BY ReplayConfig
<1>7. b \in A \cup B \cup {NoScore}
  BY <1>1, <1>4 DEF Tops
<1>8. b = NoScore => A \cup B \subseteq {NoScore}
  BY <1>1, <1>4 DEF Tops
<1>9. ASSUME NEW t \in A \cup B, t # NoScore PROVE b # NoScore /\ t <= b
  <2>1. CASE t \in B
    BY <1>4, <1>9, <2>1 DEF Tops
  <2>2. CASE t \in A
    <3>1. a # NoScore /\ t <= a
      BY <1>1, <1>9, <2>2 DEF Tops
    <3>2. b # NoScore /\ a <= b
      BY <1>4, <3>1 DEF Tops
    <3>3. t \in Int /\ a \in Int /\ b \in Int
      BY <1>1, <1>4, <1>6, <1>9, <3>1, <3>2 DEF Marks
    <3>. QED
      BY <3>1, <3>2, <3>3
  <2>. QED
    BY <1>9, <2>1, <2>2
<1>10. Tops(b, A \cup B)
  BY <1>7, <1>8, <1>9 DEF Tops
<1>. QED
  BY <1>2, <1>3, <1>5, <1>10, BestIsOne

\* What two sequences are, one after the other.
LEMMA Joined ==
  ASSUME NEW S, NEW a \in Seq(S), NEW b \in Seq(S)
  PROVE  /\ a \o b \in Seq(S) /\ Len(a \o b) = Len(a) + Len(b)
         /\ Len(a) \in Nat /\ Len(b) \in Nat
         /\ DOMAIN a = 1 .. Len(a) /\ DOMAIN b = 1 .. Len(b) /\ DOMAIN (a \o b) = 1 .. Len(a) + Len(b)
         /\ \A i \in 1 .. Len(a) : (a \o b)[i] = a[i]
         /\ \A i \in 1 .. Len(b) : (a \o b)[Len(a) + i] = b[i]
         /\ \A i \in 1 .. Len(a) + Len(b) : i \in 1 .. Len(a) \/ i - Len(a) \in 1 .. Len(b)
         /\ ToSet(a \o b) = ToSet(a) \cup ToSet(b)
<1>1. /\ a \o b \in Seq(S) /\ Len(a \o b) = Len(a) + Len(b)
      /\ Len(a) \in Nat /\ Len(b) \in Nat
      /\ DOMAIN a = 1 .. Len(a) /\ DOMAIN b = 1 .. Len(b) /\ DOMAIN (a \o b) = 1 .. Len(a) + Len(b)
  OBVIOUS
<1>2. \A i \in 1 .. Len(a) : (a \o b)[i] = a[i]
  OBVIOUS
<1>3. \A i \in 1 .. Len(b) : (a \o b)[Len(a) + i] = b[i]
  OBVIOUS
<1>4. \A i \in 1 .. Len(a) + Len(b) : i \in 1 .. Len(a) \/ i - Len(a) \in 1 .. Len(b)
  BY <1>1
<1>5. \A i \in 1 .. Len(a) : i \in 1 .. Len(a) + Len(b)
  BY <1>1
<1>6. \A i \in 1 .. Len(b) : Len(a) + i \in 1 .. Len(a) + Len(b)
  BY <1>1
<1>7. \A i \in 1 .. Len(a) + Len(b) : i - Len(a) \in 1 .. Len(b) => (a \o b)[i] = b[i - Len(a)]
  BY <1>1
<1>8. PICK c : c = a \o b
  OBVIOUS
<1>9. ToSet(c) = ToSet(a) \cup ToSet(b)
  <2>1. \A i \in DOMAIN c : c[i] \in ToSet(a) \cup ToSet(b)
    BY <1>1, <1>2, <1>4, <1>7, <1>8 DEF ToSet
  <2>2. \A i \in DOMAIN a : \E j \in DOMAIN c : c[j] = a[i]
    BY <1>1, <1>2, <1>5, <1>8
  <2>3. \A i \in DOMAIN b : \E j \in DOMAIN c : c[j] = b[i]
    BY <1>1, <1>3, <1>6, <1>8
  <2>. QED
    BY <2>1, <2>2, <2>3 DEF ToSet
<1>. QED
  BY <1>1, <1>2, <1>3, <1>4, <1>8, <1>9

-----------------------------------------------------------------------------
(* What every state of a replay is.                                          *)

World ==
  /\ parent \in Seq(Nat) /\ Accepts(parent)
  /\ \A n \in DOMAIN parent : parent[n] \in Nodes(parent)
  /\ score \in [Nodes(parent) -> Scores \cup {NoScore, Odd}]

Upto(i) == {revealed[j] : j \in 1 .. i}
Placed(i) ==
  /\ parent[revealed[i]] \in Upto(i - 1)
  /\ \A older \in Children(parent, parent[revealed[i]]) : older < revealed[i] => older \in Upto(i - 1)

OrderInd ==
  /\ revealed \in Seq(Nodes(parent)) /\ revealed # <<>> /\ revealed[1] = Root
  /\ \A i, j \in DOMAIN revealed : revealed[i] = revealed[j] => i = j
  /\ \A i \in 2 .. Len(revealed) : Placed(i)

\* The state of a replay is a tree and what is shown of it.
LEMMA ShownIs ==
  ASSUME World, OrderInd
  PROVE  Shown
BY DEF World, OrderInd, Shown

\* What a round reveals comes after its parent and after its older siblings.
LEMMA OrderKept ==
  ASSUME World, OrderInd, NEW s \in Seq(Nat), \A i \in DOMAIN s : s[i] \in Revealed,
         revealed' = revealed \o New(s), UNCHANGED world
  PROVE  OrderInd'
<1>. DEFINE N == Nodes(parent)
            b == New(s)
            L == Len(revealed)
<1>0. Shown
  BY ShownIs
<1>1. /\ b \in Seq(N \ Revealed)
      /\ \A r \in DOMAIN b : \E i \in Hits(s) :
              /\ b[r] = Retrieved(s, i)
              /\ Retrieved(s, i) \in Children(parent, s[i])
              /\ \A j \in Hits(s) : j < i => \E q \in DOMAIN b : q < r /\ b[q] = Retrieved(s, j)
      /\ \A q, r \in DOMAIN b : b[q] = b[r] => q = r
  BY <1>0, NewIs
<1>2. /\ revealed \in Seq(N) /\ revealed # <<>> /\ revealed[1] = Root
      /\ \A i, j \in DOMAIN revealed : revealed[i] = revealed[j] => i = j
      /\ \A i \in 2 .. L : Placed(i)
  BY DEF OrderInd
<1>. HIDE DEF b, N
<1>3. b \in Seq(N) /\ \A r \in DOMAIN b : b[r] \notin Revealed
  <2>1. N \ Revealed \subseteq N
    OBVIOUS
  <2>2. b \in [1 .. Len(b) -> N \ Revealed] /\ Len(b) \in Nat
    BY <1>1
  <2>3. b \in [1 .. Len(b) -> N]
    BY <2>1, <2>2
  <2>. QED
    BY <1>1, <2>2, <2>3
<1>4. PICK c : c = revealed'
  OBVIOUS
<1>5. /\ c = revealed \o b /\ c \in Seq(N) /\ Len(c) = L + Len(b) /\ L \in Nat /\ Len(b) \in Nat
      /\ DOMAIN revealed = 1 .. L /\ DOMAIN b = 1 .. Len(b) /\ DOMAIN c = 1 .. L + Len(b)
      /\ \A i \in 1 .. L : c[i] = revealed[i]
      /\ \A i \in 1 .. Len(b) : c[L + i] = b[i]
      /\ \A i \in 1 .. L + Len(b) : i \in 1 .. L \/ i - L \in 1 .. Len(b)
  BY <1>2, <1>3, <1>4, Joined DEF b
<1>6. L >= 1
  BY <1>2, <1>5
<1>7. \A v \in Revealed : \E j \in 1 .. L : c[j] = v
  BY <1>5 DEF Revealed, ToSet
<1>8. \A j \in 1 .. L : c[j] \in Revealed
  BY <1>5 DEF Revealed, ToSet
<1>9. \A i \in 1 .. L + Len(b) : i \notin 1 .. L => i - L \in 1 .. Len(b) /\ c[i] = b[i - L]
  <2>1. \A i \in 1 .. L + Len(b) : L + (i - L) = i
    BY <1>5
  <2>. QED
    BY <1>5, <2>1
<1>10. ASSUME NEW i \in DOMAIN c, NEW j \in DOMAIN c, c[i] = c[j] PROVE i = j
  <2>1. CASE i \in 1 .. L /\ j \in 1 .. L
    BY <1>2, <1>5, <1>10, <2>1
  <2>2. CASE i \in 1 .. L /\ j \notin 1 .. L
    BY <1>3, <1>5, <1>8, <1>9, <1>10, <2>2
  <2>3. CASE i \notin 1 .. L /\ j \in 1 .. L
    BY <1>3, <1>5, <1>8, <1>9, <1>10, <2>3
  <2>4. CASE i \notin 1 .. L /\ j \notin 1 .. L
    <3>1. i - L \in DOMAIN b /\ j - L \in DOMAIN b /\ b[i - L] = b[j - L]
      BY <1>5, <1>9, <1>10, <2>4
    <3>2. i - L = j - L
      BY <1>1, <3>1
    <3>. QED
      BY <1>5, <3>2
  <2>. QED
    BY <2>1, <2>2, <2>3, <2>4
<1>. DEFINE U(i) == {c[j] : j \in 1 .. i}
            P(i) == /\ parent[c[i]] \in U(i - 1)
                    /\ \A older \in Children(parent, parent[c[i]]) : older < c[i] => older \in U(i - 1)
<1>11. ASSUME NEW i \in 2 .. L + Len(b) PROVE P(i)
  <2>1. CASE i \in 1 .. L
    <3>1. Placed(i) /\ c[i] = revealed[i]
      BY <1>2, <1>5, <2>1
    <3>2. Upto(i - 1) = U(i - 1)
      BY <1>5, <2>1 DEF Upto
    <3>. QED
      BY <3>1, <3>2 DEF Placed
  <2>2. CASE i \notin 1 .. L
    <3>1. i - L \in DOMAIN b /\ c[i] = b[i - L] /\ i - 1 >= L
      BY <1>5, <1>9, <2>2
    <3>2. PICK k \in Hits(s) :
              /\ c[i] = Retrieved(s, k)
              /\ Retrieved(s, k) \in Children(parent, s[k])
              /\ \A j \in Hits(s) : j < k => \E q \in DOMAIN b : q < i - L /\ b[q] = Retrieved(s, j)
      BY <1>1, <3>1
    <3>3. \A v \in Revealed : v \in U(i - 1)
      BY <1>5, <1>7, <3>1
    <3>4. k \in DOMAIN s /\ s[k] \in Revealed /\ Retrieved(s, k) # None
      BY DEF Hits
    <3>5. parent[c[i]] = s[k]
      BY <3>2 DEF Children
    <3>6. ASSUME NEW d \in Children(parent, s[k]), d < c[i] PROVE d \in U(i - 1)
      <4>1. CASE d \in Revealed
        BY <3>3, <4>1
      <4>2. CASE d \notin Revealed
        <5>1. PICK j \in DOMAIN s : j < k /\ Retrieved(s, j) = d
          BY <1>0, <3>2, <3>4, <3>6, <4>2, RetrievedApart
        <5>2. d \in Left(s[k])
          BY <1>0, <3>6, <4>2, LeftIs
        <5>3. d # None
          BY <1>0, <5>2, LeftIs
        <5>4. j \in Hits(s)
          BY <5>1, <5>3 DEF Hits
        <5>5. PICK q \in DOMAIN b : q < i - L /\ b[q] = d
          BY <3>2, <5>1, <5>4
        <5>6. q \in 1 .. Len(b) /\ L + q \in 1 .. i - 1 /\ c[L + q] = d
          BY <1>5, <5>5
        <5>. QED
          BY <5>6
      <4>. QED
        BY <4>1, <4>2
    <3>. QED
      BY <3>3, <3>4, <3>5, <3>6
  <2>. QED
    BY <2>1, <2>2
<1>12. c # <<>> /\ c[1] = Root
  BY <1>2, <1>5, <1>6
<1>13. parent' = parent /\ \A i : Placed(i)' <=> P(i)
  BY <1>4 DEF Placed, Upto, world
<1>14. \A i \in 2 .. Len(c) : Placed(i)'
  <2>. HIDE DEF P
  <2>. QED
    BY <1>5, <1>11, <1>13
<1>. QED
  BY <1>4, <1>5, <1>10, <1>12, <1>13, <1>14 DEF OrderInd, N

-----------------------------------------------------------------------------
(* Equation 1's attainment.                                                  *)

Met(nodes) == {score[n] : n \in nodes}

\* BestOver is the best of the scores met.
LEMMA MetIs ==
  ASSUME World, NEW A \in SUBSET Nodes(parent), \A v \in A : score[v] # Odd
  PROVE  /\ Met(A) \in SUBSET Marks /\ IsFiniteSet(Met(A)) /\ IsFiniteSet(A)
         /\ BestOver(A) = Best(Met(A)) /\ Tops(BestOver(A), Met(A)) /\ BestOver(A) \in Marks
<1>1. Len(parent) \in Nat /\ Nodes(parent) = 0 .. Len(parent)
  BY DEF World, Nodes
<1>2. IsFiniteSet(A)
  BY <1>1, Finitely
<1>3. IsFiniteSet(Met(A))
  <2>. DEFINE f == [n \in A |-> score[n]]
  <2>1. f \in Surjection(A, Met(A))
    <3>1. f \in [A -> Met(A)] /\ \A t \in Met(A) : \E n \in A : f[n] = t
      BY DEF Met
    <3>. QED
      BY <3>1 DEF Surjection
  <2>. QED
    BY <1>2, <2>1, FS_Surjection
<1>4. Met(A) \in SUBSET Marks
  BY DEF World, Met, Marks
<1>5. BestOver(A) = Best(Met(A))
  BY DEF BestOver, Best, Met
<1>. QED
  BY <1>2, <1>3, <1>4, <1>5, BestIs

\* The running best over more nodes is the best over them and those before.
LEMMA RunningBestIs ==
  ASSUME World, NEW A \in SUBSET Nodes(parent), NEW B \in SUBSET Nodes(parent),
         \A v \in A \cup B : score[v] # Odd
  PROVE  RunningBest(BestOver(A), B) = BestOver(A \cup B)
<1>1. /\ Met(A) \in SUBSET Marks /\ IsFiniteSet(Met(A)) /\ BestOver(A) = Best(Met(A))
      /\ Met(B) \in SUBSET Marks /\ IsFiniteSet(Met(B))
  BY MetIs
<1>2. BestOver(A \cup B) = Best(Met(A \cup B))
  BY MetIs
<1>3. Met(A \cup B) = Met(A) \cup Met(B)
  BY DEF Met
<1>4. RunningBest(BestOver(A), B) = Best({BestOver(A)} \cup Met(B))
  BY DEF RunningBest, Best, Met
<1>. QED
  BY <1>1, <1>2, <1>3, <1>4, BestJoin

Points == [node : Nat, score : Marks, best : Marks]
Point(i) ==
  /\ curve[i].node = revealed[i + 1] /\ curve[i].score = score[revealed[i + 1]]
  /\ curve[i].best = BestOver(Upto(i + 1))
CurveInd ==
  /\ curve \in Seq(Points) /\ Len(revealed) = Len(curve) + 1
  /\ \A i \in DOMAIN curve : Point(i)
  /\ best \in Marks
  /\ score[Root] # Odd => best = BestOver(Revealed)
  /\ \A v \in Revealed \ {Root} : score[v] # Odd
  /\ Running => score[Root] # Odd

\* What a round adds to the curve tells the best at each of its nodes.
LEMMA CurveKept ==
  ASSUME World, OrderInd, CurveInd, Running, NEW s \in Seq(Nat), Holdable(s),
         revealed' = revealed \o New(s), curve' = Extended(New(s)),
         best' = RunningBest(best, ToSet(New(s))), UNCHANGED <<world, stop>>
  PROVE  CurveInd'
<1>. DEFINE N == Nodes(parent)
            b == New(s)
            L == Len(revealed)
            A(i) == {b[j] : j \in 1 .. i}
            e == [i \in DOMAIN b |->
                   [node |-> b[i], score |-> score[b[i]], best |-> RunningBest(best, A(i))]]
<1>0. Shown
  BY ShownIs
<1>1. b \in Seq(N \ Revealed)
  BY <1>0, NewIs
<1>2. \A c \in ToSet(b) : score[c] # Odd
  BY DEF Holdable
<1>3. /\ revealed \in Seq(N) /\ curve \in Seq(Points) /\ L = Len(curve) + 1
      /\ \A i \in DOMAIN curve : Point(i)
      /\ best \in Marks /\ best = BestOver(Revealed)
      /\ \A v \in Revealed : score[v] # Odd
  BY DEF OrderInd, CurveInd
<1>4. curve' = curve \o e
  BY DEF Extended
<1>5. N \subseteq Nat /\ \A v \in N : score[v] # Odd => score[v] \in Marks
  <2>1. Len(parent) \in Nat
    BY DEF World
  <2>2. score \in [N -> Scores \cup {NoScore, Odd}]
    BY DEF World
  <2>3. N \subseteq Nat
    BY <2>1 DEF Nodes
  <2>4. \A v \in N : score[v] \in Scores \cup {NoScore, Odd}
    BY <2>2, Zenon
  <2>5. \A v \in N : score[v] # Odd => score[v] \in Marks
    BY <2>4, Zenon DEF Marks
  <2>. QED
    BY <2>3, <2>5, Zenon
<1>. HIDE DEF b, N
<1>6. b \in Seq(N)
  <2>1. N \ Revealed \subseteq N
    OBVIOUS
  <2>2. b \in [1 .. Len(b) -> N \ Revealed] /\ Len(b) \in Nat
    BY <1>1
  <2>3. b \in [1 .. Len(b) -> N]
    BY <2>1, <2>2
  <2>. QED
    BY <2>2, <2>3
<1>7. Len(b) \in Nat /\ DOMAIN b = 1 .. Len(b) /\ \A i \in 1 .. Len(b) : b[i] \in N /\ b[i] \in ToSet(b)
  BY <1>6 DEF ToSet
<1>8. Revealed \in SUBSET N /\ ToSet(b) \in SUBSET N /\ \A i \in 0 .. Len(b) : A(i) \in SUBSET ToSet(b)
  BY <1>3, <1>6, <1>7 DEF Revealed, ToSet
<1>9. \A B \in SUBSET ToSet(b) : RunningBest(best, B) = BestOver(Revealed \cup B) /\ BestOver(Revealed \cup B) \in Marks
  <2>1. ASSUME NEW B \in SUBSET ToSet(b)
        PROVE  RunningBest(best, B) = BestOver(Revealed \cup B) /\ BestOver(Revealed \cup B) \in Marks
    <3>1. /\ B \in SUBSET N /\ Revealed \cup B \in SUBSET N
          /\ \A v \in Revealed \cup B : score[v] # Odd
      BY <1>2, <1>3, <1>8
    <3>2. RunningBest(BestOver(Revealed), B) = BestOver(Revealed \cup B)
      BY <1>8, <3>1, RunningBestIs DEF N
    <3>3. BestOver(Revealed \cup B) \in Marks
      BY <3>1, MetIs DEF N
    <3>. QED
      BY <1>3, <3>2, <3>3
  <2>. QED
    BY <2>1
<1>. HIDE DEF A
<1>10. e \in Seq(Points) /\ Len(e) = Len(b) /\ DOMAIN e = 1 .. Len(b)
  <2>1. ASSUME NEW i \in 1 .. Len(b)
        PROVE  [node |-> b[i], score |-> score[b[i]], best |-> RunningBest(best, A(i))] \in Points
    <3>1. RunningBest(best, A(i)) \in Marks
      <4>1. i \in 0 .. Len(b)
        BY <1>7
      <4>. QED
        BY <1>8, <1>9, <4>1
    <3>2. score[b[i]] \in Marks
      BY <1>2, <1>5, <1>7, <2>1
    <3>. QED
      BY <1>5, <1>7, <3>1, <3>2 DEF Points
  <2>2. e \in [1 .. Len(b) -> Points]
    BY <1>7, <2>1
  <2>. QED
    BY <1>7, <2>2
<1>. HIDE DEF e
<1>11. PICK c : c = revealed'
  OBVIOUS
<1>12. PICK k : k = curve'
  OBVIOUS
<1>30. c = revealed \o b /\ k = curve \o e
  BY <1>4, <1>11, <1>12 DEF b
<1>31. revealed \in Seq(N) /\ b \in Seq(N)
  BY <1>3, <1>6
<1>32. curve \in Seq(Points) /\ e \in Seq(Points)
  BY <1>3, <1>10
<1>13. /\ c = revealed \o b /\ c \in Seq(N) /\ Len(c) = L + Len(b) /\ L \in Nat
       /\ \A i \in 1 .. L : c[i] = revealed[i]
       /\ \A i \in 1 .. Len(b) : c[L + i] = b[i]
       /\ DOMAIN revealed = 1 .. L
  BY <1>30, <1>31, Joined
<1>14. ToSet(c) = Revealed \cup ToSet(b)
  BY <1>30, <1>31, Joined DEF Revealed
<1>15. /\ k \in Seq(Points) /\ Len(k) = Len(curve) + Len(e) /\ Len(curve) \in Nat
       /\ DOMAIN k = 1 .. Len(curve) + Len(e) /\ DOMAIN curve = 1 .. Len(curve)
       /\ \A i \in 1 .. Len(curve) : k[i] = curve[i]
       /\ \A i \in 1 .. Len(e) : k[Len(curve) + i] = e[i]
       /\ \A i \in 1 .. Len(curve) + Len(e) : i \in 1 .. Len(curve) \/ i - Len(curve) \in 1 .. Len(e)
  BY <1>30, <1>32, Joined
<1>. DEFINE U(i) == {c[j] : j \in 1 .. i}
            P(i) == /\ k[i].node = c[i + 1] /\ k[i].score = score[c[i + 1]]
                    /\ k[i].best = BestOver(U(i + 1))
<1>16. ASSUME NEW i \in 1 .. Len(k) PROVE P(i)
  <2>1. CASE i \in 1 .. Len(curve)
    <3>0. i + 1 \in 1 .. L /\ i \in DOMAIN curve /\ L = Len(curve) + 1
      BY <1>3, <1>15, <2>1
    <3>1. Point(i) /\ k[i] = curve[i] /\ c[i + 1] = revealed[i + 1]
      BY <1>3, <1>13, <1>15, <2>1, <3>0
    <3>2. Upto(i + 1) = U(i + 1)
      <4>1. \A j \in 1 .. i + 1 : c[j] = revealed[j]
        BY <1>13, <3>0
      <4>. QED
        BY <4>1 DEF Upto
    <3>. QED
      BY <3>1, <3>2 DEF Point
  <2>2. CASE i - Len(curve) \in 1 .. Len(e)
    <3>. DEFINE r == i - Len(curve)
    <3>1. r \in 1 .. Len(b) /\ i + 1 = L + r /\ Len(curve) + r = i
      BY <1>3, <1>10, <1>15, <2>2
    <3>2. k[i] = e[r] /\ c[i + 1] = b[r]
      BY <1>13, <1>15, <2>2, <3>1
    <3>3. e[r] = [node |-> b[r], score |-> score[b[r]], best |-> RunningBest(best, A(r))]
      BY <1>7, <3>1 DEF e
    <3>4. U(i + 1) = Revealed \cup A(r)
      <4>1. \A v \in Revealed : \E j \in 1 .. L : c[j] = v
        BY <1>13 DEF Revealed, ToSet
      <4>2. \A j \in 1 .. L : c[j] \in Revealed
        BY <1>13 DEF Revealed, ToSet
      <4>3. \A j \in 1 .. r : c[L + j] = b[j] /\ L + j \in 1 .. L + r
        BY <1>7, <1>13, <3>1
      <4>4. \A j \in 1 .. L + r : j \in 1 .. L \/ (j - L \in 1 .. r /\ L + (j - L) = j)
        BY <1>13, <3>1
      <4>5. \A j \in 1 .. L : j \in 1 .. L + r
        BY <1>13, <3>1
      <4>6. U(L + r) \subseteq Revealed \cup A(r)
        <5>1. ASSUME NEW j \in 1 .. L + r PROVE c[j] \in Revealed \cup A(r)
          <6>1. CASE j \in 1 .. L
            BY <4>2, <6>1
          <6>2. CASE j - L \in 1 .. r /\ L + (j - L) = j
            <7>1. c[j] = b[j - L]
              BY <4>3, <6>2
            <7>. QED
              BY <6>2, <7>1 DEF A
          <6>. QED
            BY <4>4, <6>1, <6>2
        <5>. QED
          BY <5>1
      <4>7. Revealed \cup A(r) \subseteq U(L + r)
        BY <4>1, <4>3, <4>5 DEF A
      <4>. QED
        BY <3>1, <4>6, <4>7
    <3>5. r \in 0 .. Len(b)
      BY <3>1
    <3>6. RunningBest(best, A(r)) = BestOver(Revealed \cup A(r))
      BY <1>8, <1>9, <3>5
    <3>. HIDE DEF r, U
    <3>7. BestOver(U(i + 1)) = BestOver(Revealed \cup A(r))
      BY <3>4, Zenon
    <3>. QED
      BY <3>2, <3>3, <3>6, <3>7
  <2>. QED
    BY <1>15, <2>1, <2>2
<1>17. ToSet(b) \in SUBSET ToSet(b)
  OBVIOUS
<1>18. best' = BestOver(ToSet(c)) /\ best' \in Marks
  BY <1>9, <1>14, <1>17 DEF b
<1>19. UNCHANGED <<parent, score>> /\ Running'
  BY DEF world, Running
<1>20. Revealed' = ToSet(c) /\ BestOver(Revealed)' = BestOver(ToSet(c))
  BY <1>11, <1>19 DEF Revealed, BestOver
<1>21. \A i : Point(i)' <=> P(i)
  BY <1>11, <1>12, <1>19 DEF Point, Upto, BestOver
<1>22. \A i \in DOMAIN curve' : Point(i)'
  <2>. HIDE DEF P
  <2>. QED
    BY <1>12, <1>15, <1>16, <1>21
<1>23. curve' \in Seq(Points) /\ Len(revealed') = Len(curve') + 1
  BY <1>3, <1>10, <1>11, <1>12, <1>13, <1>15
<1>24. \A v \in Revealed' : score'[v] # Odd
  BY <1>2, <1>3, <1>14, <1>19, <1>20
<1>. QED
  <2>1. \A v \in Revealed' \ {Root} : score'[v] # Odd
    BY <1>24
  <2>2. best' = BestOver(Revealed)' /\ best' \in Marks
    BY <1>18, <1>20
  <2>3. score'[Root] # Odd
    BY <1>19 DEF CurveInd
  <2>. QED
    BY <1>22, <1>23, <2>1, <2>2, <2>3 DEF CurveInd, Points, Marks

-----------------------------------------------------------------------------
(* Counting.                                                                 *)

\* What is revealed is as many nodes as the list of them is long.
LEMMA RevealedIs ==
  ASSUME World, OrderInd
  PROVE  /\ IsFiniteSet(Revealed) /\ Cardinality(Revealed) = Len(revealed)
         /\ Revealed \in SUBSET Nodes(parent) /\ Root \in Revealed
         /\ Len(revealed) \in Nat /\ Len(revealed) >= 1 /\ Len(parent) \in Nat
         /\ Len(revealed) <= Len(parent) + 1
         /\ Len(revealed) = Len(parent) + 1 => Revealed = Nodes(parent)
         /\ Len(revealed) = 1 <=> Revealed = {Root}
         /\ \A A \in SUBSET Revealed : IsFiniteSet(A) /\ Cardinality(A) \in Nat
                                       /\ Cardinality(A) <= Len(revealed)
<1>. DEFINE L == Len(revealed)
            N == Len(parent)
<1>1. /\ L \in Nat /\ DOMAIN revealed = 1 .. L /\ L >= 1 /\ revealed[1] = Root /\ N \in Nat
      /\ \A i, j \in DOMAIN revealed : revealed[i] = revealed[j] => i = j
      /\ \A i \in 1 .. L : revealed[i] \in Nodes(parent)
  BY DEF World, OrderInd
<1>2. revealed \in [1 .. L -> Revealed]
  <2>1. \A i \in 1 .. L : revealed[i] \in Revealed
    BY <1>1 DEF Revealed, ToSet
  <2>2. revealed = [i \in 1 .. L |-> revealed[i]]
    BY DEF OrderInd
  <2>. QED
    BY <2>1, <2>2
<1>3. \A v \in Revealed : \E i \in 1 .. L : revealed[i] = v
  BY <1>1 DEF Revealed, ToSet
<1>4. revealed \in Surjection(1 .. L, Revealed) /\ revealed \in Injection(1 .. L, Revealed)
  BY <1>1, <1>2, <1>3 DEF Surjection, Injection, IsInjective
<1>5. IsFiniteSet(1 .. L) /\ Cardinality(1 .. L) = L
  <2>1. PICK n \in Nat : n = L
    BY <1>1
  <2>2. IsFiniteSet(1 .. n) /\ Cardinality(1 .. n) = n
    BY FS_Interval
  <2>. QED
    BY <2>1, <2>2
<1>6. IsFiniteSet(Revealed) /\ Cardinality(Revealed) = L
  BY <1>4, <1>5, FS_Surjection
<1>7. Revealed \in SUBSET Nodes(parent) /\ Root \in Revealed
  BY <1>1, <1>2, <1>3
<1>8. IsFiniteSet(Nodes(parent)) /\ Cardinality(Nodes(parent)) = N + 1
  <2>1. PICK n \in Nat : n = N
    BY <1>1
  <2>2. IsFiniteSet(0 .. n) /\ Cardinality(0 .. n) = n + 1
    BY FS_Interval
  <2>. QED
    BY <2>1, <2>2 DEF Nodes
<1>9. L <= N + 1 /\ (L = N + 1 => Revealed = Nodes(parent))
  BY <1>6, <1>7, <1>8, FS_Subset
<1>10. \A A \in SUBSET Revealed : IsFiniteSet(A) /\ Cardinality(A) \in Nat /\ Cardinality(A) <= L
  BY <1>6, FS_Subset, FS_CardinalityType
<1>11. L = 1 <=> Revealed = {Root}
  <2>1. Cardinality({Root}) = 1
    BY FS_Singleton
  <2>2. {Root} \in SUBSET Revealed
    BY <1>7
  <2>. QED
    BY <1>6, <2>1, <2>2, FS_Subset
<1>. QED
  BY <1>1, <1>6, <1>7, <1>9, <1>10, <1>11

LogInd ==
  /\ rounds \in Nat /\ wasted \in 0 .. rounds /\ logged = Len(curve)
  /\ rounds <= wasted + Len(curve)
  /\ Len(last.selected) = Len(last.revealed)
  /\ ToSet(last.revealed) \subseteq Nodes(parent) /\ ToSet(last.revealed) \ {None} \subseteq Revealed
  /\ stop \in Stopped \cup {"running"}
  /\ DefaultCapSpares

ReplayInd == World /\ OrderInd /\ CurveInd /\ LogInd

\* ReplayRun.reveal keeps what a replay is.
LEMMA RevealKeeps ==
  ASSUME ReplayInd, Running, NEW s \in Seq(Nat), Reveal(s)
  PROVE  /\ ReplayInd'
         /\ Running' /\ world' = world /\ rounds' = rounds + 1
         /\ revealed' = revealed \o New(s)
         /\ Len(revealed') = Len(revealed) + Len(New(s)) /\ Len(New(s)) \in Nat /\ Len(New(s)) <= Len(s)
         /\ Revealed' = Revealed \cup ToSet(New(s))
<1>0. World /\ OrderInd /\ CurveInd /\ LogInd
  BY DEF ReplayInd
<1>1. /\ Legal(s) /\ Holdable(s)
      /\ revealed' = revealed \o New(s) /\ curve' = Extended(New(s)) /\ best' = RunningBest(best, ToSet(New(s)))
      /\ rounds' = rounds + 1 /\ last' = [selected |-> s, revealed |-> Found(s)]
      /\ wasted' = IF New(s) = <<>> THEN wasted + 1 ELSE wasted
      /\ logged' = logged + Len(New(s))
      /\ world' = world /\ stop' = stop /\ parent' = parent /\ score' = score
  BY DEF Reveal, world
<1>2. World'
  BY <1>0, <1>1 DEF World
<1>3. \A i \in DOMAIN s : s[i] \in Revealed
  BY <1>1 DEF Legal, IsAction, Frontier
<1>4. OrderInd'
  BY <1>0, <1>1, <1>3, OrderKept
<1>5. CurveInd'
  BY <1>0, <1>1, CurveKept
<1>6. Shown
  BY <1>0, ShownIs
<1>7. /\ Found(s) \in Seq(Nodes(parent)) /\ Len(Found(s)) = Len(s) /\ DOMAIN Found(s) = DOMAIN s
      /\ \A i \in DOMAIN s : Found(s)[i] = Retrieved(s, i)
      /\ New(s) \in Seq(Nodes(parent) \ Revealed)
      /\ Len(New(s)) <= Len(s)
      /\ ToSet(New(s)) = {Retrieved(s, i) : i \in Hits(s)}
  BY <1>6, NewIs
<1>8. PICK b : b = New(s)
  OBVIOUS
<1>9. b \in Seq(Nodes(parent)) /\ Len(b) \in Nat /\ (b # <<>> => Len(b) >= 1) /\ (b = <<>> => Len(b) = 0)
  <2>1. b \in [1 .. Len(b) -> Nodes(parent) \ Revealed] /\ Len(b) \in Nat
    BY <1>7, <1>8
  <2>2. b \in [1 .. Len(b) -> Nodes(parent)]
    BY <2>1
  <2>. QED
    BY <2>1, <2>2
<1>10. revealed \in Seq(Nodes(parent)) /\ Len(revealed) \in Nat
  BY <1>0 DEF OrderInd
<1>11. Len(revealed') = Len(revealed) + Len(b) /\ Revealed' = Revealed \cup ToSet(b)
  <2>1. revealed' = revealed \o b
    BY <1>1, <1>8
  <2>2. Len(revealed \o b) = Len(revealed) + Len(b) /\ ToSet(revealed \o b) = ToSet(revealed) \cup ToSet(b)
    BY <1>9, <1>10, Joined
  <2>. QED
    BY <2>1, <2>2 DEF Revealed
<1>12. Len(curve') = Len(curve) + Len(b) /\ Len(curve) \in Nat
  <2>1. Len(curve') \in Nat /\ Len(curve) \in Nat
    BY <1>0, <1>5 DEF CurveInd
  <2>2. Len(revealed) = Len(curve) + 1 /\ Len(revealed') = Len(curve') + 1
    BY <1>0, <1>5 DEF CurveInd
  <2>. QED
    BY <1>9, <1>10, <1>11, <2>1, <2>2
<1>13. rounds' \in Nat /\ wasted' \in 0 .. rounds' /\ logged' = Len(curve') /\ rounds' <= wasted' + Len(curve')
  <2>1. rounds \in Nat /\ wasted \in 0 .. rounds /\ logged = Len(curve) /\ rounds <= wasted + Len(curve)
    BY <1>0 DEF LogInd
  <2>2. wasted' = (IF b = <<>> THEN wasted + 1 ELSE wasted) /\ logged' = logged + Len(b)
    BY <1>1, <1>8
  <2>. QED
    BY <1>1, <1>9, <1>12, <2>1, <2>2
<1>14. Len(last'.selected) = Len(last'.revealed)
  BY <1>1, <1>7
<1>15. ToSet(last'.revealed) \subseteq Nodes(parent) /\ ToSet(last'.revealed) \ {None} \subseteq Revealed'
  <2>1. last'.revealed = Found(s)
    BY <1>1
  <2>2. \A i \in DOMAIN s : Found(s)[i] \in Nodes(parent)
    BY <1>7
  <2>3. \A i \in DOMAIN s : Found(s)[i] # None => Found(s)[i] \in ToSet(b)
    BY <1>7, <1>8 DEF Hits
  <2>. QED
    BY <1>7, <1>11, <2>1, <2>2, <2>3 DEF ToSet
<1>16. Running' /\ stop' \in Stopped \cup {"running"} /\ stop' = "running"
  BY <1>0, <1>1 DEF Running, LogInd
<1>17. LogInd'
  BY <1>1, <1>13, <1>14, <1>15, <1>16 DEF LogInd, DefaultCapSpares, None
<1>. QED
  BY <1>1, <1>2, <1>4, <1>5, <1>7, <1>8, <1>9, <1>11, <1>16, <1>17 DEF ReplayInd

\* So does its end: the default cap is met only with a round wasted.
LEMMA StopKeeps ==
  ASSUME ReplayInd, Running, NEW reason \in Stopped, StopFor(reason),
         reason = "max_rounds" => ~Complete /\ RoundsLeft <= 0
  PROVE  /\ ReplayInd' /\ stop' = reason /\ ~Running'
         /\ UNCHANGED <<parent, score, revealed, rounds, curve>> /\ Revealed' = Revealed
<1>0. World /\ OrderInd /\ CurveInd /\ LogInd
  BY DEF ReplayInd
<1>1. /\ stop' = reason
      /\ UNCHANGED <<parent, score, revealed, rounds, last, wasted, logged, curve, best>>
  BY DEF StopFor, world, log
<1>2. ~Running'
  BY <1>1 DEF Running, Stopped
<1>3. World'
  BY <1>0, <1>1 DEF World
<1>4. OrderInd'
  BY <1>0, <1>1 DEF OrderInd, Placed, Upto
<1>5. \A i : (Point(i)' <=> Point(i)) /\ BestOver(Revealed)' = BestOver(Revealed) /\ Revealed' = Revealed
  BY <1>1 DEF Point, Upto, Revealed, BestOver
<1>6. CurveInd'
  BY <1>0, <1>1, <1>2, <1>5 DEF CurveInd
<1>7. DefaultCapSpares'
  <2>. SUFFICES ASSUME reason = "max_rounds", Limit = DefaultLimit PROVE wasted > 0
    BY <1>1 DEF DefaultCapSpares
  <2>1. ~Complete /\ Len(parent) - rounds <= 0
    BY DEF RoundsLeft
  <2>2. /\ Len(revealed) \in Nat /\ Len(parent) \in Nat /\ Len(revealed) <= Len(parent) + 1
        /\ Len(revealed) # Len(parent) + 1
    BY <1>0, <2>1, RevealedIs DEF Complete
  <2>3. Len(revealed) = Len(curve) + 1 /\ Len(curve) \in Nat
    BY <1>0 DEF CurveInd
  <2>4. rounds \in Nat /\ wasted \in 0 .. rounds /\ rounds <= wasted + Len(curve)
    BY <1>0 DEF LogInd
  <2>. QED
    BY <2>1, <2>2, <2>3, <2>4
<1>8. LogInd'
  BY <1>0, <1>1, <1>5, <1>7 DEF LogInd
<1>. QED
  BY <1>1, <1>2, <1>3, <1>4, <1>5, <1>6, <1>8 DEF ReplayInd

\* And so it is where a replay starts.
LEMMA StartIs ==
  ASSUME World, Start
  PROVE  ReplayInd /\ (Running <=> score[Root] # Odd) /\ Len(revealed) = 1 /\ rounds = 0
<1>1. /\ revealed = <<Root>>
      /\ rounds = 0 /\ last = NoRound /\ wasted = 0 /\ logged = 0 /\ curve = <<>>
      /\ best = (IF score[Root] = Odd THEN NoScore ELSE score[Root])
      /\ stop = (IF score[Root] = Odd THEN "raised" ELSE "running")
  BY DEF Start
<1>2. Root \in Nodes(parent) /\ Len(revealed) = 1 /\ DOMAIN revealed = {1} /\ Revealed = {Root}
  BY <1>1 DEF World, Nodes, Root, Revealed, ToSet
<1>3. OrderInd
  BY <1>1, <1>2 DEF OrderInd
<1>4. Running <=> score[Root] # Odd
  BY <1>1 DEF Running
<1>5. score[Root] \in Scores \cup {NoScore, Odd}
  BY <1>2 DEF World
<1>6. ASSUME score[Root] # Odd PROVE best = BestOver(Revealed)
  <2>1. {score[n] : n \in Revealed} \ {NoScore} = {score[Root]} \ {NoScore}
    BY <1>2
  <2>2. CASE score[Root] = NoScore
    BY <1>1, <1>6, <2>1, <2>2 DEF BestOver
  <2>3. CASE score[Root] # NoScore
    <3>1. score[Root] \in Int
      BY <1>5, <1>6, <2>3, ReplayConfig
    <3>2. {score[Root]} \ {NoScore} = {score[Root]}
      BY <2>3
    <3>3. Max({score[Root]}) = score[Root]
      BY <3>1 DEF Max
    <3>4. BestOver(Revealed) = Max({score[Root]})
      BY <2>1, <3>2 DEF BestOver
    <3>. QED
      BY <1>1, <1>6, <3>3, <3>4
  <2>. QED
    BY <2>2, <2>3
<1>7. best \in Marks
  BY <1>1, <1>5 DEF Marks
<1>8. CurveInd
  BY <1>1, <1>2, <1>4, <1>6, <1>7 DEF CurveInd
<1>9. Len(last.selected) = Len(last.revealed) /\ ToSet(last.revealed) = {}
  BY <1>1 DEF NoRound, ToSet
<1>10. LogInd
  BY <1>1, <1>9 DEF LogInd, DefaultCapSpares, Stopped
<1>. QED
  BY <1>1, <1>2, <1>3, <1>4, <1>8, <1>10 DEF ReplayInd

-----------------------------------------------------------------------------
(* What the strategies answer.                                               *)

\* s is a list of members of T, at most n of them, none but the root twice.
Picks(s, T, n) ==
  /\ s \in Seq(T) /\ Len(s) <= n
  /\ \A i, j \in DOMAIN s : s[i] = s[j] => i = j \/ s[i] = Root

\* The first few of a list without repetitions are a batch.
LEMMA FirstPicks ==
  ASSUME NEW T, NEW s \in Seq(T), NEW n \in Nat,
         \A i, j \in DOMAIN s : s[i] = s[j] => i = j
  PROVE  /\ Picks(First(s, n), T, n)
         /\ First(s, n) = <<>> <=> n = 0 \/ s = <<>>
<1>. DEFINE m == Lesser(n, Len(s))
<1>1. Len(s) \in Nat
  OBVIOUS
<1>2. m \in 0 .. Len(s) /\ m <= n
  BY <1>1 DEF Lesser
<1>3. m = 0 <=> n = 0 \/ Len(s) = 0
  BY <1>1 DEF Lesser
<1>4. First(s, n) = SubSeq(s, 1, m)
  BY DEF First
<1>. HIDE DEF m
<1>5. /\ SubSeq(s, 1, m) \in Seq(T) /\ Len(SubSeq(s, 1, m)) = m
      /\ \A i \in 1 .. m : SubSeq(s, 1, m)[i] = s[i] /\ i \in DOMAIN s
  BY <1>1, <1>2
<1>6. PICK q : q = SubSeq(s, 1, m)
  OBVIOUS
<1>7. q \in Seq(T) /\ Len(q) = m /\ DOMAIN q = 1 .. m
  BY <1>5, <1>6
<1>8. \A i, j \in DOMAIN q : q[i] = q[j] => i = j
  BY <1>5, <1>6, <1>7
<1>9. q = <<>> <=> m = 0
  BY <1>7
<1>10. Len(s) = 0 <=> s = <<>>
  OBVIOUS
<1>. QED
  BY <1>2, <1>3, <1>4, <1>6, <1>7, <1>8, <1>9, <1>10 DEF Picks

\* Ids in order: each of them once.
LEMMA AscendingIs ==
  ASSUME NEW T \in SUBSET Int, IsFiniteSet(T)
  PROVE  /\ Ascending(T) \in Seq(T)
         /\ Ascending(T) = <<>> <=> T = {}
         /\ \A i, j \in DOMAIN Ascending(T) : Ascending(T)[i] = Ascending(T)[j] => i = j
<1>. DEFINE c == Cardinality(T)
            a == Ascending(T)
<1>1. /\ c \in Nat
      /\ \A n \in 0 .. c - 1 : Nth(T, n) \in T
      /\ \A m, n \in 0 .. c - 1 : m < n => Nth(T, m) < Nth(T, n)
  BY NthIs
<1>2. a = [i \in 1 .. c |-> Nth(T, i - 1)]
  BY DEF Ascending
<1>. HIDE DEF a, c
<1>3. \A i \in 1 .. c : i - 1 \in 0 .. c - 1
  BY <1>1
<1>4. a \in [1 .. c -> T] /\ DOMAIN a = 1 .. c
  BY <1>1, <1>2, <1>3
<1>5. a \in Seq(T)
  BY <1>1, <1>4
<1>6. ASSUME NEW i \in 1 .. c, NEW j \in 1 .. c, a[i] = a[j] PROVE i = j
  <2>1. i - 1 \in 0 .. c - 1 /\ j - 1 \in 0 .. c - 1
    BY <1>3
  <2>2. PICK x, y : x = Nth(T, i - 1) /\ y = Nth(T, j - 1)
    OBVIOUS
  <2>3. x = y /\ x \in Int /\ y \in Int
    BY <1>1, <1>2, <1>6, <2>1, <2>2
  <2>4. ~(i - 1 < j - 1) /\ ~(j - 1 < i - 1)
    BY <1>1, <2>1, <2>2, <2>3
  <2>. QED
    BY <1>1, <2>4
<1>7. c = 0 <=> T = {}
  BY FS_EmptySet DEF c
<1>8. a = <<>> <=> c = 0
  BY <1>1, <1>4
<1>. QED
  BY <1>4, <1>5, <1>6, <1>7, <1>8 DEF a

NoneOdd == \A v \in Nodes(parent) : score[v] # Odd

\* The best score on a path is one the world records, or none.
LEMMA AnchorIs ==
  ASSUME World, NoneOdd, NEW v \in Nodes(parent)
  PROVE  Anchor(v) \in Marks
<1>1. Path(v) \in Seq(DOMAIN parent)
  BY PathIs DEF World
<1>2. ToSet(Path(v)) \subseteq DOMAIN parent
  BY <1>1 DEF ToSet
<1>3. {Root} \cup ToSet(Path(v)) \in SUBSET Nodes(parent)
  BY <1>2 DEF World, Nodes, Root
<1>. QED
  BY <1>3, MetIs DEF NoneOdd, Anchor

\* The ranking lists, once each, the nodes below the root that have an anchor.
LEMMA ByAnchorIs ==
  ASSUME World, NoneOdd, NEW T \in SUBSET Nodes(parent)
  PROVE  /\ ByAnchor(T) \in Seq(T \ {Root})
         /\ ByAnchor(T) = <<>> <=> \A v \in T \ {Root} : Anchor(v) = NoScore
         /\ \A i, j \in DOMAIN ByAnchor(T) : ByAnchor(T)[i] = ByAnchor(T)[j] => i = j
<1>. DEFINE S == {v \in T \ {Root} : Anchor(v) # NoScore}
            R == {p \in S \X S : Ahead(p[1], p[2])}
            c == Cardinality(S)
            q(v) == Cardinality({w \in S : Ahead(w, v)})
            r(v) == Rank(R, S, v)
            a == ByAnchor(T)
<1>1. S \in SUBSET Nodes(parent) /\ S \subseteq T \ {Root} /\ S \subseteq Nat
  <2>1. Nodes(parent) \subseteq Nat
    BY DEF Nodes, World
  <2>. QED
    BY <2>1
<1>2. IsFiniteSet(S)
  <2>1. Len(parent) \in Nat
    BY DEF World
  <2>. HIDE DEF S
  <2>. QED
    BY <1>1, <2>1, Finitely DEF Nodes
<1>3. \A v \in S : Anchor(v) \in Int
  <2>1. \A v \in S : Anchor(v) \in Marks /\ Anchor(v) # NoScore
    BY AnchorIs
  <2>. QED
    BY <2>1, ReplayConfig DEF Marks
<1>4. \A u, v \in S : <<u, v>> \in R <=> Ahead(u, v)
  OBVIOUS
<1>5. a = [i \in 1 .. c |-> CHOOSE v \in S : q(v) = i - 1]
  BY DEF ByAnchor
<1>6. c = 0 <=> S = {}
  BY <1>2, FS_EmptySet
<1>7. S = {} <=> \A v \in T \ {Root} : Anchor(v) = NoScore
  OBVIOUS
<1>. HIDE DEF S, R
<1>8. \A v \in S : q(v) = r(v)
  <2>1. ASSUME NEW v \in S PROVE q(v) = r(v)
    <3>1. {w \in S : Ahead(w, v)} = {w \in S : <<w, v>> \in R}
      BY <1>4
    <3>. QED
      BY <3>1 DEF Rank
  <2>. QED
    BY <2>1
<1>9. Lines(R, S)
  <2>1. \A u, v \in S : Ahead(u, v) <=> Anchor(u) > Anchor(v) \/ (Anchor(u) = Anchor(v) /\ u < v)
    BY DEF Ahead
  <2>2. \A v \in S : ~Ahead(v, v)
    BY <1>1, <1>3, <2>1
  <2>3. \A u, v, w \in S : Ahead(u, v) /\ Ahead(v, w) => Ahead(u, w)
    BY <1>1, <1>3, <2>1
  <2>4. \A u, v \in S : u # v => Ahead(u, v) \/ Ahead(v, u)
    BY <1>1, <1>3, <2>1
  <2>. QED
    BY <1>4, <2>2, <2>3, <2>4 DEF Lines
<1>10. /\ c \in Nat
       /\ \A v \in S : r(v) \in 0 .. c - 1
       /\ \A n \in 0 .. c - 1 : \E v \in S : r(v) = n
  BY <1>2, <1>9, Ranked
<1>. HIDE DEF c, q, r, a
<1>11. ASSUME NEW i \in 1 .. c PROVE a[i] \in S /\ q(a[i]) = i - 1
  <2>1. i - 1 \in 0 .. c - 1
    BY <1>10
  <2>2. PICK v \in S : q(v) = i - 1
    BY <1>8, <1>10, <2>1
  <2>3. a[i] = CHOOSE u \in S : q(u) = i - 1
    BY <1>5
  <2>. QED
    BY <2>2, <2>3
<1>12. a \in [1 .. c -> S] /\ DOMAIN a = 1 .. c
  BY <1>5, <1>11
<1>13. a \in Seq(T \ {Root})
  <2>1. a \in [1 .. c -> T \ {Root}]
    BY <1>1, <1>12
  <2>. QED
    BY <1>10, <2>1
<1>14. ASSUME NEW i \in 1 .. c, NEW j \in 1 .. c, a[i] = a[j] PROVE i = j
  <2>1. i - 1 = j - 1
    BY <1>11, <1>14
  <2>. QED
    BY <1>10, <2>1
<1>15. a = <<>> <=> c = 0
  BY <1>10, <1>12
<1>. QED
  BY <1>6, <1>7, <1>12, <1>13, <1>14, <1>15 DEF a, c

\* Nodes are finitely many numbers.
LEMMA NodesFinite ==
  ASSUME World, NEW T \in SUBSET Nodes(parent)
  PROVE  T \in SUBSET Int /\ IsFiniteSet(T)
<1>. PICK n \in Nat : n = Len(parent)
  BY DEF World
<1>1. T \in SUBSET (0 .. n) /\ n \in Nat
  BY DEF Nodes
<1>2. IsFiniteSet(T)
  BY <1>1, Finitely
<1>. QED
  BY <1>1, <1>2

\* One node is a batch.
LEMMA OnePicks ==
  ASSUME NEW T, NEW v \in T, NEW w \in Nat \ {0}
  PROVE  Picks(<<v>>, T, w) /\ <<v>> # <<>>
BY DEF Picks

\* So are new branches off the root.
LEMMA BranchesPick ==
  ASSUME NEW T, Root \in T, NEW w \in Nat \ {0}
  PROVE  Picks(NewBranches(w), T, w) /\ NewBranches(w) # <<>>
<1>. DEFINE s == [i \in 1 .. w |-> Root]
<1>1. s \in Seq(T) /\ Len(s) = w /\ DOMAIN s = 1 .. w /\ \A i \in DOMAIN s : s[i] = Root
  OBVIOUS
<1>2. s # <<>>
  BY <1>1
<1>. QED
  BY <1>1, <1>2 DEF Picks, NewBranches

\* And a batch of fewer nodes is one of more.
LEMMA PicksWithin ==
  ASSUME NEW S, NEW T, S \subseteq T, NEW s, NEW n, Picks(s, S, n)
  PROVE  Picks(s, T, n)
<1>1. s \in Seq(S)
  BY DEF Picks
<1>2. s \in [1 .. Len(s) -> T] /\ Len(s) \in Nat
  BY <1>1
<1>3. s \in Seq(T)
  BY <1>2
<1>. QED
  BY <1>3 DEF Picks

\* Some leaf is the shallowest.
LEMMA LevelsLeast ==
  ASSUME World, NEW A \in SUBSET Nodes(parent), A # {}
  PROVE  \E v \in A : \A w \in A : Level(v) <= Level(w)
<1>1. \A v \in A : Level(v) \in Nat
  <2>1. ASSUME NEW v \in A PROVE Level(v) \in Nat
    <3>1. Path(v) \in Seq(DOMAIN parent)
      BY PathIs DEF World
    <3>. QED
      BY <3>1 DEF Level
  <2>. QED
    BY <2>1
<1>. DEFINE T == {Level(v) : v \in A}
<1>2. T \in SUBSET Nat /\ T # {}
  BY <1>1
<1>. HIDE DEF T
<1>3. PICK m \in T : \A n \in T : m <= n
  BY <1>2, Least
<1>. QED
  BY <1>3 DEF T

\* BreadthFirstPolicy answers a batch, and stops only with nothing live.
LEMMA BreadthIs ==
  ASSUME World, NEW T \in SUBSET Nodes(parent), NEW w \in Nat \ {0}
  PROVE  /\ Picks(BreadthFirst(T, w), T, w)
         /\ BreadthFirst(T, w) = <<>> => T = {}
<1>. DEFINE leaves == T \ {Root}
            S == {v \in leaves : \A u \in leaves : Level(v) <= Level(u)}
<1>1. BreadthFirst(T, w) = IF leaves # {} THEN First(Ascending(S), w)
                           ELSE IF Root \in T THEN NewBranches(w) ELSE <<>>
  BY DEF BreadthFirst
<1>2. CASE leaves # {}
  <2>1. S # {} /\ S \subseteq T /\ S \in SUBSET Nodes(parent)
    BY <1>2, LevelsLeast
  <2>. HIDE DEF S, leaves
  <2>3. S \in SUBSET Int /\ IsFiniteSet(S)
    BY <2>1, NodesFinite
  <2>4. PICK a : a = Ascending(S)
    OBVIOUS
  <2>5. a \in Seq(S) /\ a # <<>> /\ \A i, j \in DOMAIN a : a[i] = a[j] => i = j
    BY <2>1, <2>3, <2>4, AscendingIs
  <2>6. Picks(First(a, w), S, w) /\ First(a, w) # <<>>
    BY <2>5, FirstPicks
  <2>7. BreadthFirst(T, w) = First(a, w)
    BY <1>1, <1>2, <2>4
  <2>. QED
    BY <2>1, <2>6, <2>7, PicksWithin
<1>3. CASE leaves = {} /\ Root \in T
  BY <1>1, <1>3, BranchesPick
<1>4. CASE leaves = {} /\ Root \notin T
  <2>1. T = {} /\ BreadthFirst(T, w) = <<>>
    BY <1>1, <1>4
  <2>2. Picks(<<>>, T, w)
    BY DEF Picks
  <2>. QED
    BY <2>1, <2>2
<1>. QED
  BY <1>2, <1>3, <1>4

\* So does GreedyBestFirstPolicy.
LEMMA GreedyIs ==
  ASSUME World, NoneOdd, NEW T \in SUBSET Nodes(parent), NEW w \in Nat \ {0}, NEW b
  PROVE  /\ Picks(Greedy(T, w, b), T, w)
         /\ Greedy(T, w, b) = <<>> => T = {}
<1>. PICK a : a = ByAnchor(T)
  OBVIOUS
<1>. DEFINE P == {i \in DOMAIN a : Promising(a[i], Patience(b))}
<1>1. Greedy(T, w, b) = IF P # {} THEN <<a[Min(P)]>>
                        ELSE IF a # <<>> THEN <<a[1]>>
                        ELSE IF Root \in T THEN NewBranches(w)
                        ELSE First(Ascending(T), 1)
  BY DEF Greedy
<1>2. a \in Seq(T)
  <2>1. a \in Seq(T \ {Root})
    BY ByAnchorIs
  <2>2. a \in [1 .. Len(a) -> T] /\ Len(a) \in Nat
    BY <2>1
  <2>. QED
    BY <2>2
<1>3. CASE P # {}
  <2>1. P \in SUBSET Nat /\ P \subseteq DOMAIN a
    BY <1>2
  <2>. HIDE DEF P
  <2>2. \E m \in P : \A n \in P : m <= n
    BY <1>3, <2>1, Least
  <2>3. Min(P) \in P
    BY <2>2, Zenon DEF Min
  <2>4. PICK k : k = Min(P)
    OBVIOUS
  <2>5. k \in DOMAIN a /\ Greedy(T, w, b) = <<a[k]>>
    BY <1>1, <1>3, <2>1, <2>3, <2>4
  <2>6. a[k] \in T
    BY <1>2, <2>5
  <2>. QED
    BY <2>5, <2>6, OnePicks
<1>4. CASE P = {} /\ a # <<>>
  <2>1. a[1] \in T /\ Greedy(T, w, b) = <<a[1]>>
    BY <1>1, <1>2, <1>4
  <2>. QED
    BY <2>1, OnePicks
<1>5. CASE P = {} /\ a = <<>> /\ Root \in T
  <2>1. Greedy(T, w, b) = NewBranches(w)
    BY <1>1, <1>5
  <2>. QED
    BY <1>5, <2>1, BranchesPick
<1>6. CASE P = {} /\ a = <<>> /\ Root \notin T
  <2>1. Greedy(T, w, b) = First(Ascending(T), 1)
    BY <1>1, <1>6
  <2>3. T \in SUBSET Int /\ IsFiniteSet(T)
    BY NodesFinite
  <2>4. PICK q : q = Ascending(T)
    OBVIOUS
  <2>5. q \in Seq(T) /\ (q = <<>> <=> T = {}) /\ \A i, j \in DOMAIN q : q[i] = q[j] => i = j
    BY <2>3, <2>4, AscendingIs
  <2>6. Picks(First(q, 1), T, 1) /\ (First(q, 1) = <<>> => T = {})
    BY <2>5, FirstPicks
  <2>7. Picks(First(q, 1), T, w)
    BY <2>6 DEF Picks
  <2>. QED
    BY <2>1, <2>4, <2>6, <2>7
<1>. QED
  BY <1>3, <1>4, <1>5, <1>6

\* BudgetAwarePolicy answers a batch within its allowance, and says why it stops.
LEMMA BudgetIs ==
  ASSUME World, NoneOdd, OrderInd, NEW T \in SUBSET Nodes(parent), NEW w \in Nat \ {0}, NEW b \in Nat, NEW t
  PROVE  LET s    == BudgetAware(T, w, b, t)
             room == Allowance(b) - (Len(revealed) - 1)
         IN  /\ Allowance(b) \in Nat /\ room \in Int
             /\ Picks(s, T, w)
             /\ s # <<>> => Len(s) <= room
             /\ s = <<>> => \/ room <= 0 \/ t.stagnant >= Patience(b)
                            \/ Root \notin T /\ \A v \in T \ {Root} : Anchor(v) = NoScore
<1>. DEFINE s == BudgetAware(T, w, b, t)
            room == Allowance(b) - (Len(revealed) - 1)
            slots == Lesser(w, room)
            roots == IF Root \in T /\ slots > 0 THEN <<Root>> ELSE <<>>
            f == First(ByAnchor(T), slots - Len(roots))
<1>1. Allowance(b) \in Nat /\ room \in Int
  BY DEF Allowance, Greater, OrderInd
<1>2. s = IF room <= 0 \/ t.stagnant >= Patience(b) THEN <<>> ELSE roots \o f
  BY DEF BudgetAware
<1>3. Picks(<<>>, T, w)
  BY DEF Picks
<1>4. ASSUME ~(room <= 0 \/ t.stagnant >= Patience(b))
      PROVE  /\ Picks(s, T, w) /\ Len(s) <= room
             /\ s = <<>> => Root \notin T /\ \A v \in T \ {Root} : Anchor(v) = NoScore
  <2>1. slots \in Nat \ {0} /\ slots <= w /\ slots <= room
    BY <1>1, <1>4 DEF Lesser
  <2>. HIDE DEF slots
  <2>2. /\ roots \in Seq(T) /\ Len(roots) <= 1 /\ Len(roots) \in Nat
        /\ \A i \in DOMAIN roots : roots[i] = Root
        /\ roots = <<>> <=> Root \notin T
    <3>1. CASE Root \in T
      BY <2>1, <3>1
    <3>2. CASE Root \notin T
      BY <3>2
    <3>. QED
      BY <3>1, <3>2
  <2>. HIDE DEF roots
  <2>3. slots - Len(roots) \in Nat
    BY <2>1, <2>2
  <2>4. PICK n \in Nat : n = slots - Len(roots)
    BY <2>3
  <2>5. PICK a : a = ByAnchor(T)
    OBVIOUS
  <2>6. /\ a \in Seq(T \ {Root}) /\ \A i, j \in DOMAIN a : a[i] = a[j] => i = j
        /\ a = <<>> <=> \A v \in T \ {Root} : Anchor(v) = NoScore
    BY <2>5, ByAnchorIs
  <2>7. f = First(a, n)
    BY <2>4, <2>5
  <2>8. Picks(f, T \ {Root}, n) /\ (f = <<>> <=> n = 0 \/ a = <<>>)
    BY <2>6, <2>7, FirstPicks
  <2>. HIDE DEF f
  <2>9. /\ f \in Seq(T \ {Root}) /\ Len(f) <= n /\ Len(f) \in Nat
        /\ \A i, j \in DOMAIN f : f[i] = f[j] => i = j \/ f[i] = Root
    BY <2>8 DEF Picks
  <2>10. f \in Seq(T) /\ \A i \in DOMAIN f : f[i] # Root
    <3>1. f \in [1 .. Len(f) -> T \ {Root}]
      BY <2>9
    <3>2. f \in [1 .. Len(f) -> T] /\ \A i \in 1 .. Len(f) : f[i] # Root
      BY <3>1
    <3>. QED
      BY <2>9, <3>2
  <2>11. PICK q : q = roots \o f
    OBVIOUS
  <2>12. /\ q \in Seq(T) /\ Len(q) = Len(roots) + Len(f) /\ DOMAIN q = 1 .. Len(roots) + Len(f)
         /\ DOMAIN roots = 1 .. Len(roots) /\ DOMAIN f = 1 .. Len(f)
         /\ \A i \in 1 .. Len(roots) : q[i] = roots[i]
         /\ \A i \in 1 .. Len(f) : q[Len(roots) + i] = f[i]
         /\ \A i \in 1 .. Len(roots) + Len(f) : i \in 1 .. Len(roots) \/ i - Len(roots) \in 1 .. Len(f)
    BY <2>2, <2>10, <2>11, Joined
  <2>13. Len(q) <= slots
    BY <2>1, <2>2, <2>4, <2>9, <2>12
  <2>14. ASSUME NEW i \in DOMAIN q, NEW j \in DOMAIN q, q[i] = q[j], q[i] # Root PROVE i = j
    <3>1. i \notin 1 .. Len(roots) /\ j \notin 1 .. Len(roots)
      BY <2>2, <2>12, <2>14
    <3>2. i - Len(roots) \in DOMAIN f /\ j - Len(roots) \in DOMAIN f
      BY <2>12, <3>1
    <3>3. q[i] = f[i - Len(roots)] /\ q[j] = f[j - Len(roots)]
      <4>1. \A k \in DOMAIN q : Len(roots) + (k - Len(roots)) = k
        BY <2>2, <2>9, <2>12
      <4>. QED
        BY <2>12, <3>2, <4>1
    <3>4. i - Len(roots) = j - Len(roots)
      BY <2>9, <2>14, <3>2, <3>3
    <3>. QED
      BY <2>2, <2>9, <2>12, <3>4
  <2>15. s = q
    BY <1>2, <1>4, <2>11
  <2>16. Picks(q, T, w) /\ Len(q) <= room
    <3>1. Len(q) \in Nat
      BY <2>12
    <3>2. Len(q) <= w /\ Len(q) <= room
      BY <1>1, <2>1, <2>13, <3>1
    <3>. QED
      BY <2>12, <2>14, <3>2 DEF Picks
  <2>17. q = <<>> => roots = <<>> /\ f = <<>>
    <3>1. q = <<>> => Len(roots) = 0 /\ Len(f) = 0
      BY <2>2, <2>9, <2>12
    <3>. QED
      BY <2>2, <2>9, <3>1
  <2>18. roots = <<>> => n = slots
    BY <2>1, <2>2, <2>4
  <2>. QED
    BY <2>1, <2>2, <2>6, <2>8, <2>15, <2>16, <2>17, <2>18
<1>. HIDE DEF s, room
<1>5. CASE room <= 0 \/ t.stagnant >= Patience(b)
  <2>1. s = <<>>
    BY <1>2, <1>5
  <2>. QED
    BY <1>1, <1>3, <1>5, <2>1 DEF s, room
<1>. QED
  BY <1>1, <1>4, <1>5 DEF s, room

-----------------------------------------------------------------------------
(* The steps of the loop.                                                    *)

LoopWorld ==
  /\ policy \in {AnyPolicy} \cup Baselines
  /\ policy.choose # "any" => NoneOdd
  /\ driver \in {"replay", "hand", "solve"} /\ budget \in Budgets \cup {NoBudget}
  /\ driver # "solve" => budget = NoBudget

Asked(s) == IF driver = "solve" THEN AskedOf(s) ELSE s

\* What a step takes of a strategy, and what it does then: ask for it, have it refused,
\* or stop; or stop without asking the strategy.
Played(s) ==
  /\ s \in Answered(Offer) /\ Running /\ ~Complete /\ ~Exhausted
  /\ Choose(s, Asked(s)) /\ UNCHANGED <<policy, driver, budget>>
  /\ driver # "solve" => UNCHANGED <<barren, size>>
  /\ driver = "solve" => ~TooBarren /\ barren' = BarrenNow /\ size' = Len(revealed)
RevealStep(s)  == Played(s) /\ Reveal(Asked(s))
RefuseStep(s)  == Played(s) /\ Refuse(Asked(s))
DeclineStep(s) == Played(s) /\ s = <<>> /\ StopFor("empty_batch")
QuietStep(reason) ==
  /\ Running /\ StopFor(reason) /\ UNCHANGED policyVars
  /\ \/ reason = "all_revealed" /\ Complete
     \/ reason = "max_rounds" /\ ~Complete /\ RoundsLeft <= 0
     \/ reason = "barren" /\ driver = "solve" /\ ~Complete /\ TooBarren
     \/ reason = "budget"

\* Every step of the loop, by whatever driver, is one of these.
LEMMA StepIs ==
  ASSUME LoopWorld, NextLoop
  PROVE  \/ \E reason \in Stopped : QuietStep(reason)
         \/ \E s : RevealStep(s) \/ RefuseStep(s) \/ DeclineStep(s)
<1>0. {"all_revealed", "max_rounds", "empty_batch", "raised", "barren", "budget"} = Stopped
  BY DEF Stopped
<1>1. CASE ReplayEnd
  <2>1. CASE (AllRevealed \/ OutOfRounds) /\ UNCHANGED memory
    <3>1. UNCHANGED policyVars
      BY <1>1, <2>1 DEF ReplayEnd, policyVars
    <3>2. CASE AllRevealed
      BY <1>0, <3>1, <3>2 DEF AllRevealed, QuietStep
    <3>3. CASE OutOfRounds
      BY <1>0, <3>1, <3>3 DEF OutOfRounds, QuietStep
    <3>. QED
      BY <2>1, <3>2, <3>3
  <2>2. CASE PolicyStops /\ <<>> \in Answered(policy.width) /\ Choose(<<>>, <<>>)
    <3>1. driver # "solve" /\ UNCHANGED loopVars
      BY <1>1 DEF ReplayEnd
    <3>2. Offer = policy.width /\ Asked(<<>>) = <<>> /\ ~Exhausted
      BY <3>1 DEF Offer, Asked, LoopWorld, Exhausted
    <3>3. Played(<<>>)
      BY <2>2, <3>1, <3>2 DEF Played, PolicyStops, MaySelect, loopVars
    <3>. QED
      BY <2>2, <3>3 DEF DeclineStep, PolicyStops
  <2>. QED
    BY <1>1, <2>1, <2>2 DEF ReplayEnd
<1>2. CASE SolveEnd
  <2>1. CASE driver = "solve" /\ AllRevealed
    BY <1>0, <1>2, <2>1 DEF SolveEnd, AllRevealed, QuietStep
  <2>2. CASE Solving /\ TooBarren /\ StopFor("barren")
    BY <1>0, <1>2, <2>2 DEF SolveEnd, Solving, QuietStep
  <2>3. CASE Solving /\ ~TooBarren /\ Exhausted /\ StopFor("budget")
    BY <1>0, <1>2, <2>3 DEF SolveEnd, Solving, QuietStep
  <2>. QED
    BY <1>2, <2>1, <2>2, <2>3 DEF SolveEnd
<1>3. ASSUME NEW s \in Answered(Offer), ReplayRound(s) PROVE RevealStep(s) \/ RefuseStep(s)
  <2>1. driver # "solve" /\ Choose(s, s) /\ UNCHANGED loopVars /\ Asked(s) = s /\ ~Exhausted
    BY <1>3 DEF ReplayRound, Asked, LoopWorld, Exhausted
  <2>2. CASE RefuseBatch(s)
    <3>1. Played(s)
      BY <2>1, <2>2 DEF Played, RefuseBatch, MaySelect, loopVars
    <3>. QED
      BY <2>1, <2>2, <3>1 DEF RefuseStep, RefuseBatch
  <2>3. CASE Decide(s)
    <3>1. Played(s)
      BY <2>1, <2>3 DEF Played, Decide, MaySelect, loopVars
    <3>. QED
      BY <2>1, <2>3, <3>1 DEF RevealStep, Decide
  <2>. QED
    BY <1>3, <2>2, <2>3 DEF ReplayRound
<1>4. ASSUME NEW s \in Answered(Offer), SolveRound(s)
      PROVE  RevealStep(s) \/ RefuseStep(s) \/ DeclineStep(s)
  <2>1. Played(s) /\ Asked(s) = AskedOf(s)
    BY <1>4 DEF SolveRound, Solving, Played, Asked
  <2>. QED
    BY <1>4, <2>1 DEF SolveRound, RevealStep, RefuseStep, DeclineStep
<1>. QED
  BY <1>1, <1>2, <1>3, <1>4 DEF NextLoop

\* A policy is any at all, or a baseline with its width and beta on a world without odd nodes.
LEMMA PolicyIs ==
  ASSUME LoopWorld
  PROVE  /\ policy.choose \in {"any", "breadth", "greedy", "budget"}
         /\ policy.choose # "any" => /\ policy.width \in Nat \ {0} /\ policy.beta \in Nat
                                     /\ NoneOdd
<1>1. CASE policy = AnyPolicy
  BY <1>1 DEF AnyPolicy
<1>2. CASE policy \in Baselines
  <2>1. CASE policy \in [choose : {"breadth"}, beta : {4}, width : 1 .. MaxBatch]
    <3>1. policy.choose = "breadth" /\ policy.beta = 4 /\ policy.width \in 1 .. MaxBatch
      BY <2>1
    <3>. QED
      BY <3>1, ReplayConfig DEF LoopWorld
  <2>2. CASE policy \in [choose : {"greedy", "budget"}, beta : Betas, width : 1 .. MaxBatch]
    <3>1. policy.choose \in {"greedy", "budget"} /\ policy.beta \in Betas /\ policy.width \in 1 .. MaxBatch
      BY <2>2
    <3>2. policy.beta \in Nat
      BY <3>1, LoopConfig
    <3>3. policy.width \in Nat \ {0}
      BY <3>1, ReplayConfig
    <3>. QED
      BY <3>1, <3>2, <3>3 DEF LoopWorld
  <2>. QED
    BY <1>2, <2>1, <2>2 DEF Baselines
<1>. QED
  BY <1>1, <1>2 DEF LoopWorld

\* A(T) of what is revealed, and what of it is live.
LEMMA FrontierIs ==
  ASSUME World, OrderInd
  PROVE  /\ Frontier \in SUBSET Revealed /\ Live \in SUBSET Frontier
         /\ Root \in Frontier
         /\ Live \in SUBSET Nodes(parent)
         /\ \A A \in SUBSET Frontier : IsFiniteSet(A) /\ Cardinality(A) \in Nat
                                       /\ Cardinality(A) <= Cardinality(Frontier)
         /\ Cardinality(Frontier) \in 1 .. Len(revealed)
<1>1. /\ IsFiniteSet(Revealed) /\ Revealed \in SUBSET Nodes(parent) /\ Root \in Revealed
      /\ \A A \in SUBSET Revealed : IsFiniteSet(A) /\ Cardinality(A) \in Nat /\ Cardinality(A) <= Len(revealed)
      /\ Len(revealed) \in Nat
  BY RevealedIs
<1>2. Frontier \in SUBSET Revealed /\ Root \in Frontier
  BY <1>1 DEF Frontier
<1>3. Live \in SUBSET Frontier
  BY DEF Live
<1>4. \A A \in SUBSET Frontier : IsFiniteSet(A) /\ Cardinality(A) \in Nat /\ Cardinality(A) <= Cardinality(Frontier)
  BY <1>1, <1>2, FS_Subset
<1>5. Cardinality(Frontier) # 0 /\ Cardinality(Frontier) \in Nat /\ Cardinality(Frontier) <= Len(revealed)
  BY <1>1, <1>2, <1>4, FS_EmptySet
<1>. QED
  BY <1>1, <1>2, <1>3, <1>4, <1>5

\* A baseline's answer, where there is room for one.
LEMMA BaselineAnswers ==
  ASSUME World, OrderInd, LoopWorld, policy.choose # "any", ~Exhausted, NEW s \in Answered(Offer)
  PROVE  /\ Picks(s, Live, Offer) /\ Offer \in Nat \ {0} /\ Offer <= policy.width
         /\ AskedOf(s) = s /\ Len(s) <= policy.width
         /\ budget # NoBudget => Len(s) <= budget - Spent
         /\ policy.choose \in {"breadth", "greedy"} /\ s = <<>> => Live = {}
         /\ policy.choose = "budget" => Allowance(policy.beta) \in Nat
         /\ policy.choose = "budget" /\ s # <<>> => Len(s) <= Allowance(policy.beta) - (Len(revealed) - 1)
         /\ policy.choose = "budget" /\ s = <<>> =>
              \/ Allowance(policy.beta) <= Len(revealed) - 1
              \/ TrackNow.stagnant >= Patience(policy.beta)
              \/ Root \notin Live /\ \A v \in Live : Anchor(v) = NoScore
<1>1. /\ policy.choose \in {"breadth", "greedy", "budget"}
      /\ policy.width \in Nat \ {0} /\ policy.beta \in Nat /\ NoneOdd
  BY PolicyIs
<1>2. Len(revealed) \in Nat /\ Spent \in Int
  BY DEF OrderInd, Spent
<1>3. budget # NoBudget => budget \in Nat /\ budget - Spent > 0 /\ driver = "solve"
  BY <1>2, LoopConfig DEF Exhausted, LoopWorld
<1>4. /\ Offer \in Nat \ {0} /\ Offer <= policy.width
      /\ budget # NoBudget => Offer <= budget - Spent
  BY <1>1, <1>2, <1>3 DEF Offer, Room, Lesser
<1>5. Live \in SUBSET Nodes(parent)
  BY FrontierIs
<1>6. PICK w \in Nat \ {0} : w = Offer
  BY <1>4
<1>7. /\ Picks(s, Live, Offer)
      /\ policy.choose \in {"breadth", "greedy"} /\ s = <<>> => Live = {}
      /\ policy.choose = "budget" => Allowance(policy.beta) \in Nat
      /\ policy.choose = "budget" /\ s # <<>> => Len(s) <= Allowance(policy.beta) - (Len(revealed) - 1)
      /\ policy.choose = "budget" /\ s = <<>> =>
           \/ Allowance(policy.beta) <= Len(revealed) - 1
           \/ TrackNow.stagnant >= Patience(policy.beta)
           \/ Root \notin Live /\ \A v \in Live : Anchor(v) = NoScore
  <2>1. CASE policy.choose = "breadth"
    <3>1. s = BreadthFirst(Live, w)
      BY <1>6, <2>1 DEF Answered
    <3>2. Picks(s, Live, Offer) /\ (s = <<>> => Live = {})
      BY <1>5, <1>6, <3>1, BreadthIs
    <3>. QED
      BY <2>1, <3>2
  <2>2. CASE policy.choose = "greedy"
    <3>1. s = Greedy(Live, w, policy.beta)
      BY <1>6, <2>2 DEF Answered
    <3>2. Picks(s, Live, Offer) /\ (s = <<>> => Live = {})
      BY <1>1, <1>5, <1>6, <3>1, GreedyIs
    <3>. QED
      BY <2>2, <3>2
  <2>3. CASE policy.choose = "budget"
    <3>1. PICK b \in Nat : b = policy.beta
      BY <1>1
    <3>6. PICK t : t = TrackNow
      OBVIOUS
    <3>2. s = BudgetAware(Live, w, b, t)
      BY <1>6, <2>3, <3>1, <3>6 DEF Answered
    <3>. DEFINE room == Allowance(b) - (Len(revealed) - 1)
    <3>3. /\ Allowance(b) \in Nat /\ room \in Int
          /\ Picks(s, Live, w)
          /\ s # <<>> => Len(s) <= room
          /\ s = <<>> => \/ room <= 0 \/ t.stagnant >= Patience(b)
                         \/ Root \notin Live /\ \A v \in Live \ {Root} : Anchor(v) = NoScore
      BY <1>1, <1>5, <3>2, BudgetIs
    <3>4. room <= 0 => Allowance(b) <= Len(revealed) - 1
      BY <1>2, <3>3
    <3>5. Root \notin Live => Live \ {Root} = Live
      OBVIOUS
    <3>. QED
      BY <1>6, <2>3, <3>1, <3>3, <3>4, <3>5, <3>6
  <2>. QED
    BY <1>1, <2>1, <2>2, <2>3
<1>8. Len(s) <= Offer /\ Len(s) \in Nat
  BY <1>7 DEF Picks
<1>9. /\ Len(s) <= policy.width
      /\ budget # NoBudget => Len(s) <= budget - Spent
  BY <1>1, <1>2, <1>3, <1>4, <1>8
<1>10. AskedOf(s) = s
  BY <1>9 DEF AskedOf
<1>. QED
  BY <1>4, <1>7, <1>9, <1>10

\* Any answer, and what is asked of it.
LEMMA AnswersAre ==
  ASSUME World, OrderInd, LoopWorld, ~Exhausted, NEW s \in Answered(Offer)
  PROVE  /\ s \in Seq(Nat) /\ Asked(s) \in Seq(Nat)
         /\ Len(Asked(s)) <= Len(s) /\ Len(s) \in Nat
         /\ s = <<>> <=> Asked(s) = <<>>
         /\ ToSet(Asked(s)) \subseteq ToSet(s)
         /\ budget # NoBudget => Len(Asked(s)) <= budget - Spent
<1>1. s \in Seq(Nat)
  <2>1. CASE policy.choose = "any"
    <3>1. s \in Answers
      BY <2>1 DEF Answered
    <3>2. PICK k \in 0 .. MaxBatch : s \in [1 .. k -> 0 .. Len(parent) + 1]
      BY <3>1 DEF Answers
    <3>3. k \in Nat /\ Len(parent) \in Nat
      BY ReplayConfig DEF World
    <3>4. s \in [1 .. k -> Nat]
      BY <3>2, <3>3
    <3>. QED
      BY <3>3, <3>4
  <2>2. CASE policy.choose # "any"
    <3>1. s \in Seq(Live)
      BY <2>2, BaselineAnswers DEF Picks
    <3>2. Live \subseteq Nat
      <4>1. Len(parent) \in Nat /\ Live \in SUBSET Nodes(parent)
        BY FrontierIs DEF World
      <4>. QED
        BY <4>1 DEF Nodes
    <3>3. Len(s) \in Nat /\ s \in [1 .. Len(s) -> Live]
      BY <3>1
    <3>4. s \in [1 .. Len(s) -> Nat]
      BY <3>2, <3>3
    <3>. QED
      BY <3>3, <3>4
  <2>. QED
    BY <2>1, <2>2
<1>2. Len(s) \in Nat
  BY <1>1
<1>3. CASE driver = "solve" /\ budget # NoBudget /\ ~(Len(s) <= budget - Spent)
  <2>. DEFINE k == budget - Spent
  <2>1. budget \in Nat /\ Spent \in Int
    BY <1>3, LoopConfig DEF LoopWorld, OrderInd, Spent
  <2>2. k \in 1 .. Len(s)
    BY <1>2, <1>3, <2>1 DEF Exhausted
  <2>3. Asked(s) = SubSeq(s, 1, k)
    BY <1>3 DEF Asked, AskedOf
  <2>. HIDE DEF k
  <2>4. PICK q : q = SubSeq(s, 1, k)
    OBVIOUS
  <2>5. q \in Seq(Nat) /\ Len(q) = k /\ DOMAIN q = 1 .. k /\ \A i \in 1 .. k : q[i] = s[i] /\ i \in DOMAIN s
    BY <1>1, <1>2, <2>2, <2>4
  <2>6. q # <<>> /\ s # <<>>
    BY <2>2, <2>5
  <2>7. ToSet(q) \subseteq ToSet(s)
    BY <2>5 DEF ToSet
  <2>. QED
    BY <1>1, <1>2, <2>2, <2>3, <2>4, <2>5, <2>6, <2>7 DEF k
<1>4. CASE ~(driver = "solve" /\ budget # NoBudget /\ ~(Len(s) <= budget - Spent))
  <2>1. Asked(s) = s
    BY <1>4 DEF Asked, AskedOf
  <2>2. budget # NoBudget => Len(s) <= budget - Spent
    BY <1>4 DEF LoopWorld
  <2>. QED
    BY <1>1, <1>2, <2>1, <2>2
<1>. QED
  BY <1>3, <1>4

-----------------------------------------------------------------------------
(* What the policy remembers.                                                *)

MemoryInd ==
  /\ closed \in SUBSET (Nodes(parent) \cup {1})
  /\ Running => DOMAIN selected \subseteq Nodes(parent)
  /\ \A v \in DOMAIN selected : selected[v] \in Nat
  /\ track.stagnant \in Nat
  /\ strayed \in BOOLEAN

\* What select leaves in memory, whatever becomes of its answer.
LEMMA PlayedIs ==
  ASSUME World, OrderInd, LoopWorld, MemoryInd, NEW s, Played(s), parent' = parent, score' = score
  PROVE  /\ closed' = ClosedNow /\ ClosedNow \in SUBSET (Nodes(parent) \cup {1})
         /\ selected' = Held(s, Asked(s)) /\ DOMAIN selected' = ToSet(Asked(s))
         /\ \A v : ChildCount(v) \in Nat
         /\ \A v \in DOMAIN selected' : selected'[v] = ChildCount(v)
         /\ track' = IF policy.choose = "budget" THEN TrackNow ELSE track
         /\ track'.stagnant \in Nat
         /\ strayed' \in BOOLEAN
         /\ strayed' <=> strayed \/ ToSet(s) \cap ClosedNow # {}
         /\ LoopWorld'
         /\ policy' = policy /\ driver' = driver /\ budget' = budget
<1>1. /\ closed' = ClosedNow /\ selected' = Held(s, Asked(s))
      /\ track' = (IF policy.choose = "budget" THEN TrackNow ELSE track)
      /\ strayed' = (strayed \/ ToSet(s) \cap ClosedNow # {})
      /\ policy' = policy /\ driver' = driver /\ budget' = budget
      /\ Running
  BY DEF Played, Choose
<1>2. ClosedNow \in SUBSET (Nodes(parent) \cup {1})
  BY <1>1 DEF ClosedNow, MemoryInd
<1>3. \A v : ChildCount(v) \in Nat
  <2>1. \A A \in SUBSET Revealed : Cardinality(A) \in Nat
    BY RevealedIs
  <2>2. \A v : Children(parent, v) \cap Revealed \in SUBSET Revealed
    OBVIOUS
  <2>. QED
    BY <2>1, <2>2, Zenon DEF ChildCount
<1>4. DOMAIN selected' = ToSet(Asked(s)) /\ \A v \in DOMAIN selected' : selected'[v] = ChildCount(v)
  BY <1>1 DEF Held
<1>5. track.stagnant \in Nat
  BY DEF MemoryInd
<1>6. \A t : t.stagnant \in Nat => Tracked(t).stagnant \in Nat
  BY DEF Tracked
<1>7. Untracked.stagnant \in Nat
  BY DEF Untracked
<1>8. TrackNow.stagnant \in Nat
  <2>1. CASE Revealed = {Root} /\ (closed # {} \/ selected # <<>>)
    BY <1>6, <1>7, <2>1 DEF TrackNow
  <2>2. CASE ~(Revealed = {Root} /\ (closed # {} \/ selected # <<>>))
    BY <1>5, <1>6, <2>2 DEF TrackNow
  <2>. QED
    BY <2>1, <2>2
<1>9. track'.stagnant \in Nat
  BY <1>1, <1>5, <1>8
<1>10. strayed' \in BOOLEAN /\ (strayed' <=> strayed \/ ToSet(s) \cap ClosedNow # {})
  BY <1>1 DEF MemoryInd
<1>11. LoopWorld'
  BY <1>1 DEF LoopWorld, NoneOdd
<1>. QED
  BY <1>1, <1>2, <1>3, <1>4, <1>9, <1>10, <1>11

\* What a round that reveals does to the replay.
LEMMA RevealIs ==
  ASSUME ReplayInd, LoopWorld, NEW s, RevealStep(s)
  PROVE  /\ Asked(s) \in Seq(Nat) /\ Legal(Asked(s)) /\ Asked(s) # <<>>
         /\ \A v \in ToSet(Asked(s)) : v \in Frontier /\ v \in Nodes(parent)
         /\ ToSet(Asked(s)) \subseteq ToSet(s)
         /\ budget # NoBudget => Len(Asked(s)) <= budget - Spent
         /\ Len(Asked(s)) <= Len(s) /\ Len(s) \in Nat
         /\ ReplayInd' /\ Running' /\ Running /\ parent' = parent /\ score' = score
         /\ rounds' = rounds + 1
         /\ revealed' = revealed \o New(Asked(s))
         /\ Len(revealed') = Len(revealed) + Len(New(Asked(s)))
         /\ Len(New(Asked(s))) \in Nat /\ Len(New(Asked(s))) <= Len(Asked(s))
         /\ Revealed' = Revealed \cup ToSet(New(Asked(s)))
<1>0. World /\ OrderInd
  BY DEF ReplayInd
<1>1. s \in Answered(Offer) /\ ~Exhausted /\ Running /\ Reveal(Asked(s))
  BY DEF RevealStep, Played
<1>2. /\ s \in Seq(Nat) /\ Asked(s) \in Seq(Nat)
      /\ Len(Asked(s)) <= Len(s) /\ Len(s) \in Nat
      /\ ToSet(Asked(s)) \subseteq ToSet(s)
      /\ budget # NoBudget => Len(Asked(s)) <= budget - Spent
  BY <1>0, <1>1, AnswersAre
<1>3. PICK a : a = Asked(s)
  OBVIOUS
<1>4. a \in Seq(Nat) /\ Reveal(a)
  BY <1>1, <1>2, <1>3
<1>5. Legal(a) /\ a # <<>> /\ \A i \in DOMAIN a : a[i] \in Frontier
  BY <1>4 DEF Reveal, Legal, IsAction
<1>6. Frontier \in SUBSET Nodes(parent)
  BY <1>0, FrontierIs, RevealedIs
<1>7. \A v \in ToSet(a) : v \in Frontier /\ v \in Nodes(parent)
  BY <1>5, <1>6 DEF ToSet
<1>8. /\ ReplayInd' /\ Running' /\ world' = world /\ rounds' = rounds + 1
      /\ revealed' = revealed \o New(a)
      /\ Len(revealed') = Len(revealed) + Len(New(a)) /\ Len(New(a)) \in Nat /\ Len(New(a)) <= Len(a)
      /\ Revealed' = Revealed \cup ToSet(New(a))
  BY <1>1, <1>4, RevealKeeps
<1>9. parent' = parent /\ score' = score
  BY <1>8 DEF world
<1>. QED
  BY <1>1, <1>2, <1>3, <1>4, <1>5, <1>7, <1>8, <1>9

\* What the steps that end the loop do to it.
LEMMA EndIs ==
  ASSUME ReplayInd, LoopWorld, NEW s, RefuseStep(s) \/ DeclineStep(s)
  PROVE  /\ ReplayInd' /\ stop' = (IF RefuseStep(s) THEN "raised" ELSE "empty_batch") /\ ~Running'
         /\ Running /\ Played(s)
         /\ UNCHANGED <<parent, score, revealed, rounds, curve>> /\ Revealed' = Revealed
<1>1. Running /\ Played(s)
  BY DEF RefuseStep, DeclineStep, Played
<1>2. StopFor(IF RefuseStep(s) THEN "raised" ELSE "empty_batch")
  BY DEF RefuseStep, DeclineStep, Refuse
<1>3. (IF RefuseStep(s) THEN "raised" ELSE "empty_batch") \in Stopped \ {"max_rounds"}
  BY DEF Stopped
<1>4. PICK reason \in Stopped \ {"max_rounds"} : reason = (IF RefuseStep(s) THEN "raised" ELSE "empty_batch")
  BY <1>3
<1>5. StopFor(reason) /\ reason # "max_rounds" /\ reason \in Stopped
  BY <1>2, <1>4
<1>6. /\ ReplayInd' /\ stop' = reason /\ ~Running'
      /\ UNCHANGED <<parent, score, revealed, rounds, curve>> /\ Revealed' = Revealed
  BY <1>1, <1>5, StopKeeps
<1>. QED
  BY <1>1, <1>4, <1>6

\* A stop without an answer leaves the memory alone.
LEMMA QuietIs ==
  ASSUME ReplayInd, LoopWorld, MemoryInd, NEW reason \in Stopped, QuietStep(reason)
  PROVE  /\ ReplayInd' /\ stop' = reason /\ ~Running' /\ Running
         /\ UNCHANGED <<parent, score, revealed, rounds, curve>> /\ Revealed' = Revealed
         /\ LoopWorld' /\ MemoryInd' /\ UNCHANGED policyVars
<1>1. Running /\ StopFor(reason) /\ UNCHANGED policyVars
      /\ (reason = "max_rounds" => ~Complete /\ RoundsLeft <= 0)
  BY DEF QuietStep
<1>2. /\ ReplayInd' /\ stop' = reason /\ ~Running'
      /\ UNCHANGED <<parent, score, revealed, rounds, curve>> /\ Revealed' = Revealed
  BY <1>1, StopKeeps
<1>3. LoopWorld' /\ MemoryInd'
  BY <1>1, <1>2 DEF LoopWorld, NoneOdd, MemoryInd, policyVars, memory, loopVars
<1>. QED
  BY <1>1, <1>2, <1>3

BaseInd == ReplayInd /\ LoopWorld /\ MemoryInd

\* The replay, the policy and its memory, where a loop starts.
LEMMA BaseStarts ==
  ASSUME InitLoop
  PROVE  BaseInd /\ Len(revealed) = 1 /\ rounds = 0 /\ (Running <=> score[Root] # Odd)
<1>1. /\ policy \in {AnyPolicy} \cup Baselines /\ WorldOf(policy) /\ Start
      /\ driver \in {"replay", "hand", "solve"}
      /\ budget \in {NoBudget} \cup (IF driver = "solve" THEN Budgets ELSE {})
      /\ barren = 0 /\ size = 0 /\ strayed = FALSE
  BY DEF InitLoop
<1>2. parent \in Worlds
  BY <1>1 DEF WorldOf
<1>3. parent \in Seq(Nat) /\ Accepts(parent)
  <2>1. PICK n \in 0 .. MaxSize : parent \in [1 .. n -> 0 .. n] /\ Accepts(parent)
    BY <1>2 DEF Worlds
  <2>2. n \in Nat /\ parent \in [1 .. n -> Nat]
    BY <2>1, ReplayConfig
  <2>. QED
    BY <2>1, <2>2
<1>4. \A n \in DOMAIN parent : parent[n] \in Nodes(parent)
  BY <1>3, LevelsAre
<1>5. score \in [Nodes(parent) -> Scores \cup {NoScore, Odd}]
      /\ (policy.choose # "any" => NoneOdd)
  <2>1. CASE policy.choose = "any"
    <3>1. PICK V \in SUBSET (Scores \cup {NoScore, Odd}) : score \in Recorded(parent, V)
      <4>1. score \in Recorded(parent,
                {NoScore} \cup (IF Len(parent) <= MaxScored THEN Scores \cup {Odd} ELSE {}))
        BY <1>1, <2>1 DEF WorldOf
      <4>2. {NoScore} \cup (IF Len(parent) <= MaxScored THEN Scores \cup {Odd} ELSE {})
              \in SUBSET (Scores \cup {NoScore, Odd})
        OBVIOUS
      <4>. QED
        BY <4>1, <4>2
    <3>2. score \in [Nodes(parent) -> V]
      BY <3>1 DEF Recorded
    <3>. QED
      BY <2>1, <3>2
  <2>2. CASE policy.choose # "any"
    <3>1. score \in [Nodes(parent) -> Scores \cup {NoScore}]
      BY <1>1, <2>2 DEF WorldOf, Recorded
    <3>2. \A v \in Nodes(parent) : score[v] \in Scores \cup {NoScore}
      BY <3>1
    <3>3. NoneOdd
      BY <3>2, ReplayConfig DEF NoneOdd
    <3>. QED
      BY <3>1, <3>3
  <2>. QED
    BY <2>1, <2>2
<1>6. World
  BY <1>3, <1>4, <1>5 DEF World
<1>7. ReplayInd /\ (Running <=> score[Root] # Odd) /\ Len(revealed) = 1 /\ rounds = 0
  BY <1>1, <1>6, StartIs
<1>8. LoopWorld
  BY <1>1, <1>5 DEF LoopWorld
<1>9. closed \in SUBSET {Root, 1} /\ (selected = <<>> \/ selected = [v \in {Root} |-> 1]) /\ track.stagnant \in Nat
  <2>1. PICK held \in IF driver = "hand" THEN Leftovers(policy) ELSE {Forgotten} :
          closed = held.closed /\ selected = held.selected /\ track = held.track
    BY DEF InitLoop
  <2>2. CASE held = Forgotten
    BY <2>1, <2>2 DEF Forgotten, Untracked
  <2>3. CASE held \in Leftovers(policy)
    <3>1. CASE held \in [closed : SUBSET {Root, 1}, selected : {<<>>, [v \in {Root} |-> 1]}, track : {Untracked}]
      BY <2>1, <3>1 DEF Untracked
    <3>2. CASE held \in {[Forgotten EXCEPT !.track = [best |-> 1, size |-> 2, stagnant |-> n]] :
                           n \in IF policy.choose = "budget" THEN 0 .. Patience(policy.beta) ELSE {}}
      <4>1. PICK n \in IF policy.choose = "budget" THEN 0 .. Patience(policy.beta) ELSE {} :
              held = [Forgotten EXCEPT !.track = [best |-> 1, size |-> 2, stagnant |-> n]]
        BY <3>2
      <4>2. n \in Nat
        BY <4>1
      <4>. QED
        BY <2>1, <4>1, <4>2 DEF Forgotten, Untracked
    <3>. QED
      BY <2>3, <3>1, <3>2 DEF Leftovers
  <2>. QED
    BY <2>1, <2>2, <2>3
<1>10. closed \in SUBSET (Nodes(parent) \cup {1})
  BY <1>6, <1>9 DEF World, Nodes, Root
<1>11. DOMAIN selected \subseteq Nodes(parent) /\ \A v \in DOMAIN selected : selected[v] \in Nat
  <2>1. CASE selected = <<>>
    BY <2>1
  <2>2. CASE selected = [v \in {Root} |-> 1]
    <3>1. Root \in Nodes(parent)
      BY <1>6 DEF World, Nodes, Root
    <3>. QED
      BY <2>2, <3>1
  <2>. QED
    BY <1>9, <2>1, <2>2
<1>12. MemoryInd
  BY <1>1, <1>9, <1>10, <1>11 DEF MemoryInd
<1>. QED
  BY <1>7, <1>8, <1>12 DEF BaseInd

\* And after every step.
LEMMA BaseKept ==
  ASSUME BaseInd, [NextLoop]_<<vars, policyVars>>
  PROVE  BaseInd'
<1>0. ReplayInd /\ LoopWorld /\ MemoryInd /\ World /\ OrderInd
  BY DEF BaseInd, ReplayInd
<1>1. CASE UNCHANGED <<vars, policyVars>>
  <2>1. UNCHANGED <<parent, score, revealed, rounds, last, wasted, logged, curve, best, stop>>
    BY <1>1 DEF vars, log
  <2>2. UNCHANGED <<policy, driver, budget, barren, size, closed, selected, track, strayed>>
    BY <1>1 DEF policyVars, memory, loopVars
  <2>3. World'
    BY <1>0, <2>1 DEF World
  <2>4. OrderInd'
    BY <1>0, <2>1 DEF OrderInd, Placed, Upto
  <2>5. CurveInd'
    <3>1. \A i : Point(i)' <=> Point(i)
      BY <2>1 DEF Point, Upto, BestOver
    <3>2. BestOver(Revealed)' = BestOver(Revealed) /\ Revealed' = Revealed /\ (Running' <=> Running)
      BY <2>1 DEF Revealed, BestOver, Running
    <3>. QED
      BY <1>0, <2>1, <3>1, <3>2 DEF ReplayInd, CurveInd
  <2>6. LogInd'
    BY <1>0, <2>1 DEF ReplayInd, LogInd, DefaultCapSpares, Revealed
  <2>7. LoopWorld'
    BY <1>0, <2>1, <2>2 DEF LoopWorld, NoneOdd
  <2>8. MemoryInd'
    BY <1>0, <2>1, <2>2 DEF MemoryInd, Running
  <2>. QED
    BY <2>3, <2>4, <2>5, <2>6, <2>7, <2>8 DEF BaseInd, ReplayInd
<1>2. ASSUME NEW reason \in Stopped, QuietStep(reason) PROVE BaseInd'
  BY <1>0, <1>2, QuietIs DEF BaseInd
<1>3. ASSUME NEW s, RevealStep(s) PROVE BaseInd'
  <2>1. /\ \A v \in ToSet(Asked(s)) : v \in Nodes(parent)
        /\ ReplayInd' /\ parent' = parent /\ score' = score
    BY <1>0, <1>3, RevealIs
  <2>2. Played(s)
    BY <1>3 DEF RevealStep
  <2>3. /\ closed' = ClosedNow /\ ClosedNow \in SUBSET (Nodes(parent) \cup {1})
        /\ DOMAIN selected' = ToSet(Asked(s))
        /\ \A v : ChildCount(v) \in Nat
        /\ \A v \in DOMAIN selected' : selected'[v] = ChildCount(v)
        /\ track'.stagnant \in Nat
        /\ strayed' \in BOOLEAN
        /\ LoopWorld'
    BY <1>0, <2>1, <2>2, PlayedIs
  <2>4. MemoryInd'
    BY <2>1, <2>3 DEF MemoryInd
  <2>. QED
    BY <2>1, <2>3, <2>4 DEF BaseInd
<1>4. ASSUME NEW s, RefuseStep(s) \/ DeclineStep(s) PROVE BaseInd'
  <2>1. ReplayInd' /\ parent' = parent /\ score' = score /\ ~Running' /\ Played(s)
    BY <1>0, <1>4, EndIs
  <2>3. /\ closed' = ClosedNow /\ ClosedNow \in SUBSET (Nodes(parent) \cup {1})
        /\ \A v : ChildCount(v) \in Nat
        /\ \A v \in DOMAIN selected' : selected'[v] = ChildCount(v)
        /\ track'.stagnant \in Nat
        /\ strayed' \in BOOLEAN
        /\ LoopWorld'
    BY <1>0, <2>1, PlayedIs
  <2>4. MemoryInd'
    BY <2>1, <2>3 DEF MemoryInd
  <2>. QED
    BY <2>1, <2>3, <2>4 DEF BaseInd
<1>. QED
  BY <1>0, <1>1, <1>2, <1>3, <1>4, StepIs

-----------------------------------------------------------------------------
(* What is closed.                                                           *)

\* A batch that asks a node with children left to reveal gets one of them.
LEMMA TakesOfEach ==
  ASSUME World, OrderInd, NEW a \in Seq(Nat), NEW v \in ToSet(a), Left(v) # {}
  PROVE  \E c \in Left(v) : c \in ToSet(New(a))
<1>0. Shown
  BY ShownIs
<1>. DEFINE I == {j \in DOMAIN a : a[j] = v}
<1>1. I # {} /\ I \in SUBSET Nat /\ DOMAIN a \in SUBSET Nat
  BY DEF ToSet
<1>2. PICK i \in I : \A j \in I : i <= j
  <2>. HIDE DEF I
  <2>. QED
    BY <1>1, Least
<1>3. i \in DOMAIN a /\ a[i] = v /\ \A j \in DOMAIN a : a[j] = v => i <= j
  BY <1>2
<1>4. PICK d : d \in Left(v)
  OBVIOUS
<1>5. d \in Children(parent, v) /\ d \notin Revealed
  BY <1>0, <1>4, LeftIs
<1>6. Retrieved(a, i) # None
  <2>. SUFFICES ASSUME Retrieved(a, i) = None PROVE FALSE
    OBVIOUS
  <2>1. \A j \in DOMAIN a : Retrieved(a, j) # None => Retrieved(a, j) \in Left(a[j])
    BY <1>0, RetrievedIs
  <2>2. PICK j \in DOMAIN a : j < i /\ Retrieved(a, j) = d
    BY <1>0, <1>3, <1>5, RetrievedApart
  <2>3. d # None
    BY <1>0, <1>4, LeftIs
  <2>4. d \in Left(a[j])
    BY <2>1, <2>2, <2>3
  <2>5. a[j] = v
    BY <1>0, <1>5, <2>4, LeftIs
  <2>. QED
    BY <1>1, <1>3, <2>2, <2>5
<1>7. Retrieved(a, i) \in Left(v)
  BY <1>0, <1>3, <1>6, RetrievedIs
<1>8. Retrieved(a, i) \in ToSet(New(a))
  <2>1. i \in Hits(a)
    BY <1>3, <1>6 DEF Hits
  <2>2. ToSet(New(a)) = {Retrieved(a, j) : j \in Hits(a)}
    BY <1>0, NewIs
  <2>. QED
    BY <2>1, <2>2
<1>. QED
  BY <1>7, <1>8

\* What a round closes had nothing left: a node whose count of children did not grow.
LEMMA ClosedKept ==
  ASSUME BaseInd, ClosedIsExhausted, NEW s, RevealStep(s)
  PROVE  ClosedIsExhausted'
<1>. DEFINE a == Asked(s)
<1>0. ReplayInd /\ LoopWorld /\ MemoryInd /\ World /\ OrderInd
  BY DEF BaseInd, ReplayInd
<1>1. /\ a \in Seq(Nat) /\ parent' = parent /\ score' = score /\ Running
      /\ ReplayInd' /\ Revealed' = Revealed \cup ToSet(New(a))
  BY <1>0, RevealIs
<1>2. Played(s)
  BY DEF RevealStep
<1>3. /\ closed' = ClosedNow /\ DOMAIN selected' = ToSet(a)
      /\ \A v \in DOMAIN selected' : selected'[v] = ChildCount(v)
  BY <1>0, <1>1, <1>2, PlayedIs
<1>. HIDE DEF a
<1>4. \A v \in ClosedNow : Children(parent, v) \subseteq Revealed
  BY <1>1 DEF ClosedIsExhausted
<1>5. IsFiniteSet(Revealed') /\ IsFiniteSet(Revealed)
  <2>1. World' /\ OrderInd'
    BY <1>1 DEF ReplayInd
  <2>2. PICK L \in Nat : L = Len(revealed')
    BY <2>1 DEF OrderInd
  <2>3. Revealed' \in SUBSET (0 .. Len(parent')) /\ Len(parent') \in Nat
    <3>1. \A i \in DOMAIN revealed' : revealed'[i] \in Nodes(parent')
      BY <2>1 DEF OrderInd
    <3>. QED
      BY <2>1, <3>1 DEF World, Revealed, ToSet, Nodes
  <2>4. IsFiniteSet(Revealed')
    <3>1. PICK k \in Nat : k = Len(parent')
      BY <2>3
    <3>2. PICK T \in SUBSET (0 .. k) : T = Revealed'
      BY <2>3, <3>1
    <3>. QED
      BY <3>2, Finitely
  <2>. QED
    BY <1>0, <2>4, RevealedIs
<1>6. ASSUME NEW v \in ToSet(a), ChildCount(v)' = ChildCount(v) PROVE Children(parent, v) \subseteq Revealed
  <2>. DEFINE A == Children(parent, v) \cap Revealed
              B == Children(parent, v) \cap Revealed'
  <2>1. ChildCount(v)' = Cardinality(B) /\ ChildCount(v) = Cardinality(A)
    BY <1>1 DEF ChildCount
  <2>2. A \in SUBSET B /\ IsFiniteSet(B)
    <3>1. B \in SUBSET Revealed'
      OBVIOUS
    <3>2. A \in SUBSET B
      BY <1>1
    <3>. HIDE DEF A, B
    <3>. QED
      BY <1>5, <3>1, <3>2, FS_Subset
  <2>. HIDE DEF A, B
  <2>3. A = B
    BY <1>6, <2>1, <2>2, FS_Subset
  <2>4. ASSUME Left(v) # {} PROVE FALSE
    <3>1. PICK c \in Left(v) : c \in ToSet(New(a))
      BY <1>0, <1>1, <2>4, TakesOfEach DEF a
    <3>2. c \in Children(parent, v) /\ c \notin Revealed
      BY DEF Left
    <3>3. c \in B /\ c \notin A
      BY <1>1, <3>1, <3>2 DEF A, B
    <3>. QED
      BY <2>3, <3>3
  <2>. QED
    BY <2>4 DEF Left
<1>7. ClosedNow' \subseteq closed' \cup {v \in DOMAIN selected' : ChildCount(v)' = selected'[v]}
  BY DEF ClosedNow
<1>8. ASSUME NEW v \in ClosedNow' PROVE Children(parent, v) \subseteq Revealed
  <2>1. CASE v \in closed'
    BY <1>3, <1>4, <2>1
  <2>2. CASE v \in DOMAIN selected' /\ ChildCount(v)' = selected'[v]
    BY <1>3, <1>6, <2>2
  <2>. QED
    BY <1>7, <1>8, <2>1, <2>2
<1>. QED
  BY <1>1, <1>8 DEF ClosedIsExhausted

-----------------------------------------------------------------------------
(* How long solve goes on.                                                   *)

SolveInd ==
  /\ barren \in 0 .. rounds /\ size \in 0 .. Len(revealed)
  /\ stop = "barren" => strayed
  /\ driver = "solve" =>
       /\ budget # NoBudget => Spent <= budget
       /\ 2 * rounds <= Len(parent) * (Len(parent) + 3)
       /\ Running /\ size = 0 => rounds = 0
       /\ Running /\ size # 0 =>
            /\ barren < rounds /\ barren <= size /\ size <= Len(parent)
            /\ 2 * (rounds - (barren + 1)) <= (size - 1) * (size + 2)
            /\ ~strayed /\ Len(revealed) = size => barren + 1 <= Cardinality(ClosedNow \cap Frontier)

\* The rounds that b + 1 of them at each of 1, 2, up to z nodes make, and what is left of it.
LEMMA Stretches ==
  ASSUME NEW r \in Nat, NEW b \in Nat, NEW z \in Nat \ {0}, b <= z,
         2 * (r - (b + 1)) <= (z - 1) * (z + 2)
  PROVE  /\ 2 * r <= z * (z + 3)
         /\ \A n \in Nat : z <= n => z * (z + 3) <= n * (n + 3)
         /\ \A n \in Nat : z < n => 2 * r <= (n - 1) * (n + 2)
<1>1. (z - 1) * (z + 2) = z * z + z - 2 /\ z * (z + 3) = z * z + 3 * z /\ z * z \in Nat
  OBVIOUS
<1>2. 2 * r <= z * (z + 3)
  BY <1>1
<1>3. ASSUME NEW n \in Nat, z <= n PROVE z * (z + 3) <= n * (n + 3)
  <2>1. PICK d \in Nat : n = z + d
    <3>1. n - z \in Nat /\ n = z + (n - z)
      BY <1>3
    <3>. QED
      BY <3>1
  <2>2. n * (n + 3) = z * (z + 3) + (2 * (z * d) + d * d + 3 * d)
    BY <2>1
  <2>3. z * d \in Nat /\ d * d \in Nat /\ z * (z + 3) \in Nat
    OBVIOUS
  <2>. QED
    BY <2>2, <2>3
<1>4. ASSUME NEW n \in Nat, z < n PROVE 2 * r <= (n - 1) * (n + 2)
  <2>1. PICK m \in Nat : m = n - 1 /\ z <= m
    <3>1. n - 1 \in Nat /\ z <= n - 1
      BY <1>4
    <3>. QED
      BY <3>1
  <2>2. z * (z + 3) <= m * (m + 3)
    BY <1>3, <2>1
  <2>3. m + 3 = n + 2
    BY <2>1
  <2>4. m * (m + 3) = (n - 1) * (n + 2)
    BY <2>1, <2>3, Zenon
  <2>5. z * (z + 3) \in Nat /\ m * (m + 3) \in Nat
    OBVIOUS
  <2>. QED
    BY <1>2, <2>2, <2>4, <2>5
<1>. QED
  BY <1>2, <1>3, <1>4

\* Where solve starts, no round is taken.
LEMMA SolveStarts ==
  ASSUME InitLoop
  PROVE  SolveInd
<1>1. BaseInd /\ Len(revealed) = 1 /\ rounds = 0
  BY BaseStarts
<1>2. barren = 0 /\ size = 0 /\ (budget # NoBudget => budget \in Nat) /\ stop # "barren"
  BY LoopConfig DEF InitLoop, Start
<1>3. Len(parent) \in Nat
  BY <1>1 DEF BaseInd, ReplayInd, World
<1>4. Len(parent) * (Len(parent) + 3) \in Nat
  BY <1>3
<1>. QED
  BY <1>1, <1>2, <1>4 DEF SolveInd, Spent

\* What each step finds.
LEMMA SolveNow ==
  ASSUME BaseInd, SolveInd, Running, driver = "solve", ~Complete
  PROVE  /\ Len(revealed) \in Nat /\ Len(revealed) >= 1 /\ Len(revealed) <= Len(parent) /\ Len(parent) \in Nat
         /\ rounds \in Nat /\ BarrenNow \in 0 .. rounds
         /\ ~Grown => /\ size = Len(revealed) /\ barren + 1 = BarrenNow
                      /\ 2 * (rounds - BarrenNow) <= (size - 1) * (size + 2)
                      /\ BarrenNow <= rounds
         /\ Grown => BarrenNow = 0 /\ 2 * rounds <= (Len(revealed) - 1) * (Len(revealed) + 2)
         /\ TooBarren => strayed
<1>0. ReplayInd /\ LoopWorld /\ MemoryInd /\ World /\ OrderInd /\ LogInd
  BY DEF BaseInd, ReplayInd
<1>1. /\ Len(revealed) \in Nat /\ Len(revealed) >= 1 /\ Len(parent) \in Nat
      /\ Len(revealed) <= Len(parent) + 1 /\ Len(revealed) # Len(parent) + 1
  BY <1>0, RevealedIs DEF Complete
<1>2. rounds \in Nat /\ barren \in 0 .. rounds /\ size \in 0 .. Len(revealed)
  BY <1>0 DEF LogInd, SolveInd
<1>3. /\ size = 0 => rounds = 0
      /\ size # 0 =>
            /\ barren < rounds /\ barren <= size /\ size <= Len(parent)
            /\ 2 * (rounds - (barren + 1)) <= (size - 1) * (size + 2)
            /\ ~strayed /\ Len(revealed) = size => barren + 1 <= Cardinality(ClosedNow \cap Frontier)
  BY DEF SolveInd
<1>4. BarrenNow = (IF Len(revealed) > size THEN 0 ELSE barren + 1) /\ (Grown <=> Len(revealed) > size)
  BY DEF BarrenNow, Grown
<1>5. ASSUME ~Grown
      PROVE  /\ size = Len(revealed) /\ barren + 1 = BarrenNow
             /\ 2 * (rounds - BarrenNow) <= (size - 1) * (size + 2)
             /\ BarrenNow <= rounds
  <2>1. size = Len(revealed) /\ size # 0 /\ barren + 1 = BarrenNow
    BY <1>1, <1>2, <1>4, <1>5
  <2>. QED
    BY <1>2, <1>3, <2>1
<1>6. ASSUME Grown PROVE BarrenNow = 0 /\ 2 * rounds <= (Len(revealed) - 1) * (Len(revealed) + 2)
  <2>1. CASE size = 0
    <3>1. PICK k \in Nat : k = Len(revealed) - 1
      <4>1. Len(revealed) - 1 \in Nat
        BY <1>1
      <4>. QED
        BY <4>1
    <3>2. k * (Len(revealed) + 2) \in Nat
      BY <1>1, <3>1
    <3>. QED
      BY <1>3, <1>4, <1>6, <2>1, <3>1, <3>2
  <2>2. CASE size # 0
    <3>1. PICK r \in Nat, b \in Nat, z \in Nat \ {0}, n \in Nat :
            r = rounds /\ b = barren /\ z = size /\ n = Len(revealed)
      <4>1. rounds \in Nat /\ barren \in Nat /\ size \in Nat \ {0} /\ Len(revealed) \in Nat
        BY <1>1, <1>2, <2>2
      <4>. QED
        BY <4>1, Zenon
    <3>2. b <= z /\ z < n /\ 2 * (r - (b + 1)) <= (z - 1) * (z + 2)
      <4>1. barren <= size /\ 2 * (rounds - (barren + 1)) <= (size - 1) * (size + 2)
        BY <1>3, <2>2, Zenon
      <4>2. Len(revealed) > size
        BY <1>4, <1>6, Zenon
      <4>3. z < n
        BY <3>1, <4>2
      <4>4. b <= z /\ 2 * (r - (b + 1)) <= (z - 1) * (z + 2)
        BY <3>1, <4>1, Zenon
      <4>. QED
        BY <4>3, <4>4, Zenon
    <3>3. 2 * r <= (n - 1) * (n + 2)
      BY <3>2, Stretches
    <3>. QED
      BY <1>4, <1>6, <3>1, <3>3
  <2>. QED
    BY <2>1, <2>2
<1>7. BarrenNow \in 0 .. rounds
  <2>1. CASE Grown
    BY <1>2, <1>6, <2>1
  <2>2. CASE ~Grown
    BY <1>2, <1>5, <2>2
  <2>. QED
    BY <2>1, <2>2
<1>8. ASSUME TooBarren, ~strayed PROVE FALSE
  <2>1. /\ Cardinality(Frontier) \in Nat /\ Cardinality(ClosedNow \cap Frontier) \in Nat
        /\ Cardinality(ClosedNow \cap Frontier) <= Cardinality(Frontier)
    <3>1. \A A \in SUBSET Frontier : Cardinality(A) \in Nat /\ Cardinality(A) <= Cardinality(Frontier)
      BY <1>0, FrontierIs
    <3>2. ClosedNow \cap Frontier \in SUBSET Frontier /\ Frontier \in SUBSET Frontier
      OBVIOUS
    <3>. QED
      BY <3>1, <3>2, Zenon
  <2>2. BarrenNow > Cardinality(Frontier)
    BY <1>8 DEF TooBarren
  <2>3. ~Grown
    BY <1>6, <2>1, <2>2
  <2>4. size = Len(revealed) /\ barren + 1 = BarrenNow
    BY <1>5, <2>3, Zenon
  <2>5. size # 0
    BY <1>1, <2>4
  <2>6. barren + 1 <= Cardinality(ClosedNow \cap Frontier)
    BY <1>3, <1>8, <2>4, <2>5, Zenon
  <2>. QED
    BY <1>2, <2>1, <2>2, <2>4, <2>6
<1>. QED
  BY <1>1, <1>2, <1>5, <1>6, <1>7, <1>8

\* A round that reveals nothing closes every node it asked.
LEMMA NothingCloses ==
  ASSUME BaseInd, NEW s, RevealStep(s), Len(revealed') = Len(revealed)
  PROVE  /\ ClosedNow' = ClosedNow \cup ToSet(Asked(s))
         /\ Frontier' = Frontier
<1>. DEFINE a == Asked(s)
<1>0. ReplayInd /\ LoopWorld /\ MemoryInd /\ World /\ OrderInd
  BY DEF BaseInd, ReplayInd
<1>1. /\ a \in Seq(Nat) /\ a # <<>> /\ Legal(a) /\ parent' = parent /\ score' = score
      /\ revealed' = revealed \o New(a) /\ Len(revealed') = Len(revealed) + Len(New(a))
      /\ Len(New(a)) \in Nat
      /\ Revealed' = Revealed \cup ToSet(New(a))
      /\ \A v \in ToSet(a) : v \in Frontier /\ v \in Nodes(parent)
  BY <1>0, RevealIs
<1>2. ~Complete /\ Played(s)
  BY DEF RevealStep, Played
<1>3. /\ closed' = ClosedNow /\ DOMAIN selected' = ToSet(a)
      /\ \A v \in DOMAIN selected' : selected'[v] = ChildCount(v)
  BY <1>0, <1>1, <1>2, PlayedIs
<1>. HIDE DEF a
<1>4. Len(New(a)) = 0
  <2>1. Len(revealed) \in Nat
    BY <1>0 DEF OrderInd
  <2>. QED
    BY <1>1, <2>1
<1>5. New(a) = <<>>
  <2>1. New(a) \in Seq(Nodes(parent) \ Revealed)
    BY <1>0, <1>1, ShownIs, NewIs
  <2>. QED
    BY <1>4, <2>1
<1>6. Revealed' = Revealed
  BY <1>1, <1>5 DEF ToSet
<1>7. Frontier' = Frontier
  BY <1>1, <1>6 DEF Frontier
<1>8. \A v : ChildCount(v)' = ChildCount(v)
  BY <1>1, <1>6 DEF ChildCount
<1>9. Revealed # {Root}
  <2>. SUFFICES ASSUME Revealed = {Root} PROVE FALSE
    OBVIOUS
  <2>1. 1 \in DOMAIN a /\ a[1] \in ToSet(a)
    BY <1>1 DEF ToSet
  <2>2. Root \in ToSet(a)
    BY <1>1, <2>1 DEF Frontier
  <2>3. Len(parent) > 0 /\ parent \in Seq(Nat) /\ Accepts(parent)
    <3>1. Len(revealed) = 1 /\ Len(parent) \in Nat
      BY <1>0, RevealedIs
    <3>. QED
      BY <1>0, <1>2, <3>1 DEF World, Complete
  <2>4. PICK c : c \in Children(parent, Root)
    BY <2>3, RootHasChild
  <2>5. c \in Left(Root)
    BY <2>4 DEF Left, Children, Root
  <2>6. PICK d : d \in ToSet(New(a))
    BY <1>0, <1>1, <2>2, <2>5, TakesOfEach
  <2>. QED
    BY <1>5, <2>6 DEF ToSet
<1>10. {v \in DOMAIN selected' : ChildCount(v)' = selected'[v]} = ToSet(a)
  BY <1>3, <1>8
<1>11. ClosedNow' = closed' \cup {v \in DOMAIN selected' : ChildCount(v)' = selected'[v]}
  BY <1>6, <1>9 DEF ClosedNow
<1>. QED
  BY <1>3, <1>7, <1>10, <1>11 DEF a

\* A round that reveals, or only asks: at most one barren round more than nodes closed.
LEMMA SolveReveals ==
  ASSUME BaseInd, SolveInd, NEW s, RevealStep(s)
  PROVE  SolveInd'
<1>. DEFINE a == Asked(s)
            L == Len(revealed)
            N == Len(parent)
<1>0. ReplayInd /\ LoopWorld /\ MemoryInd /\ World /\ OrderInd
  BY DEF BaseInd, ReplayInd
<1>1. /\ parent' = parent /\ score' = score /\ Running /\ Running' /\ rounds' = rounds + 1
      /\ Len(revealed') = L + Len(New(a)) /\ Len(New(a)) \in Nat /\ Len(New(a)) <= Len(a)
      /\ budget # NoBudget => Len(a) <= budget - Spent
      /\ a \in Seq(Nat) /\ a # <<>> /\ ToSet(a) \subseteq ToSet(s)
      /\ \A v \in ToSet(a) : v \in Frontier /\ v \in Nodes(parent)
  BY <1>0, RevealIs
<1>2. Played(s) /\ ~Complete
  BY DEF RevealStep, Played
<1>3. /\ policy' = policy /\ driver' = driver /\ budget' = budget
      /\ (strayed' <=> strayed \/ ToSet(s) \cap ClosedNow # {}) /\ strayed' \in BOOLEAN
  BY <1>0, <1>1, <1>2, PlayedIs
<1>4. L \in Nat /\ N \in Nat /\ L >= 1 /\ rounds \in Nat /\ barren \in 0 .. rounds /\ size \in 0 .. L
  <2>1. L \in Nat /\ N \in Nat /\ L >= 1
    BY <1>0, RevealedIs
  <2>2. rounds \in Nat
    BY <1>0 DEF ReplayInd, LogInd
  <2>. QED
    BY <2>1, <2>2 DEF SolveInd
<1>5. stop' # "barren"
  BY <1>1 DEF Running
<1>. HIDE DEF a
<1>6. CASE driver # "solve"
  <2>1. barren' = barren /\ size' = size
    BY <1>2, <1>6 DEF Played
  <2>2. barren' \in 0 .. rounds' /\ size' \in 0 .. Len(revealed')
    BY <1>1, <1>4, <2>1
  <2>. QED
    BY <1>3, <1>5, <1>6, <2>2 DEF SolveInd
<1>7. CASE driver = "solve"
  <2>1. barren' = BarrenNow /\ size' = L /\ ~TooBarren
    BY <1>2, <1>7 DEF Played
  <2>2. /\ L <= N /\ BarrenNow \in 0 .. rounds
        /\ ~Grown => /\ size = L /\ barren + 1 = BarrenNow
                     /\ 2 * (rounds - BarrenNow) <= (size - 1) * (size + 2)
                     /\ BarrenNow <= rounds
        /\ Grown => BarrenNow = 0 /\ 2 * rounds <= (L - 1) * (L + 2)
    BY <1>1, <1>2, <1>7, SolveNow
  <2>3. Cardinality(Frontier) \in Nat /\ Cardinality(Frontier) <= L /\ BarrenNow <= Cardinality(Frontier)
    <3>1. Cardinality(Frontier) \in 1 .. L
      BY <1>0, FrontierIs
    <3>2. ~(BarrenNow > Cardinality(Frontier))
      BY <2>1 DEF TooBarren
    <3>. QED
      BY <1>4, <2>2, <3>1, <3>2
  <2>4. barren' \in 0 .. rounds' /\ size' \in 0 .. Len(revealed') /\ size' # 0
        /\ barren' < rounds' /\ barren' <= size' /\ size' <= Len(parent')
    BY <1>1, <1>4, <2>1, <2>2, <2>3
  <2>5. budget' # NoBudget => Spent' <= budget'
    <3>. SUFFICES ASSUME budget # NoBudget PROVE Spent' <= budget'
      BY <1>3
    <3>1. budget \in Nat
      BY LoopConfig, <1>0 DEF LoopWorld
    <3>2. Len(a) \in Nat
      BY <1>1
    <3>. QED
      BY <1>1, <1>3, <1>4, <3>1, <3>2 DEF Spent
  <2>6. 2 * (rounds' - (barren' + 1)) <= (size' - 1) * (size' + 2)
    <3>1. rounds' - (barren' + 1) = rounds - BarrenNow
      BY <1>1, <1>4, <2>1, <2>2
    <3>2. 2 * (rounds - BarrenNow) <= (L - 1) * (L + 2)
      <4>1. CASE Grown
        <5>1. BarrenNow = 0 /\ 2 * rounds <= (L - 1) * (L + 2)
          BY <2>2, <4>1, Zenon
        <5>2. rounds - BarrenNow = rounds
          BY <1>4, <5>1
        <5>. QED
          BY <5>1, <5>2, Zenon
      <4>2. CASE ~Grown
        <5>1. size = L /\ 2 * (rounds - BarrenNow) <= (size - 1) * (size + 2)
          BY <2>2, <4>2, Zenon
        <5>. QED
          BY <5>1, Zenon
      <4>. QED
        BY <4>1, <4>2
    <3>. QED
      BY <2>1, <3>1, <3>2, Zenon
  <2>7. 2 * rounds' <= Len(parent') * (Len(parent') + 3)
    <3>1. PICK r \in Nat, b \in Nat, z \in Nat \ {0}, n \in Nat :
            r = rounds' /\ b = barren' /\ z = size' /\ n = Len(parent')
      <4>1. rounds' \in Nat /\ barren' \in Nat /\ size' \in Nat \ {0} /\ Len(parent') \in Nat
        BY <1>1, <1>4, <2>1, <2>2
      <4>. QED
        BY <4>1, Zenon
    <3>2. b <= z /\ z <= n /\ 2 * (r - (b + 1)) <= (z - 1) * (z + 2)
      BY <2>4, <2>6, <3>1, Zenon
    <3>3. 2 * r <= z * (z + 3) /\ z * (z + 3) <= n * (n + 3)
      BY <3>2, Stretches
    <3>4. 2 * r \in Nat /\ z * (z + 3) \in Nat /\ n * (n + 3) \in Nat
      OBVIOUS
    <3>5. 2 * r <= n * (n + 3)
      BY <3>3, <3>4
    <3>. QED
      BY <3>1, <3>5, Zenon
  <2>8. ASSUME ~strayed', Len(revealed') = size'
        PROVE  barren' + 1 <= Cardinality(ClosedNow' \cap Frontier')
    <3>1. Len(revealed') = L
      BY <2>1, <2>8
    <3>2. ClosedNow' = ClosedNow \cup ToSet(a) /\ Frontier' = Frontier
      BY <3>1, NothingCloses DEF a
    <3>3. ~strayed /\ ToSet(s) \cap ClosedNow = {}
      BY <1>3, <2>8
    <3>4. PICK v : v = a[1]
      OBVIOUS
    <3>5. v \in ToSet(a)
      BY <1>1, <3>4 DEF ToSet
    <3>. DEFINE A == ClosedNow \cap Frontier
                B == ClosedNow' \cap Frontier'
    <3>6. v \notin A /\ A \cup {v} \in SUBSET B /\ B \in SUBSET Frontier /\ A \in SUBSET Frontier
      BY <1>1, <3>2, <3>3, <3>5
    <3>. HIDE DEF A, B
    <3>7. /\ IsFiniteSet(A) /\ Cardinality(A) \in Nat
          /\ IsFiniteSet(B) /\ Cardinality(B) \in Nat
      BY <1>0, <3>6, FrontierIs
    <3>8. Cardinality(A \cup {v}) = Cardinality(A) + 1
      BY <3>6, <3>7, FS_AddElement
    <3>9. Cardinality(A \cup {v}) <= Cardinality(B)
      BY <3>6, <3>7, FS_Subset
    <3>10. BarrenNow <= Cardinality(A)
      <4>1. CASE Grown
        BY <2>2, <3>7, <4>1
      <4>2. CASE ~Grown
        <5>1. size = L /\ barren + 1 = BarrenNow
          BY <2>2, <4>2, Zenon
        <5>2. size # 0
          BY <1>4, <5>1
        <5>3. barren + 1 <= Cardinality(A)
          BY <1>1, <1>7, <3>3, <5>1, <5>2, Zenon DEF SolveInd, A
        <5>. QED
          BY <5>1, <5>3, Zenon
      <4>. QED
        BY <4>1, <4>2
    <3>11. barren' + 1 <= Cardinality(B)
      BY <2>1, <2>2, <3>7, <3>8, <3>9, <3>10
    <3>. QED
      BY <3>11 DEF B
  <2>. QED
    BY <1>3, <1>5, <1>7, <2>4, <2>5, <2>6, <2>7, <2>8, Zenon DEF SolveInd
<1>. QED
  BY <1>6, <1>7

\* A round whose answer is refused or empty.
LEMMA SolveEnds ==
  ASSUME BaseInd, SolveInd, NEW s, RefuseStep(s) \/ DeclineStep(s)
  PROVE  SolveInd'
<1>0. ReplayInd /\ LoopWorld /\ MemoryInd /\ World /\ OrderInd
  BY DEF BaseInd, ReplayInd
<1>1. /\ stop' \in {"raised", "empty_batch"} /\ ~Running' /\ Running /\ Played(s)
      /\ UNCHANGED <<parent, score, revealed, rounds>>
  BY <1>0, EndIs
<1>2. policy' = policy /\ driver' = driver /\ budget' = budget
  BY <1>0, <1>1, PlayedIs
<1>3. barren \in 0 .. rounds /\ size \in 0 .. Len(revealed) /\ Len(revealed) \in Nat
  BY <1>0, RevealedIs DEF SolveInd
<1>4. barren' \in 0 .. rounds /\ size' \in 0 .. Len(revealed)
  <2>1. CASE driver # "solve"
    BY <1>1, <1>3, <2>1 DEF Played
  <2>2. CASE driver = "solve"
    <3>1. barren' = BarrenNow /\ size' = Len(revealed) /\ ~Complete
      BY <1>1, <2>2 DEF Played
    <3>2. BarrenNow \in 0 .. rounds
      BY <1>1, <2>2, <3>1, SolveNow
    <3>. QED
      BY <1>3, <3>1, <3>2
  <2>. QED
    BY <2>1, <2>2
<1>5. /\ driver = "solve" /\ budget # NoBudget => Spent <= budget
      /\ driver = "solve" => 2 * rounds <= Len(parent) * (Len(parent) + 3)
  BY DEF SolveInd
<1>6. Spent' = Spent
  BY <1>1 DEF Spent
<1>7. rounds' = rounds /\ Len(parent') = Len(parent) /\ Len(revealed') = Len(revealed) /\ stop' # "barren"
  BY <1>1
<1>. QED
  BY <1>1, <1>2, <1>4, <1>5, <1>6, <1>7, Zenon DEF SolveInd

\* The end of solve by itself: as barren, only after the strategy strayed.
LEMMA SolveQuiet ==
  ASSUME BaseInd, SolveInd, NEW reason \in Stopped, QuietStep(reason)
  PROVE  SolveInd'
<1>0. ReplayInd /\ LoopWorld /\ MemoryInd /\ World /\ OrderInd
  BY DEF BaseInd, ReplayInd
<1>1. /\ stop' = reason /\ ~Running' /\ Running
      /\ UNCHANGED <<parent, score, revealed, rounds>> /\ UNCHANGED policyVars
  BY <1>0, QuietIs
<1>2. UNCHANGED <<policy, driver, budget, barren, size, strayed>>
  BY <1>1 DEF policyVars, memory, loopVars
<1>3. reason = "barren" => strayed
  <2>. SUFFICES ASSUME reason = "barren" PROVE strayed
    OBVIOUS
  <2>1. driver = "solve" /\ ~Complete /\ TooBarren
    BY DEF QuietStep
  <2>. QED
    BY <1>1, <2>1, SolveNow
<1>4. /\ driver = "solve" /\ budget # NoBudget => Spent <= budget
      /\ driver = "solve" => 2 * rounds <= Len(parent) * (Len(parent) + 3)
      /\ barren \in 0 .. rounds
      /\ size \in 0 .. Len(revealed)
  BY DEF SolveInd
<1>5. Spent' = Spent
  BY <1>1 DEF Spent
<1>6. rounds' = rounds /\ Len(parent') = Len(parent) /\ Len(revealed') = Len(revealed)
  BY <1>1
<1>. QED
  BY <1>1, <1>2, <1>3, <1>4, <1>5, <1>6, Zenon DEF SolveInd

-----------------------------------------------------------------------------
(* What a baseline answers is legal.                                         *)

LegalInd == policy.choose # "any" => stop # "raised" /\ ~strayed

\* A baseline's world holds no odd node, so its run starts.
LEMMA LegalStarts ==
  ASSUME InitLoop
  PROVE  LegalInd
<1>1. LoopWorld /\ World /\ (Running <=> score[Root] # Odd)
  BY BaseStarts DEF BaseInd, ReplayInd
<1>2. Root \in Nodes(parent)
  BY <1>1 DEF World, Nodes, Root
<1>3. policy.choose # "any" => stop = "running"
  BY <1>1, <1>2 DEF LoopWorld, NoneOdd, Running
<1>. QED
  BY <1>3 DEF InitLoop, LegalInd

\* Every answer of a baseline is an action on live nodes, and is asked as it is.
LEMMA BaselineLegal ==
  ASSUME BaseInd, policy.choose # "any", NEW s \in Answered(Offer), ~Exhausted
  PROVE  /\ Asked(s) = s /\ Len(s) <= policy.width /\ AskedOf(s) = s
         /\ IsAction(s, Frontier) /\ Holdable(s) /\ ToSet(s) \cap ClosedNow = {}
<1>0. ReplayInd /\ LoopWorld /\ World /\ OrderInd
  BY DEF BaseInd, ReplayInd
<1>1. Picks(s, Live, Offer) /\ AskedOf(s) = s /\ Len(s) <= policy.width
  BY <1>0, BaselineAnswers
<1>2. s \in Seq(Live) /\ \A i, j \in DOMAIN s : s[i] = s[j] => i = j \/ s[i] = Root
  BY <1>1 DEF Picks
<1>3. \A i \in DOMAIN s : s[i] \in Live
  BY <1>2
<1>4. IsAction(s, Frontier)
  BY <1>2, <1>3 DEF IsAction, Live
<1>5. ToSet(s) \cap ClosedNow = {}
  BY <1>3 DEF ToSet, Live
<1>6. s \in Seq(Nat)
  BY <1>0, AnswersAre
<1>7. New(s) \in Seq(Nodes(parent) \ Revealed)
  BY <1>0, <1>6, ShownIs, NewIs
<1>8. Holdable(s)
  <2>1. \A c \in ToSet(New(s)) : c \in Nodes(parent)
    BY <1>7 DEF ToSet
  <2>2. NoneOdd
    BY <1>0 DEF LoopWorld
  <2>. QED
    BY <2>1, <2>2 DEF Holdable, NoneOdd
<1>. QED
  BY <1>1, <1>4, <1>5, <1>8 DEF Asked

\* So a baseline is never refused and never strays.
LEMMA LegalKept ==
  ASSUME BaseInd, LegalInd, NextLoop
  PROVE  LegalInd'
<1>0. ReplayInd /\ LoopWorld /\ MemoryInd /\ World /\ OrderInd
  BY DEF BaseInd, ReplayInd
<1>1. ASSUME NEW reason \in Stopped, QuietStep(reason) PROVE LegalInd'
  <2>1. stop' = reason /\ UNCHANGED policyVars
    BY <1>0, <1>1, QuietIs
  <2>2. reason # "raised"
    BY <1>1 DEF QuietStep
  <2>. QED
    BY <2>1, <2>2 DEF LegalInd, policyVars, memory, loopVars
<1>2. ASSUME NEW s, RevealStep(s) \/ RefuseStep(s) \/ DeclineStep(s) PROVE LegalInd'
  <2>1. Played(s) /\ s \in Answered(Offer) /\ ~Exhausted /\ Running
    BY <1>2 DEF RevealStep, RefuseStep, DeclineStep, Played
  <2>2. parent' = parent /\ score' = score
    BY <1>0, <1>2, RevealIs, EndIs
  <2>3. policy' = policy /\ (strayed' <=> strayed \/ ToSet(s) \cap ClosedNow # {})
    BY <1>0, <2>1, <2>2, PlayedIs
  <2>. SUFFICES ASSUME policy.choose # "any" PROVE stop' # "raised" /\ ~strayed'
    BY <2>3 DEF LegalInd
  <2>4. IsAction(s, Frontier) /\ Holdable(s) /\ ToSet(s) \cap ClosedNow = {} /\ Asked(s) = s
    BY <2>1, BaselineLegal
  <2>5. ~strayed'
    BY <2>3, <2>4 DEF LegalInd
  <2>6. ~RefuseStep(s)
    BY <2>4 DEF RefuseStep, Refuse
  <2>7. stop' # "raised"
    <3>1. CASE RevealStep(s)
      <4>1. Running'
        BY <1>0, <3>1, RevealIs
      <4>. QED
        BY <4>1 DEF Running
    <3>2. CASE DeclineStep(s)
      BY <3>2 DEF DeclineStep, StopFor
    <3>. QED
      BY <1>2, <2>6, <3>1, <3>2
  <2>. QED
    BY <2>5, <2>7
<1>. QED
  BY <1>0, <1>1, <1>2, StepIs

-----------------------------------------------------------------------------
(* What a baseline stops for.                                                *)

Gains(i) == Gained(BestOver(Upto(i + 1)), BestOver(Upto(i)))
TrackedTo(t, n) ==
  /\ t.size = n /\ n \in 1 .. Len(revealed)
  /\ t.best = BestOver(Upto(n))
  /\ t.stagnant \in 0 .. n - 1
  /\ \A i \in 1 .. n - 1 : Gains(i) => t.stagnant <= n - 1 - i
TrackInd ==
  policy.choose = "budget" /\ driver # "hand" /\ Running =>
    \/ track = Untracked /\ Len(revealed) = 1
    \/ Len(revealed) > 1 /\ TrackedTo(track, track.size)

Over(a, b) == a # NoScore => b # NoScore /\ a <= b

\* The best never falls.
LEMMA BestGrows ==
  ASSUME World, OrderInd, NoneOdd
  PROVE  /\ Upto(Len(revealed)) = Revealed /\ Upto(1) = {Root}
         /\ BestOver(Upto(1)) = score[Root]
         /\ \A i \in 1 .. Len(revealed) : BestOver(Upto(i)) \in Marks
         /\ \A i, j \in 1 .. Len(revealed) : i <= j => Over(BestOver(Upto(i)), BestOver(Upto(j)))
<1>. DEFINE L == Len(revealed)
<1>1. /\ L \in Nat /\ L >= 1 /\ DOMAIN revealed = 1 .. L /\ revealed[1] = Root
      /\ Revealed \in SUBSET Nodes(parent) /\ Root \in Revealed
  BY RevealedIs DEF OrderInd
<1>2. Upto(L) = Revealed
  BY <1>1 DEF Upto, Revealed, ToSet
<1>3. Upto(1) = {Root}
  BY <1>1 DEF Upto
<1>4. \A i \in 1 .. L : Upto(i) \in SUBSET Nodes(parent)
  <2>1. \A i \in 1 .. L : \A j \in 1 .. i : j \in DOMAIN revealed
    BY <1>1
  <2>2. \A j \in DOMAIN revealed : revealed[j] \in Nodes(parent)
    BY DEF OrderInd
  <2>. QED
    BY <2>1, <2>2 DEF Upto
<1>5. \A A \in SUBSET Nodes(parent) : Tops(BestOver(A), Met(A)) /\ BestOver(A) \in Marks
  BY MetIs DEF NoneOdd
<1>6. BestOver(Upto(1)) = score[Root]
  <2>1. Met(Upto(1)) = {score[Root]}
    BY <1>3 DEF Met
  <2>2. Tops(BestOver(Upto(1)), Met(Upto(1)))
    BY <1>1, <1>4, <1>5
  <2>. QED
    BY <2>1, <2>2 DEF Tops
<1>7. ASSUME NEW i \in 1 .. L, NEW j \in 1 .. L, i <= j PROVE Over(BestOver(Upto(i)), BestOver(Upto(j)))
  <2>1. Upto(i) \subseteq Upto(j)
    <3>1. \A k \in 1 .. i : k \in 1 .. j
      BY <1>7
    <3>. QED
      BY <3>1 DEF Upto
  <2>2. Met(Upto(i)) \subseteq Met(Upto(j))
    BY <2>1 DEF Met
  <2>3. PICK a, b : a = BestOver(Upto(i)) /\ b = BestOver(Upto(j))
    OBVIOUS
  <2>4. Tops(a, Met(Upto(i))) /\ Tops(b, Met(Upto(j)))
    BY <1>4, <1>5, <2>3
  <2>5. a # NoScore => a \in Met(Upto(j))
    BY <2>2, <2>4 DEF Tops
  <2>. QED
    BY <2>3, <2>4, <2>5 DEF Tops, Over
<1>. QED
  BY <1>2, <1>3, <1>4, <1>5, <1>6, <1>7

\* Of what is tracked, once it has looked at the tree.
LEMMA TrackNowIs ==
  ASSUME BaseInd, TrackInd, policy.choose = "budget", driver # "hand", Running
  PROVE  TrackedTo(TrackNow, Len(revealed))
<1>. DEFINE L == Len(revealed)
            now == BestOver(Revealed)
<1>0. World /\ OrderInd /\ NoneOdd /\ L \in Nat /\ L >= 1
  <2>1. World /\ OrderInd /\ NoneOdd
    BY DEF BaseInd, ReplayInd, LoopWorld
  <2>. QED
    BY <2>1, RevealedIs
<1>1. /\ Upto(L) = Revealed
      /\ \A i \in 1 .. L : BestOver(Upto(i)) \in Marks
      /\ \A i, j \in 1 .. L : i <= j => Over(BestOver(Upto(i)), BestOver(Upto(j)))
  BY <1>0, BestGrows
<1>2. now = BestOver(Upto(L)) /\ now \in Marks /\ Marks \subseteq Int \cup {NoScore} /\ NoScore \notin Scores
  <2>1. now = BestOver(Upto(L))
    BY <1>1, Zenon
  <2>2. BestOver(Upto(L)) \in Marks
    BY <1>0, <1>1
  <2>. QED
    BY <2>1, <2>2, ReplayConfig DEF Marks
<1>3. \/ L = 1 /\ TrackNow = Tracked(Untracked)
      \/ L > 1 /\ TrackNow = Tracked(track) /\ TrackedTo(track, track.size)
  <2>1. CASE track = Untracked /\ L = 1
    BY <2>1 DEF TrackNow
  <2>2. CASE L > 1 /\ TrackedTo(track, track.size)
    <3>1. Revealed # {Root}
      BY <1>0, <2>2, RevealedIs
    <3>. QED
      BY <2>2, <3>1 DEF TrackNow
  <2>. QED
    BY <2>1, <2>2 DEF TrackInd
<1>. HIDE DEF now, L
<1>4. CASE L = 1 /\ TrackNow = Tracked(Untracked)
  <2>1. /\ TrackNow.best = now /\ TrackNow.size = L /\ TrackNow.stagnant = 0
    <3>1. CASE Gained(now, NoScore)
      BY <1>4, <3>1 DEF Tracked, Untracked, now, L
    <3>2. CASE ~Gained(now, NoScore)
      <4>1. now = NoScore
        BY <3>2 DEF Gained
      <4>. QED
        BY <1>4, <3>2, <4>1 DEF Tracked, Untracked, now, L
    <3>. QED
      BY <3>1, <3>2
  <2>2. \A i \in 1 .. L - 1 : FALSE
    BY <1>4
  <2>3. /\ TrackNow.size = L /\ L \in 1 .. L
        /\ TrackNow.best = BestOver(Upto(L))
        /\ TrackNow.stagnant \in 0 .. L - 1
    BY <1>2, <1>4, <2>1
  <2>4. \A i \in 1 .. L - 1 : Gains(i) => TrackNow.stagnant <= L - 1 - i
    BY <2>2
  <2>. QED
    BY <2>3, <2>4, Zenon DEF TrackedTo, L
<1>5. CASE L > 1 /\ TrackNow = Tracked(track) /\ TrackedTo(track, track.size)
  <2>1. PICK z, g, b : z = track.size /\ g = track.stagnant /\ b = track.best
    OBVIOUS
  <2>2. /\ z \in 1 .. L /\ b = BestOver(Upto(z)) /\ g \in 0 .. z - 1
        /\ \A i \in 1 .. z - 1 : Gains(i) => g <= z - 1 - i
    BY <1>5, <2>1 DEF TrackedTo, L
  <2>3. TrackNow = IF Gained(now, b) THEN [best |-> now, size |-> L, stagnant |-> 0]
                   ELSE [best |-> b, size |-> L, stagnant |-> IF z # 0 /\ L > z THEN g + 1 ELSE g]
    BY <1>5, <2>1 DEF Tracked, now, L
  <2>4. CASE Gained(now, b)
    <3>1. TrackNow.best = now /\ TrackNow.size = L /\ TrackNow.stagnant = 0
      BY <2>3, <2>4
    <3>2. \A i \in 1 .. L - 1 : 0 <= L - 1 - i
      BY <1>0
    <3>. QED
      BY <1>0, <1>2, <3>1, <3>2 DEF TrackedTo, L
  <2>5. CASE ~Gained(now, b)
    <3>1. TrackNow.best = b /\ TrackNow.size = L /\ TrackNow.stagnant = (IF L > z THEN g + 1 ELSE g)
      BY <2>2, <2>3, <2>5
    <3>2. PICK n \in Nat : n = TrackNow.stagnant /\ (L > z => n = g + 1) /\ (L = z => n = g)
      BY <2>2, <3>1
    <3>3. b \in Marks /\ Over(b, now) /\ (now # NoScore => b # NoScore /\ ~(now > b))
      BY <1>0, <1>1, <1>2, <2>2, <2>5 DEF Gained
    <3>4. b = now
      BY <1>2, <3>3 DEF Over
    <3>5. n \in 0 .. L - 1
      BY <1>0, <2>2, <3>2
    <3>6. ASSUME NEW i \in 1 .. L - 1, Gains(i) PROVE n <= L - 1 - i
      <4>1. i \in 1 .. L /\ i + 1 \in 1 .. L
        BY <1>0
      <4>2. CASE i <= z - 1
        <5>1. i \in 1 .. z - 1
          BY <1>0, <2>2, <4>2
        <5>2. g <= z - 1 - i
          BY <2>2, <3>6, <5>1
        <5>. QED
          BY <1>0, <2>2, <3>2, <5>2
      <4>3. CASE ~(i <= z - 1)
        <5>1. PICK x, y : x = BestOver(Upto(i)) /\ y = BestOver(Upto(i + 1))
          OBVIOUS
        <5>2. z \in 1 .. L /\ L \in 1 .. L /\ z <= i /\ i + 1 <= L
          BY <1>0, <2>2, <4>1, <4>3
        <5>3. x \in Marks /\ y \in Marks /\ Over(b, x) /\ Over(y, now)
          BY <1>1, <1>2, <2>2, <4>1, <5>1, <5>2
        <5>4. y # NoScore /\ (x = NoScore \/ y > x)
          BY <3>6, <5>1 DEF Gains, Gained
        <5>5. b # NoScore /\ y <= b
          BY <3>4, <5>3, <5>4 DEF Over
        <5>6. x # NoScore /\ b <= x
          BY <5>3, <5>5 DEF Over
        <5>7. x \in Int /\ y \in Int /\ b \in Int
          BY <1>2, <3>3, <5>3, <5>4, <5>5, <5>6
        <5>. QED
          BY <5>4, <5>5, <5>6, <5>7
      <4>. QED
        BY <4>2, <4>3
    <3>7. L \in 1 .. L
      BY <1>0
    <3>. QED
      BY <1>2, <3>1, <3>2, <3>4, <3>5, <3>6, <3>7 DEF TrackedTo, L
  <2>. QED
    BY <2>4, <2>5
<1>. QED
  BY <1>3, <1>4, <1>5 DEF L

\* The rounds since a gain, as the curve counts them, reach back to some gain or to the start.
LEMMA SinceGainIs ==
  ASSUME BaseInd, NoneOdd
  PROVE  \E m \in 0 .. Len(curve) : SinceGain = Len(curve) - m /\ (m = 0 \/ Gains(m))
<1>. DEFINE n == Len(curve)
            before(i) == IF i = 1 THEN score[Root] ELSE curve[i - 1].best
            gains == {0} \cup {i \in DOMAIN curve : Gained(curve[i].best, before(i))}
<1>0. World /\ OrderInd /\ CurveInd
  BY DEF BaseInd, ReplayInd
<1>1. SinceGain = n - Max(gains)
  BY DEF SinceGain
<1>2. n \in Nat /\ DOMAIN curve = 1 .. n /\ Len(revealed) = n + 1 /\ \A i \in DOMAIN curve : Point(i)
  BY <1>0 DEF CurveInd
<1>3. BestOver(Upto(1)) = score[Root]
  BY <1>0, BestGrows
<1>4. ASSUME NEW i \in 1 .. n PROVE Gained(curve[i].best, before(i)) <=> Gains(i)
  <2>1. curve[i].best = BestOver(Upto(i + 1))
    BY <1>2 DEF Point
  <2>2. before(i) = BestOver(Upto(i))
    <3>1. CASE i = 1
      BY <1>3, <3>1
    <3>2. CASE i # 1
      <4>1. i - 1 \in DOMAIN curve /\ (i - 1) + 1 = i
        BY <1>2, <3>2
      <4>2. curve[i - 1].best = BestOver(Upto((i - 1) + 1))
        BY <1>2, <4>1 DEF Point
      <4>. QED
        BY <3>2, <4>1, <4>2
    <3>. QED
      BY <3>1, <3>2
  <2>. HIDE DEF before
  <2>. QED
    BY <2>1, <2>2 DEF Gains
<1>5. gains \in SUBSET (0 .. n) /\ gains # {}
  BY <1>2
<1>6. \A i \in gains : i = 0 \/ Gains(i)
  BY <1>2, <1>4
<1>. HIDE DEF gains, n
<1>7. PICK m \in gains : \A k \in gains : k <= m
  BY <1>2, <1>5, Greatest
<1>8. Max(gains) \in gains
  <2>1. \A k \in gains : m >= k
    BY <1>2, <1>5, <1>7
  <2>. QED
    BY <1>7, <2>1 DEF Max
<1>. QED
  BY <1>1, <1>5, <1>6, <1>8 DEF n

\* The first round reveals something.
LEMMA FirstGrows ==
  ASSUME BaseInd, NEW s, RevealStep(s)
  PROVE  /\ Len(revealed') > 1
         /\ Len(revealed') >= Len(revealed)
         /\ \A n \in 1 .. Len(revealed) : Upto(n)' = Upto(n)
<1>0. ReplayInd /\ LoopWorld /\ World /\ OrderInd
  BY DEF BaseInd, ReplayInd
<1>1. /\ Len(revealed') = Len(revealed) + Len(New(Asked(s))) /\ Len(New(Asked(s))) \in Nat
      /\ Revealed' = Revealed \cup ToSet(New(Asked(s)))
      /\ revealed' = revealed \o New(Asked(s)) /\ Asked(s) \in Seq(Nat) /\ Asked(s) # <<>>
  BY <1>0, RevealIs
<1>2. Len(revealed) \in Nat /\ Len(revealed) >= 1 /\ (Len(revealed) = 1 <=> Revealed = {Root})
  BY <1>0, RevealedIs
<1>3. PICK b : b = New(Asked(s))
  OBVIOUS
<1>4. b \in Seq(Nodes(parent) \ Revealed)
  BY <1>0, <1>1, <1>3, ShownIs, NewIs
<1>5. ASSUME Len(revealed) = 1, Len(revealed') = 1 PROVE FALSE
  <2>1. ClosedNow' = ClosedNow \cup ToSet(Asked(s))
    BY <1>5, NothingCloses
  <2>2. b = <<>>
    BY <1>1, <1>2, <1>3, <1>4, <1>5
  <2>3. Revealed' = {Root}
    BY <1>1, <1>2, <1>3, <1>5, <2>2 DEF ToSet
  <2>4. ClosedNow' = {}
    BY <2>3 DEF ClosedNow
  <2>5. PICK a : a = Asked(s)
    OBVIOUS
  <2>6. 1 \in DOMAIN a /\ a[1] \in ToSet(a)
    BY <1>1, <2>5 DEF ToSet
  <2>. QED
    BY <2>1, <2>4, <2>5, <2>6
<1>6. \A n \in 1 .. Len(revealed) : Upto(n)' = Upto(n)
  <2>1. revealed \in Seq(Nodes(parent))
    BY <1>0 DEF OrderInd
  <2>2. b \in Seq(Nodes(parent))
    <3>1. b \in [1 .. Len(b) -> Nodes(parent) \ Revealed] /\ Len(b) \in Nat
      BY <1>4
    <3>2. b \in [1 .. Len(b) -> Nodes(parent)]
      BY <3>1
    <3>. QED
      BY <3>1, <3>2
  <2>3. \A i \in 1 .. Len(revealed) : revealed'[i] = revealed[i]
    <3>1. PICK c : c = revealed \o b
      OBVIOUS
    <3>2. \A i \in 1 .. Len(revealed) : c[i] = revealed[i]
      BY <2>1, <2>2, <3>1, Joined
    <3>. QED
      BY <1>1, <1>3, <3>1, <3>2
  <2>. SUFFICES ASSUME NEW n \in 1 .. Len(revealed) PROVE Upto(n)' = Upto(n)
    OBVIOUS
  <2>4. \A j \in 1 .. n : revealed'[j] = revealed[j]
    BY <1>2, <2>3
  <2>. QED
    BY <2>4 DEF Upto
<1>7. Len(revealed') >= Len(revealed) /\ Len(revealed') \in Nat
  BY <1>1, <1>2
<1>8. Len(revealed') > 1
  BY <1>2, <1>5, <1>7
<1>. QED
  BY <1>6, <1>7, <1>8, Zenon

\* A policy that was reset has tracked nothing.
LEMMA TrackStarts ==
  ASSUME InitLoop
  PROVE  TrackInd
<1>1. Len(revealed) = 1
  BY BaseStarts
<1>2. driver # "hand" => track = Untracked
  <2>1. PICK held \in IF driver = "hand" THEN Leftovers(policy) ELSE {Forgotten} :
          closed = held.closed /\ selected = held.selected /\ track = held.track
    BY DEF InitLoop
  <2>. QED
    BY <2>1 DEF Forgotten
<1>. QED
  BY <1>1, <1>2 DEF TrackInd

\* What it has tracked after a decision stays true of the tree as it grows.
LEMMA TrackKept ==
  ASSUME BaseInd, TrackInd, NextLoop
  PROVE  TrackInd'
<1>0. ReplayInd /\ LoopWorld /\ MemoryInd /\ World /\ OrderInd
  BY DEF BaseInd, ReplayInd
<1>1. ASSUME NEW reason \in Stopped, QuietStep(reason) PROVE TrackInd'
  <2>1. ~Running'
    BY <1>0, <1>1, QuietIs
  <2>. QED
    BY <2>1 DEF TrackInd
<1>2. ASSUME NEW s, RefuseStep(s) \/ DeclineStep(s) PROVE TrackInd'
  <2>1. ~Running'
    BY <1>0, <1>2, EndIs
  <2>. QED
    BY <2>1 DEF TrackInd
<1>3. ASSUME NEW s, RevealStep(s) PROVE TrackInd'
  <2>1. /\ Running /\ parent' = parent /\ score' = score
    BY <1>0, <1>3, RevealIs
  <2>2. Played(s)
    BY <1>3 DEF RevealStep
  <2>3. /\ policy' = policy /\ driver' = driver
        /\ track' = IF policy.choose = "budget" THEN TrackNow ELSE track
    BY <1>0, <2>1, <2>2, PlayedIs
  <2>. SUFFICES ASSUME policy.choose = "budget", driver # "hand"
                PROVE  Len(revealed') > 1 /\ TrackedTo(track, track.size)'
    BY <2>3 DEF TrackInd
  <2>4. PICK t, n : t = TrackNow /\ n = Len(revealed)
    OBVIOUS
  <2>5. track' = t /\ TrackedTo(t, n)
    BY <2>1, <2>3, <2>4, TrackNowIs
  <2>6. /\ t.size = n /\ n \in 1 .. Len(revealed) /\ t.best = BestOver(Upto(n)) /\ t.stagnant \in 0 .. n - 1
        /\ \A i \in 1 .. n - 1 : Gains(i) => t.stagnant <= n - 1 - i
    BY <2>5 DEF TrackedTo
  <2>7. /\ Len(revealed') > 1 /\ Len(revealed') >= n
        /\ \A i \in 1 .. n : Upto(i)' = Upto(i)
    BY <1>3, <2>4, FirstGrows
  <2>8. \A i \in 1 .. n : BestOver(Upto(i))' = BestOver(Upto(i))
    BY <2>1, <2>7 DEF BestOver
  <2>9. n \in Nat /\ n >= 1 /\ Len(revealed') \in Nat
    <3>1. Len(revealed) \in Nat /\ Len(revealed) >= 1
      BY <1>0, RevealedIs
    <3>2. revealed' \in Seq(Nodes(parent'))
      BY <1>0, <1>3, RevealIs DEF ReplayInd, OrderInd
    <3>. QED
      BY <2>4, <3>1, <3>2
  <2>10. \A i \in 1 .. n - 1 : Gains(i)' <=> Gains(i)
    <3>1. \A i \in 1 .. n - 1 : i \in 1 .. n /\ i + 1 \in 1 .. n
      BY <2>9
    <3>2. ASSUME NEW i \in 1 .. n - 1 PROVE Gains(i)' <=> Gains(i)
      <4>1. BestOver(Upto(i))' = BestOver(Upto(i)) /\ BestOver(Upto(i + 1))' = BestOver(Upto(i + 1))
        BY <2>8, <3>1
      <4>. QED
        BY <4>1 DEF Gains, Gained
    <3>. QED
      BY <3>2
  <2>11. n \in 1 .. Len(revealed')
    BY <2>7, <2>9
  <2>12. t.best = BestOver(Upto(n))'
    BY <2>6, <2>8, <2>9
  <2>13. \A i \in 1 .. n - 1 : Gains(i)' => t.stagnant <= n - 1 - i
    BY <2>6, <2>10
  <2>14. TrackedTo(track, track.size)' <=>
           /\ n \in 1 .. Len(revealed') /\ t.best = BestOver(Upto(n))' /\ t.stagnant \in 0 .. n - 1
           /\ \A i \in 1 .. n - 1 : Gains(i)' => t.stagnant <= n - 1 - i
    BY <2>5, <2>6, Zenon DEF TrackedTo
  <2>. QED
    BY <2>6, <2>7, <2>11, <2>12, <2>13, <2>14
<1>. QED
  BY <1>0, <1>1, <1>2, <1>3, StepIs

CauseInd == BaselinesStopForCause

\* The allowance and the patience of a beta are numbers.
LEMMA AllowanceIs ==
  ASSUME LoopWorld, policy.choose = "budget"
  PROVE  Allowance(policy.beta) \in Nat /\ Patience(policy.beta) \in Int
<1>1. PICK b \in Nat : b = policy.beta
  BY PolicyIs
<1>2. Allowance(b) \in Nat
  BY DEF Allowance, Greater
<1>3. RoundTwice(b) \in Int
  BY DEF RoundTwice
<1>4. Patience(b) \in Int
  BY <1>3 DEF Patience, Greater
<1>. QED
  BY <1>1, <1>2, <1>4

\* What a baseline declines for.
LEMMA DeclineIs ==
  ASSUME BaseInd, ClosedIsExhausted, TrackInd, CauseInd, NEW s, DeclineStep(s), policy.choose # "any"
  PROVE  /\ policy.choose \in {"breadth", "greedy"} => \A v \in Frontier : Children(parent, v) \subseteq Revealed
         /\ policy.choose = "budget" /\ driver # "hand" =>
              \/ Len(curve) = Allowance(policy.beta)
              \/ SinceGain >= Patience(policy.beta)
              \/ \A v \in Frontier : Children(parent, v) \subseteq Revealed \/ (v # Root /\ Anchor(v) = NoScore)
<1>0. ReplayInd /\ LoopWorld /\ MemoryInd /\ World /\ OrderInd
  BY DEF BaseInd, ReplayInd
<1>1. s = <<>> /\ s \in Answered(Offer) /\ ~Exhausted /\ Running
  BY DEF DeclineStep, Played
<1>2. /\ policy.choose \in {"breadth", "greedy"} /\ s = <<>> => Live = {}
      /\ policy.choose = "budget" => Allowance(policy.beta) \in Nat
      /\ policy.choose = "budget" /\ s = <<>> =>
              \/ Allowance(policy.beta) <= Len(revealed) - 1
              \/ TrackNow.stagnant >= Patience(policy.beta)
              \/ Root \notin Live /\ \A v \in Live : Anchor(v) = NoScore
  BY <1>0, <1>1, BaselineAnswers
<1>3. \A v \in ClosedNow : Children(parent, v) \subseteq Revealed
  BY <1>1 DEF ClosedIsExhausted
<1>4. \A v \in Frontier : v \in Live \/ Children(parent, v) \subseteq Revealed
  BY <1>3 DEF Live
<1>5. /\ Len(curve) \in Nat /\ Len(revealed) = Len(curve) + 1
      /\ policy.choose = "budget" => Len(curve) <= Allowance(policy.beta)
  BY <1>0 DEF ReplayInd, CurveInd, CauseInd, BaselinesStopForCause
<1>6. ASSUME policy.choose = "budget", driver # "hand"
      PROVE  \/ Len(curve) = Allowance(policy.beta)
             \/ SinceGain >= Patience(policy.beta)
             \/ \A v \in Frontier : Children(parent, v) \subseteq Revealed \/ (v # Root /\ Anchor(v) = NoScore)
  <2>1. CASE Allowance(policy.beta) <= Len(revealed) - 1
    BY <1>2, <1>5, <1>6, <2>1
  <2>2. CASE TrackNow.stagnant >= Patience(policy.beta)
    <3>1. TrackedTo(TrackNow, Len(revealed))
      BY <1>1, <1>6, TrackNowIs
    <3>2. PICK g, n : g = TrackNow.stagnant /\ n = Len(curve)
      OBVIOUS
    <3>3. /\ g \in 0 .. n /\ n \in Nat
          /\ \A i \in 1 .. n : Gains(i) => g <= n - i
      <4>1. /\ g \in 0 .. Len(revealed) - 1
            /\ \A i \in 1 .. Len(revealed) - 1 : Gains(i) => g <= Len(revealed) - 1 - i
        BY <3>1, <3>2 DEF TrackedTo
      <4>2. Len(revealed) - 1 = n
        BY <1>5, <3>2
      <4>. QED
        BY <1>5, <3>2, <4>1, <4>2
    <3>4. NoneOdd
      BY <1>0, <1>6 DEF LoopWorld
    <3>5. PICK m \in 0 .. n : SinceGain = n - m /\ (m = 0 \/ Gains(m))
      BY <3>2, <3>4, SinceGainIs
    <3>6. g <= n - m
      <4>1. CASE m = 0
        BY <3>3, <4>1
      <4>2. CASE m # 0
        <5>1. m \in 1 .. n
          BY <3>3, <4>2
        <5>. QED
          BY <3>3, <3>5, <4>2, <5>1
      <4>. QED
        BY <4>1, <4>2
    <3>7. Patience(policy.beta) \in Int
      BY <1>0, <1>6, AllowanceIs
    <3>8. g >= Patience(policy.beta)
      BY <2>2, <3>2
    <3>. QED
      BY <3>3, <3>5, <3>6, <3>7, <3>8
  <2>3. CASE Root \notin Live /\ \A v \in Live : Anchor(v) = NoScore
    BY <1>4, <2>3
  <2>. QED
    BY <1>1, <1>2, <1>6, <2>1, <2>2, <2>3
<1>. QED
  BY <1>1, <1>2, <1>4, <1>6

\* No run starts with its allowance spent.
LEMMA CauseStarts ==
  ASSUME InitLoop
  PROVE  CauseInd
<1>1. LoopWorld /\ curve = <<>> /\ stop # "empty_batch"
  BY BaseStarts DEF BaseInd, InitLoop, Start
<1>2. policy.choose = "budget" => Allowance(policy.beta) \in Nat
  BY <1>1, AllowanceIs
<1>. QED
  BY <1>1, <1>2 DEF CauseInd, BaselinesStopForCause

\* A baseline that stops does so for cause, and never goes past its allowance.
LEMMA CauseKept ==
  ASSUME BaseInd, ClosedIsExhausted, TrackInd, CauseInd, NextLoop
  PROVE  CauseInd'
<1>0. ReplayInd /\ LoopWorld /\ MemoryInd /\ World /\ OrderInd
  BY DEF BaseInd, ReplayInd
<1>1. policy.choose = "budget" => Len(curve) <= Allowance(policy.beta)
  BY DEF CauseInd, BaselinesStopForCause
<1>2. ASSUME NEW reason \in Stopped, QuietStep(reason) PROVE CauseInd'
  <2>1. stop' = reason /\ curve' = curve /\ UNCHANGED policyVars
    BY <1>0, <1>2, QuietIs
  <2>2. reason # "empty_batch"
    BY <1>2 DEF QuietStep
  <2>. QED
    BY <1>1, <2>1, <2>2 DEF CauseInd, BaselinesStopForCause, policyVars, loopVars, Allowance
<1>3. ASSUME NEW s, RefuseStep(s) PROVE CauseInd'
  <2>1. stop' = "raised" /\ curve' = curve /\ Played(s) /\ parent' = parent /\ score' = score
    BY <1>0, <1>3, EndIs
  <2>2. policy' = policy
    BY <1>0, <2>1, PlayedIs
  <2>. QED
    BY <1>1, <2>1, <2>2 DEF CauseInd, BaselinesStopForCause, Allowance
<1>4. ASSUME NEW s, RevealStep(s) PROVE CauseInd'
  <2>1. /\ Running' /\ Running /\ parent' = parent /\ score' = score /\ ReplayInd'
        /\ Len(revealed') = Len(revealed) + Len(New(Asked(s)))
        /\ Len(New(Asked(s))) \in Nat /\ Len(New(Asked(s))) <= Len(Asked(s))
        /\ Asked(s) # <<>> /\ ToSet(Asked(s)) \subseteq ToSet(s)
    BY <1>0, <1>4, RevealIs
  <2>2. Played(s) /\ s \in Answered(Offer) /\ ~Exhausted
    BY <1>4 DEF RevealStep, Played
  <2>3. policy' = policy
    BY <1>0, <2>1, <2>2, PlayedIs
  <2>4. stop' # "empty_batch"
    BY <2>1 DEF Running
  <2>5. ASSUME policy.choose = "budget" PROVE Len(curve') <= Allowance(policy.beta)
    <3>1. Asked(s) = s
      BY <2>2, <2>5, BaselineLegal
    <3>2. Len(s) <= Allowance(policy.beta) - (Len(revealed) - 1) /\ Allowance(policy.beta) \in Nat
      BY <1>0, <2>1, <2>2, <2>5, <3>1, BaselineAnswers
    <3>3. Len(curve') \in Nat /\ Len(revealed') = Len(curve') + 1
      BY <2>1 DEF ReplayInd, CurveInd
    <3>4. Len(revealed) \in Nat /\ Len(s) \in Nat
      BY <1>0, <2>2, RevealedIs, AnswersAre
    <3>5. Len(New(Asked(s))) \in Nat /\ Len(New(Asked(s))) <= Len(s)
      BY <2>1, <3>1
    <3>. QED
      BY <2>1, <3>2, <3>3, <3>4, <3>5
  <2>. QED
    BY <2>3, <2>4, <2>5 DEF CauseInd, BaselinesStopForCause, Allowance
<1>5. ASSUME NEW s, DeclineStep(s) PROVE CauseInd'
  <2>1. ~RefuseStep(s)
    BY <1>5 DEF RefuseStep, DeclineStep, Refuse, StopFor
  <2>2. stop' = "empty_batch" /\ curve' = curve /\ Played(s) /\ parent' = parent /\ score' = score
        /\ revealed' = revealed /\ Revealed' = Revealed
    BY <1>0, <1>5, <2>1, EndIs
  <2>3. policy' = policy /\ driver' = driver
    BY <1>0, <2>2, PlayedIs
  <2>4. SinceGain' = SinceGain
    BY <2>2 DEF SinceGain, Gained
  <2>5. Frontier' = Frontier
    BY <2>2 DEF Frontier
  <2>6. \A v : Path(v)' = Path(v)
    BY <2>2 DEF Path
  <2>7. \A v : Anchor(v)' = Anchor(v)
    BY <2>2, <2>6 DEF Anchor, BestOver
  <2>8. policy.choose # "any" =>
         /\ policy.choose \in {"breadth", "greedy"} => \A v \in Frontier : Children(parent, v) \subseteq Revealed
         /\ policy.choose = "budget" /\ driver # "hand" =>
              \/ Len(curve) = Allowance(policy.beta)
              \/ SinceGain >= Patience(policy.beta)
              \/ \A v \in Frontier : Children(parent, v) \subseteq Revealed \/ (v # Root /\ Anchor(v) = NoScore)
    BY <1>5, DeclineIs
  <2>9. /\ Allowance(policy.beta)' = Allowance(policy.beta)
        /\ Patience(policy.beta)' = Patience(policy.beta)
    BY <2>3 DEF Allowance, Patience, RoundTwice, Greater
  <2>. QED
    BY <1>1, <2>2, <2>3, <2>4, <2>5, <2>7, <2>8, <2>9 DEF CauseInd, BaselinesStopForCause
<1>. QED
  BY <1>0, <1>2, <1>3, <1>4, <1>5, StepIs

-----------------------------------------------------------------------------
(* The signals.                                                              *)

\* A node is the last of its own path, and its parent the one before it.
LEMMA TipIs ==
  ASSUME World, NEW v \in Nodes(parent), v # Root
  PROVE  /\ Level(v) \in Nat \ {0} /\ DOMAIN Path(v) = 1 .. Level(v)
         /\ Path(v)[Level(v)] = v
         /\ parent[v] # Root => Level(v) >= 2 /\ Path(v)[Level(v) - 1] = parent[v]
<1>. DEFINE D == DOMAIN parent
<1>0. /\ \A u \in Nodes(parent) : Path(u) \in Seq(D)
      /\ \A u \in D : parent[u] \in Nodes(parent) /\ Path(u) = Append(Path(parent[u]), u)
  BY PathIs DEF World
<1>1. Nodes(parent) = {Root} \cup D
  BY DEF World, Nodes, Root
<1>. HIDE DEF D
<1>2. ASSUME NEW u \in D
      PROVE  /\ Len(Path(u)) \in Nat \ {0} /\ DOMAIN Path(u) = 1 .. Len(Path(u))
             /\ Path(u)[Len(Path(u))] = u
             /\ Len(Path(u)) = Len(Path(parent[u])) + 1
             /\ \A i \in 1 .. Len(Path(parent[u])) : Path(u)[i] = Path(parent[u])[i]
  <2>1. PICK p, q : p = Path(parent[u]) /\ q = Path(u)
    OBVIOUS
  <2>2. p \in Seq(D) /\ q = Append(p, u)
    BY <1>0, <2>1
  <2>3. Len(p) \in Nat /\ Len(q) = Len(p) + 1 /\ q \in Seq(D) /\ DOMAIN q = 1 .. Len(q)
        /\ q[Len(p) + 1] = u /\ \A i \in 1 .. Len(p) : q[i] = p[i]
    BY <2>2
  <2>. QED
    BY <2>1, <2>3
<1>3. v \in D
  BY <1>1
<1>4. ASSUME parent[v] # Root PROVE Len(Path(v)) >= 2 /\ Path(v)[Len(Path(v)) - 1] = parent[v]
  <2>1. parent[v] \in D
    BY <1>0, <1>1, <1>3, <1>4
  <2>2. PICK k \in Nat \ {0} : k = Len(Path(parent[v]))
    BY <1>2, <2>1
  <2>3. Path(parent[v])[k] = parent[v] /\ k \in 1 .. Len(Path(parent[v]))
    BY <1>2, <2>1, <2>2
  <2>4. Len(Path(v)) = k + 1 /\ Path(v)[k] = parent[v]
    BY <1>2, <1>3, <2>2, <2>3
  <2>5. Len(Path(v)) - 1 = k /\ Len(Path(v)) >= 2
    BY <2>4
  <2>. QED
    BY <2>4, <2>5
<1>. QED
  BY <1>2, <1>3, <1>4 DEF Level

\* The signals of a branch agree, whatever is revealed.
LEMMA SignalsIs ==
  ASSUME World, OrderInd
  PROVE  SignalsAgree
<1>. SUFFICES ASSUME NEW v \in Frontier \ {Root}, NEW n \in 1 .. Len(Path(v))
              PROVE  /\ Promising(v, n) => /\ \E w \in Tip(v, n) : ImprovedVsBaseline(w, NoScore)
                                           /\ \A m \in n .. Len(Path(v)) : Promising(v, m)
                     /\ ImprovedVsParent(v) => Promising(v, n)
                     /\ n >= 2 /\ parent[v] # Root /\ ImprovedVsParent(parent[v]) => Promising(v, n)
                     /\ FailedHard(v, n) => \A m \in 1 .. n : ~Promising(v, m)
  BY DEF SignalsAgree
<1>1. v \in Nodes(parent) /\ v # Root
  BY FrontierIs, RevealedIs
<1>2. PICK k \in Nat \ {0} : /\ k = Level(v) /\ k = Len(Path(v)) /\ DOMAIN Path(v) = 1 .. k /\ Path(v)[k] = v
                             /\ parent[v] # Root => k >= 2 /\ Path(v)[k - 1] = parent[v]
  BY <1>1, TipIs DEF Level
<1>3. n \in 1 .. k /\ n \in Nat
  BY <1>2
<1>4. \A m : Tip(v, m) = {Path(v)[i] : i \in {j \in 1 .. k : j > k - m}}
  BY <1>2 DEF Tip
<1>5. ASSUME NEW l \in 1 .. k, NEW m \in l .. k PROVE Tip(v, l) \subseteq Tip(v, m)
  <2>1. \A j \in 1 .. k : j > k - l => j > k - m
    BY <1>5
  <2>. QED
    BY <1>4, <2>1
<1>6. \A m : Promising(v, m) <=> \E w \in Tip(v, m) : ImprovedVsParent(w)
  BY DEF Promising
<1>7. ASSUME NEW l \in 1 .. k, NEW m \in l .. k, Promising(v, l) PROVE Promising(v, m)
  BY <1>5, <1>6, <1>7
<1>8. ASSUME Promising(v, n) PROVE \E w \in Tip(v, n) : ImprovedVsBaseline(w, NoScore)
  <2>1. PICK w \in Tip(v, n) : ImprovedVsParent(w)
    BY <1>6, <1>8
  <2>2. ImprovedVsBaseline(w, NoScore)
    BY <2>1 DEF ImprovedVsParent, ImprovedVsBaseline, Gained
  <2>. QED
    BY <2>2
<1>9. ASSUME ImprovedVsParent(v) PROVE Promising(v, n)
  <2>1. k \in 1 .. k /\ k > k - n
    BY <1>3
  <2>2. v \in Tip(v, n)
    BY <1>2, <1>4, <2>1
  <2>. QED
    BY <1>6, <1>9, <2>2
<1>10. ASSUME n >= 2, parent[v] # Root, ImprovedVsParent(parent[v]) PROVE Promising(v, n)
  <2>1. k - 1 \in 1 .. k /\ k - 1 > k - n
    BY <1>2, <1>3, <1>10
  <2>2. Path(v)[k - 1] \in Tip(v, n)
    BY <1>4, <2>1
  <2>3. parent[v] \in Tip(v, n)
    BY <1>2, <1>10, <2>2
  <2>. QED
    BY <1>6, <1>10, <2>3
<1>11. ASSUME FailedHard(v, n), NEW m \in 1 .. n PROVE ~Promising(v, m)
  <2>1. \A w \in Tip(v, n) : score[w] = NoScore
    BY <1>11 DEF FailedHard
  <2>2. m \in 1 .. k /\ n \in m .. k
    BY <1>3
  <2>3. Tip(v, m) \subseteq Tip(v, n)
    BY <1>5, <2>2
  <2>4. \A w \in Tip(v, m) : ~ImprovedVsParent(w)
    BY <2>1, <2>3 DEF ImprovedVsParent, Gained
  <2>. QED
    BY <1>6, <2>4
<1>12. Promising(v, n) => \A m \in n .. Len(Path(v)) : Promising(v, m)
  BY <1>2, <1>3, <1>7
<1>. QED
  BY <1>8, <1>9, <1>10, <1>11, <1>12

-----------------------------------------------------------------------------
(* The invariant.                                                            *)

LoopInd ==
  /\ BaseInd
  /\ ClosedIsExhausted
  /\ SolveInd
  /\ LegalInd
  /\ TrackInd
  /\ CauseInd

\* The invariant holds where a loop starts.
LEMMA LoopStarts ==
  ASSUME InitLoop
  PROVE  LoopInd
<1>1. BaseInd /\ Len(revealed) = 1
  BY BaseStarts
<1>2. ClosedIsExhausted
  <2>1. World /\ OrderInd
    BY <1>1 DEF BaseInd, ReplayInd
  <2>2. Revealed = {Root}
    BY <1>1, <2>1, RevealedIs
  <2>3. ClosedNow = {}
    BY <2>2 DEF ClosedNow
  <2>. QED
    BY <2>3 DEF ClosedIsExhausted
<1>. QED
  BY <1>1, <1>2, SolveStarts, LegalStarts, TrackStarts, CauseStarts DEF LoopInd

\* And every step keeps it.
LEMMA LoopKept ==
  ASSUME LoopInd, [NextLoop]_<<vars, policyVars>>
  PROVE  LoopInd'
<1>0. BaseInd /\ ClosedIsExhausted /\ SolveInd /\ LegalInd /\ TrackInd /\ CauseInd
  BY DEF LoopInd
<1>1. BaseInd'
  BY <1>0, BaseKept
<1>2. CASE UNCHANGED <<vars, policyVars>>
  <2>1. UNCHANGED <<parent, score, revealed, rounds, last, wasted, logged, curve, best, stop>>
    BY <1>2 DEF vars, log
  <2>2. UNCHANGED <<policy, driver, budget, barren, size, closed, selected, track, strayed>>
    BY <1>2 DEF policyVars, memory, loopVars
  <2>3. Revealed' = Revealed /\ Frontier' = Frontier /\ (Running' <=> Running)
    BY <2>1 DEF Revealed, Frontier, Running
  <2>4. ClosedNow' = ClosedNow
    BY <2>1, <2>2, <2>3 DEF ClosedNow, ChildCount
  <2>5. ClosedIsExhausted'
    BY <1>0, <2>1, <2>3, <2>4 DEF ClosedIsExhausted
  <2>6. SolveInd'
    <3>1. Spent' = Spent
      BY <2>1 DEF Spent
    <3>. QED
      BY <1>0, <2>1, <2>2, <2>3, <2>4, <3>1, Zenon DEF SolveInd
  <2>7. LegalInd'
    BY <1>0, <2>1, <2>2 DEF LegalInd
  <2>8. \A i : Upto(i)' = Upto(i)
    BY <2>1 DEF Upto
  <2>9. TrackInd'
    <3>1. \A i : BestOver(Upto(i))' = BestOver(Upto(i))
      BY <2>1, <2>8 DEF BestOver
    <3>2. \A i : Gains(i)' <=> Gains(i)
      BY <3>1 DEF Gains, Gained
    <3>3. TrackedTo(track, track.size)' <=> TrackedTo(track, track.size)
      BY <2>1, <2>2, <3>1, <3>2 DEF TrackedTo
    <3>. QED
      BY <1>0, <2>1, <2>2, <2>3, <3>3 DEF TrackInd
  <2>10. CauseInd'
    <3>1. SinceGain' = SinceGain
      BY <2>1 DEF SinceGain, Gained
    <3>2. \A v : Path(v)' = Path(v)
      BY <2>1 DEF Path
    <3>3. \A v : Anchor(v)' = Anchor(v)
      BY <2>1, <3>2 DEF Anchor, BestOver
    <3>4. /\ Allowance(policy.beta)' = Allowance(policy.beta)
          /\ Patience(policy.beta)' = Patience(policy.beta)
      BY <2>2 DEF Allowance, Patience, RoundTwice, Greater
    <3>. QED
      BY <1>0, <2>1, <2>2, <2>3, <3>1, <3>3, <3>4 DEF CauseInd, BaselinesStopForCause
  <2>. QED
    BY <1>1, <2>5, <2>6, <2>7, <2>9, <2>10 DEF LoopInd
<1>3. CASE NextLoop
  <2>1. LegalInd' /\ TrackInd' /\ CauseInd'
    BY <1>0, <1>3, LegalKept, TrackKept, CauseKept
  <2>2. LoopWorld /\ ReplayInd /\ MemoryInd
    BY <1>0 DEF BaseInd
  <2>3. ASSUME NEW reason \in Stopped, QuietStep(reason) PROVE ClosedIsExhausted' /\ SolveInd'
    <3>1. ~Running'
      BY <2>2, <2>3, QuietIs
    <3>2. SolveInd'
      BY <1>0, <2>3, SolveQuiet
    <3>. QED
      BY <3>1, <3>2 DEF ClosedIsExhausted
  <2>4. ASSUME NEW s, RevealStep(s) PROVE ClosedIsExhausted' /\ SolveInd'
    BY <1>0, <2>4, ClosedKept, SolveReveals
  <2>5. ASSUME NEW s, RefuseStep(s) \/ DeclineStep(s) PROVE ClosedIsExhausted' /\ SolveInd'
    <3>1. ~Running'
      BY <2>2, <2>5, EndIs
    <3>2. SolveInd'
      BY <1>0, <2>5, SolveEnds
    <3>. QED
      BY <3>1, <3>2 DEF ClosedIsExhausted
  <2>6. ClosedIsExhausted' /\ SolveInd'
    BY <1>3, <2>2, <2>3, <2>4, <2>5, StepIs
  <2>. QED
    BY <1>1, <2>1, <2>6 DEF LoopInd
<1>. QED
  BY <1>2, <1>3

\* So it always holds.
LEMMA LoopInvariant ==
  SpecLoop => []LoopInd
<1>1. InitLoop => LoopInd
  BY LoopStarts
<1>2. LoopInd /\ [NextLoop]_<<vars, policyVars>> => LoopInd'
  BY LoopKept
<1>. QED
  BY <1>1, <1>2, PTL DEF SpecLoop

-----------------------------------------------------------------------------
(* What the runs check of it.                                                *)

\* And it is all of what the runs check.
LEMMA LoopIs ==
  ASSUME LoopInd
  PROVE  /\ LoopTypeOK /\ RevealedInOrder /\ TrajectoryReadsBack /\ DefaultCapSpares
         /\ SolveEndsInTime /\ BaselinesAreLegal /\ SignalsAgree
<1>0. /\ BaseInd /\ SolveInd /\ LegalInd
      /\ ReplayInd /\ LoopWorld /\ MemoryInd /\ World /\ OrderInd /\ CurveInd /\ LogInd
  BY DEF LoopInd, BaseInd, ReplayInd
<1>1. LoopTypeOK
  <2>1. Accepts(parent) /\ score \in [Nodes(parent) -> Scores \cup {NoScore, Odd}]
    BY <1>0 DEF World
  <2>2. revealed \in Seq(Nodes(parent)) /\ Len(revealed) = Len(curve) + 1 /\ Len(curve) \in Nat
        /\ best \in Scores \cup {NoScore}
    BY <1>0 DEF OrderInd, CurveInd, Marks
  <2>3. TypeOK
    BY <1>0, <2>1, <2>2 DEF TypeOK, LogInd
  <2>4. /\ driver \in {"replay", "hand", "solve"} /\ budget \in Budgets \cup {NoBudget}
        /\ policy \in {AnyPolicy} \cup Baselines /\ track.stagnant \in Nat
        /\ closed \subseteq Nodes(parent) \cup {1}
        /\ \A v \in DOMAIN selected : selected[v] \in Nat
        /\ barren \in 0 .. rounds /\ size \in 0 .. Len(revealed)
        /\ strayed \in BOOLEAN
    BY <1>0 DEF LoopWorld, MemoryInd, SolveInd
  <2>. QED
    BY <2>3, <2>4 DEF LoopTypeOK
<1>2. RevealedInOrder
  <2>1. Cardinality(Revealed) = Len(revealed)
    BY <1>0, RevealedIs
  <2>2. \A i \in 2 .. Len(revealed) : Placed(i)
    BY <1>0 DEF OrderInd
  <2>. QED
    BY <2>1, <2>2 DEF RevealedInOrder, Placed, Upto
<1>3. TrajectoryReadsBack
  <2>1. RoundReads(last)
    BY <1>0 DEF LogInd, RoundReads
  <2>2. IsNumber(best)
    BY <1>0 DEF CurveInd, IsNumber, Marks
  <2>3. \A i \in DOMAIN curve : curve[i] \in Points /\ Point(i)
    BY <1>0 DEF CurveInd
  <2>4. \A i \in DOMAIN curve : PointReads(curve[i])
    BY <2>3 DEF Points, PointReads, IsNumber, Marks
  <2>5. \A i \in DOMAIN curve : /\ curve[i].node = revealed[i + 1]
                                /\ curve[i].best = BestOver({revealed[j] : j \in 1 .. i + 1})
    BY <2>3 DEF Point, Upto
  <2>6. logged = Len(curve) /\ Len(revealed) = logged + 1 /\ (score[Root] # Odd => best = BestOver(Revealed))
    BY <1>0 DEF LogInd, CurveInd
  <2>. QED
    BY <2>1, <2>2, <2>4, <2>5, <2>6 DEF TrajectoryReadsBack, Loads
<1>4. DefaultCapSpares
  BY <1>0 DEF LogInd
<1>5. SolveEndsInTime
  BY <1>0, Zenon DEF SolveInd, SolveEndsInTime
<1>6. BaselinesAreLegal
  <2>. SUFFICES ASSUME policy.choose # "any"
                PROVE  /\ stop \notin {"raised", "barren"} /\ ~strayed
                       /\ Running /\ ~Exhausted => \A s \in Answered(Offer) : Len(s) <= policy.width /\ AskedOf(s) = s
    BY DEF BaselinesAreLegal
  <2>1. stop # "raised" /\ ~strayed /\ stop # "barren"
    BY <1>0 DEF LegalInd, SolveInd
  <2>2. ASSUME ~Exhausted, NEW s \in Answered(Offer) PROVE Len(s) <= policy.width /\ AskedOf(s) = s
    BY <1>0, <2>2, BaselineLegal
  <2>. QED
    BY <2>1, <2>2
<1>7. SignalsAgree
  BY <1>0, SignalsIs
<1>. QED
  BY <1>1, <1>2, <1>3, <1>4, <1>5, <1>6, <1>7

\* The type invariant of a policy at work under any of the three loops.
THEOREM TypeCorrect ==
  SpecLoop => []LoopTypeOK
<1>1. LoopInd => LoopTypeOK
  BY LoopIs
<1>. QED
  BY <1>1, LoopInvariant, PTL

\* What the policy is shown is a tree again after every round: nothing is revealed twice,
\* no node before its parent, no child before an older sibling, though the world may branch
\* anywhere and number its nodes in any order (replay.py _next_child, reveal).
THEOREM TreesAreTrees ==
  SpecLoop => []RevealedInOrder
<1>1. LoopInd => RevealedInOrder
  BY LoopIs
<1>. QED
  BY <1>1, LoopInvariant, PTL

\* What a replay hands over reads back and describes the replay that ran: one curve point
\* and one logged node to each revealed attempt, and at each point the best score over what
\* was revealed by then (replay.py reveal, _record; SimResult.from_dict).
THEOREM TrajectoriesRead ==
  SpecLoop => []TrajectoryReadsBack
<1>1. LoopInd => TrajectoryReadsBack
  BY LoopIs
<1>. QED
  BY <1>1, LoopInvariant, PTL

\* The default cap is met only after a round that revealed nothing (replay.py on K2).
THEOREM CapsSpare ==
  SpecLoop => []DefaultCapSpares
<1>1. LoopInd => DefaultCapSpares
  BY LoopIs
<1>. QED
  BY <1>1, LoopInvariant, PTL

\* A node the policy is not offered again has no child left to reveal, whatever was cut
\* from a batch, whatever an earlier rollout left, whatever the strategy asked (policy.py
\* select, _close_barren, _keep_selected).
THEOREM ClosedAreDone ==
  SpecLoop => []ClosedIsExhausted
<1>1. LoopInd => ClosedIsExhausted
  BY DEF LoopInd
<1>. QED
  BY <1>1, LoopInvariant, PTL

\* solve stays within its budget and ends after a number of rounds bounded by the size of
\* the world; it gives up as barren only on a strategy that selected what was closed
\* (policy.py solve).
THEOREM SolvingEnds ==
  SpecLoop => []SolveEndsInTime
<1>1. LoopInd => SolveEndsInTime
  BY LoopIs
<1>. QED
  BY <1>1, LoopInvariant, PTL

\* A baseline is never refused, strays to nothing closed, and never has a batch cut
\* (policy.py, choose of each).
THEOREM LegalAnswers ==
  SpecLoop => []BaselinesAreLegal
<1>1. LoopInd => BaselinesAreLegal
  BY LoopIs
<1>. QED
  BY <1>1, LoopInvariant, PTL

\* A baseline stops only with its frontier exhausted or, BudgetAwarePolicy, its allowance
\* or its patience spent or nothing measured left (policy.py choose, _track).
THEOREM StopsHaveCause ==
  SpecLoop => []BaselinesStopForCause
<1>1. LoopInd => BaselinesStopForCause
  BY DEF LoopInd, CauseInd
<1>. QED
  BY <1>1, LoopInvariant, PTL

\* The observation signals never contradict one another (policy.py).
THEOREM SignalsHold ==
  SpecLoop => []SignalsAgree
<1>1. LoopInd => SignalsAgree
  BY LoopIs
<1>. QED
  BY <1>1, LoopInvariant, PTL

=============================================================================
