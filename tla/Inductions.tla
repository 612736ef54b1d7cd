------------------------------ MODULE Inductions -----------------------------
(***************************************************************************)
(* Induction for the proofs about the other modules: over the naturals and *)
(* over finite sets, as facts about the set of those a formula holds of,   *)
(* and what it gives of the sums the models are written with.              *)
(***************************************************************************)
EXTENDS Integers, Functions, FiniteSetTheorems, WellFoundedInduction, TLAPS

-----------------------------------------------------------------------------
(* The naturals.                                                             *)

LEMMA Least ==
  ASSUME NEW T \in SUBSET Nat, T # {}
  PROVE  \E m \in T : \A n \in T : m <= n
<1>. DEFINE R == {ss \in Nat \X Nat : ss[1] < ss[2]}
<1>1. IsWellFoundedOn(R, Nat)
  BY NatLessThanWellFounded DEF OpToRel
<1>2. PICK m \in T : \A n \in T : ~(<<n, m>> \in R)
  BY <1>1, WFMin
<1>3. ASSUME NEW n \in T, n < m PROVE FALSE
  <2>1. <<n, m>> \in Nat \X Nat /\ <<n, m>>[1] = n /\ <<n, m>>[2] = m
    OBVIOUS
  <2>2. <<n, m>> \in R
    BY <1>3, <2>1, Zenon
  <2>. QED
    BY <1>2, <2>2
<1>. QED
  BY <1>3

LEMMA Inductive ==
  ASSUME NEW T \in SUBSET Nat, 0 \in T, \A n \in T : n + 1 \in T
  PROVE  T = Nat
<1>. SUFFICES ASSUME Nat \ T # {} PROVE FALSE
  OBVIOUS
<1>1. PICK m \in Nat \ T : \A n \in Nat \ T : m <= n
  BY Least
<1>2. m - 1 \in T
  BY <1>1
<1>. QED
  BY <1>1, <1>2

LEMMA Greatest ==
  ASSUME NEW k \in Nat, NEW T \in SUBSET (0 .. k), T # {}
  PROVE  \E m \in T : \A n \in T : n <= m
<1>. DEFINE U == {u \in 0 .. k : k - u \in T}
<1>1. PICK t \in T : TRUE
  OBVIOUS
<1>2. t \in 0 .. k
  OBVIOUS
<1>3. k - t \in 0 .. k /\ k - (k - t) = t
  BY <1>2
<1>4. k - t \in U /\ U \in SUBSET Nat
  BY <1>3
<1>5. \E u \in U : \A v \in U : u <= v
  <2>. HIDE DEF U
  <2>. QED
    BY <1>4, Least
<1>6. PICK u \in U : \A v \in U : u <= v
  BY <1>5
<1>7. ASSUME NEW n \in T PROVE n <= k - u
  <2>1. n \in 0 .. k
    OBVIOUS
  <2>2. k - n \in 0 .. k /\ k - (k - n) = n
    BY <2>1
  <2>3. k - n \in U
    BY <2>2
  <2>4. u <= k - n /\ u \in 0 .. k
    <3>. HIDE DEF U
    <3>1. u <= k - n
      BY <1>6, <2>3
    <3>. QED
      BY <3>1 DEF U
  <2>. QED
    BY <2>1, <2>4
<1>8. k - u \in T
  OBVIOUS
<1>. QED
  BY <1>7, <1>8

LEMMA Finitely ==
  ASSUME NEW k \in Nat, NEW T \in SUBSET (0 .. k)
  PROVE  IsFiniteSet(T) /\ Cardinality(T) \in Nat
<1>1. IsFiniteSet(0 .. k)
  BY FS_Interval
<1>2. IsFiniteSet(T)
  BY <1>1, FS_Subset
<1>. QED
  BY <1>2, FS_CardinalityType

-----------------------------------------------------------------------------
(* Finite sets.                                                              *)

\* What holds of no element, and of one more whenever it holds, holds of all.
LEMMA OneByOne ==
  ASSUME NEW S, IsFiniteSet(S), NEW T, {} \in T,
         \A s \in SUBSET S : \A x \in S : s \in T => s \cup {x} \in T
  PROVE  S \in T
<1>. DEFINE K == {k \in Nat : \A s \in SUBSET S : Cardinality(s) = k => s \in T}
<1>1. \A s \in SUBSET S : IsFiniteSet(s) /\ Cardinality(s) \in Nat
  BY FS_Subset, FS_CardinalityType
<1>2. 0 \in K
  BY <1>1, FS_EmptySet
<1>3. ASSUME NEW k \in K PROVE k + 1 \in K
  <2>1. ASSUME NEW s \in SUBSET S, Cardinality(s) = k + 1 PROVE s \in T
    <3>1. s # {}
      BY <1>1, <2>1, FS_EmptySet
    <3>2. PICK x : x \in s
      BY <3>1
    <3>3. Cardinality(s \ {x}) = k /\ s \ {x} \in SUBSET S /\ x \in S
      <4>1. IsFiniteSet(s) /\ k \in Nat
        BY <1>1
      <4>2. Cardinality(s \ {x}) = Cardinality(s) - 1
        BY <3>2, <4>1, FS_RemoveElement
      <4>. QED
        BY <2>1, <3>2, <4>1, <4>2
    <3>4. s \ {x} \in T
      BY <3>3
    <3>5. (s \ {x}) \cup {x} = s
      BY <3>2
    <3>6. (s \ {x}) \cup {x} \in T
      BY <3>3, <3>4
    <3>. QED
      BY <3>5, <3>6
  <2>. QED
    BY <2>1
<1>4. K = Nat
  <2>. HIDE DEF K
  <2>. QED
    BY <1>2, <1>3, Inductive, K \subseteq Nat DEF K
<1>5. Cardinality(S) \in K
  BY <1>1, <1>4
<1>. QED
  BY <1>5

\* A fold over the subsets of a finite set is defined: ch says which element comes first.
Foldable(S, A, base, ch, G) ==
  /\ IsFiniteSet(S) /\ base \in A /\ G \in [S \X A -> A]
  /\ \A s \in SUBSET S : s # {} => ch[s] \in s
Folds(h, S, base, ch, G) ==
  \A s \in SUBSET S : h[s] = IF s = {} THEN base ELSE G[<<ch[s], h[s \ {ch[s]}]>>]

LEMMA FoldExists ==
  ASSUME NEW S, NEW A, NEW base, NEW ch, NEW G, Foldable(S, A, base, ch, G)
  PROVE  \E h : h \in [SUBSET S -> A] /\ Folds(h, S, base, ch, G)
<1>0. /\ IsFiniteSet(S) /\ base \in A /\ G \in [S \X A -> A]
      /\ \A s \in SUBSET S : s # {} => ch[s] \in s
  BY DEF Foldable
<1>. DEFINE D(k) == {s \in SUBSET S : Cardinality(s) <= k}
            Eq(h, k) == \A s \in D(k) : h[s] = IF s = {} THEN base ELSE G[<<ch[s], h[s \ {ch[s]}]>>]
            K == {k \in Nat : \E h \in [D(k) -> A] : Eq(h, k)}
<1>1. \A s \in SUBSET S : IsFiniteSet(s) /\ Cardinality(s) \in Nat
  BY <1>0, FS_Subset, FS_CardinalityType
<1>2. 0 \in K
  <2>1. \A s \in D(0) : s = {}
    BY <1>1, FS_EmptySet
  <2>. DEFINE h == [s \in D(0) |-> base]
  <2>2. h \in [D(0) -> A] /\ Eq(h, 0)
    BY <1>0, <2>1
  <2>. QED
    BY <2>2
<1>3. ASSUME NEW k \in K PROVE k + 1 \in K
  <2>. SUFFICES \E e \in [D(k + 1) -> A] : Eq(e, k + 1)
    BY k + 1 \in Nat
  <2>1. PICK h \in [D(k) -> A] : Eq(h, k)
    OBVIOUS
  <2>. DEFINE e == [s \in D(k + 1) |-> IF s = {} THEN base ELSE G[<<ch[s], h[s \ {ch[s]}]>>]]
  <2>2. ASSUME NEW s \in D(k + 1), s # {}
        PROVE  ch[s] \in S /\ s \ {ch[s]} \in D(k) /\ s \ {ch[s]} \in D(k + 1)
    <3>1. /\ s \in SUBSET S /\ ch[s] \in s /\ IsFiniteSet(s)
          /\ Cardinality(s) \in Nat /\ Cardinality(s) <= k + 1
      BY <1>0, <1>1, <2>2
    <3>2. Cardinality(s \ {ch[s]}) = Cardinality(s) - 1
      BY <3>1, FS_RemoveElement
    <3>3. s \ {ch[s]} \in SUBSET S
      BY <3>1
    <3>. QED
      BY <3>1, <3>2, <3>3
  <2>3. e \in [D(k + 1) -> A]
    <3>1. ASSUME NEW s \in D(k + 1), s # {} PROVE G[<<ch[s], h[s \ {ch[s]}]>>] \in A
      <4>1. ch[s] \in S /\ h[s \ {ch[s]}] \in A
        <5>. HIDE DEF D
        <5>. QED
          BY <2>2, <3>1
      <4>. QED
        BY <1>0, <4>1
    <3>. HIDE DEF D
    <3>. QED
      BY <1>0, <3>1
  <2>4. \A s \in D(k) : s \in D(k + 1) /\ e[s] = h[s]
    <3>1. \A s \in D(k) : s \in D(k + 1)
      BY <1>1
    <3>. HIDE DEF D
    <3>. QED
      BY <2>1, <3>1
  <2>5. ASSUME NEW s \in D(k + 1)
        PROVE  e[s] = IF s = {} THEN base ELSE G[<<ch[s], e[s \ {ch[s]}]>>]
    <3>1. e[s] = IF s = {} THEN base ELSE G[<<ch[s], h[s \ {ch[s]}]>>]
      <4>. HIDE DEF D
      <4>. QED
        OBVIOUS
    <3>2. s # {} => e[s \ {ch[s]}] = h[s \ {ch[s]}]
      <4>. HIDE DEF D, e
      <4>. QED
        BY <2>2, <2>4
    <3>. QED
      BY <3>1, <3>2
  <2>6. Eq(e, k + 1)
    BY <2>5, Zenon
  <2>. HIDE DEF D, Eq, e
  <2>. QED
    BY <2>3, <2>6
<1>4. K = Nat
  <2>1. K \in SUBSET Nat
    OBVIOUS
  <2>. HIDE DEF K
  <2>. QED
    BY <1>2, <1>3, <2>1, Inductive
<1>5. Cardinality(S) \in K /\ Cardinality(S) \in Nat
  BY <1>0, <1>1, <1>4
<1>6. D(Cardinality(S)) = SUBSET S
  <2>1. \A s \in SUBSET S : Cardinality(s) <= Cardinality(S)
    BY <1>0, FS_Subset
  <2>. QED
    BY <2>1
<1>. QED
  <2>1. PICK h \in [D(Cardinality(S)) -> A] : Eq(h, Cardinality(S))
    BY <1>5
  <2>2. Folds(h, S, base, ch, G)
    BY <1>6, <2>1 DEF Folds
  <2>3. h \in [SUBSET S -> A]
    <3>. HIDE DEF D
    <3>. QED
      BY <1>6, <2>1
  <2>. QED
    BY <2>2, <2>3

\* What a fold starts with and every step of it keeps, it keeps throughout.
LEMMA FoldKeeps ==
  ASSUME NEW S, IsFiniteSet(S), NEW ch, NEW K,
         \A s \in SUBSET S : s # {} => ch[s] \in s,
         {} \in K, \A s \in SUBSET S : s # {} /\ s \ {ch[s]} \in K => s \in K
  PROVE  \A s \in SUBSET S : s \in K
<1>. DEFINE N == {k \in Nat : \A s \in SUBSET S : Cardinality(s) = k => s \in K}
<1>1. \A s \in SUBSET S : IsFiniteSet(s) /\ Cardinality(s) \in Nat
  BY FS_Subset, FS_CardinalityType
<1>2. 0 \in N
  BY <1>1, FS_EmptySet
<1>3. ASSUME NEW k \in N PROVE k + 1 \in N
  <2>1. ASSUME NEW s \in SUBSET S, Cardinality(s) = k + 1 PROVE s \in K
    <3>1. IsFiniteSet(s) /\ k \in Nat /\ s # {} /\ ch[s] \in s
      <4>1. IsFiniteSet(s) /\ k \in Nat
        BY <1>1
      <4>2. s # {}
        BY <2>1, <4>1, FS_EmptySet
      <4>. QED
        BY <4>1, <4>2
    <3>2. Cardinality(s \ {ch[s]}) = k /\ s \ {ch[s]} \in SUBSET S
      <4>1. Cardinality(s \ {ch[s]}) = Cardinality(s) - 1
        BY <3>1, FS_RemoveElement
      <4>. QED
        BY <2>1, <3>1, <4>1
    <3>3. s \ {ch[s]} \in K
      BY <3>2
    <3>. QED
      BY <3>1, <3>3
  <2>. QED
    BY <2>1
<1>4. N = Nat
  <2>1. N \in SUBSET Nat
    OBVIOUS
  <2>. HIDE DEF N
  <2>. QED
    BY <1>2, <1>3, <2>1, Inductive
<1>. QED
  BY <1>1, <1>4

-----------------------------------------------------------------------------
(* Sums of integers over a finite set.                                       *)

Some(s) == CHOOSE x \in s : TRUE

\* What MapThenSumSet comes to, of the function f.
SumsOver(f, S) == CHOOSE h : h = [s \in SUBSET S |-> IF s = {} THEN 0 ELSE f[Some(s)] + h[s \ {Some(s)}]]
SumOver(f, S)  == SumsOver(f, S)[S]

Summable(f, S) == IsFiniteSet(S) /\ \A x \in S : f[x] \in Int

LEMMA SumsIs ==
  ASSUME NEW S, NEW f, Summable(f, S)
  PROVE  \A s \in SUBSET S :
           /\ SumsOver(f, S)[s] \in Int
           /\ SumsOver(f, S)[s] = IF s = {} THEN 0 ELSE f[Some(s)] + SumsOver(f, S)[s \ {Some(s)}]
<1>. DEFINE ch == [s \in SUBSET S |-> Some(s)]
            G == [p \in S \X Int |-> f[p[1]] + p[2]]
            H == SumsOver(f, S)
<1>1. \A s \in SUBSET S : s # {} => Some(s) \in s /\ ch[s] = Some(s)
  BY DEF Some
<1>2. G \in [S \X Int -> Int]
  BY DEF Summable
<1>3. \E h \in [SUBSET S -> Int] : \A s \in SUBSET S :
        h[s] = IF s = {} THEN 0 ELSE G[<<ch[s], h[s \ {ch[s]}]>>]
  <2>1. PICK zero : zero = 0
    OBVIOUS
  <2>. HIDE DEF G, ch
  <2>2. Foldable(S, Int, zero, ch, G)
    BY <1>1, <1>2, <2>1 DEF Foldable, Summable
  <2>3. PICK h : h \in [SUBSET S -> Int] /\ Folds(h, S, zero, ch, G)
    BY <2>2, FoldExists
  <2>. QED
    BY <2>1, <2>3 DEF Folds
<1>4. PICK h \in [SUBSET S -> Int] : \A s \in SUBSET S :
        h[s] = IF s = {} THEN 0 ELSE G[<<ch[s], h[s \ {ch[s]}]>>]
  BY <1>3
<1>5. ASSUME NEW s \in SUBSET S
      PROVE  h[s] = IF s = {} THEN 0 ELSE f[Some(s)] + h[s \ {Some(s)}]
  <2>1. CASE s # {}
    <3>1. Some(s) \in S /\ h[s \ {Some(s)}] \in Int
      BY <1>1, <2>1
    <3>2. G[<<Some(s), h[s \ {Some(s)}]>>] = f[Some(s)] + h[s \ {Some(s)}]
      BY <3>1
    <3>. HIDE DEF G, ch
    <3>. QED
      BY <1>1, <1>4, <2>1, <3>2
  <2>2. CASE s = {}
    BY <1>4, <2>2
  <2>. QED
    BY <2>1, <2>2
<1>6. h = [s \in SUBSET S |-> IF s = {} THEN 0 ELSE f[Some(s)] + h[s \ {Some(s)}]]
  BY <1>5
<1>7. H = [s \in SUBSET S |-> IF s = {} THEN 0 ELSE f[Some(s)] + H[s \ {Some(s)}]]
  BY <1>6 DEF SumsOver
<1>8. \A s \in SUBSET S : H[s] = IF s = {} THEN 0 ELSE f[Some(s)] + H[s \ {Some(s)}]
  <2>. HIDE DEF H
  <2>. QED
    BY <1>7
<1>. DEFINE K == {s \in SUBSET S : H[s] \in Int}
<1>9. \A s \in SUBSET S : s # {} => ch[s] = Some(s) /\ ch[s] \in s
  BY <1>1
<1>. HIDE DEF H, ch
<1>10. {} \in K
  <2>1. {} \in SUBSET S
    OBVIOUS
  <2>2. H[{}] = 0
    BY <1>8, <2>1
  <2>. QED
    BY <2>1, <2>2
<1>11. ASSUME NEW s \in SUBSET S, s # {}, s \ {ch[s]} \in K PROVE s \in K
  <2>1. H[s] = f[Some(s)] + H[s \ {Some(s)}] /\ f[Some(s)] \in Int
    BY <1>1, <1>8, <1>11 DEF Summable
  <2>2. H[s \ {Some(s)}] \in Int
    BY <1>9, <1>11
  <2>. QED
    BY <2>1, <2>2
<1>12. \A s \in SUBSET S : s \in K
  <2>. HIDE DEF K
  <2>. QED
    BY <1>9, <1>10, <1>11, FoldKeeps DEF Summable
<1>. QED
  BY <1>8, <1>12 DEF H

\* The sum over a part is the same whichever set it is a part of.
LEMMA SumWithin ==
  ASSUME NEW S, NEW f, Summable(f, S), NEW t \in SUBSET S
  PROVE  Summable(f, t) /\ SumsOver(f, S)[t] = SumOver(f, t)
<1>1. Summable(f, t)
  BY FS_Subset DEF Summable
<1>. DEFINE ch == [s \in SUBSET t |-> Some(s)]
            K  == {s \in SUBSET t : SumsOver(f, S)[s] = SumsOver(f, t)[s]}
<1>2. \A s \in SUBSET t : s # {} => ch[s] = Some(s) /\ ch[s] \in s
  BY DEF Some
<1>3. \A s \in SUBSET t : s \in SUBSET S
  OBVIOUS
<1>. HIDE DEF ch
<1>4. {} \in K
  <2>1. {} \in SUBSET t /\ {} \in SUBSET S
    OBVIOUS
  <2>2. SumsOver(f, S)[{}] = 0
    BY <2>1, SumsIs
  <2>3. SumsOver(f, t)[{}] = 0
    BY <1>1, <2>1, SumsIs
  <2>. QED
    BY <2>1, <2>2, <2>3
<1>5. ASSUME NEW s \in SUBSET t, s # {}, s \ {ch[s]} \in K PROVE s \in K
  <2>1. s \in SUBSET S /\ ch[s] = Some(s)
    BY <1>2, <1>5
  <2>2. SumsOver(f, S)[s] = f[Some(s)] + SumsOver(f, S)[s \ {Some(s)}]
    BY <1>5, <2>1, SumsIs
  <2>3. SumsOver(f, t)[s] = f[Some(s)] + SumsOver(f, t)[s \ {Some(s)}]
    BY <1>1, <1>5, SumsIs
  <2>. QED
    BY <1>5, <2>1, <2>2, <2>3
<1>6. \A s \in SUBSET t : s \in K
  <2>1. IsFiniteSet(t)
    BY <1>1 DEF Summable
  <2>. HIDE DEF K
  <2>. QED
    BY <1>2, <1>4, <1>5, <2>1, FoldKeeps
<1>7. t \in K
  <2>. HIDE DEF K
  <2>. QED
    BY <1>6
<1>. QED
  BY <1>1, <1>7 DEF SumOver

LEMMA SumIs ==
  ASSUME NEW S, NEW f, Summable(f, S)
  PROVE  /\ SumOver(f, S) \in Int
         /\ S = {} => SumOver(f, S) = 0
         /\ S # {} => SumOver(f, S) = f[Some(S)] + SumOver(f, S \ {Some(S)})
<1>1. S \in SUBSET S /\ S \ {Some(S)} \in SUBSET S
  OBVIOUS
<1>2. SumsOver(f, S)[S \ {Some(S)}] = SumOver(f, S \ {Some(S)})
  BY <1>1, SumWithin
<1>3. /\ SumsOver(f, S)[S] \in Int
      /\ SumsOver(f, S)[S] = IF S = {} THEN 0 ELSE f[Some(S)] + SumsOver(f, S)[S \ {Some(S)}]
  BY <1>1, SumsIs
<1>. QED
  BY <1>2, <1>3 DEF SumOver

\* Any element may come first.
LEMMA SumAny ==
  ASSUME NEW S, NEW f, Summable(f, S), NEW y \in S
  PROVE  SumOver(f, S) = f[y] + SumOver(f, S \ {y})
<1>. DEFINE K == {s \in SUBSET S : \A x \in s : SumOver(f, s) = f[x] + SumOver(f, s \ {x})}
            N == {k \in Nat : \A s \in SUBSET S : Cardinality(s) = k => s \in K}
<1>1. \A s \in SUBSET S : IsFiniteSet(s) /\ Cardinality(s) \in Nat
  BY FS_Subset, FS_CardinalityType DEF Summable
<1>2. 0 \in N
  <2>1. \A s \in SUBSET S : Cardinality(s) = 0 => s = {}
    BY <1>1, FS_EmptySet
  <2>. QED
    BY <2>1
<1>3. ASSUME NEW k \in N PROVE k + 1 \in N
  <2>1. ASSUME NEW s \in SUBSET S, Cardinality(s) = k + 1, NEW x \in s
        PROVE  SumOver(f, s) = f[x] + SumOver(f, s \ {x})
    <3>. DEFINE c == Some(s)
    <3>1. c \in s /\ c \in S /\ x \in S /\ f[c] \in Int /\ f[x] \in Int
      BY DEF Some, Summable
    <3>. HIDE DEF c
    <3>2. Summable(f, s) /\ Summable(f, s \ {c}) /\ Summable(f, s \ {x}) /\ Summable(f, (s \ {c}) \ {x})
      BY SumWithin
    <3>3. SumOver(f, s) = f[c] + SumOver(f, s \ {c})
      BY <3>1, <3>2, SumIs DEF c
    <3>4. CASE x = c
      BY <3>3, <3>4
    <3>5. CASE x # c
      <4>1. IsFiniteSet(s) /\ k \in Nat /\ s \ {c} \in SUBSET S /\ s \ {x} \in SUBSET S
        BY <1>1
      <4>2. Cardinality(s \ {c}) = Cardinality(s) - 1 /\ Cardinality(s \ {x}) = Cardinality(s) - 1
        BY <3>1, <4>1, FS_RemoveElement
      <4>3. s \ {c} \in K /\ s \ {x} \in K
        BY <2>1, <4>1, <4>2
      <4>4. x \in s \ {c} /\ c \in s \ {x}
        BY <3>1, <3>5
      <4>5. /\ SumOver(f, s \ {c}) = f[x] + SumOver(f, (s \ {c}) \ {x})
            /\ SumOver(f, s \ {x}) = f[c] + SumOver(f, (s \ {x}) \ {c})
        BY <4>3, <4>4
      <4>6. (s \ {c}) \ {x} = (s \ {x}) \ {c}
        OBVIOUS
      <4>7. SumOver(f, (s \ {c}) \ {x}) = SumOver(f, (s \ {x}) \ {c})
        BY <4>6, Zenon
      <4>8. SumOver(f, (s \ {c}) \ {x}) \in Int
        BY <3>2, SumIs
      <4>. QED
        BY <3>1, <3>3, <4>5, <4>7, <4>8
    <3>. QED
      BY <3>4, <3>5
  <2>. QED
    BY <2>1
<1>4. N = Nat
  <2>1. N \in SUBSET Nat
    OBVIOUS
  <2>. HIDE DEF N
  <2>. QED
    BY <1>2, <1>3, <2>1, Inductive
<1>5. S \in SUBSET S /\ Cardinality(S) \in N
  BY <1>1, <1>4
<1>6. S \in K
  BY <1>5
<1>. QED
  BY <1>6

\* Sums over sets that share nothing add up.
LEMMA SumJoin ==
  ASSUME NEW S, NEW T, NEW f, Summable(f, S), Summable(f, T), S \cap T = {}
  PROVE  Summable(f, S \cup T) /\ SumOver(f, S \cup T) = SumOver(f, S) + SumOver(f, T)
<1>1. Summable(f, S \cup T)
  BY FS_Union DEF Summable
<1>. DEFINE K == {t \in SUBSET T : SumOver(f, S \cup t) = SumOver(f, S) + SumOver(f, t)}
<1>2. SumOver(f, S) \in Int
  BY SumIs
<1>3. {} \in K
  <2>1. {} \in SUBSET T /\ S \cup {} = S
    OBVIOUS
  <2>2. SumOver(f, {}) = 0 /\ SumOver(f, S \cup {}) = SumOver(f, S)
    <3>1. Summable(f, {})
      BY <2>1, SumWithin
    <3>. QED
      BY <2>1, <3>1, SumIs, Zenon
  <2>. QED
    BY <1>2, <2>1, <2>2
<1>4. ASSUME NEW t \in SUBSET T, NEW x \in T, t \in K PROVE t \cup {x} \in K
  <2>1. CASE x \in t
    <3>1. t \cup {x} = t
      BY <2>1
    <3>. QED
      BY <1>4, <3>1
  <2>2. CASE x \notin t
    <3>. DEFINE u == t \cup {x}
                v == S \cup u
    <3>1. /\ u \in SUBSET T /\ x \in u /\ u \ {x} = t /\ u \cup {} = u
          /\ v \in SUBSET (S \cup T) /\ x \in v /\ v \ {x} = S \cup t
      BY <2>2
    <3>2. Summable(f, u) /\ Summable(f, v)
      <4>. HIDE DEF u, v
      <4>. QED
        BY <1>1, <3>1, SumWithin
    <3>3. SumOver(f, u) = f[x] + SumOver(f, u \ {x}) /\ SumOver(f, v) = f[x] + SumOver(f, v \ {x})
      <4>. HIDE DEF u, v
      <4>. QED
        BY <3>1, <3>2, SumAny
    <3>4. SumOver(f, u \ {x}) = SumOver(f, t) /\ SumOver(f, v \ {x}) = SumOver(f, S \cup t)
      <4>1. u \ {x} = t /\ v \ {x} = S \cup t
        BY <3>1
      <4>. HIDE DEF u, v
      <4>. QED
        BY <4>1, Zenon
    <3>5. SumOver(f, S \cup t) = SumOver(f, S) + SumOver(f, t)
      BY <1>4
    <3>6. f[x] \in Int /\ SumOver(f, t) \in Int
      BY <1>4, SumWithin, SumIs DEF Summable
    <3>7. SumOver(f, v) = SumOver(f, S) + SumOver(f, u)
      <4>. HIDE DEF u, v
      <4>. QED
        BY <1>2, <3>3, <3>4, <3>5, <3>6
    <3>. QED
      BY <3>1, <3>7
  <2>. QED
    BY <2>1, <2>2
<1>5. T \in K
  <2>1. IsFiniteSet(T)
    BY DEF Summable
  <2>. HIDE DEF K
  <2>. QED
    BY <1>3, <1>4, <2>1, OneByOne
<1>. QED
  BY <1>1, <1>5

\* Renaming the elements leaves a sum alone.
Renames(b, S, T, f, g) ==
  /\ \A x \in S : b[x] \in T /\ g[b[x]] = f[x]
  /\ \A x, y \in S : b[x] = b[y] => x = y
  /\ \A z \in T : \E x \in S : b[x] = z

LEMMA SumMoved ==
  ASSUME NEW S, NEW T, NEW f, NEW g, NEW b, Summable(f, S), Summable(g, T), Renames(b, S, T, f, g)
  PROVE  SumOver(f, S) = SumOver(g, T)
<1>. DEFINE Img(s) == {b[x] : x \in s}
            K == {s \in SUBSET S : SumOver(f, s) = SumOver(g, Img(s))}
<1>1. /\ \A x \in S : b[x] \in T /\ g[b[x]] = f[x]
      /\ \A x, y \in S : b[x] = b[y] => x = y
  BY DEF Renames
<1>2. \A s \in SUBSET S : Img(s) \in SUBSET T
  BY <1>1
<1>3. {} \in K
  <2>1. Img({}) = {} /\ {} \in SUBSET S /\ {} \in SUBSET T
    OBVIOUS
  <2>2. SumOver(f, {}) = 0 /\ SumOver(g, {}) = 0
    <3>1. Summable(f, {}) /\ Summable(g, {})
      BY <2>1, SumWithin
    <3>. QED
      BY <3>1, SumIs
  <2>3. SumOver(g, Img({})) = SumOver(g, {})
    BY <2>1, Zenon
  <2>. QED
    BY <2>1, <2>2, <2>3
<1>4. ASSUME NEW s \in SUBSET S, NEW x \in S, s \in K PROVE s \cup {x} \in K
  <2>1. CASE x \in s
    <3>1. s \cup {x} = s
      BY <2>1
    <3>. QED
      BY <1>4, <3>1
  <2>2. CASE x \notin s
    <3>. DEFINE u == s \cup {x}
    <3>1. u \in SUBSET S /\ x \in u /\ u \ {x} = s /\ Img(u) \in SUBSET T /\ b[x] \in Img(u)
      BY <1>2, <2>2
    <3>2. Img(u) \ {b[x]} = Img(s)
      BY <1>1, <2>2
    <3>3. Summable(f, u) /\ Summable(g, Img(u)) /\ Summable(f, s)
      <4>. HIDE DEF u, Img
      <4>. QED
        BY <3>1, SumWithin
    <3>4. /\ SumOver(f, u) = f[x] + SumOver(f, u \ {x})
          /\ SumOver(g, Img(u)) = g[b[x]] + SumOver(g, Img(u) \ {b[x]})
      <4>. HIDE DEF u, Img
      <4>. QED
        BY <3>1, <3>3, SumAny
    <3>5. SumOver(f, u \ {x}) = SumOver(f, s) /\ SumOver(g, Img(u) \ {b[x]}) = SumOver(g, Img(s))
      <4>1. u \ {x} = s
        BY <3>1
      <4>. HIDE DEF u, Img
      <4>. QED
        BY <3>2, <4>1, Zenon
    <3>6. SumOver(f, s) = SumOver(g, Img(s)) /\ g[b[x]] = f[x]
      <4>. HIDE DEF Img
      <4>. QED
        BY <1>1, <1>4
    <3>7. SumOver(f, u) = SumOver(g, Img(u))
      <4>. HIDE DEF u, Img
      <4>. QED
        BY <3>4, <3>5, <3>6
    <3>. QED
      BY <3>1, <3>7
  <2>. QED
    BY <2>1, <2>2
<1>5. S \in K
  <2>1. IsFiniteSet(S)
    BY DEF Summable
  <2>. HIDE DEF K
  <2>. QED
    BY <1>3, <1>4, <2>1, OneByOne
<1>6. Img(S) = T
  BY <1>1 DEF Renames
<1>7. SumOver(g, Img(S)) = SumOver(g, T)
  <2>. HIDE DEF Img
  <2>. QED
    BY <1>6, Zenon
<1>. QED
  BY <1>5, <1>7

\* As many times a number as there are elements.
LEMMA SumEven ==
  ASSUME NEW S, NEW f, NEW c \in Nat, IsFiniteSet(S), \A x \in S : f[x] = c
  PROVE  SumOver(f, S) = Cardinality(S) * c
<1>. DEFINE K == {s \in SUBSET S : SumOver(f, s) = Cardinality(s) * c}
<1>1. Summable(f, S)
  BY DEF Summable
<1>2. {} \in K
  <2>1. Summable(f, {}) /\ Cardinality({}) = 0
    BY FS_EmptySet DEF Summable
  <2>2. SumOver(f, {}) = 0
    BY <2>1, SumIs
  <2>. QED
    BY <2>1, <2>2
<1>3. ASSUME NEW s \in SUBSET S, NEW x \in S, s \in K PROVE s \cup {x} \in K
  <2>1. CASE x \in s
    <3>1. s \cup {x} = s
      BY <2>1
    <3>. QED
      BY <1>3, <3>1
  <2>2. CASE x \notin s
    <3>. DEFINE u == s \cup {x}
    <3>1. u \in SUBSET S /\ x \in u /\ u \ {x} = s
      BY <2>2
    <3>2. Summable(f, u) /\ IsFiniteSet(s) /\ Cardinality(s) \in Nat
      <4>. HIDE DEF u
      <4>. QED
        BY <1>1, <3>1, SumWithin, FS_Subset, FS_CardinalityType
    <3>3. SumOver(f, u) = f[x] + SumOver(f, u \ {x})
      <4>. HIDE DEF u
      <4>. QED
        BY <3>1, <3>2, SumAny
    <3>4. SumOver(f, u \ {x}) = SumOver(f, s)
      <4>. HIDE DEF u
      <4>. QED
        BY <3>1, Zenon
    <3>5. Cardinality(u) = Cardinality(s) + 1
      BY <2>2, <3>2, FS_AddElement
    <3>6. SumOver(f, s) = Cardinality(s) * c /\ f[x] = c
      BY <1>3
    <3>7. (Cardinality(s) + 1) * c = c + Cardinality(s) * c
      BY <3>2
    <3>8. SumOver(f, u) = Cardinality(u) * c
      <4>. HIDE DEF u
      <4>. QED
        BY <3>3, <3>4, <3>5, <3>6, <3>7
    <3>. QED
      BY <3>1, <3>8
  <2>. QED
    BY <2>1, <2>2
<1>4. S \in K
  <2>. HIDE DEF K
  <2>. QED
    BY <1>2, <1>3, OneByOne
<1>. QED
  BY <1>4

\* A sum of sums is a sum over pairs.
Parts(V, W, R) == {c \in V \X W : c[2] \in R[c[1]]}
Tallies(V, W, R, r, f, g) ==
  /\ IsFiniteSet(V) /\ IsFiniteSet(W)
  /\ \A v \in V : R[v] \in SUBSET W /\ f[v] = SumOver(r[v], R[v])
  /\ \A v \in V : \A w \in R[v] : r[v][w] = g[<<v, w>>] /\ g[<<v, w>>] \in Int

LEMMA SumOfSums ==
  ASSUME NEW V, NEW W, NEW R, NEW r, NEW f, NEW g, Tallies(V, W, R, r, f, g)
  PROVE  Summable(f, V) /\ Summable(g, Parts(V, W, R)) /\ SumOver(f, V) = SumOver(g, Parts(V, W, R))
<1>1. /\ IsFiniteSet(V) /\ IsFiniteSet(W)
      /\ \A v \in V : R[v] \in SUBSET W /\ f[v] = SumOver(r[v], R[v])
      /\ \A v \in V : \A w \in R[v] : r[v][w] = g[<<v, w>>] /\ g[<<v, w>>] \in Int
  BY DEF Tallies
<1>2. IsFiniteSet(V \X W)
  BY <1>1, FS_Product
<1>3. \A v \in V : Summable(r[v], R[v])
  <2>1. \A v \in V : IsFiniteSet(R[v])
    BY <1>1, FS_Subset
  <2>. QED
    BY <1>1, <2>1 DEF Summable
<1>4. Summable(f, V)
  <2>1. \A v \in V : SumOver(r[v], R[v]) \in Int
    BY <1>3, SumIs
  <2>. QED
    BY <1>1, <2>1 DEF Summable
<1>5. Summable(g, Parts(V, W, R))
  <2>1. Parts(V, W, R) \in SUBSET (V \X W) /\ \A c \in Parts(V, W, R) : g[c] \in Int
    BY <1>1 DEF Parts
  <2>2. IsFiniteSet(Parts(V, W, R))
    BY <1>2, <2>1, FS_Subset
  <2>. QED
    BY <2>1, <2>2 DEF Summable
<1>. DEFINE K == {s \in SUBSET V : SumOver(f, s) = SumOver(g, Parts(s, W, R))}
<1>6. {} \in K
  <2>1. Parts({}, W, R) = {}
    BY DEF Parts
  <2>2. SumOver(g, Parts({}, W, R)) = SumOver(g, {})
    BY <2>1, Zenon
  <2>3. Summable(f, {}) /\ Summable(g, {})
    BY FS_EmptySet DEF Summable
  <2>4. SumOver(f, {}) = 0 /\ SumOver(g, {}) = 0
    BY <2>3, SumIs
  <2>. QED
    BY <2>2, <2>4
<1>7. ASSUME NEW s \in SUBSET V, NEW x \in V, s \in K PROVE s \cup {x} \in K
  <2>1. CASE x \in s
    <3>1. s \cup {x} = s
      BY <2>1
    <3>. QED
      BY <1>7, <3>1
  <2>2. CASE x \notin s
    <3>. DEFINE u == s \cup {x}
                P == Parts(s, W, R)
                Q == Parts({x}, W, R)
                b == [w \in R[x] |-> <<x, w>>]
    <3>1. u \in SUBSET V /\ x \in u /\ u \ {x} = s
      BY <2>2
    <3>2. Summable(f, u)
      <4>. HIDE DEF u
      <4>. QED
        BY <1>4, <3>1, SumWithin
    <3>3. SumOver(f, u) = f[x] + SumOver(f, u \ {x})
      <4>. HIDE DEF u
      <4>. QED
        BY <3>1, <3>2, SumAny
    <3>4. SumOver(f, u \ {x}) = SumOver(f, s)
      <4>. HIDE DEF u
      <4>. QED
        BY <3>1, Zenon
    <3>5. Parts(u, W, R) = P \cup Q /\ P \cap Q = {}
      BY <2>2 DEF Parts
    <3>6. P \in SUBSET Parts(V, W, R) /\ Q \in SUBSET Parts(V, W, R)
      BY DEF Parts
    <3>7. Summable(g, P) /\ Summable(g, Q)
      <4>. HIDE DEF P, Q
      <4>. QED
        BY <1>5, <3>6, SumWithin
    <3>8. SumOver(g, P \cup Q) = SumOver(g, P) + SumOver(g, Q)
      <4>. HIDE DEF P, Q
      <4>. QED
        BY <3>5, <3>7, SumJoin
    <3>9. SumOver(g, Parts(u, W, R)) = SumOver(g, P \cup Q)
      <4>. HIDE DEF u, P, Q
      <4>. QED
        BY <3>5, Zenon
    <3>10. SumOver(r[x], R[x]) = SumOver(g, Q)
      <4>1. Renames(b, R[x], Q, r[x], g)
        <5>1. \A w \in R[x] : w \in W /\ b[w] = <<x, w>> /\ r[x][w] = g[<<x, w>>]
          BY <1>1
        <5>2. \A w \in R[x] : b[w] \in Q
          BY <5>1 DEF Parts
        <5>3. ASSUME NEW z \in Q PROVE z[2] \in R[x] /\ b[z[2]] = z
          <6>1. z \in {x} \X W /\ z[2] \in R[z[1]]
            BY DEF Parts
          <6>2. z = <<z[1], z[2]>> /\ z[1] = x
            BY <6>1
          <6>3. R[z[1]] = R[x]
            BY <6>2
          <6>4. z[2] \in R[x]
            BY <6>1, <6>3
          <6>5. b[z[2]] = <<x, z[2]>>
            BY <5>1, <6>4
          <6>. QED
            BY <6>2, <6>4, <6>5
        <5>4. \A w \in R[x] : g[b[w]] = r[x][w]
          BY <5>1, Zenon
        <5>5. \A w, y \in R[x] : b[w] = b[y] => w = y
          <6>1. ASSUME NEW w \in R[x], NEW y \in R[x], b[w] = b[y] PROVE w = y
            <7>1. <<x, w>> = <<x, y>>
              BY <5>1, <6>1, Zenon
            <7>. QED
              BY <7>1
          <6>. QED
            BY <6>1
        <5>6. \A z \in Q : \E w \in R[x] : b[w] = z
          BY <5>3, Zenon
        <5>. HIDE DEF b, Q
        <5>. QED
          BY <5>2, <5>4, <5>5, <5>6, Zenon DEF Renames
      <4>2. Summable(r[x], R[x])
        BY <1>3
      <4>. HIDE DEF b, Q
      <4>. QED
        BY <3>7, <4>1, <4>2, SumMoved
    <3>11. SumOver(f, s) = SumOver(g, P) /\ f[x] = SumOver(r[x], R[x])
      BY <1>1, <1>7
    <3>12. SumOver(g, P) \in Int /\ SumOver(g, Q) \in Int
      <4>. HIDE DEF P, Q
      <4>. QED
        BY <3>7, SumIs
    <3>13. SumOver(f, u) = SumOver(g, Parts(u, W, R))
      <4>. HIDE DEF u, P, Q
      <4>. QED
        BY <3>3, <3>4, <3>8, <3>9, <3>10, <3>11, <3>12
    <3>. QED
      BY <3>1, <3>13
  <2>. QED
    BY <2>1, <2>2
<1>8. V \in K
  <2>. HIDE DEF K
  <2>. QED
    BY <1>1, <1>6, <1>7, OneByOne
<1>. QED
  BY <1>4, <1>5, <1>8

-----------------------------------------------------------------------------
(* Ranks.                                                                    *)

\* R puts the members of S in a line.
Lines(R, S) ==
  /\ \A v \in S : <<v, v>> \notin R
  /\ \A u, v, w \in S : <<u, v>> \in R /\ <<v, w>> \in R => <<u, w>> \in R
  /\ \A u, v \in S : u # v => <<u, v>> \in R \/ <<v, u>> \in R
Rank(R, S, v) == Cardinality({w \in S : <<w, v>> \in R})

\* The ranks of a finite set in a line are 0, 1 and so on, one member to each.
LEMMA Ranked ==
  ASSUME NEW S, NEW R, IsFiniteSet(S), Lines(R, S)
  PROVE  /\ Cardinality(S) \in Nat
         /\ \A v \in S : Rank(R, S, v) \in 0 .. Cardinality(S) - 1
         /\ \A u, v \in S : <<u, v>> \in R => Rank(R, S, u) < Rank(R, S, v)
         /\ \A u, v \in S : Rank(R, S, u) = Rank(R, S, v) => u = v
         /\ \A n \in 0 .. Cardinality(S) - 1 : \E v \in S : Rank(R, S, v) = n
<1>. DEFINE Under(v) == {w \in S : <<w, v>> \in R}
            c == Cardinality(S)
<1>1. /\ \A v \in S : <<v, v>> \notin R
      /\ \A u, v, w \in S : <<u, v>> \in R /\ <<v, w>> \in R => <<u, w>> \in R
      /\ \A u, v \in S : u # v => <<u, v>> \in R \/ <<v, u>> \in R
  BY DEF Lines
<1>2. c \in Nat
  BY FS_CardinalityType
<1>3. \A s \in SUBSET S : IsFiniteSet(s) /\ Cardinality(s) \in Nat
  BY FS_Subset, FS_CardinalityType
<1>4. ASSUME NEW s \in SUBSET S, NEW t \in SUBSET S, NEW x \in t, x \notin s, s \subseteq t
      PROVE  Cardinality(s) < Cardinality(t)
  <2>1. s \cup {x} \in SUBSET t
    BY <1>4
  <2>2. Cardinality(s \cup {x}) = Cardinality(s) + 1
    BY <1>3, <1>4, FS_AddElement
  <2>3. Cardinality(s \cup {x}) <= Cardinality(t)
    BY <1>3, <2>1, FS_Subset
  <2>. QED
    BY <1>3, <2>2, <2>3
<1>5. \A v \in S : Rank(R, S, v) = Cardinality(Under(v)) /\ Rank(R, S, v) \in Nat
  <2>1. \A v \in S : Under(v) \in SUBSET S
    OBVIOUS
  <2>2. \A v \in S : Cardinality(Under(v)) \in Nat
    BY <1>3, <2>1, Zenon
  <2>. QED
    BY <2>2 DEF Rank
<1>6. ASSUME NEW v \in S PROVE Rank(R, S, v) \in 0 .. c - 1
  <2>1. /\ Under(v) \in SUBSET S /\ v \notin Under(v)
        /\ Under(v) \subseteq S /\ S \in SUBSET S
    BY <1>1
  <2>. HIDE DEF Under
  <2>2. Cardinality(Under(v)) < Cardinality(S)
    BY <1>4, <2>1
  <2>. QED
    BY <1>2, <1>5, <2>2
<1>7. ASSUME NEW u \in S, NEW v \in S, <<u, v>> \in R PROVE Rank(R, S, u) < Rank(R, S, v)
  <2>1. /\ Under(u) \in SUBSET S /\ Under(v) \in SUBSET S
        /\ u \in Under(v) /\ u \notin Under(u) /\ Under(u) \subseteq Under(v)
    BY <1>1, <1>7
  <2>. HIDE DEF Under
  <2>2. Cardinality(Under(u)) < Cardinality(Under(v))
    BY <1>4, <2>1
  <2>. QED
    BY <1>5, <2>2
<1>8. ASSUME NEW u \in S, NEW v \in S, Rank(R, S, u) = Rank(R, S, v) PROVE u = v
  <2>1. Rank(R, S, u) \in Nat
    BY <1>5
  <2>. HIDE DEF Rank
  <2>2. ~(Rank(R, S, u) < Rank(R, S, v)) /\ ~(Rank(R, S, v) < Rank(R, S, u))
    BY <1>8, <2>1
  <2>3. <<u, v>> \notin R /\ <<v, u>> \notin R
    BY <1>7, <2>2
  <2>. QED
    BY <1>1, <2>3
<1>9. \A n \in 0 .. c - 1 : \E v \in S : Rank(R, S, v) = n
  <2>. DEFINE f == [v \in S |-> Rank(R, S, v)]
              T == 0 .. c - 1
  <2>1. f \in [S -> T]
    BY <1>6
  <2>2. \A u, v \in S : f[u] = f[v] => u = v
    BY <1>8
  <2>3. f \in Injection(S, T)
    BY <2>1, <2>2 DEF Injection, IsInjective
  <2>4. IsFiniteSet(T) /\ Cardinality(T) = c
    BY <1>2, FS_Interval
  <2>5. f \in Surjection(S, T)
    BY <2>3, <2>4, FS_Injection
  <2>6. \A n \in T : \E v \in S : f[v] = n
    BY <2>5 DEF Surjection
  <2>. QED
    BY <2>6
<1>. QED
  BY <1>2, <1>6, <1>7, <1>8, <1>9

\* So the members of a finite set of numbers are its 0th, its 1st and so on, in order.
LEMMA NumbersRanked ==
  ASSUME NEW S \in SUBSET Int, IsFiniteSet(S)
  PROVE  /\ Cardinality(S) \in Nat
         /\ \A v \in S : Cardinality({w \in S : w < v}) \in 0 .. Cardinality(S) - 1
         /\ \A u, v \in S : u < v => Cardinality({w \in S : w < u}) < Cardinality({w \in S : w < v})
         /\ \A u, v \in S : Cardinality({w \in S : w < u}) = Cardinality({w \in S : w < v}) => u = v
         /\ \A n \in 0 .. Cardinality(S) - 1 : \E v \in S : Cardinality({w \in S : w < v}) = n
<1>. DEFINE R == {p \in S \X S : p[1] < p[2]}
<1>1. \A u, v \in S : <<u, v>> \in R <=> u < v
  OBVIOUS
<1>. HIDE DEF R
<1>2. Lines(R, S)
  BY <1>1 DEF Lines
<1>3. ASSUME NEW v \in S PROVE Rank(R, S, v) = Cardinality({w \in S : w < v})
  <2>1. {w \in S : <<w, v>> \in R} = {w \in S : w < v}
    BY <1>1
  <2>. QED
    BY <2>1 DEF Rank
<1>4. /\ Cardinality(S) \in Nat
      /\ \A v \in S : Rank(R, S, v) \in 0 .. Cardinality(S) - 1
      /\ \A u, v \in S : <<u, v>> \in R => Rank(R, S, u) < Rank(R, S, v)
      /\ \A u, v \in S : Rank(R, S, u) = Rank(R, S, v) => u = v
      /\ \A n \in 0 .. Cardinality(S) - 1 : \E v \in S : Rank(R, S, v) = n
  BY <1>2, Ranked
<1>. DEFINE r(v) == Rank(R, S, v)
            q(v) == Cardinality({w \in S : w < v})
<1>5. \A v \in S : q(v) = r(v)
  BY <1>3
<1>. SUFFICES /\ Cardinality(S) \in Nat
              /\ \A v \in S : q(v) \in 0 .. Cardinality(S) - 1
              /\ \A u, v \in S : u < v => q(u) < q(v)
              /\ \A u, v \in S : q(u) = q(v) => u = v
              /\ \A n \in 0 .. Cardinality(S) - 1 : \E v \in S : q(v) = n
  OBVIOUS
<1>6. /\ Cardinality(S) \in Nat
      /\ \A v \in S : r(v) \in 0 .. Cardinality(S) - 1
      /\ \A u, v \in S : <<u, v>> \in R => r(u) < r(v)
      /\ \A u, v \in S : r(u) = r(v) => u = v
      /\ \A n \in 0 .. Cardinality(S) - 1 : \E v \in S : r(v) = n
  BY <1>4
<1>. HIDE DEF q, r
<1>7. \A v \in S : q(v) \in 0 .. Cardinality(S) - 1
  BY <1>5, <1>6
<1>8. ASSUME NEW u \in S, NEW v \in S, u < v PROVE q(u) < q(v)
  <2>1. <<u, v>> \in R
    BY <1>1, <1>8
  <2>2. r(u) < r(v)
    BY <1>6, <2>1, Zenon
  <2>3. q(u) = r(u) /\ q(v) = r(v)
    BY <1>5
  <2>. QED
    BY <2>2, <2>3
<1>9. \A u, v \in S : q(u) = q(v) => u = v
  BY <1>5, <1>6
<1>10. \A n \in 0 .. Cardinality(S) - 1 : \E v \in S : q(v) = n
  <2>1. ASSUME NEW n \in 0 .. Cardinality(S) - 1 PROVE \E v \in S : q(v) = n
    <3>1. PICK v \in S : r(v) = n
      BY <1>6
    <3>. QED
      BY <1>5, <3>1
  <2>. QED
    BY <2>1
<1>11. Cardinality(S) \in Nat
  BY <1>6
<1>. QED
  BY <1>7, <1>8, <1>9, <1>10, <1>11, Zenon

-----------------------------------------------------------------------------
(* Recursion over an interval.                                               *)

Steps(k, A, a, G) == k \in Nat /\ a \in A /\ G \in [A -> A]

LEMMA Stepwise ==
  ASSUME NEW k, NEW A, NEW a, NEW G, Steps(k, A, a, G)
  PROVE  \E h \in [0 .. k -> A] : h[0] = a /\ \A j \in 1 .. k : h[j] = G[h[j - 1]]
<1>0. k \in Nat /\ a \in A /\ G \in [A -> A]
  BY DEF Steps
<1>. DEFINE Good(m, h) == h[0] = a /\ \A j \in 1 .. m : h[j] = G[h[j - 1]]
            K == {m \in Nat : \E h \in [0 .. m -> A] : Good(m, h)}
<1>1. 0 \in K
  <2>1. [j \in 0 .. 0 |-> a] \in [0 .. 0 -> A] /\ Good(0, [j \in 0 .. 0 |-> a])
    BY <1>0
  <2>. QED
    BY <2>1
<1>2. ASSUME NEW m \in K PROVE m + 1 \in K
  <2>1. PICK h \in [0 .. m -> A] : Good(m, h)
    BY <1>2
  <2>. DEFINE g == [j \in 0 .. m + 1 |-> IF j <= m THEN h[j] ELSE G[h[m]]]
  <2>2. m \in Nat /\ h[m] \in A
    BY <1>2
  <2>3. g \in [0 .. m + 1 -> A]
    BY <1>0, <2>2
  <2>4. g[0] = a
    BY <2>1, <2>2
  <2>5. ASSUME NEW j \in 1 .. m + 1 PROVE g[j] = G[g[j - 1]]
    <3>1. CASE j <= m
      <4>1. j \in 1 .. m /\ j - 1 \in 0 .. m /\ j - 1 <= m
        BY <2>2, <3>1
      <4>. QED
        BY <2>1, <2>2, <3>1, <4>1
    <3>2. CASE j = m + 1
      BY <2>2, <3>2
    <3>3. j <= m \/ j = m + 1
      BY <2>2
    <3>. QED
      BY <3>1, <3>2, <3>3
  <2>. HIDE DEF g
  <2>6. Good(m + 1, g)
    BY <2>4, <2>5
  <2>. HIDE DEF Good
  <2>. QED
    BY <2>2, <2>3, <2>6
<1>3. K = Nat
  <2>. HIDE DEF K
  <2>1. K \in SUBSET Nat
    BY DEF K
  <2>. QED
    BY <1>1, <1>2, <2>1, Inductive
<1>. QED
  BY <1>0, <1>3

=============================================================================
