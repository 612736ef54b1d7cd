----------------------------- MODULE Strategies ------------------------------
(***************************************************************************)
(* The three baseline strategies (policy.py: BreadthFirstPolicy,           *)
(* GreedyBestFirstPolicy, BudgetAwarePolicy) and the observation signals   *)
(* they reason in, as operators on the revealed tree of a Replay.  Each    *)
(* answers one decision: `live` is the set of nodes it is offered, `width` *)
(* how many it may select, and b its beta in quarters.                     *)
(***************************************************************************)
EXTENDS Replay

Lesser(a, b)  == IF a < b THEN a ELSE b
Greater(a, b) == IF a > b THEN a ELSE b
First(s, n)   == SubSeq(s, 1, Lesser(n, Len(s)))

\* round(2 * beta): Python rounds a half to even.
RoundTwice(b) == IF b % 2 = 0 THEN b \div 2 ELSE 2 * ((b + 1) \div 4)
\* _schedule, and the patience of the greedy strategy.
Allowance(b) == Greater(1, 2 * b)
Patience(b)  == Greater(1, RoundTwice(b))

\* _attempts: what leads to v, oldest first, the root excluded.
Path(v) ==
  LET path[n \in Nodes(parent)] == IF n = Root THEN <<>> ELSE Append(path[parent[n]], n)
  IN  path[v]

\* _depth, as a policy counts it.
Level(v) == Len(Path(v))

\* _window: the last n attempts of a branch, all of them when there are fewer.
Tip(v, n) == {Path(v)[i] : i \in {j \in DOMAIN Path(v) : j > Level(v) - n}}

\* _anchor: the best score on the path from the root to v.
Anchor(v) == BestOver({Root} \cup ToSet(Path(v)))

-----------------------------------------------------------------------------
(* The signals.                                                              *)

\* _gained, with the default margin of zero.
Gained(value, reference) ==
  value # NoScore /\ (reference = NoScore \/ value > reference)

ImprovedVsParent(n)             == n # Root /\ Gained(score[n], score[parent[n]])
ImprovedVsBaseline(n, baseline) == n # Root /\ Gained(score[n], baseline)

\* branch_promising
\* (Seeded defect: the tip alone is looked at, however patient the policy is.)
PromisingAtTip(v, patience) == v # Root /\ ImprovedVsParent(v)
Promising(v, patience)      == \E n \in Tip(v, patience) : ImprovedVsParent(n)

\* branch_failed_hard
FailedHard(v, streak) ==
  Level(v) >= streak /\ \A n \in Tip(v, streak) : score[n] = NoScore

-----------------------------------------------------------------------------
(* The strategies.                                                           *)

Ascending(nodes) == [i \in 1 .. Cardinality(nodes) |-> Nth(nodes, i - 1)]
NewBranches(n)   == [i \in 1 .. n |-> Root]

\* _by_anchor: each has as many before it as its place.
Ahead(m, n) == Anchor(m) > Anchor(n) \/ (Anchor(m) = Anchor(n) /\ m < n)
ByAnchor(live) ==
  LET met == {v \in live \ {Root} : Anchor(v) # NoScore}
  IN  [i \in 1 .. Cardinality(met) |->
        CHOOSE v \in met : Cardinality({w \in met : Ahead(w, v)}) = i - 1]

BreadthFirst(live, width) ==
  LET leaves    == live \ {Root}
      shallowest == {v \in leaves : \A w \in leaves : Level(v) <= Level(w)}
  IN  IF leaves # {} THEN First(Ascending(shallowest), width)
      ELSE IF Root \in live THEN NewBranches(width)
      ELSE <<>>

\* (Seeded defect: a branch that only ever failed is never refined.)
GreedyAnchoredOnly(live, width, b) ==
  LET ranked == ByAnchor(live)
  IN  IF ranked # <<>> THEN <<ranked[1]>>
      ELSE IF Root \in live THEN NewBranches(width)
      ELSE <<>>
Greedy(live, width, b) ==
  LET ranked    == ByAnchor(live)
      promising == {i \in DOMAIN ranked : Promising(ranked[i], Patience(b))}
  IN  IF promising # {} THEN <<ranked[Min(promising)]>>
      ELSE IF ranked # <<>> THEN <<ranked[1]>>
      ELSE IF Root \in live THEN NewBranches(width)
      ELSE First(Ascending(live), 1)

\* What BudgetAwarePolicy keeps: the best score it has met, the size the tree had then
\* (0 before its first decision), and the rounds since that revealed something.
Untracked == [best |-> NoScore, size |-> 0, stagnant |-> 0]

\* _track
Tracked(track) ==
  LET now  == BestOver(Revealed)
      grew == track.size # 0 /\ Len(revealed) > track.size
  IN  IF Gained(now, track.best)
      THEN [best |-> now, size |-> Len(revealed), stagnant |-> 0]
      ELSE [best |-> track.best, size |-> Len(revealed),
            stagnant |-> IF grew THEN track.stagnant + 1 ELSE track.stagnant]

\* Its batch, once it has tracked the tree.
BudgetAware(live, width, b, track) ==
  LET room  == Allowance(b) - (Len(revealed) - 1)
      slots == Lesser(width, room)
      roots == IF Root \in live /\ slots > 0 THEN <<Root>> ELSE <<>>
  IN  IF room <= 0 \/ track.stagnant >= Patience(b) THEN <<>>
      ELSE roots \o First(ByAnchor(live), slots - Len(roots))

=============================================================================
