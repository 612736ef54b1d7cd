------------------------------- MODULE Replay --------------------------------
(***************************************************************************)
(* One replay of a frozen world (replay.py: ReplaySimulator.replay and the *)
(* ReplayRun it steps): a recorded tree is revealed a batch at a time,     *)
(* each selection retrieving the earliest-created child it has not seen,   *)
(* until the whole tree is revealed, the policy stops or K2 rounds pass.   *)
(*                                                                         *)
(* The world is any tree the loader accepts: one of ours branches at the   *)
(* root only and numbers parents first, but a tree recorded elsewhere may  *)
(* branch anywhere and number its nodes in any order, and may carry what a *)
(* node may hold and a trajectory may not.  The policy may answer with any *)
(* sequence of ids.                                                        *)
(***************************************************************************)
EXTENDS DiscoveryTree, Integers, SequencesExt

CONSTANTS
  Scores,    \* the scores a node may record, in canonical units (higher is better)
  NoScore,   \* a node that recorded none
  Odd,       \* a node no trajectory can hold: a bool for a score, an observation not a string
  MaxSize,   \* bound: attempts in a world
  MaxScored, \* bound: attempts in a world in which any is scored
  Limit,     \* K2, or DefaultLimit for the number of recorded attempts
  DefaultLimit,
  MaxBatch   \* bound: selections in one batch

ASSUME ReplayConfig ==
  /\ Scores \subseteq Int /\ NoScore \notin Scores /\ Odd \notin Scores \cup {NoScore}
  /\ MaxSize \in Nat /\ MaxScored \in Nat /\ MaxBatch \in Nat
  /\ Limit \in Nat \cup {DefaultLimit} /\ DefaultLimit \notin Nat

VARIABLES
  parent,    \* the world: the parent of each recorded node, in creation order
  score,     \* and what each node, the root included, scored
  revealed,  \* the ids revealed so far, in order; the root is first
  rounds,    \* how many decision rounds were taken
  last,      \* the latest of them: what was selected and what that revealed
  wasted,    \* how many revealed nothing
  logged,    \* how many nodes all their entries in the log reveal
  curve,     \* one point per revealed attempt
  best,      \* the best score met so far, or NoScore
  stop       \* why the replay ended, or "running"

world == <<parent, score>>
log   == <<rounds, last, wasted, logged>>
vars  == <<parent, score, revealed, log, curve, best, stop>>

NoRound == [selected |-> <<>>, revealed |-> <<>>]
Worlds == {w \in UNION {[1 .. n -> 0 .. n] : n \in 0 .. MaxSize} : Accepts(w)}

\* What the nodes of a world may record; one of them may be odd.
Recorded(w, values) ==
  {s \in [Nodes(w) -> values] : \A m, n \in Nodes(w) : s[m] = Odd /\ s[n] = Odd => m = n}

\* ReplayRun.__init__: the root is revealed, and what it scored is attained already.
Start ==
  /\ revealed = <<Root>>
  /\ rounds = 0 /\ last = NoRound /\ wasted = 0 /\ logged = 0 /\ curve = <<>>
  /\ best = IF score[Root] = Odd THEN NoScore ELSE score[Root]
  /\ stop = IF score[Root] = Odd THEN "raised" ELSE "running"

Init ==
  /\ parent \in Worlds
  /\ score \in Recorded(parent,
       {NoScore} \cup IF Len(parent) <= MaxScored THEN Scores \cup {Odd} ELSE {})
  /\ Start

Revealed == ToSet(revealed)
Complete == Len(revealed) = Len(parent) + 1

\* A(T) of the revealed subtree.
Frontier == {v \in Revealed : v = Root \/ Children(parent, v) \cap Revealed = {}}

\* The best score over a set of revealed nodes, or none (also policy.py _best_score).
BestOver(nodes) ==
  LET met == {score[n] : n \in nodes} \ {NoScore} IN IF met = {} THEN NoScore ELSE Max(met)

\* _next_child, for the i-th selection of s: the selections of the same node before it
\* in the batch have taken that many of the node's unrevealed children, oldest first.
None == Root    \* no selection ever retrieves the root
\* The member of a set of ids (or of positions) that has n smaller ones in it.
Nth(nodes, n) == CHOOSE c \in nodes : Cardinality({d \in nodes : d < c}) = n
\* (Seeded defect: a later selection of the root does not look at the earlier ones.)
RetrievedAlone(s, i) ==
  LET left == Children(parent, s[i]) \ Revealed
  IN  IF left = {} THEN None ELSE CHOOSE c \in left : \A d \in left : c <= d
Retrieved(s, i) ==
  LET left  == Children(parent, s[i]) \ Revealed
      taken == Cardinality({j \in 1 .. i - 1 : s[j] = s[i]})
  IN  IF Cardinality(left) <= taken THEN None ELSE Nth(left, taken)

\* _record's running best, over the best so far and what has been revealed since.
\* (Seeded defect: an attempt without a score counts as one that scored nothing.)
RunningBestZero(sofar, ids) ==
  LET met == ({sofar} \ {NoScore})
               \cup {IF score[n] = NoScore THEN 0 ELSE score[n] : n \in ids}
  IN  IF met = {} THEN NoScore ELSE Max(met)
RunningBest(sofar, ids) ==
  LET met == ({sofar} \cup {score[n] : n \in ids}) \ {NoScore}
  IN  IF met = {} THEN NoScore ELSE Max(met)

\* _record, for the nodes one round reveals.
Extended(new) ==
  curve \o [i \in DOMAIN new |->
    [node |-> new[i], score |-> score[new[i]],
     best |-> RunningBest(best, {new[j] : j \in 1 .. i})]]

\* What a batch retrieves: for each selection a node, or None.
Found(s) == [i \in DOMAIN s |-> Retrieved(s, i)]
New(s)   ==
  LET hits == {i \in DOMAIN s : Found(s)[i] # None}
  IN  [r \in 1 .. Cardinality(hits) |-> Found(s)[Nth(hits, r - 1)]]

\* One node a trajectory cannot hold refuses the whole round (_score, _observations).
Holdable(s) == \A c \in ToSet(New(s)) : score[c] # Odd

Legal(s) == s # <<>> /\ IsAction(s, Frontier)

\* ReplayRun.reveal
Reveal(s) ==
  /\ Legal(s) /\ Holdable(s)
  /\ revealed' = revealed \o New(s)
  /\ curve' = Extended(New(s))
  /\ best' = RunningBest(best, ToSet(New(s)))
  /\ rounds' = rounds + 1
  /\ last' = [selected |-> s, revealed |-> Found(s)]
  /\ wasted' = IF New(s) = <<>> THEN wasted + 1 ELSE wasted
  /\ logged' = logged + Len(New(s))
  /\ UNCHANGED <<world, stop>>

-----------------------------------------------------------------------------
(* ReplaySimulator.replay                                                    *)

\* (Seeded defect: the default cap is one round short.)
RoundsLeftShort == (IF Limit = DefaultLimit THEN Len(parent) - 1 ELSE Limit) - rounds
RoundsLeft == (IF Limit = DefaultLimit THEN Len(parent) ELSE Limit) - rounds

Running == stop = "running"
StopFor(reason) == stop' = reason /\ UNCHANGED <<world, revealed, log, curve, best>>

\* A batch that is no action is refused before it is looked up, one that retrieves what no
\* trajectory can hold before any of it is revealed.
\* (Seeded defect: what was retrieved before that node is revealed already.)
RefuseAsItGoes(s) ==
  \/ ~IsAction(s, Frontier) /\ StopFor("raised")
  \/ LET ok == SelectSeq(New(s), LAMBDA c : score[c] # Odd)
     IN  /\ Legal(s) /\ ~Holdable(s)
         /\ stop' = "raised"
         /\ revealed' = revealed \o ok /\ curve' = Extended(ok)
         /\ UNCHANGED <<world, log, best>>
Refuse(s) ==
  /\ \/ ~IsAction(s, Frontier)
     \/ Legal(s) /\ ~Holdable(s)
  /\ StopFor("raised")

AllRevealed == Running /\ Complete /\ StopFor("all_revealed")
OutOfRounds == Running /\ ~Complete /\ RoundsLeft <= 0 /\ StopFor("max_rounds")
MaySelect == Running /\ ~Complete /\ RoundsLeft > 0

\* The batches a policy may answer with: any ids, one that no node has included.
Answers == UNION {[1 .. k -> 0 .. Len(parent) + 1] : k \in 0 .. MaxBatch}

PolicyStops == MaySelect /\ StopFor("empty_batch")
RefuseBatch(s) == MaySelect /\ Refuse(s)
Decide(s) == MaySelect /\ Reveal(s)

Next ==
  \/ AllRevealed \/ OutOfRounds \/ PolicyStops
  \/ \E s \in Answers : RefuseBatch(s) \/ Decide(s)

Spec == Init /\ [][Next]_vars

-----------------------------------------------------------------------------
(* Properties.                                                               *)

\* What the loaders of a trajectory take (SimResult.from_dict and its parts): columns of
\* one length, and numbers or nothing for scores.
IsNumber(value)   == value \in Scores \cup {NoScore}
RoundReads(round) == Len(round.selected) = Len(round.revealed)
PointReads(point) == IsNumber(point.score) /\ IsNumber(point.best)
Loads == RoundReads(last) /\ IsNumber(best) /\ \A i \in DOMAIN curve : PointReads(curve[i])

Stopped == {"all_revealed", "max_rounds", "empty_batch", "raised", "barren", "budget"}

\* The type invariant.
TypeOK ==
  /\ Accepts(parent) /\ score \in [Nodes(parent) -> Scores \cup {NoScore, Odd}]
  /\ revealed \in Seq(Nodes(parent)) /\ Len(revealed) = Len(curve) + 1
  /\ rounds \in Nat /\ wasted \in 0 .. rounds /\ logged \in Nat
  /\ Len(last.selected) = Len(last.revealed)
  /\ ToSet(last.revealed) \subseteq Nodes(parent) /\ ToSet(last.revealed) \ {None} \subseteq Revealed
  /\ best \in Scores \cup {NoScore}
  /\ stop \in Stopped \cup {"running"}

\* What is handed to the policy is a tree again and again: nothing is revealed twice, no
\* node before its parent, and no child before an older sibling (replay.py _next_child).
RevealedInOrder ==
  /\ Cardinality(Revealed) = Len(revealed)
  /\ \A i \in 2 .. Len(revealed) :
       LET n == revealed[i]
           before == {revealed[j] : j \in 1 .. i - 1}
       IN  /\ parent[n] \in before
           /\ \A older \in Children(parent, parent[n]) : older < n => older \in before

\* What a run hands over can be read back and describes the replay that ran, also of one
\* that ended on a node no trajectory can hold: the log's rounds line up and name every
\* revealed node, one curve point to each; and Equation 1's attainment is the best score
\* over the revealed subtree, the root included, at every point of the curve, an attempt
\* without a score never counted as a zero (replay.py reveal, _record; SimResult.from_dict).
TrajectoryReadsBack ==
  /\ Loads
  /\ logged = Len(curve) /\ Len(revealed) = logged + 1
  /\ score[Root] # Odd => best = BestOver(Revealed)
  /\ \A i \in DOMAIN curve : /\ curve[i].node = revealed[i + 1]
                             /\ curve[i].best = BestOver({revealed[j] : j \in 1 .. i + 1})

\* The default cap "never truncates a replay that is making progress": it is met only
\* after a round that revealed nothing (replay.py, ReplaySimulator.replay on K2).
DefaultCapSpares ==
  stop = "max_rounds" /\ Limit = DefaultLimit => wasted > 0

=============================================================================
