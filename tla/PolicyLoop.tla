----------------------------- MODULE PolicyLoop ------------------------------
(***************************************************************************)
(* A policy at work on a frozen world (policy.py: OptimalPolicy): what its *)
(* `select` remembers from one decision to the next, under each of the     *)
(* three loops that call it.  "replay" is ReplaySimulator.replay, which    *)
(* resets the policy and caps the rounds at K2; "hand" is a caller that    *)
(* steps `select` and `reveal` itself and may bring what an earlier        *)
(* rollout left; "solve" is the policy's own loop over a question, which   *)
(* ends by a budget or by going barren.                                    *)
(*                                                                         *)
(* The strategy (`choose`) is one of the three baselines, or any at all,   *)
(* which may answer with any ids, those it was not offered included.       *)
(***************************************************************************)
EXTENDS Strategies

CONSTANTS
  Budgets,   \* budgets a solve may be given, in revealed nodes
  NoBudget,  \* or none
  MaxSolved, \* bound: attempts in a world that is solved or stepped by hand
  Betas,     \* the betas a baseline may run at, in quarters
  MaxForked  \* bound: attempts in a world given to a baseline that branches off the root too

ASSUME LoopConfig ==
  /\ Budgets \subseteq Nat /\ NoBudget \notin Budgets /\ MaxSolved \in Nat
  /\ Betas \subseteq Nat \ {0} /\ MaxForked \in Nat

VARIABLES
  policy,    \* the strategy, its beta, and the width the driver offers
  driver,    \* "replay", "hand" or "solve"
  budget,    \* what solve was given
  closed,    \* _closed: nodes shown to have no continuation
  selected,  \* _selected: the children each node of the last batch had before it
  track,     \* BudgetAwarePolicy: _best, _size and _stagnant
  barren,    \* solve: the rounds since the tree last grew
  size,      \* solve: and how large it was then
  strayed    \* whether the strategy ever answered with a node it was not offered as live

memory     == <<closed, selected, track, strayed>>
loopVars   == <<policy, driver, budget, barren, size>>
policyVars == <<memory, loopVars>>

AnyPolicy == [choose |-> "any", beta |-> 4, width |-> MaxBatch]
Baselines == [choose : {"breadth"}, beta : {4}, width : 1 .. MaxBatch]   \* it reads no beta
               \cup [choose : {"greedy", "budget"}, beta : Betas, width : 1 .. MaxBatch]

\* A policy is reset by both of the drivers; a hand-stepped one may not be.
Forgotten == [closed |-> {}, selected |-> <<>>, track |-> Untracked]
Leftovers(p) ==
  [closed : SUBSET {Root, 1}, selected : {<<>>, [v \in {Root} |-> 1]}, track : {Untracked}]
    \cup {[Forgotten EXCEPT !.track = [best |-> 1, size |-> 2, stagnant |-> n]] :
            n \in IF p.choose = "budget" THEN 0 .. Patience(p.beta) ELSE {}}

\* Any strategy meets every world of Replay, a baseline every small one and, larger, those
\* recorded here: only the root branches, and it has no score.
WorldOf(p) ==
  /\ parent \in Worlds
  /\ IF p.choose = "any"
     THEN score \in Recorded(parent,
            {NoScore} \cup IF Len(parent) <= MaxScored THEN Scores \cup {Odd} ELSE {})
     ELSE /\ score \in Recorded(parent, Scores \cup {NoScore})
          /\ Len(parent) <= MaxForked \/ (/\ OnlyRootBranches(parent) /\ IsTree(parent)
                                         /\ score[Root] = NoScore)

InitLoop ==
  /\ policy \in {AnyPolicy} \cup Baselines
  /\ WorldOf(policy) /\ Start
  /\ driver \in {"replay", "hand", "solve"}
  /\ driver # "replay" => /\ Len(parent) <= MaxSolved
                          /\ policy.choose = "any" => \A v \in Nodes(parent) : score[v] = NoScore
  /\ budget \in {NoBudget} \cup IF driver = "solve" THEN Budgets ELSE {}
  /\ \E held \in IF driver = "hand" THEN Leftovers(policy) ELSE {Forgotten} :
       closed = held.closed /\ selected = held.selected /\ track = held.track
  /\ barren = 0 /\ size = 0
  /\ strayed = FALSE

-----------------------------------------------------------------------------
(* OptimalPolicy.select                                                      *)

ChildCount(v) == Cardinality(Children(parent, v) \cap Revealed)

\* _close_barren, after dropping what a finished rollout left behind: a tree of only the
\* root is a rollout starting.
ClosedNow ==
  IF Revealed = {Root} THEN {}
  ELSE closed \cup {v \in DOMAIN selected : ChildCount(v) = selected[v]}

\* What is remembered of the batch s, of which the driver asks only `asked`
\* (_keep_selected).
\* (Seeded defect: what was cut is remembered too.)
HeldAll(s, asked) == [v \in ToSet(s) |-> ChildCount(v)]
Held(s, asked)    == [v \in ToSet(asked) |-> ChildCount(v)]

Live == Frontier \ ClosedNow

\* What BudgetAwarePolicy has tracked once it has looked at the tree; the guard of select
\* resets it only where something was closed or selected.
TrackNow ==
  Tracked(IF Revealed = {Root} /\ (closed # {} \/ selected # <<>>) THEN Untracked ELSE track)

\* What the strategy may answer when it is offered `width`.
Answered(width) ==
  CASE policy.choose = "any"     -> Answers
    [] policy.choose = "breadth" -> {BreadthFirst(Live, width)}
    [] policy.choose = "greedy"  -> {Greedy(Live, width, policy.beta)}
    [] policy.choose = "budget"  -> {BudgetAware(Live, width, policy.beta, TrackNow)}

Choose(s, asked) ==
  /\ closed' = ClosedNow
  /\ selected' = Held(s, asked)
  /\ track' = IF policy.choose = "budget" THEN TrackNow ELSE track
  /\ strayed' = (strayed \/ ToSet(s) \cap ClosedNow # {})

-----------------------------------------------------------------------------
(* ReplaySimulator.replay, and stepping by hand.                             *)

ReplayRound(s) ==
  /\ driver # "solve"
  /\ RefuseBatch(s) \/ Decide(s)
  /\ Choose(s, s)
  /\ UNCHANGED loopVars

ReplayEnd ==
  /\ driver # "solve"
  /\ \/ (AllRevealed \/ OutOfRounds) /\ UNCHANGED memory
     \/ PolicyStops /\ <<>> \in Answered(policy.width) /\ Choose(<<>>, <<>>)
  /\ UNCHANGED loopVars

-----------------------------------------------------------------------------
(* OptimalPolicy.solve                                                       *)

\* (Seeded defect: the size the tree had last is not kept.)
GrownAlways == Len(revealed) > 0
Grown == Len(revealed) > size

BarrenNow == IF Grown THEN 0 ELSE barren + 1

TooBarren == BarrenNow > Cardinality(Frontier)

Spent      == Len(revealed) - 1
\* (Seeded defect: the whole width is offered.)
RoomAll    == policy.width
Room       == IF budget = NoBudget THEN policy.width ELSE Lesser(policy.width, budget - Spent)
Exhausted  == budget # NoBudget /\ Spent >= budget
AskedOf(s) == IF budget = NoBudget \/ Len(s) <= budget - Spent THEN s
              ELSE SubSeq(s, 1, budget - Spent)

Solving == driver = "solve" /\ Running /\ ~Complete

SolveEnd ==
  /\ \/ driver = "solve" /\ AllRevealed
     \/ Solving /\ TooBarren /\ StopFor("barren")
     \/ Solving /\ ~TooBarren /\ Exhausted /\ StopFor("budget")
  /\ UNCHANGED policyVars

SolveRound(s) ==
  /\ Solving /\ ~TooBarren /\ ~Exhausted
  /\ Choose(s, AskedOf(s))
  /\ barren' = BarrenNow /\ size' = Len(revealed)
  /\ UNCHANGED <<policy, driver, budget>>
  /\ \/ s = <<>> /\ StopFor("empty_batch")
     \/ Refuse(AskedOf(s))
     \/ Reveal(AskedOf(s))

Offer == IF driver = "solve" THEN Room ELSE policy.width

NextLoop ==
  \/ ReplayEnd \/ SolveEnd
  \/ \E s \in Answered(Offer) : ReplayRound(s) \/ SolveRound(s)

SpecLoop == InitLoop /\ [][NextLoop]_<<vars, policyVars>>

-----------------------------------------------------------------------------
(* Properties.                                                               *)

\* The type invariant.
LoopTypeOK ==
  /\ TypeOK
  /\ driver \in {"replay", "hand", "solve"} /\ budget \in Budgets \cup {NoBudget}
  /\ policy \in {AnyPolicy} \cup Baselines /\ track.stagnant \in Nat
  /\ closed \subseteq Nodes(parent) \cup {1}
  /\ \A v \in DOMAIN selected : selected[v] \in Nat
  /\ barren \in 0 .. rounds /\ size \in 0 .. Len(revealed)
  /\ strayed \in BOOLEAN

\* "Only the world running out of recorded continuations closes anything": a node the
\* policy will not be offered again has no child left to reveal, whatever was cut from a
\* batch and whatever an earlier rollout left (policy.py select, _keep_selected).
ClosedIsExhausted ==
  Running => \A v \in ClosedNow : Children(parent, v) \subseteq Revealed

\* solve ends within its budget of nodes and, with none, after at most as many rounds as
\* a barren stretch at every size of the tree can have, whatever the strategy answers; and
\* "a policy still getting somewhere cannot go more consecutive rounds without a reveal
\* than there are nodes to close": it gives up as barren only on a policy that selected
\* what the world had already refused (policy.py solve).
SolveEndsInTime ==
  driver = "solve" =>
    /\ budget # NoBudget => Spent <= budget
    /\ 2 * rounds <= Len(parent) * (Len(parent) + 3)
    /\ stop = "barren" => strayed

\* A baseline is legal under every driver: it answers with live nodes only, no leaf twice
\* and no more of them than it is offered, so that a budget never has to cut its batch.
BaselinesAreLegal ==
  policy.choose # "any" =>
    /\ stop \notin {"raised", "barren"} /\ ~strayed
    /\ Running /\ ~Exhausted => \A s \in Answered(Offer) : Len(s) <= policy.width /\ AskedOf(s) = s

\* Rounds that took the best no further, as the curve tells it: attempts revealed since
\* the last that gained on everything before it, the root included.
SinceGain ==
  LET before(i) == IF i = 1 THEN score[Root] ELSE curve[i - 1].best
      gains     == {0} \cup {i \in DOMAIN curve : Gained(curve[i].best, before(i))}
  IN  Len(curve) - Max(gains)

\* The baselines stop for cause.  The first two never decline while the world still holds
\* anything their frontier can reach.  BudgetAwarePolicy opens its allowance at most, and
\* declines a rollout it was reset for only with the allowance spent, or `patience`
\* attempts without a gain behind it, or nothing left to open or refine that has measured
\* anything (policy.py choose of each, _track).
BaselinesStopForCause ==
  LET exhausted(v) == Children(parent, v) \subseteq Revealed
  IN /\ stop = "empty_batch" /\ policy.choose \in {"breadth", "greedy"} =>
          \A v \in Frontier : exhausted(v)
     /\ policy.choose = "budget" => Len(curve) <= Allowance(policy.beta)
     /\ stop = "empty_batch" /\ policy.choose = "budget" /\ driver # "hand" =>
          \/ Len(curve) = Allowance(policy.beta)
          \/ SinceGain >= Patience(policy.beta)
          \/ \A v \in Frontier : exhausted(v) \/ (v # Root /\ Anchor(v) = NoScore)

\* The signals agree with one another on every branch: one that is promising has an anchor
\* of its own, more patience never makes it less so, one attempt that fails or regresses
\* at the tip does not erase the gain before it, and one that failed hard over a streak is
\* not promising within it (policy.py, on its observation signals).
SignalsAgree ==
  \A v \in Frontier \ {Root} : \A n \in 1 .. Len(Path(v)) :
    /\ Promising(v, n) => /\ \E w \in Tip(v, n) : ImprovedVsBaseline(w, NoScore)
                          /\ \A m \in n .. Len(Path(v)) : Promising(v, m)
    /\ ImprovedVsParent(v) => Promising(v, n)
    /\ n >= 2 /\ parent[v] # Root /\ ImprovedVsParent(parent[v]) => Promising(v, n)
    /\ FailedHard(v, n) => \A m \in 1 .. n : ~Promising(v, m)

=============================================================================
