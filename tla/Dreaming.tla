------------------------------ MODULE Dreaming -------------------------------
(***************************************************************************)
(* The offline half of one cycle (run.py _cycle, steps 2 to 5): the        *)
(* incumbent and the revisions a development agent writes from it, one     *)
(* after the other (develop.py), each replayed over the worlds of the      *)
(* history by a pool of workers and scored by Equation 1 (dream.py,        *)
(* scoring.py), and the next policy selected among them (dream.py select). *)
(*                                                                         *)
(* What the agent writes is the list of what its module binds, statement   *)
(* by statement, which is all that decides whether it is taken and whether *)
(* it loads.  What a replay of a version that loads comes to is open: it   *)
(* attains some best score or none, by revealing some nodes in some        *)
(* rounds, or its policy raises.                                           *)
(***************************************************************************)
EXTENDS Integers, SequencesExt

CONSTANTS
  History,      \* trees in the pool: 1 is the oldest, History the newest
  Limit,        \* PoolConfig.limit, or NoLimit
  NoLimit,
  MaxVersions,  \* config.versions
  MaxAttempts,  \* config.attempts
  Workers,      \* DreamConfig.workers
  CostWeight,   \* beta 1, in units of 1 / Scale of a score
  BonusWeight,  \* beta 2, in the same units
  Scale,        \* divisible by every number of rounds a replay takes
  Replays,      \* what a replay may come to
  NoScore,      \* no attainment: no revealed node carries a score
  NegInf,       \* the score of attaining nothing: below every number
  Failed,       \* the version raised on the world
  Default,      \* the name the sandbox looks for where the module binds no NAME
  Other,        \* another class name
  Unreadable,   \* a NAME whose value is computed
  MaxStatements \* bound: module-level statements in what the agent writes

ASSUME DreamingConfig ==
  /\ History \in Nat \ {0} /\ Limit \in (Nat \ {0}) \cup {NoLimit} /\ NoLimit \notin Nat
  /\ MaxVersions \in Nat \ {0} /\ MaxAttempts \in Nat \ {0} /\ Workers \in Nat \ {0}
  /\ CostWeight \in Nat /\ BonusWeight \in Nat /\ Scale \in Nat \ {0}
  /\ Replays \subseteq [attainment : Int \cup {NoScore}, revealed : Nat, rounds : Nat]
  /\ NoScore \notin Int /\ NegInf \notin Int /\ Failed \notin Int \cup {NegInf} \cup Replays
  /\ Default # Other /\ Unreadable \notin {Default, Other} /\ MaxStatements \in Nat

VARIABLES
  worlds,    \* the trees this round dreams over
  versions,  \* what was developed, the incumbent first: each one's row and aggregate
  cells,     \* the row being replayed: where each world's cell is, and its result
  pc,        \* "score", "revise", "select", "done", or "raised"
  tries,     \* answers refused for the version being revised
  loads,     \* whether the sandbox can load the version being replayed
  rejected,  \* and in the whole round
  calls,     \* DevelopmentReport.calls
  asked,     \* how often the development agent was really asked
  replayed,  \* what each version's replay of each world really came to
  selected   \* the version deployed next, or 0

vars == <<worlds, versions, cells, pc, tries, loads, rejected, calls, asked, replayed, selected>>
agentVars == <<tries, loads, rejected, calls, asked>>

-----------------------------------------------------------------------------
(* Scores.  An aggregate is kept as the sum over the row: every row has one  *)
(* cell per world, so sums order the versions as their means do.             *)

\* Equation 1: quality - beta1 * N + beta2 * N / max(1, k).
\* (Seeded defect: attaining nothing is worth a score of zero.)
ReplayScoreZero(r) ==
  Scale * (IF r.attainment = NoScore THEN 0 ELSE r.attainment)
    - CostWeight * r.revealed * Scale + (BonusWeight * r.revealed * Scale) \div Max({1, r.rounds})
ReplayScore(r) ==
  IF r.attainment = NoScore THEN NegInf
  ELSE Scale * r.attainment - CostWeight * r.revealed * Scale
         + (BonusWeight * r.revealed * Scale) \div Max({1, r.rounds})

\* _aggregate: no aggregate where any world failed.
Total(values) == MapThenSumSet(LAMBDA w : values[w], DOMAIN values)
\* (Seeded defect: the worlds a version raised on are left out of its aggregate.)
AggregateSurvivors(row) ==
  LET ran    == {w \in DOMAIN row : row[w] # Failed}
      values == [w \in ran |-> ReplayScore(row[w])]
  IN  IF \E w \in ran : values[w] = NegInf THEN NegInf ELSE Total(values)
Aggregate(row) ==
  IF \E w \in DOMAIN row : row[w] = Failed THEN Failed
  ELSE LET values == [w \in DOMAIN row |-> ReplayScore(row[w])]
       IN  IF \E w \in DOMAIN row : values[w] = NegInf THEN NegInf ELSE Total(values)

Above(a, b) == a # NegInf /\ (b = NegInf \/ a > b)

-----------------------------------------------------------------------------
(* What the agent writes.  A statement is a class, binds under a class's name *)
(* something else that can be called (an alias, a factory, an import) or a   *)
(* value that cannot, binds NAME to a literal or to something computed, or   *)
(* annotates NAME and binds nothing.                                         *)

Names      == {Default, Other}
Statements ==
  {"class", "callable", "value", "literal", "computed"} \X Names \cup {<<"annotation", Default>>}
NotPython  == <<"no module">>
Sources    == {NotPython} \cup BoundedSeq(Statements, MaxStatements)

\* _declared_name: the class the sandbox will look for, where that can be read.
\* (Seeded defect: the first binding decides.)
DeclaredFirst(source) ==
  LET binds == SelectSeq(source, LAMBDA s : s[1] \in {"literal", "computed"})
  IN  IF binds = <<>> THEN Default ELSE IF binds[1][1] = "literal" THEN binds[1][2] ELSE Unreadable
Declared(source) ==
  FoldLeft(LAMBDA name, s : CASE s[1] = "literal"  -> s[2]
                              [] s[1] = "computed" -> Unreadable
                              [] OTHER             -> name,
           Default, source)

\* validate_source
Refused(source) ==
  \/ source = NotPython
  \/ /\ Declared(source) # Unreadable
     /\ <<"class", Declared(source)>> \notin ToSet(source)

\* _load_policy: the module is executed, and whatever can be called is taken where its
\* namespace holds it under the name looked for, a class of that name or anything else.
Executed(source) ==
  FoldLeft(LAMBDA ns, s :
             CASE s[1] \in {"literal", "computed"} -> [ns EXCEPT !.looked = s[2]]
               [] s[1] = "class"    -> [ns EXCEPT !.classes = @ \cup {s[2]}, !.others = @ \ {s[2]}]
               [] s[1] = "callable" -> [ns EXCEPT !.classes = @ \ {s[2]}, !.others = @ \cup {s[2]}]
               [] s[1] = "value"    -> [ns EXCEPT !.classes = @ \ {s[2]}, !.others = @ \ {s[2]}]
               [] OTHER             -> ns,
           [looked |-> Default, classes |-> {}, others |-> {}], source)
Loads(source) ==
  /\ source # NotPython
  /\ Executed(source).looked \in Executed(source).classes \cup Executed(source).others

\* What the versions the check takes come to in the sandbox.
LoadsTaken == {Loads(source) : source \in {s \in Sources : ~Refused(s)}}

-----------------------------------------------------------------------------
(* The round.                                                                *)

\* subsample: the newest tree, and any of the others up to the limit.
Subsamples ==
  {s \in SUBSET (1 .. History) :
     /\ History \in s
     /\ Cardinality(s) = IF Limit = NoLimit \/ History <= Limit THEN History ELSE Limit}

Unknown == [attainment |-> NoScore, revealed |-> 0, rounds |-> 0]
Fresh(ws) == [w \in ws |-> [at |-> "queued", result |-> Unknown]]

Init ==
  /\ worlds \in Subsamples
  /\ versions = <<>>
  /\ cells = Fresh(worlds)
  /\ pc = "score"
  /\ tries = 0 /\ rejected = 0 /\ calls = 0 /\ asked = 0
  /\ loads = TRUE    \* the incumbent has just been deployed
  /\ replayed = <<>>
  /\ selected = 0

Current  == Len(versions) + 1
Queued   == {w \in worlds : cells[w].at = "queued"}
InFlight == {w \in worlds : cells[w].at = "running"}

\* The pool hands the cells of a row to its workers in history order.
StartCell(w) ==
  /\ pc = "score" /\ w \in Queued /\ w = Min(Queued)
  /\ Cardinality(InFlight) < Workers
  /\ cells' = [cells EXCEPT ![w].at = "running"]
  /\ UNCHANGED <<worlds, versions, pc, agentVars, replayed, selected>>

\* _replay: a cell ends with a result, or with the exception its policy raised, which is
\* all a version that does not load ever does.
EndCell(w, result) ==
  /\ pc = "score" /\ w \in InFlight
  /\ loads \/ result = Failed
  /\ cells' = [cells EXCEPT ![w] = [at |-> "ended", result |-> result]]
  /\ replayed' = [c \in DOMAIN replayed \cup {<<Current, w>>} |->
                    IF c = <<Current, w>> THEN result ELSE replayed[c]]
  /\ UNCHANGED <<worlds, versions, pc, agentVars, selected>>

\* _score: the row is read back in history order, and the version joins the round.
Row == [w \in worlds |-> cells[w].result]
\* (Seeded defect: results are taken as replays end.)
EndRowAsEnded ==
  /\ pc = "score" /\ \A w \in worlds : cells[w].at = "ended"
  /\ \E order \in {f \in [worlds -> worlds] : \A u, w \in worlds : f[u] = f[w] => u = w} :
       LET row == [w \in worlds |-> Row[order[w]]]
       IN  versions' = Append(versions, [row |-> row, score |-> Aggregate(row)])
  /\ cells' = Fresh(worlds)
  /\ tries' = 0
  /\ pc' = IF Len(versions') = MaxVersions THEN "select" ELSE "revise"
  /\ UNCHANGED <<worlds, loads, rejected, calls, asked, replayed, selected>>
\* (Seeded defect: a replay that raised is never reported to the row that waits for it.)
EndRowWithoutFailures ==
  /\ pc = "score" /\ \A w \in worlds : cells[w].at = "ended" /\ cells[w].result # Failed
  /\ versions' = Append(versions, [row |-> Row, score |-> Aggregate(Row)])
  /\ cells' = Fresh(worlds)
  /\ tries' = 0
  /\ pc' = IF Len(versions') = MaxVersions THEN "select" ELSE "revise"
  /\ UNCHANGED <<worlds, loads, rejected, calls, asked, replayed, selected>>
EndRow ==
  /\ pc = "score" /\ \A w \in worlds : cells[w].at = "ended"
  /\ versions' = Append(versions, [row |-> Row, score |-> Aggregate(Row)])
  /\ cells' = Fresh(worlds)
  /\ tries' = 0
  /\ pc' = IF Len(versions') = MaxVersions THEN "select" ELSE "revise"
  /\ UNCHANGED <<worlds, loads, rejected, calls, asked, replayed, selected>>

-----------------------------------------------------------------------------
(* _revise: the agent is asked again after a refusal, MaxAttempts in all.    *)

\* Output validate_source refuses, or an agent that failed (RevisionFailed).
Refuse ==
  /\ pc = "revise" /\ tries < MaxAttempts
  /\ asked' = asked + 1
  /\ tries' = tries + 1
  /\ UNCHANGED <<worlds, versions, cells, pc, loads, rejected, calls, replayed, selected>>

\* One call per refusal, plus the one that was usable.
Accept ==
  /\ pc = "revise" /\ tries < MaxAttempts
  /\ asked' = asked + 1
  /\ rejected' = rejected + tries
  /\ calls' = calls + tries + 1
  /\ loads' \in LoadsTaken
  /\ pc' = "score"
  /\ UNCHANGED <<worlds, versions, cells, tries, replayed, selected>>

\* (Seeded defect: only the calls that led to a version are counted.)
GiveUpUncounted ==
  /\ pc = "revise" /\ tries = MaxAttempts
  /\ rejected' = rejected + tries
  /\ pc' = "select"
  /\ UNCHANGED <<worlds, versions, cells, tries, loads, calls, asked, replayed, selected>>
\* The round stops with the versions it has.
GiveUp ==
  /\ pc = "revise" /\ tries = MaxAttempts
  /\ rejected' = rejected + tries
  /\ calls' = calls + tries
  /\ pc' = "select"
  /\ UNCHANGED <<worlds, versions, cells, tries, loads, asked, replayed, selected>>

\* Anything else the agent raises is a broken harness, and leaves the round.
DeveloperRaises ==
  /\ pc = "revise" /\ tries < MaxAttempts
  /\ asked' = asked + 1
  /\ pc' = "raised"
  /\ UNCHANGED <<worlds, versions, cells, tries, loads, rejected, calls, replayed, selected>>

-----------------------------------------------------------------------------
(* select                                                                    *)

Score(v) == versions[v].score
Scored   == {v \in DOMAIN versions : Score(v) # Failed}
\* _best: the highest aggregate, the earliest of those that tie.
Bests == {v \in Scored : \A u \in Scored : ~Above(Score(u), Score(v))}
\* (Seeded defect: the argmax is deployed whatever it ties with, the latest one first.)
WinnerLatest == IF Scored = {} THEN 1 ELSE Max(Bests)
Winner ==
  IF \/ Scored = {}
     \/ 1 \in Scored /\ ~Above(Score(Min(Bests)), Score(1))
  THEN 1 ELSE Min(Bests)

\* _rank_key, and the first of the report's ranking.
\* (Seeded defect: a version that raised is ranked as one that scored zero.)
RankedAsZero(v, u) ==
  LET key(w) == IF Score(w) = Failed THEN 0 ELSE Score(w)
  IN  Above(key(v), key(u)) \/ (key(v) = key(u) /\ v < u)
RankedBefore(v, u) ==
  \/ v \in Scored /\ u \in Scored /\ Above(Score(v), Score(u))
  \/ v \in Scored /\ u \notin Scored
  \/ (v \in Scored <=> u \in Scored) /\ Score(v) = Score(u) /\ v < u
RankedFirst ==
  CHOOSE v \in DOMAIN versions : \A u \in DOMAIN versions \ {v} : RankedBefore(v, u)

\* Selection.margin as it is recorded: JSON has no number for an infinite one.
Margin ==
  IF selected = 1 THEN IF Score(1) = Failed THEN NoScore ELSE 0
  ELSE IF {Score(1), Score(selected)} \cap {Failed, NegInf} # {} THEN NoScore
  ELSE Score(selected) - Score(1)

\* _rationale: what the log says of the selection, and the version it compares it with.
Rationale ==
  LET others == Scored \ {1}
      runner == Min({v \in others : \A u \in others : ~Above(Score(u), Score(v))})
  IN  CASE selected # 1 -> [says |-> IF Score(1) = Failed THEN "no floor" ELSE "beats", of |-> 1]
        [] selected = 1 /\ Score(1) = Failed -> [says |-> "none scored", of |-> 1]
        [] selected = 1 /\ Score(1) # Failed ->
             IF others = {} THEN [says |-> "no other scored", of |-> 1]
             ELSE [says |-> "none beat it", of |-> runner]

\* The offline half of the cycle's record: DreamReport.cells and .reveals, and the calls.
Ran(v)    == {w \in worlds : versions[v].row[w] # Failed}
Reveals(v) == MapThenSumSet(LAMBDA w : versions[v].row[w].revealed, Ran(v))
DreamCost ==
  [developer_calls |-> calls,
   cells   |-> MapThenSumSet(LAMBDA v : Cardinality(DOMAIN versions[v].row), DOMAIN versions),
   reveals |-> MapThenSumSet(Reveals, DOMAIN versions)]

Select ==
  /\ pc = "select"
  /\ selected' = Winner
  /\ pc' = "done"
  /\ UNCHANGED <<worlds, versions, cells, agentVars, replayed>>

Step ==
  \/ \E w \in worlds : StartCell(w) \/ \E result \in Replays \cup {Failed} : EndCell(w, result)
  \/ EndRow \/ Refuse \/ Accept \/ GiveUp \/ Select \/ DeveloperRaises

Spec == Init /\ [][Step]_vars

\* Every replay ends (each policy answers or is killed at its sandbox's deadline), and so
\* does every call of the agent (a command has a timeout).  A replay whose policy never
\* reads a request larger than its pipe does not, and is left to Sandbox.
FairSpec == Spec /\ WF_vars(Step)

-----------------------------------------------------------------------------
(* Properties.                                                               *)

Rows == [worlds -> Replays \cup {Failed}]

\* The type invariant.
TypeOK ==
  /\ worlds \in Subsamples
  /\ versions \in Seq([row : Rows, score : Int \cup {NegInf, Failed}]) /\ Len(versions) <= MaxVersions
  /\ cells \in [worlds -> [at : {"queued", "running", "ended"},
                           result : Replays \cup {Failed, Unknown}]]
  /\ pc \in {"score", "revise", "select", "done", "raised"}
  /\ tries \in 0 .. MaxAttempts /\ loads \in BOOLEAN
  /\ rejected \in 0 .. MaxAttempts * MaxVersions
  /\ selected \in 0 .. Len(versions)

\* However the workers interleave and whichever worlds a version raises on, each cell of
\* the grid is what that version did on that world (dream: "map yields in submission
\* order, not completion order").
CellsAreTheirReplays ==
  \A v \in DOMAIN versions : \A w \in worlds :
    <<v, w>> \in DOMAIN replayed /\ versions[v].row[w] = replayed[<<v, w>>]

\* The next policy is no worse than the incumbent nor than any version that was scored;
\* the incumbent goes only to something strictly better, and among those that tie above
\* it the earliest wins (select).
NoWorseThanIncumbent ==
  selected # 0 =>
    /\ \A v \in Scored : selected \in Scored /\ ~Above(Score(v), Score(selected))
    /\ selected # 1 => \A v \in Scored : v < selected => Above(Score(selected), Score(v))

\* No version gains by failing: one that raised on any world is never deployed in place of
\* the incumbent (VersionReport: "a candidate could raise its own score by crashing"), and
\* attaining nothing on some world loses to attaining anything on every world, on tasks
\* whose scores are negative too (replay_score).
Attained(v) == \A w \in Ran(v) : versions[v].row[w].attainment # NoScore
FailingNeverPays ==
  selected # 0 =>
    /\ selected # 1 => Ran(selected) = worlds
    /\ LET whole == {v \in DOMAIN versions : Ran(v) = worlds /\ Attained(v)}
       IN  whole # {} => selected \in whole

\* What the record says of the selection is so: the deployed version is the one the report
\* ranks first, its margin is zero just where a scored incumbent stays and positive where
\* there is a floor to beat, and each thing the log may say of it holds of the round
\* (DreamReport.ranking, Selection.margin, _rationale).
SelectionReadsTrue ==
  selected # 0 =>
    /\ selected = RankedFirst
    /\ Margin = 0 <=> selected = 1 /\ 1 \in Scored
    /\ selected # 1 /\ Margin # NoScore => Margin > 0
    /\ CASE Rationale.says = "beats"           -> Above(Score(selected), Score(1))
         [] Rationale.says = "no floor"        -> 1 \notin Scored /\ selected \in Scored
         [] Rationale.says = "none scored"     -> Scored = {}
         [] Rationale.says = "no other scored" -> Scored = {1}
         [] Rationale.says = "none beat it"    -> ~Above(Score(Rationale.of), Score(1))

\* What the record says the offline half cost is what was spent: how often the agent was
\* asked, the tries of a version that was given up included, how many replays were run,
\* and what those that did not raise revealed (DreamCost, DevelopmentReport.calls).
SpentIsRecorded ==
  pc = "done" =>
    /\ DreamCost.developer_calls = asked /\ asked <= MaxAttempts * (MaxVersions - 1)
    /\ rejected = asked - (Len(versions) - 1)
    /\ DreamCost.cells = Cardinality(DOMAIN replayed)
    /\ DreamCost.reveals = MapThenSumSet(LAMBDA c : replayed[c].revealed,
                                         {c \in DOMAIN replayed : replayed[c] # Failed})

\* No answer is refused "over a name nothing will ask for": whatever the order of a
\* module's bindings, one where the sandbox would find a class of the name it looks for is
\* not asked for again, so that a refused module that would load is one that holds an
\* alias, a factory or an import there; and one that is taken under a name that can be
\* read has a class of that name (validate_source, _declared_name, _load_policy).
Unjustly == {source \in Sources : /\ Refused(source) /\ Loads(source)
                                  /\ Executed(source).looked \notin Executed(source).others}
Blindly  == {source \in Sources : /\ ~Refused(source) /\ Declared(source) # Unreadable
                                  /\ <<"class", Executed(source).looked>> \notin ToSet(source)}
RefusalsAreEarned ==
  /\ pc = "revise" /\ tries > 0 => Unjustly = {}
  /\ pc = "score" /\ versions # <<>> => Blindly = {}

\* Every round comes to a selection, or raises.
Ends == <>(pc \in {"done", "raised"})

=============================================================================
