------------------------------- MODULE Retrace -------------------------------
(***************************************************************************)
(* A recorded rollout replayed by the decisions that recorded it: Rollout  *)
(* runs to its end, and then Replay, over the tree it recorded, takes the  *)
(* selections of its round log one after the other.  Both phases use one   *)
(* decision interface (orchestrator.py, replay.py), so this retraces it.   *)
(***************************************************************************)
EXTENDS Rollout, SequencesExt

VARIABLES
  revealed, taken, last, wasted, logged, curve, best, stop   \* the replay's own state

replayVars == <<revealed, taken, last, wasted, logged, curve, best, stop>>

DefaultLimit == "default"
Again == INSTANCE Replay WITH
  score <- [n \in Nodes(parent) |-> IF n = Root THEN NoProposal ELSE outcome[n]],
  rounds <- taken, Scores <- Outcomes, NoScore <- NoProposal, Odd <- Unknown,
  MaxSize <- MaxNodes, MaxScored <- MaxNodes, Limit <- DefaultLimit

InitRetrace ==
  /\ Init
  /\ revealed = <<Root>> /\ curve = <<>> /\ best = NoProposal
  /\ taken = 0 /\ last = Again!NoRound /\ wasted = 0 /\ logged = 0
  /\ stop = "running"

\* run_rollout returns the tree for every stop reason, and none when it raises.
Recorded == pc \in StopReasons

\* The next round of the log, asked of the replay, which refuses an empty one.
Ask == rounds[taken + 1].selected
RetraceRound ==
  /\ Recorded /\ taken < Len(rounds)
  /\ UNCHANGED vars
  /\ \/ Again!RefuseBatch(Ask) \/ Again!Decide(Ask)
     \/ Ask = <<>> /\ Again!MaySelect /\ Again!StopFor("raised")

RetraceEnd ==
  /\ Recorded
  /\ UNCHANGED vars
  /\ \/ Again!AllRevealed \/ Again!OutOfRounds
     \/ taken = Len(rounds) /\ Again!PolicyStops

NextRetrace ==
  \/ Next /\ UNCHANGED replayVars
  \/ RetraceRound \/ RetraceEnd

SpecRetrace == InitRetrace /\ [][NextRetrace]_<<vars, replayVars>>

\* The fairness of the rollout (Rollout!FairSpec); nothing is asked of the replay.
FairRetrace ==
  /\ SpecRetrace
  /\ WF_<<vars, replayVars>>(Runner /\ UNCHANGED replayVars)
  /\ WF_<<vars, replayVars>>(Worker /\ UNCHANGED replayVars)

-----------------------------------------------------------------------------
(* Properties.                                                               *)

\* Replay takes every batch a recorded rollout issued, and each selection reveals the
\* very node it created: the replayed rounds are the recorded ones (replay.py replay,
\* on `width`; orchestrator.py _check_batch).  Under the default K2 the whole recording is
\* reached, in as many rounds as the rollout took and never cut short by the cap.
RetraceIsExact ==
  /\ stop # "raised"
  /\ taken > 0 => last = [selected |-> rounds[taken].selected,
                          revealed |-> rounds[taken].produced]
  /\ stop # "running" => stop = "all_revealed" /\ taken = Len(rounds)

=============================================================================
