----------------------------- MODULE RunHistory -----------------------------
(***************************************************************************)
(* What a run directory promises, with no files in it: one history of      *)
(* cycles that only ever grows at its end, each deploying the policy the   *)
(* one before it selected (run.py: run_cycles, _resume; Run.load reads it  *)
(* back).  Crashes, restarts and refused sessions are stuttering steps.    *)
(***************************************************************************)
EXTENDS Sequences, Naturals

CONSTANTS Policies, Trees, MaxCycles

VARIABLE history   \* the finished cycles, in order

Records == [tree : Trees, policy : Policies, next : Policies]

Init == history = <<>>

\* One more outer iteration: deploy, roll out, dream, select.
RunCycle ==
  /\ Len(history) < MaxCycles
  /\ \E record \in Records :
       /\ history # <<>> => record.policy = history[Len(history)].next
       /\ history' = Append(history, record)

Next == RunCycle

Spec == Init /\ [][Next]_history

=============================================================================
