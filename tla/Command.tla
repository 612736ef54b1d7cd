------------------------------- MODULE Command -------------------------------
(***************************************************************************)
(* A chain of attempts made and scored by commands (adapters/              *)
(* command_agent.py, command_evaluator.py, _command.py).  Each attempt     *)
(* resumes the workspace its parent left, runs the agent's command there,  *)
(* and, if that produced a new program, the evaluator's.  Both commands    *)
(* are processes no one vouches for: they may write any of the files,      *)
(* leave other processes behind, print without end, fail, hang, or end at  *)
(* the very moment the harness looks.                                      *)
(*                                                                         *)
(* A developer's command (command_developer.py) is run by itself, in a     *)
(* scratch directory of its own; the module it writes is the program there.*)
(*                                                                         *)
(* A program or a proposal is a member of Contents.  A score file that can *)
(* be read is known by the command that wrote it; one that cannot be is as *)
(* good as missing.  A pipe with a name (a FIFO) is not: whoever opens it  *)
(* waits for the other end.                                                *)
(***************************************************************************)
EXTENDS Naturals, Sequences

CONSTANTS
  MaxAttempts,  \* bound: attempts in the chain
  Contents,     \* what a program or a proposal may hold
  Missing,      \* a file that is not there
  Fifo,         \* a pipe where a file is looked for
  Blank         \* no rationale

ASSUME CommandBounds ==
  /\ MaxAttempts \in Nat \ {0}
  /\ {Missing, Fifo, Blank} \cap Contents = {} /\ Fifo \notin {Missing, Blank}

VARIABLES
  pc,        \* "resume", "start", "run", "kill", "judge", "score" (about to evaluate), "done"
  role,      \* whose command it is: "agent", "eval" or "developer"
  files,     \* the workspace: what each file holds, and what lies where the rationale is to go
  saved,     \* .dream_rsi/proposals: the rationale kept for each depth, or Missing
  before,    \* the program and the proposal the attempt resumed from
  artifact,  \* what it proposed: a program and its rationale
  leader,    \* the command: "none", "runs", or the status it exited with
  strays,    \* whose command left processes of its group besides it, or Missing
  printed,   \* more than max_output_bytes is in the sink
  status,    \* the outcome: an exit status, or Killed
  exceeded,  \* and whether it printed too much
  mishap,    \* whether a command of this attempt flooded, failed or was stopped
  records    \* what each attempt came to

vars == <<pc, role, files, saved, before, artifact, leader, strays, printed, status, exceeded,
          mishap, records>>
process == <<leader, strays, printed>>
outcome == <<status, exceeded>>
made    == <<saved, before, artifact>>
attempt == <<role, made, mishap, records>>

Nothing    == [program |-> Missing, proposal |-> Missing]
NoArtifact == [program |-> Missing, rationale |-> Missing]
ExitCodes == {"zero", "nonzero"}
Killed    == "killed"
Now       == Len(records) + 1           \* the attempt in hand
Writer    == [attempt |-> Now, role |-> role]

Init ==
  /\ files \in [program : Contents \cup {Missing}, proposal : {Missing},
                score : {Missing}, error : {FALSE}, kept : {Missing}]
  /\ \/ pc = "resume" /\ role = "agent"
     \/ pc = "start" /\ role = "developer" /\ files.program = Missing  \* the scratch directory
  /\ saved = [d \in 1 .. MaxAttempts |-> Missing]
  /\ before = Nothing /\ artifact = NoArtifact
  /\ leader = "none" /\ strays = Missing /\ printed = FALSE
  /\ status = Killed /\ exceeded = FALSE
  /\ mishap = FALSE /\ records = <<>>

-----------------------------------------------------------------------------
(* run_command                                                               *)

\* What an attempt that ends here is recorded as; the next one resumes its workspace, which
\* the store does not capture with a pipe in it: that ends the rollout (workspace.py).
Record(kind, scorer) ==
  /\ records' = Append(records,
       [kind |-> kind, by |-> scorer, clean |-> ~mishap,
        rationale |-> IF kind = "no_attempt" THEN Missing ELSE artifact.rationale])
  /\ pc' = IF Now = MaxAttempts \/ role = "developer" \/ Fifo \in {files.proposal, files.kept}
           THEN "done" ELSE "resume"
  /\ role' = "agent" /\ mishap' = FALSE /\ before' = Nothing /\ artifact' = NoArtifact
  /\ status' = Killed /\ exceeded' = FALSE /\ printed' = FALSE
  /\ UNCHANGED <<files, saved, leader, strays>>

StartCommand ==
  /\ pc = "start"
  /\ leader' = "runs" /\ printed' = FALSE
  /\ status' = Killed /\ exceeded' = FALSE
  /\ pc' = "run"
  /\ UNCHANGED <<files, attempt, strays>>

\* Popen raises OSError: no attempt, a failed evaluation or no revision.
NothingGained == [agent |-> "no_attempt", eval |-> "failed", developer |-> "no_revision"]
StartFails == pc = "start" /\ Record(NothingGained[role], Missing)

\* The loop's three ways out.  The status may be there already when the time is over.
Reap ==
  /\ pc = "run" /\ leader \in ExitCodes
  /\ status' = leader /\ pc' = "kill"
  /\ UNCHANGED <<files, attempt, process, exceeded>>

NoticeFlood ==
  /\ pc = "run" /\ printed
  /\ exceeded' = TRUE /\ pc' = "kill"
  /\ UNCHANGED <<files, attempt, process, status>>

\* (Seeded defect: the time is looked at only when the command has ended.)
TimeOutLate ==
  /\ pc = "run" /\ leader # "runs"
  /\ mishap' = TRUE /\ pc' = "kill"
  /\ UNCHANGED <<files, role, made, records, process, outcome>>
TimeOut ==
  /\ pc = "run"
  /\ mishap' = TRUE /\ pc' = "kill"
  /\ UNCHANGED <<files, role, made, records, process, outcome>>

\* _kill_group, whatever the command did, and the sink measured once more.  The signal goes
\* to the whole group at once; that only the command itself is waited for is left out.
\* (Seeded defect: the size seen last while it ran is what counts.)
KillUnmeasured ==
  /\ pc = "kill"
  /\ leader' = "none" /\ strays' = Missing
  /\ pc' = "judge"
  /\ UNCHANGED <<files, attempt, printed, outcome>>
\* (Seeded defect: only a command that did not end is killed.)
KillIfRunning ==
  /\ pc = "kill"
  /\ leader' = "none" /\ strays' = IF status = Killed THEN Missing ELSE strays
  /\ exceeded' = (exceeded \/ printed)
  /\ pc' = "judge"
  /\ UNCHANGED <<files, attempt, printed, status>>
KillGroup ==
  /\ pc = "kill"
  /\ leader' = "none" /\ strays' = Missing
  /\ exceeded' = (exceeded \/ printed)
  /\ pc' = "judge"
  /\ UNCHANGED <<files, attempt, printed, status>>

-----------------------------------------------------------------------------
(* The command itself, and what it left running.                             *)

Authors == (IF leader = "runs" THEN {Writer} ELSE {}) \cup ({strays} \ {Missing})
Alive == Authors # {}
AtWork == UNCHANGED <<pc, role, made, records, outcome>>

Write ==
  /\ Alive
  /\ \/ \E c \in Contents \cup {Missing} : \/ files' = [files EXCEPT !.program = c]
                                         \/ files' = [files EXCEPT !.proposal = c]
     \/ files' = [files EXCEPT !.proposal = Fifo] \/ files' = [files EXCEPT !.kept = Fifo]
     \/ \E scorer \in Authors \cup {Missing} : files' = [files EXCEPT !.score = scorer]
     \/ \E raised \in BOOLEAN : files' = [files EXCEPT !.error = raised]
  /\ AtWork /\ UNCHANGED <<process, mishap>>

Fork == leader = "runs" /\ strays' = Writer /\ AtWork /\ UNCHANGED <<files, leader, printed, mishap>>

Flood ==
  /\ Alive /\ pc \in {"run", "kill"}
  /\ printed' = TRUE /\ mishap' = TRUE
  /\ AtWork /\ UNCHANGED <<files, leader, strays>>

Exit(code) ==
  /\ leader = "runs"
  /\ leader' = code
  /\ mishap' = (mishap \/ code # "zero")
  /\ AtWork /\ UNCHANGED <<files, strays, printed>>

-----------------------------------------------------------------------------
(* CommandAgent.propose                                                      *)

\* _digest: of what is not a plain file, what a file that is not there has.
Digest(file) == IF file = Fifo THEN Missing ELSE file

\* What the workspace already holds, before the command can have written any of it.
Resume ==
  /\ pc = "resume"
  /\ before' = [program |-> files.program, proposal |-> Digest(files.proposal)]
  /\ pc' = "start"
  /\ UNCHANGED <<files, role, saved, artifact, mishap, records, process, outcome>>

\* A workspace that leads outside itself is refused before the command is spent, and one
\* the prompt's files cannot be laid out in raises.
RefuseWorkspace == pc = "resume" /\ Record("no_attempt", Missing)

Succeeded == ~exceeded /\ status = "zero"

\* A program that is there and is not the parent's; and a proposal, unless it is as it was,
\* that can be read.
NewProgram == Succeeded /\ files.program \notin {Missing, before.program}
Rewritten  == Digest(files.proposal) # before.proposal
Readable   == Rewritten => files.proposal \notin {Missing, Fifo}

\* Reading a pipe put in the place of the parent's proposal waits for a writer, and keeping
\* the rationale in one for a reader.  Both are gone, and nothing limits the wait.
OpensPipe ==
  /\ pc = "judge" /\ role = "agent" /\ NewProgram
  /\ \/ Rewritten /\ files.proposal = Fifo
     \/ Readable /\ files.kept = Fifo

RefuseAttempt ==
  /\ pc = "judge" /\ role = "agent" /\ ~(NewProgram /\ Readable) /\ ~OpensPipe
  /\ Record("no_attempt", Missing)

\* Where the rationale is kept: by how deep the attempt sits on its chain.
Depth == Now

TakeAttempt ==
  /\ pc = "judge" /\ role = "agent" /\ NewProgram /\ Readable /\ ~OpensPipe
  /\ artifact' = [program |-> files.program,
                  rationale |-> IF Rewritten THEN files.proposal ELSE Blank]
  /\ saved' = [saved EXCEPT ![Depth] = artifact'.rationale]
  /\ role' = "eval" /\ pc' = "score"
  /\ UNCHANGED <<files, before, mishap, records, process, outcome>>

-----------------------------------------------------------------------------
(* CommandEvaluator.evaluate                                                 *)

\* The artifact is written and stale results are removed.
Prepare ==
  /\ pc = "score"
  /\ files' = [files EXCEPT !.program = artifact.program, !.score = Missing, !.error = FALSE]
  /\ pc' = "start"
  /\ UNCHANGED <<attempt, process, outcome>>

\* A workspace that leads outside itself; and safe_evaluate: whatever raises is a failed
\* evaluation.
EvaluatorRaises == pc = "score" /\ Record("failed", Missing)

\* _read: an error file wins, then the status; a score file has to be there, and readable.
Scored == Succeeded /\ ~files.error /\ files.score # Missing
TakeScore   == pc = "judge" /\ role = "eval" /\ Scored /\ Record("scored", files.score)
RefuseScore == pc = "judge" /\ role = "eval" /\ ~Scored /\ Record("failed", Missing)

-----------------------------------------------------------------------------
(* CommandDeveloper.revise                                                   *)

\* The module has to be there, inside the directory, a plain file and not too large, and
\* the directory goes whatever comes of it.
Revised == Succeeded /\ files.program # Missing
TakeRevision   == pc = "judge" /\ role = "developer" /\ Revised /\ Record("revised", Missing)
RefuseRevision == pc = "judge" /\ role = "developer" /\ ~Revised /\ Record("no_revision", Missing)

-----------------------------------------------------------------------------
Harness ==
  \/ Resume \/ RefuseWorkspace \/ StartCommand \/ StartFails
  \/ Reap \/ NoticeFlood \/ TimeOut \/ KillGroup
  \/ RefuseAttempt \/ TakeAttempt
  \/ Prepare \/ EvaluatorRaises \/ TakeScore \/ RefuseScore
  \/ TakeRevision \/ RefuseRevision

Processes == Write \/ Fork \/ Flood \/ \E code \in ExitCodes : Exit(code)

Next == Harness \/ Processes

Spec == Init /\ [][Next]_vars

\* The harness runs on; a command owes it nothing.
FairSpec == Spec /\ WF_vars(Harness)

-----------------------------------------------------------------------------
(* Properties.                                                               *)

\* A score counted for an attempt was written by the evaluator's own command in that very
\* attempt: never what the parent's evaluation left in the workspace, never what the agent
\* or a process it left behind wrote there (command_evaluator.py, "Results the command left
\* behind on a previous attempt are removed first"; _command.py _kill_group).  And the
\* rationale kept at each depth, which later attempts are shown as that attempt's, is the
\* one it was recorded with, whichever attempts above it failed (command_agent.py
\* _write_attempt).
RecordIsOwn ==
  \A k \in DOMAIN records :
    /\ records[k].kind = "scored" => records[k].by = [attempt |-> k, role |-> "eval"]
    /\ saved[k] = records[k].rationale

\* An attempt is scored only if neither of its commands flooded, was stopped or failed, and
\* a revision taken only if its command was not, even when that happens as it ends, and
\* whatever it left running ("a command that floods and
\* exits between two polls must not get through on winning a race", _command.py).
OnlyCleanRunsCount ==
  \A k \in DOMAIN records : records[k].kind \in {"scored", "revised"} => records[k].clean

\* Whatever a command prints, forks or refuses to end, and whatever it left behind, every
\* attempt and every revision ends (run_command), but for an agent's that leaves a pipe
\* where the harness then opens a file, as a developer's command may not (_read_revision).
AttemptsEnd == <>(pc = "done" \/ OpensPipe)

=============================================================================
