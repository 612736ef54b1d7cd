--------------------------- MODULE Command_proofs ---------------------------
(***************************************************************************)
(* RecordIsOwn and OnlyCleanRunsCount for chains of any length and any     *)
(* contents.  Neither is inductive: that the score read is the evaluator's *)
(* own rests on nothing of an earlier command being alive when the stale   *)
(* results are removed, and that it is of a clean run on every mishap      *)
(* showing in what is judged, whenever it happened.                        *)
(***************************************************************************)
EXTENDS Command, SequenceTheorems, TLAPS

Roles      == {"agent", "eval", "developer"}
Scorers    == [attempt : Nat, role : Roles]
Rationales == Contents \cup {Missing, Blank}
RecordKinds == {"no_attempt", "failed", "scored", "revised", "no_revision"}
Entries    == [kind : RecordKinds, by : Scorers \cup {Missing}, clean : BOOLEAN,
               rationale : Rationales]

Typed ==
  /\ pc \in {"resume", "start", "run", "kill", "judge", "score", "done"}
  /\ role \in Roles
  /\ files \in [program : Contents \cup {Missing}, proposal : Contents \cup {Missing, Fifo},
                score : Scorers \cup {Missing}, error : BOOLEAN, kept : {Missing, Fifo}]
  /\ saved \in [1 .. MaxAttempts -> Rationales]
  /\ artifact \in [program : Contents \cup {Missing}, rationale : Rationales]
  /\ leader \in {"none", "runs"} \cup ExitCodes
  /\ strays \in Scorers \cup {Missing}
  /\ printed \in BOOLEAN /\ exceeded \in BOOLEAN /\ mishap \in BOOLEAN
  /\ status \in ExitCodes \cup {Killed}
  /\ records \in Seq(Entries)

\* Whose turn it is, and that nothing runs unless a command was started and not yet killed.
Places ==
  /\ Len(records) <= MaxAttempts
  /\ pc # "done" => Now <= MaxAttempts
  /\ pc = "resume" => role = "agent"
  /\ pc = "score" => role = "eval"
  /\ pc \notin {"run", "kill"} => leader = "none" /\ strays = Missing
  /\ pc \in {"run", "kill"} => strays \in {Missing, Writer}

\* A score in the workspace is of this evaluation, once that has begun; what is kept for
\* each depth is what was recorded there, and nothing is kept for the depths to come.
Own ==
  /\ role = "eval" /\ pc # "score" => files.score \in {Missing, Writer}
  /\ \A k \in DOMAIN records :
       /\ records[k].kind = "scored" => records[k].by = [attempt |-> k, role |-> "eval"]
       /\ saved[k] = records[k].rationale
  /\ \A k \in 1 .. MaxAttempts : k > Now => saved[k] = Missing
  /\ pc # "done" => saved[Now] = artifact.rationale
  /\ role # "eval" => artifact.rationale = Missing

\* A mishap shows: in the sink or the exit status while the command runs, in what is judged
\* once it was killed.
Shows ==
  /\ pc \in {"resume", "start", "score"} => ~mishap
  /\ pc = "run" => status = Killed /\ (mishap => printed \/ leader = "nonzero")
  /\ pc = "kill" => /\ mishap => printed \/ exceeded \/ status # "zero"
                    /\ leader = "runs" => status # "zero"
  /\ pc = "judge" => (mishap => exceeded \/ status # "zero")
  /\ OnlyCleanRunsCount

Inv == Typed /\ Places /\ Own /\ Shows
-----------------------------------------------------------------------------
(* The steps.                                                                *)

\* The initial states: a workspace or a scratch directory, nothing recorded.
LEMMA InitInv == Init => Inv
<1>. SUFFICES ASSUME Init PROVE Inv
  OBVIOUS
<1>1. records = <<>> /\ Len(records) = 0 /\ DOMAIN records = {} /\ records \in Seq(Entries)
  BY DEF Init
<1>2. Now = 1 /\ MaxAttempts \in Nat \ {0}
  BY <1>1, CommandBounds DEF Now
<1>3. Typed
  BY <1>1, CommandBounds DEF Init, Typed, Roles, Rationales, NoArtifact, ExitCodes, Killed
<1>4. Places
  BY <1>1, <1>2 DEF Init, Places
<1>5. Own
  BY <1>1, <1>2 DEF Init, Own, NoArtifact
<1>6. Shows
  BY <1>1 DEF Init, Shows, OnlyCleanRunsCount
<1>. QED
  BY <1>3, <1>4, <1>5, <1>6 DEF Inv

\* Whatever an attempt or a revision comes to, its record is sound if what it says of the
\* score and of the commands is.
LEMMA RecordKeeps ==
  ASSUME Inv, NEW kind \in RecordKinds, NEW scorer \in Scorers \cup {Missing},
         Record(kind, scorer),
         pc \in {"resume", "start", "judge", "score"},
         kind = "no_attempt" => role # "eval",
         kind = "scored" => role = "eval" /\ scorer = Writer,
         kind \in {"scored", "revised"} => ~mishap
  PROVE  Inv'
<1>. DEFINE entry == [kind |-> kind, by |-> scorer, clean |-> ~mishap,
                      rationale |-> IF kind = "no_attempt" THEN Missing ELSE artifact.rationale]
<1>. USE DEF Inv
<1>1. entry \in Entries
  BY DEF Typed, Entries, Rationales
<1>2. records' = Append(records, entry)
  BY DEF Record
<1>3. records \in Seq(Entries) /\ Len(records) \in Nat
  BY DEF Typed
<1>4. /\ records' \in Seq(Entries)
      /\ Len(records') = Len(records) + 1
      /\ DOMAIN records' = 1 .. Len(records) + 1
      /\ \A k \in 1 .. Len(records) : records'[k] = records[k]
      /\ records'[Now] = entry
  <2>. HIDE DEF entry
  <2>. QED
    BY <1>1, <1>2, <1>3 DEF Now
<1>5. /\ MaxAttempts \in Nat /\ Now \in Nat /\ Now <= MaxAttempts
      /\ DOMAIN records = 1 .. Len(records) /\ Now = Len(records) + 1
      /\ Now' = Now + 1
  BY <1>3, <1>4, CommandBounds DEF Places, Now
<1>6. /\ entry.rationale = artifact.rationale
      /\ entry.kind = kind /\ entry.clean = ~mishap
  BY DEF Own
<1>7. /\ pc' \in {"done", "resume"} /\ (Now = MaxAttempts => pc' = "done")
      /\ role' = "agent" /\ mishap' = FALSE /\ artifact' = NoArtifact
      /\ status' = Killed /\ exceeded' = FALSE /\ printed' = FALSE
      /\ UNCHANGED <<files, saved, leader, strays>>
  BY DEF Record
<1>8. Typed'
  BY <1>4, <1>7 DEF Typed, Roles, NoArtifact, Rationales
<1>9. Places'
  <2>1. leader = "none" /\ strays = Missing
    BY DEF Places
  <2>. QED
    BY <2>1, <1>4, <1>5, <1>7 DEF Places
<1>10. Own'
  <2>1. ASSUME NEW k \in DOMAIN records'
        PROVE  /\ records'[k].kind = "scored" => records'[k].by = [attempt |-> k, role |-> "eval"]
               /\ saved'[k] = records'[k].rationale
    <3>1. CASE k \in DOMAIN records
      BY <3>1, <1>4, <1>5, <1>7 DEF Own
    <3>2. CASE k = Now
      <4>1. saved[Now] = artifact.rationale
        BY DEF Own
      <4>. QED
        BY <3>2, <4>1, <1>4, <1>6, <1>7 DEF Writer
    <3>. QED
      BY <2>1, <3>1, <3>2, <1>4, <1>5
  <2>2. \A k \in 1 .. MaxAttempts : k > Now' => saved'[k] = Missing
    BY <1>5, <1>7 DEF Own
  <2>3. pc' # "done" => saved'[Now'] = artifact'.rationale
    <3>1. pc' # "done" => Now + 1 \in 1 .. MaxAttempts /\ Now + 1 > Now
      BY <1>5, <1>7
    <3>. QED
      BY <3>1, <1>5, <1>7 DEF Own, NoArtifact
  <2>4. role' # "eval" /\ artifact'.rationale = Missing
    BY <1>7 DEF NoArtifact
  <2>. QED
    BY <2>1, <2>2, <2>3, <2>4 DEF Own
<1>11. Shows'
  <2>1. OnlyCleanRunsCount'
    <3>1. ASSUME NEW k \in DOMAIN records'
          PROVE  records'[k].kind \in {"scored", "revised"} => records'[k].clean
      <4>1. CASE k \in DOMAIN records
        BY <4>1, <1>4, <1>5 DEF Shows, OnlyCleanRunsCount
      <4>2. CASE k = Now
        <5>. HIDE DEF entry
        <5>. QED
          BY <4>2, <1>4, <1>6, Zenon
      <4>. QED
        BY <3>1, <4>1, <4>2, <1>4, <1>5
    <3>. QED
      BY <3>1 DEF OnlyCleanRunsCount
  <2>. QED
    BY <2>1, <1>7 DEF Shows
<1>. QED
  BY <1>8, <1>9, <1>10, <1>11

\* Every step of the harness keeps the invariant.
LEMMA HarnessKeeps == ASSUME Inv, Harness PROVE Inv'
<1>. USE DEF Inv
<1>0. /\ Writer \in Scorers /\ MaxAttempts \in Nat /\ Now \in Nat
      /\ DOMAIN records = 1 .. Len(records) /\ Now = Len(records) + 1
  BY CommandBounds DEF Typed, Writer, Scorers, Now
<1>1. CASE StartCommand
  BY <1>1, <1>0 DEF StartCommand, attempt, made, Typed, Places, Own, Shows, OnlyCleanRunsCount,
     Now, Writer, ExitCodes, Killed
<1>2. CASE StartFails
  <2>1. PICK kind \in {"no_attempt", "failed", "no_revision"} :
          Record(kind, Missing) /\ (kind = "no_attempt" => role = "agent")
    BY <1>2 DEF StartFails, NothingGained, Typed, Roles
  <2>. QED
    BY <2>1, <1>2, RecordKeeps DEF StartFails, RecordKinds
<1>3. CASE Reap
  BY <1>3, <1>0 DEF Reap, attempt, made, process, Typed, Places, Own, Shows, OnlyCleanRunsCount,
     Now, Writer, ExitCodes, Killed
<1>4. CASE NoticeFlood
  BY <1>4, <1>0 DEF NoticeFlood, attempt, made, process, Typed, Places, Own, Shows,
     OnlyCleanRunsCount, Now, Writer, ExitCodes, Killed
<1>5. CASE TimeOut
  BY <1>5, <1>0 DEF TimeOut, made, process, outcome, Typed, Places, Own, Shows,
     OnlyCleanRunsCount, Now, Writer, ExitCodes, Killed
<1>6. CASE KillGroup
  BY <1>6, <1>0 DEF KillGroup, attempt, made, Typed, Places, Own, Shows, OnlyCleanRunsCount,
     Now, Writer, ExitCodes, Killed
<1>7. CASE RefuseAttempt
  BY <1>7, RecordKeeps DEF RefuseAttempt, RecordKinds
<1>8. CASE TakeAttempt
  <2>1. /\ pc = "judge" /\ role = "agent" /\ pc' = "score" /\ role' = "eval" /\ Succeeded
        /\ artifact'.rationale \in Rationales /\ artifact'.program \in Contents \cup {Missing}
        /\ artifact' \in [program : Contents \cup {Missing}, rationale : Rationales]
        /\ saved' = [saved EXCEPT ![Now] = artifact'.rationale]
        /\ UNCHANGED <<files, mishap, records, process, outcome>>
    BY <1>8 DEF TakeAttempt, NewProgram, Readable, Rewritten, Depth, Typed, Rationales
  <2>2. Now \in 1 .. MaxAttempts /\ Now' = Now
    BY <1>0, <2>1 DEF Places, Now
  <2>3. saved'[Now] = artifact'.rationale /\ \A k \in 1 .. MaxAttempts : k # Now => saved'[k] = saved[k]
    BY <2>1, <2>2 DEF Typed
  <2>4. Typed'
    BY <2>1, <2>2 DEF Typed, Roles, process, outcome
  <2>5. Places'
    BY <2>1, <2>2 DEF Places, process
  <2>6. Own'
    <3>1. \A k \in DOMAIN records : k \in 1 .. MaxAttempts /\ k # Now
      BY <1>0, <2>2
    <3>. QED
      BY <2>1, <2>2, <2>3, <3>1, <1>0 DEF Own
  <2>7. Shows'
    BY <2>1 DEF Shows, OnlyCleanRunsCount, Succeeded, outcome
  <2>. QED
    BY <2>4, <2>5, <2>6, <2>7
<1>9. CASE Resume
  BY <1>9, <1>0 DEF Resume, process, outcome, Typed, Places, Own, Shows, OnlyCleanRunsCount,
     Now, Writer
<1>10. CASE RefuseWorkspace
  BY <1>10, RecordKeeps DEF RefuseWorkspace, RecordKinds, Places
<1>11. CASE Prepare
  <2>1. /\ files' \in [program : Contents \cup {Missing}, proposal : Contents \cup {Missing, Fifo},
                       score : Scorers \cup {Missing}, error : BOOLEAN, kept : {Missing, Fifo}]
        /\ files'.score = Missing
    BY <1>11 DEF Prepare, Typed
  <2>. QED
    BY <2>1, <1>11, <1>0 DEF Prepare, attempt, made, process, outcome, Typed, Places, Own, Shows,
       OnlyCleanRunsCount, Now, Writer
<1>12. CASE EvaluatorRaises
  BY <1>12, RecordKeeps DEF EvaluatorRaises, RecordKinds
<1>13. CASE TakeScore
  <2>1. /\ pc = "judge" /\ role = "eval" /\ Record("scored", files.score)
        /\ files.score = Writer /\ ~mishap
    BY <1>13 DEF TakeScore, Scored, Succeeded, Own, Shows
  <2>. QED
    BY <2>1, <1>0, RecordKeeps DEF RecordKinds
<1>14. CASE RefuseScore
  BY <1>14, RecordKeeps DEF RefuseScore, RecordKinds
<1>15. CASE TakeRevision
  <2>1. pc = "judge" /\ Record("revised", Missing) /\ ~mishap
    BY <1>15 DEF TakeRevision, Revised, Succeeded, Shows
  <2>. QED
    BY <2>1, RecordKeeps DEF RecordKinds
<1>16. CASE RefuseRevision
  BY <1>16, RecordKeeps DEF RefuseRevision, RecordKinds
<1>. QED
  BY <1>1, <1>2, <1>3, <1>4, <1>5, <1>6, <1>7, <1>8, <1>9, <1>10, <1>11, <1>12, <1>13, <1>14,
     <1>15, <1>16 DEF Harness

\* And so does everything a command, or what it left running, may do.
LEMMA ProcessesKeep == ASSUME Inv, Processes PROVE Inv'
<1>. USE DEF Inv
<1>0. /\ Writer \in Scorers /\ MaxAttempts \in Nat /\ Now \in Nat
      /\ Now' = Now /\ Writer' = Writer
      /\ UNCHANGED <<pc, role, made, records, outcome>>
  BY CommandBounds DEF Typed, Writer, Scorers, Now, Processes, Write, Fork, Flood, Exit, AtWork
<1>1. Alive => pc \in {"run", "kill"} /\ Authors \subseteq {Writer}
  BY DEF Alive, Authors, Places
<1>2. CASE Write
  <2>1. /\ files' \in [program : Contents \cup {Missing}, proposal : Contents \cup {Missing, Fifo},
                       score : Scorers \cup {Missing}, error : BOOLEAN, kept : {Missing, Fifo}]
        /\ files'.score \in {files.score, Missing, Writer}
    BY <1>0, <1>1, <1>2 DEF Write, Typed
  <2>. QED
    BY <2>1, <1>0, <1>2 DEF Write, made, process, outcome, Typed, Places, Own, Shows,
       OnlyCleanRunsCount
<1>3. CASE Fork
  <2>1. pc \in {"run", "kill"}
    BY <1>3 DEF Fork, Places
  <2>. QED
    BY <2>1, <1>0, <1>3 DEF Fork, made, outcome, Typed, Places, Own, Shows, OnlyCleanRunsCount
<1>4. CASE Flood
  BY <1>0, <1>4 DEF Flood, made, outcome, Typed, Places, Own, Shows, OnlyCleanRunsCount
<1>5. ASSUME NEW code \in ExitCodes, Exit(code) PROVE Inv'
  <2>1. pc \in {"run", "kill"}
    BY <1>5 DEF Exit, Places
  <2>. QED
    BY <2>1, <1>0, <1>5 DEF Exit, made, outcome, Typed, Places, Own, Shows, OnlyCleanRunsCount,
       ExitCodes
<1>. QED
  BY <1>2, <1>3, <1>4, <1>5 DEF Processes

LEMMA Invariant == Spec => []Inv
<1>1. Inv /\ [Next]_vars => Inv'
  <2>. SUFFICES ASSUME Inv, [Next]_vars PROVE Inv'
    OBVIOUS
  <2>1. CASE Next
    BY <2>1, HarnessKeeps, ProcessesKeep DEF Next
  <2>2. CASE UNCHANGED vars
    BY <2>2 DEF vars, Inv, Typed, Places, Own, Shows, OnlyCleanRunsCount, Now, Writer
  <2>. QED
    BY <2>1, <2>2
<1>. QED
  BY InitInv, <1>1, PTL DEF Spec

-----------------------------------------------------------------------------
(* The theorems.                                                             *)

\* However long the chain and whatever its commands write, leave behind or print, a score is
\* the evaluator's own of that attempt and the rationale kept at each depth is the one
\* recorded there (command_evaluator.py evaluate, command_agent.py propose).
THEOREM RecordsAreOwn == Spec => []RecordIsOwn
<1>1. Inv => RecordIsOwn
  BY DEF Inv, Own, RecordIsOwn
<1>. QED
  BY <1>1, Invariant, PTL

\* And no attempt is scored, or revision taken, of which a command flooded, failed or was
\* stopped, at whatever moment (_command.py run_command).
THEOREM CleanRunsCount == Spec => []OnlyCleanRunsCount
<1>1. Inv => OnlyCleanRunsCount
  BY DEF Inv, Shows
<1>. QED
  BY <1>1, Invariant, PTL

=============================================================================
