------------------------------ MODULE RunReport ------------------------------
(***************************************************************************)
(* `--report` against a run that may be going on (run.py: _report,         *)
(* _is_run_directory, _requested, Run.load; lock.py: probe).  A reporter   *)
(* takes no lock for longer than a probe and reads the directory one file  *)
(* at a time, while the sessions of RunDirectory go on writing to it.      *)
(* Only the first report is followed: another one starts from nothing.     *)
(* A directory is either reported on or loses files to something outside   *)
(* the program, not both.                                                  *)
(***************************************************************************)
EXTENDS RunDirectory

CONSTANT MaxReported   \* bound: sessions started on a directory that is reported on
ASSUME ReportBound == MaxReported \in Nat

VARIABLES
  report,  \* the call of _report: where it is, what it read, what it answered
  truths   \* the statuses that were true at some moment since the report began

reportVars == <<report, truths>>

Answers == {"running", "stopped", "finished", "refused"}
NoReport == [at |-> "idle", held |-> FALSE, done |-> 0, requested |-> Absent,
             again |-> FALSE, answer |-> "none"]

InitReport ==
  /\ Init
  /\ report = NoReport
  /\ truths = {}

-----------------------------------------------------------------------------
(* What is true of the directory, seen all at once.                          *)

Done == Cardinality({k \in Cycles : Trusted(k)})
IsRun == lock # Nobody \/ HasRecord(0) \/ seen[Manifest] \in Policies
Recorded == IF seen[Session] = Absent THEN 0 ELSE seen[Session]
Holds(status) ==
  CASE status = "running"  -> lock # Nobody
    [] status = "refused"  -> lock = Nobody /\ ~IsRun
    [] status = "stopped"  -> lock = Nobody /\ Done < Recorded
    [] status = "finished" -> lock = Nobody /\ IsRun /\ Done >= Recorded

\* Whether a report could read everything it looks at: Run.load takes what the finished
\* cycles left, and a manifest with no cycle finished yet is not half-written.
RecordReads(k) == seen[<<"record", k>>] \in Records /\ seen[<<"timing", k>>] # Torn
Readable(done) ==
  /\ \A k \in 0 .. done - 1 : seen[<<"policy", k>>] \in Policies
  /\ done > 0 => seen[<<"next", done - 1>>] \in Policies
  /\ PoolCounts
Legible ==
  /\ \A k \in 0 .. Done - 1 : RecordReads(k)
  /\ Readable(Done)
  /\ Done = 0 => seen[Manifest] # Torn

-----------------------------------------------------------------------------
(* The reporter.                                                             *)

Answer(how) == report' = [report EXCEPT !.at = "idle", !.answer = how]

StartReport ==
  /\ report = NoReport /\ spent.lost = 0 /\ spent.starts <= MaxReported
  /\ report' = [report EXCEPT !.at = "probe"]

\* The first probe, and _is_run_directory.
FirstProbe ==
  /\ report.at = "probe"
  /\ report' = [report EXCEPT !.held = (lock # Nobody), !.at = "isrun"]

CheckIsRun ==
  /\ report.at = "isrun"
  /\ IF report.held \/ HasRecord(0) \/ seen[Manifest] \in Policies
     THEN report' = [report EXCEPT !.at = "load"]
     ELSE Answer("refused")

\* Run.load: the records in order up to the first gap, then what they promise.
LoadRecord ==
  /\ report.at = "load"
  /\ report.done < MaxCycles /\ HasRecord(report.done)
  /\ IF RecordReads(report.done)
     THEN report' = [report EXCEPT !.done = @ + 1]
     ELSE Answer("refused")

LoadRest ==
  /\ report.at = "load"
  /\ report.done < MaxCycles => ~HasRecord(report.done)
  /\ IF Readable(report.done)
     THEN report' = [report EXCEPT !.at = "request"]
     ELSE Answer("refused")

\* _requested
ReadRequest ==
  /\ report.at = "request"
  /\ IF seen[Session] = Torn
     THEN Answer("refused")
     ELSE report' = [report EXCEPT !.requested = seen[Session], !.at = "reprobe"]

Conclude(held) ==
  Answer(CASE held -> "running"
           [] ~held /\ report.requested # Absent /\ report.done < report.requested -> "stopped"
           [] OTHER -> "finished")

\* (Seeded defect: what was read while the run was going is not read again.)
ReprobeOnce ==
  /\ report.at = "reprobe"
  /\ Conclude(lock # Nobody)
\* The second probe; with nothing holding the lock everything is read once more and a
\* third probe decides.
Reprobe ==
  /\ report.at = "reprobe"
  /\ IF lock = Nobody /\ ~report.again
     THEN report' = [report EXCEPT !.done = 0, !.again = TRUE, !.at = "load"]
     ELSE Conclude(lock # Nobody)

ReportStep ==
  \/ StartReport \/ FirstProbe \/ CheckIsRun \/ LoadRecord \/ LoadRest
  \/ ReadRequest \/ Reprobe

-----------------------------------------------------------------------------
\* What was true at each moment of the report being made.
Moment == {status \in Answers : Holds(status)} \cup IF Legible THEN {} ELSE {"illegible"}
\* A session that took the lock while everything was read again, and has let go of it.
Overtaken == {o \in {"overtaken"} : report.again /\ lock # Nobody /\ lock' = Nobody}
Watch ==
  truths' = IF report.at = "idle" /\ report'.at = "idle" THEN {}
            ELSE truths \cup Moment \cup Moment' \cup Overtaken

LeftAlone == report # NoReport => spent'.lost = 0 /\ spent'.starts <= MaxReported

NextReport ==
  \/ Next /\ LeftAlone /\ UNCHANGED report /\ Watch
  \/ ReportStep /\ UNCHANGED vars /\ Watch

SpecReport == InitReport /\ [][NextReport]_<<vars, reportVars>>

\* Sessions go on (RunDirectory), whatever a report does.
FairReport ==
  /\ SpecReport
  /\ \A p \in Procs : WF_<<vars, reportVars>>(Step(p) /\ UNCHANGED report /\ Watch)

-----------------------------------------------------------------------------
(* Properties.                                                               *)

\* The exit status was true of the directory at some moment while the report was made,
\* however its reads interleave with sessions that publish, end or are killed (_report:
\* "read it again, and look once more"); or it was refused over a file that was not whole
\* then.  A directory no session recorded a request in is finished by _report's own
\* definition, and a whole session that fits between the second reading and the last look
\* is one that look cannot see.
Answered == report'.answer # report.answer
ReportWasTrue ==
  [][Answered =>
       \/ report'.answer \in truths'
       \/ report'.answer = "refused" /\ "illegible" \in truths'
       \/ report'.answer = "finished" /\ report.requested = Absent
       \/ "overtaken" \in truths']_<<vars, reportVars>>

\* A report calls a directory no run directory only if for a moment it was none: nothing
\* held it, and there was no record and no whole manifest in it (_is_run_directory).
RefusedWasNoRun ==
  [][report.at = "isrun" /\ report'.answer = "refused" => "refused" \in truths']_<<vars, reportVars>>

\* A session leaves every cycle and the pool alone until its own request is on record, so
\* that one cut short in its work is never measured by what another asked for
\* (run_cycles, on the session record; _report, on "stopped short").
RequestPrecedesWork ==
  [][\A p \in Procs :
       (\E n \in Names : n[1] \notin RunKinds /\ seen'[n] # seen[n]) /\ lock = p
         => seen[Session] = job[p].want]_vars

=============================================================================
