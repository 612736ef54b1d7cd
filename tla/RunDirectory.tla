---------------------------- MODULE RunDirectory ----------------------------
(***************************************************************************)
(* The cycle driver (run.py: run_cycles) and the directory it appends to:  *)
(* the run lock (lock.py), the manifest and session records, one directory *)
(* per cycle, the simulator pool (pool.py), and the two ways every file is *)
(* published (durable.py).  A session is one call of run_cycles; sessions  *)
(* follow or overlap each other on one directory, may be killed at any     *)
(* system call, and the machine may lose power.                            *)
(*                                                                         *)
(* The file system is two maps from names to contents.  seen is what a     *)
(* process reads (the page cache); disk is what a power loss leaves.  The  *)
(* kernel may write anything back at any moment (Writeback); a flush only  *)
(* forces it.  unflushed holds the names whose bytes were never flushed:   *)
(* what the device has under such a name may be torn.                      *)
(***************************************************************************)
EXTENDS Naturals, FiniteSets

CONSTANTS
  Procs,      \* processes that may call run_cycles on this directory
  MaxCycles,  \* the largest config.cycles a session may ask for
  Policies,   \* policy module sources
  Trees,      \* discovery trees a rollout may record
  Absent,     \* no such name
  Torn,       \* a truncated or half-written file: it does not parse
  Some,       \* present, with contents nothing here depends on
  Nobody,     \* no process holds the lock
  FreshRoot,  \* TRUE: the first session is the one that creates the directory
  MaxStarts,  \* bound: sessions started
  MaxStops,   \* bound: sessions killed or ended by an exception
  MaxPower,   \* bound: power losses
  MaxLost     \* bound: published files lost to something outside the program

ASSUME BoundsAreNat ==
  /\ MaxCycles \in Nat \ {0}
  /\ FreshRoot \in BOOLEAN
  /\ MaxStarts \in Nat /\ MaxStops \in Nat /\ MaxPower \in Nat /\ MaxLost \in Nat

Cycles == 0 .. MaxCycles - 1

-----------------------------------------------------------------------------
(* Names.  A name is <<kind, cycle>>; the run's own files are at cycle 0.   *)

RunKinds   == {"root", "cycles", "pool", "manifest", "session", "session.tmp"}
FileKinds  == {"policy", "tree", "next", "timing", "record", "record.tmp"}
PoolKinds  == {"world", "world.tmp"}
Names      == (RunKinds \X {0}) \cup (({"cycle"} \cup FileKinds \cup PoolKinds) \X Cycles)

Root     == <<"root", 0>>
Manifest == <<"manifest", 0>>
Session  == <<"session", 0>>

\* The directory that holds a name; nothing this program syncs holds the root.
Parent(n) ==
  CASE n[1] = "cycle"               -> <<"cycles", 0>>
    [] n[1] \in FileKinds           -> <<"cycle", n[2]>>
    [] n[1] \in PoolKinds           -> <<"pool", 0>>
    [] n[1] \in RunKinds \ {"root"} -> Root
    [] OTHER                        -> n

Entries(d) == {n \in Names \ {Root} : Parent(n) = d}

\* A finished cycle's record, abstracted to the rollout and the selection it reports.
Records  == [tree : Trees, policy : Policies, next : Policies]

\* What a name of each kind holds when it is whole.
Whole(kind) ==
  CASE kind \in {"root", "cycles", "cycle", "pool", "timing"} -> {Some}
    [] kind \in {"manifest", "policy", "next"}                -> Policies
    [] kind \in {"session", "session.tmp"}                    -> 1 .. MaxCycles
    [] kind \in {"tree", "world", "world.tmp"}                -> Trees
    [] kind \in {"record", "record.tmp"}                      -> Records
FileMap(fs) ==
  /\ DOMAIN fs = Names
  /\ \A n \in Names : fs[n] \in {Absent, Torn} \/ fs[n] \in Whole(n[1])

ASSUME ConstantsDistinct ==
  /\ Absent # Torn /\ Absent # Some /\ Torn # Some
  /\ {Absent, Torn, Some} \cap (Policies \cup Trees \cup Records \cup Nat) = {}
  /\ Nobody \notin Procs

-----------------------------------------------------------------------------
VARIABLES
  seen,       \* Names -> what a process reads under each name
  disk,       \* Names -> what a power loss leaves under each name
  unflushed,  \* names whose bytes were written and not flushed
  lock,       \* the process that holds run.lock, or Nobody
  job,        \* Procs -> the call of run_cycles each process is in
  acked,      \* cycles some session counted as finished and built on
  verdict,    \* how the last session to leave the directory left it
  spent       \* how much of each bound was used

fsVars == <<seen, disk, unflushed>>
vars   == <<seen, disk, unflushed, lock, job, acked, verdict, spent>>

\* Where a session is: one stage per file it publishes or directory it makes,
\* and one per decision between them.
WriteStages  == {"manifest", "session", "policy", "tree", "world", "next", "timing", "record"}
DirStages    == {"cycles", "cycle", "pool"}
OtherStages  == {"idle", "check", "resume", "loop", "clear", "rollout", "dream"}
Stages       == WriteStages \cup DirStages \cup OtherStages

\* Files staged beside their name and renamed onto it; the rest are written in place.
\* (Seeded defect: the record is written in place.)
StagedKindsNoRecord == {"session", "world"}
StagedKinds == {"session", "world", "record"}
Staging == [k \in StagedKinds |-> CASE k = "session" -> "session.tmp"
                                    [] k = "world"   -> "world.tmp"
                                    [] k = "record"  -> "record.tmp"]

\* The system calls one publication takes, in order (durable.write, durable.publish).
Phases == {"open", "flush", "name", "rename", "sync"}

\* run_cycles' own variables: the policy and cycle count it was given, the cycle it
\* is at, the source to deploy there, whether it is past _resume (live), and the
\* tree and next policy of the cycle in hand.
Idle == [at |-> "idle", phase |-> "open", policy |-> Absent, want |-> 0, idx |-> 0,
         source |-> Absent, live |-> FALSE, tree |-> Absent, next |-> Absent]

Verdicts == {"none", "finished", "mismatch", "broken", "stopped"}

Init ==
  /\ seen = [n \in Names |-> IF n = Root /\ ~FreshRoot THEN Some ELSE Absent]
  /\ disk = seen
  /\ unflushed = {}
  /\ lock = Nobody
  /\ job = [p \in Procs |-> Idle]
  /\ acked = {}
  /\ verdict = "none"
  /\ spent = [starts |-> 0, stops |-> 0, power |-> 0, lost |-> 0]

-----------------------------------------------------------------------------
(* What publishing does.                                                    *)

\* The name a stage publishes, and the one its bytes are first written under.
Kind(j)   == IF j.at \in {"manifest", "session", "cycles", "pool"} THEN <<j.at, 0>>
                                                                  ELSE <<j.at, j.idx>>
Slot(j)   == IF j.at \in StagedKinds THEN <<Staging[j.at], Kind(j)[2]>> ELSE Kind(j)

\* What run_cycles writes at each stage.
Data(j) ==
  CASE j.at = "manifest" -> j.policy
    [] j.at = "session"  -> j.want
    [] j.at = "policy"   -> j.source
    [] j.at \in {"tree", "world"} -> j.tree
    [] j.at = "next"     -> j.next
    [] j.at = "timing"   -> Some
    [] j.at = "record"   -> [tree |-> j.tree, policy |-> j.source, next |-> j.next]

\* A tree put back by _resume leads back to its walk; one a cycle added, to dreaming.
\* (Seeded defect: the record is published before the timing.)
AfterRecordEarly(j) ==
  CASE j.at = "cycles"   -> "check"
    [] j.at = "manifest" -> "session"
    [] j.at = "session"  -> "resume"
    [] j.at = "cycle"    -> "policy"
    [] j.at = "policy"   -> "rollout"
    [] j.at = "tree"     -> "pool"
    [] j.at = "pool"     -> "world"
    [] j.at = "world"    -> IF j.live THEN "dream" ELSE "resume"
    [] j.at = "next"     -> "record"
    [] j.at = "record"   -> "timing"
    [] j.at = "timing"   -> "loop"
After(j) ==
  CASE j.at = "cycles"   -> "check"
    [] j.at = "manifest" -> "session"
    [] j.at = "session"  -> "resume"
    [] j.at = "cycle"    -> "policy"
    [] j.at = "policy"   -> "rollout"
    [] j.at = "tree"     -> "pool"
    [] j.at = "pool"     -> "world"
    [] j.at = "world"    -> IF j.live THEN "dream" ELSE "resume"
    [] j.at = "next"     -> "timing"
    [] j.at = "timing"   -> "record"
    [] j.at = "record"   -> "loop"

\* A stage is over: the cycle index moves on after a record.
CycleOver(j) == j.at = "record"
\* (Seeded defect: the next cycle deploys the policy this one did.)
AdvancedSameSource(j) ==
  [j EXCEPT !.at     = After(j),
            !.phase  = "open",
            !.idx    = IF CycleOver(j) THEN j.idx + 1 ELSE j.idx]
Advanced(j) ==
  [j EXCEPT !.at     = After(j),
            !.phase  = "open",
            !.idx    = IF CycleOver(j) THEN j.idx + 1 ELSE j.idx,
            !.source = IF CycleOver(j) THEN j.next ELSE j.source]

\* (Seeded defect: the cycle is counted under the next one's index.)
AcknowledgeNext(j) == acked' = IF CycleOver(j) THEN acked \cup {j.idx + 1} ELSE acked
Acknowledge(j) == acked' = IF CycleOver(j) THEN acked \cup {j.idx} ELSE acked

\* Flushing the directories ds puts every entry of theirs on the device.
SyncDirs(ds) == disk' = [n \in Names |-> IF n # Root /\ Parent(n) \in ds THEN seen[n] ELSE disk[n]]

-----------------------------------------------------------------------------
(* Starting and ending a session.                                           *)

Leave(p, how) ==
  /\ job' = [job EXCEPT ![p] = Idle]
  /\ lock' = Nobody
  /\ verdict' = how

\* (Seeded defect: the lock is not looked at.)
BeginUnlocked(p, policy, want) ==
  /\ spent.starts < MaxStarts
  /\ job[p].at = "idle"
  /\ lock' = p
  /\ job' = [job EXCEPT ![p] = [Idle EXCEPT !.at = "cycles", !.policy = policy,
                                            !.want = want, !.source = policy]]
  /\ seen' = [seen EXCEPT ![Root] = Some]
  /\ spent' = [spent EXCEPT !.starts = @ + 1]
  /\ UNCHANGED <<disk, unflushed, acked, verdict>>
\* RunLock.__enter__: the directory is created if missing, by a plain mkdir that
\* flushes nothing.  A process that finds the lock held is refused with no effect.
Begin(p, policy, want) ==
  /\ spent.starts < MaxStarts
  /\ job[p].at = "idle"
  /\ lock = Nobody
  /\ lock' = p
  /\ job' = [job EXCEPT ![p] = [Idle EXCEPT !.at = "cycles", !.policy = policy,
                                            !.want = want, !.source = policy]]
  /\ seen' = [seen EXCEPT ![Root] = Some]
  /\ spent' = [spent EXCEPT !.starts = @ + 1]
  /\ UNCHANGED <<disk, unflushed, acked, verdict>>

-----------------------------------------------------------------------------
(* durable.mkdir: nothing for a directory that is there; otherwise create    *)
(* it, then flush the parents of every level created (the cycle's directory  *)
(* is created together with the workspace inside it).                        *)

MakeDirectory(p) ==
  LET j == job[p] IN
  /\ j.at \in DirStages /\ j.phase = "open"
  /\ IF seen[Kind(j)] # Absent
     THEN job' = [job EXCEPT ![p] = Advanced(j)] /\ UNCHANGED seen
     ELSE /\ seen' = [seen EXCEPT ![Kind(j)] = Some]
          /\ job' = [job EXCEPT ![p].phase = "sync"]
  /\ UNCHANGED <<disk, unflushed, lock, acked, verdict, spent>>

SyncParents(p) ==
  LET j == job[p] IN
  /\ j.at \in DirStages /\ j.phase = "sync"
  /\ SyncDirs({Parent(Kind(j))} \cup (IF j.at = "cycle" THEN {Kind(j)} ELSE {}))
  /\ job' = [job EXCEPT ![p] = Advanced(j)]
  /\ UNCHANGED <<seen, unflushed, lock, acked, verdict, spent>>

-----------------------------------------------------------------------------
(* durable.write, and durable.publish of the staged files.                   *)

\* open(path, "w") truncates before there is anything to read.
OpenFile(p) ==
  LET j == job[p] IN
  /\ j.at \in WriteStages /\ j.phase = "open"
  /\ seen' = [seen EXCEPT ![Slot(j)] = Torn]
  /\ unflushed' = unflushed \cup {Slot(j)}
  /\ job' = [job EXCEPT ![p].phase = "flush"]
  /\ UNCHANGED <<disk, lock, acked, verdict, spent>>

\* write, flush and fsync: the bytes reach the device, a new name need not have.
\* (Seeded defect: no fsync of the bytes.)
FlushFileLazily(p) ==
  LET j == job[p] IN
  /\ j.at \in WriteStages /\ j.phase = "flush"
  /\ seen' = [seen EXCEPT ![Slot(j)] = Data(j)]
  /\ job' = [job EXCEPT ![p].phase = "name"]
  /\ UNCHANGED <<disk, unflushed, lock, acked, verdict, spent>>
FlushFile(p) ==
  LET j == job[p] IN
  /\ j.at \in WriteStages /\ j.phase = "flush"
  /\ seen' = [seen EXCEPT ![Slot(j)] = Data(j)]
  /\ disk' = [disk EXCEPT ![Slot(j)] = IF @ = Absent THEN Absent ELSE Data(j)]
  /\ unflushed' = unflushed \ {Slot(j)}
  /\ job' = [job EXCEPT ![p].phase = "name"]
  /\ UNCHANGED <<lock, acked, verdict, spent>>

\* sync_directory after the write: an unstaged file is published by it.
SyncName(p) ==
  LET j == job[p] IN
  /\ j.at \in WriteStages /\ j.phase = "name"
  /\ SyncDirs({Parent(Slot(j))})
  /\ job' = [job EXCEPT ![p] = IF j.at \in StagedKinds THEN [j EXCEPT !.phase = "rename"]
                                                       ELSE Advanced(j)]
  /\ UNCHANGED <<seen, unflushed, lock, acked, verdict, spent>>

\* os.replace
Rename(p) ==
  LET j == job[p] IN
  /\ j.at \in StagedKinds /\ j.phase = "rename"
  /\ seen' = [seen EXCEPT ![Kind(j)] = seen[Slot(j)], ![Slot(j)] = Absent]
  /\ unflushed' = (unflushed \ {Kind(j), Slot(j)})
                    \cup {n \in {Kind(j)} : Slot(j) \in unflushed}
  /\ job' = [job EXCEPT ![p].phase = "sync"]
  /\ UNCHANGED <<disk, lock, acked, verdict, spent>>

\* sync_directory after the rename; a cycle whose record got here has finished.
\* (Seeded defect: the directory is not flushed after the rename.)
SyncRenameNever(p) ==
  LET j == job[p] IN
  /\ j.at \in StagedKinds /\ j.phase = "sync"
  /\ Acknowledge(j)
  /\ job' = [job EXCEPT ![p] = Advanced(j)]
  /\ UNCHANGED <<seen, disk, unflushed, lock, verdict, spent>>
SyncRename(p) ==
  LET j == job[p] IN
  /\ j.at \in StagedKinds /\ j.phase = "sync"
  /\ SyncDirs({Parent(Kind(j))})
  /\ Acknowledge(j)
  /\ job' = [job EXCEPT ![p] = Advanced(j)]
  /\ UNCHANGED <<seen, unflushed, lock, verdict, spent>>

-----------------------------------------------------------------------------
(* run_cycles between the files.                                             *)

Goto(p, stage) == job' = [job EXCEPT ![p].at = stage]

HasRecord(k) == seen[<<"record", k>>] # Absent

\* (Seeded defect: a run that has a record already keeps the request of its first session.)
CheckManifestKeepsRequest(p) ==
  /\ job[p].at = "check"
  /\ \/ ~HasRecord(0) /\ Goto(p, "manifest") /\ UNCHANGED <<lock, verdict>>
     \/ /\ HasRecord(0) /\ seen[Manifest] = job[p].policy
        /\ Goto(p, "resume") /\ UNCHANGED <<lock, verdict>>
     \/ HasRecord(0) /\ seen[Manifest] # job[p].policy /\ Leave(p, "mismatch")
  /\ UNCHANGED <<fsVars, acked, spent>>
\* _check_manifest.  The policy the manifest names stands for all it compares.
CheckManifest(p) ==
  /\ job[p].at = "check"
  /\ \/ ~HasRecord(0) /\ Goto(p, "manifest") /\ UNCHANGED <<lock, verdict>>
     \/ /\ HasRecord(0) /\ seen[Manifest] = job[p].policy
        /\ Goto(p, "session") /\ UNCHANGED <<lock, verdict>>
     \/ /\ HasRecord(0) /\ seen[Manifest] \in Policies \ {job[p].policy}
        /\ Leave(p, "mismatch")
     \/ HasRecord(0) /\ seen[Manifest] \notin Policies /\ Leave(p, "broken")
  /\ UNCHANGED <<fsVars, acked, spent>>

\* _finished reads every record asked for up to the first gap before the walk begins
\* (nothing the walk does can change what it read).
Trusted(k) == \A i \in 0 .. k : HasRecord(i)
Finished(want) ==
  \A k \in 0 .. want - 1 : Trusted(k) => /\ seen[<<"record", k>>] \in Records
                                         /\ seen[<<"timing", k>>] # Torn

\* SimulatorPool.holds
\* (Seeded defect: a name in the listing is taken for a tree that loads.)
PoolLists(k) == seen[<<"world", k>>] # Absent
PoolHolds(k) == seen[<<"pool", 0>>] # Absent /\ seen[<<"world", k>>] \in Trees

\* (Seeded defect: the walk over the records does not move on.)
ResumeCycleInPlace(p) ==
  LET j == job[p]
      k == j.idx IN
  /\ j.at = "resume"
  /\ k < j.want /\ HasRecord(k)
  /\ job' = [job EXCEPT ![p].source = seen[<<"next", k>>]]
  /\ acked' = acked \cup {k}
  /\ UNCHANGED <<fsVars, lock, verdict, spent>>
\* One turn of _resume's walk: the policy must read back, then the pool's tree or else
\* the cycle's own copy, which is put back into the pool, then the next policy.  (A policy
\* torn in the middle is text all the same, and _read takes it; here it stops the session.)
ResumeCycle(p) ==
  LET j == job[p]
      k == j.idx
      reads == Finished(j.want) /\ seen[<<"policy", k>>] \in Policies IN
  /\ j.at = "resume"
  /\ k < j.want /\ HasRecord(k)
  /\ \/ /\ reads /\ PoolHolds(k) /\ seen[<<"next", k>>] \in Policies
        /\ job' = [job EXCEPT ![p].idx = k + 1, ![p].source = seen[<<"next", k>>]]
        /\ acked' = acked \cup {k}
        /\ UNCHANGED <<lock, verdict>>
     \/ /\ reads /\ ~PoolHolds(k) /\ seen[<<"tree", k>>] \in Trees
        /\ job' = [job EXCEPT ![p].at = "pool", ![p].tree = seen[<<"tree", k>>]]
        /\ UNCHANGED <<lock, verdict, acked>>
     \/ /\ \/ ~reads
           \/ PoolHolds(k) /\ seen[<<"next", k>>] \notin Policies
           \/ ~PoolHolds(k) /\ seen[<<"tree", k>>] \notin Trees
        /\ Leave(p, "broken")
        /\ UNCHANGED acked
  /\ UNCHANGED <<fsVars, spent>>

\* The first cycle without a record, or the last one asked for, ends the walk.
\* (Seeded defect: the records are not looked for.)
ResumeDoneAtOnce(p) ==
  /\ job[p].at = "resume"
  /\ job' = [job EXCEPT ![p].live = TRUE, ![p].at = "loop"]
  /\ UNCHANGED <<fsVars, lock, acked, verdict, spent>>
ResumeDone(p) ==
  LET j == job[p] IN
  /\ j.at = "resume"
  /\ j.idx < j.want => ~HasRecord(j.idx)
  /\ job' = [job EXCEPT ![p].live = TRUE, ![p].at = "loop"]
  /\ UNCHANGED <<fsVars, lock, acked, verdict, spent>>

NextCycle(p) ==
  /\ job[p].at = "loop" /\ job[p].idx < job[p].want
  /\ Goto(p, "clear")
  /\ UNCHANGED <<fsVars, lock, acked, verdict, spent>>

\* The Run returned counts the pool, loading every tree in it, asked for or not.
PoolCounts == \A k \in Cycles : seen[<<"world", k>>] # Torn
Finish(p) ==
  /\ job[p].at = "loop" /\ job[p].idx = job[p].want
  /\ Leave(p, IF PoolCounts THEN "finished" ELSE "broken")
  /\ UNCHANGED <<fsVars, acked, spent>>

\* shutil.rmtree of an interrupted cycle's directory; nothing flushes the removal.  (It
\* ignores what it cannot remove, and the cycle is then run over that; here all of it goes.)
CycleNames(k) == {<<"cycle", k>>} \cup Entries(<<"cycle", k>>)
Without(gone) == [n \in Names |-> IF n \in gone THEN Absent ELSE seen[n]]

Clear(p) ==
  /\ job[p].at = "clear"
  /\ seen' = Without(CycleNames(job[p].idx))
  /\ Goto(p, "cycle")
  /\ UNCHANGED <<disk, unflushed, lock, acked, verdict, spent>>

\* run_rollout under the sandboxed policy: which tree it records is open.
Rollout(p) ==
  /\ job[p].at = "rollout"
  /\ \E t \in Trees : job' = [job EXCEPT ![p].tree = t, ![p].at = "tree"]
  /\ UNCHANGED <<fsVars, lock, acked, verdict, spent>>

\* pool.worlds, develop and select: every world of the history must load, and any
\* version may win.  A missing world is a PoolError, and ends the session.
Replayed(j) == 0 .. j.idx
Dream(p) ==
  LET j == job[p] IN
  /\ j.at = "dream"
  /\ IF \A k \in Replayed(j) : PoolHolds(k)
     THEN /\ \E q \in Policies : job' = [job EXCEPT ![p].next = q, ![p].at = "next"]
          /\ UNCHANGED <<lock, verdict>>
     ELSE Leave(p, "broken")
  /\ UNCHANGED <<fsVars, acked, spent>>

-----------------------------------------------------------------------------
(* What goes wrong.                                                          *)

\* The process is killed, or a call raises: the lock goes with it and every file
\* stays as the last system call left it.  rmtree may be cut short anywhere.
Stop(p) ==
  /\ spent.stops < MaxStops
  /\ job[p].at # "idle"
  /\ spent' = [spent EXCEPT !.stops = @ + 1]
  /\ Leave(p, "stopped")
  /\ IF job[p].at = "clear"
     THEN \E gone \in SUBSET CycleNames(job[p].idx) :
            /\ <<"cycle", job[p].idx>> \in gone => gone = CycleNames(job[p].idx)
            /\ seen' = Without(gone)
     ELSE UNCHANGED seen
  /\ UNCHANGED <<disk, unflushed, acked>>

\* The kernel writes a name back in its own time; bytes nobody flushed may be torn.
\* (Only a power loss can tell, so there is nothing to do once none is left.)
Writeback(n) ==
  /\ spent.power < MaxPower
  /\ \E c \in {seen[n]} \cup {t \in {Torn} : n \in unflushed} :
       c # disk[n] /\ disk' = [disk EXCEPT ![n] = c]
  /\ UNCHANGED <<seen, unflushed, lock, job, acked, verdict, spent>>

\* A name survives if its own entry and the directories above it were written.
Survivors ==
  [n \in Names |-> IF Absent \in {disk[Root], disk[Parent(n)], disk[Parent(Parent(n))]}
                   THEN Absent ELSE disk[n]]

PowerLoss ==
  /\ spent.power < MaxPower
  /\ spent' = [spent EXCEPT !.power = @ + 1]
  /\ seen' = Survivors /\ disk' = Survivors /\ unflushed' = {}
  /\ lock' = Nobody
  /\ job' = [p \in Procs |-> Idle]
  /\ verdict' = IF lock = Nobody THEN verdict ELSE "stopped"
  /\ UNCHANGED acked

\* Outside the program, between sessions: a published file is deleted, or a pool tree
\* left half-copied.  What counted as finished ends where a record was lost.
Published == {"manifest", "policy", "tree", "next", "timing", "record", "world"}
LoseFile(kind, k, left) ==
  /\ spent.lost < MaxLost
  /\ lock = Nobody
  /\ <<kind, k>> \in Names /\ seen[<<kind, k>>] # Absent
  /\ left = Torn => kind = "world"
  /\ seen' = [seen EXCEPT ![<<kind, k>>] = left]
  /\ disk' = [disk EXCEPT ![<<kind, k>>] = left]
  /\ acked' = IF kind = "record" THEN {c \in acked : c < k} ELSE acked
  /\ spent' = [spent EXCEPT !.lost = @ + 1]
  /\ UNCHANGED <<unflushed, lock, job, verdict>>

-----------------------------------------------------------------------------
Step(p) ==
  \/ MakeDirectory(p) \/ SyncParents(p)
  \/ OpenFile(p) \/ FlushFile(p) \/ SyncName(p) \/ Rename(p) \/ SyncRename(p)
  \/ CheckManifest(p) \/ ResumeCycle(p) \/ ResumeDone(p) \/ NextCycle(p) \/ Finish(p)
  \/ Clear(p) \/ Rollout(p) \/ Dream(p)

Environment ==
  \/ \E p \in Procs : Stop(p)
  \/ \E n \in Names : Writeback(n)
  \/ PowerLoss
  \/ \E kind \in Published, k \in Cycles, left \in {Absent, Torn} : LoseFile(kind, k, left)

Next ==
  \/ \E p \in Procs, policy \in Policies, want \in 1 .. MaxCycles : Begin(p, policy, want)
  \/ \E p \in Procs : Step(p)
  \/ Environment

Spec == Init /\ [][Next]_vars

\* A session that is running keeps running: nothing it does waits on another process.
FairSpec == Spec /\ \A p \in Procs : WF_vars(Step(p))

-----------------------------------------------------------------------------
(* Properties.                                                               *)

Jobs == [at : Stages, phase : Phases, policy : Policies \cup {Absent},
         want : 0 .. MaxCycles, idx : 0 .. MaxCycles, source : Policies \cup {Absent},
         live : BOOLEAN, tree : Trees \cup {Absent}, next : Policies \cup {Absent}]

\* The type invariant.
TypeOK ==
  /\ FileMap(seen) /\ FileMap(disk)
  /\ unflushed \subseteq Names
  /\ lock \in Procs \cup {Nobody}
  /\ job \in [Procs -> Jobs]
  /\ acked \subseteq Cycles
  /\ verdict \in Verdicts
  /\ spent \in [starts : 0 .. MaxStarts, stops : 0 .. MaxStops,
                power : 0 .. MaxPower, lost : 0 .. MaxLost]

\* What a record vouches for (run.py _cycle, _write_record): it is whole, and the tree,
\* policies and timing it was written about are there, whole and the same, in the
\* cycle's directory and in the pool.
Vouched(fs, k) ==
  LET record == fs[<<"record", k>>] IN
  /\ record \in Records
  /\ fs[<<"tree", k>>] = record.tree /\ fs[<<"world", k>>] = record.tree
  /\ fs[<<"policy", k>>] = record.policy
  /\ fs[<<"next", k>>] = record.next
  /\ fs[<<"timing", k>>] = Some

\* A record is the last thing a cycle publishes: whatever a session is in the middle of,
\* and wherever one was killed, a record that can be seen is one to be trusted.
RecordVouches == \A k \in Cycles : HasRecord(k) => Vouched(seen, k)

\* And so is one that a power loss at this instant would leave (durable.py): as long as
\* nothing was taken from outside, no reader ever finds a name without the bytes, or a
\* record without what it vouches for.
SurvivorsVouch ==
  \A k \in Cycles : spent.lost = 0 /\ Survivors[<<"record", k>>] # Absent => Vouched(Survivors, k)

\* The cycles a session would trust form one history: each deployed the policy the one
\* before it selected, and the first the policy the manifest names (_resume, _finished).
OneHistory ==
  \A k \in Cycles :
    Trusted(k) => seen[<<"policy", k>>] = IF k = 0 THEN seen[Manifest]
                                                   ELSE seen[<<"next", k - 1>>]

\* What a power loss can cost is the cycle in flight, never one that finished: once a
\* session has built on a cycle, a power loss now would leave its record (durable.py).
FinishedIsDurable == \A k \in acked : Survivors[<<"record", k>>] # Absent

\* The dreaming round of a cycle replays the whole history: past _resume, the pool has
\* for every earlier cycle the tree its record is about, whatever the pool lost before.
PoolHasHistory ==
  \A p \in Procs : job[p].live =>
    \A k \in 0 .. job[p].idx - 1 : /\ HasRecord(k)
                                   /\ seen[<<"world", k>>] = seen[<<"record", k>>].tree

\* No crash leaves a directory that the command that started it cannot resume.
NeverBroken == verdict # "broken"

\* A session that returns has every cycle it was asked for behind it, and a session is
\* never asked to redo one: between two steps no finished cycle's files change.
FinishedIsKept ==
  [][\A k \in acked : /\ k \in acked'
                      /\ \A n \in Entries(<<"cycle", k>>) : seen'[n] = seen[n]]_vars

\* The directory implements one growing history: the records of the cycles acknowledged.
History == INSTANCE RunHistory WITH
  history <- [i \in 1 .. Cardinality(acked) |-> seen[<<"record", i - 1>>]]
ImplementsHistory == History!Spec

\* Every session ends by itself or is ended: nothing in it can go round for ever.
SessionsEnd == \A p \in Procs : (job[p].at # "idle") ~> (job[p].at = "idle")

=============================================================================
