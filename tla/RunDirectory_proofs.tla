------------------------- MODULE RunDirectory_proofs -------------------------
(***************************************************************************)
(* Proofs about RunDirectory, for any processes, policies, trees, number   *)
(* of cycles and bounds: its type invariant, and then, as long as no power *)
(* is lost and nothing outside the program takes a file, what a record     *)
(* vouches for, that the records form one history that only grows, that    *)
(* no kill leaves one that cannot be resumed, and that the directory       *)
(* implements RunHistory; then what is left when power is lost and files   *)
(* are taken, as long as no session is killed; that the pool serves the    *)
(* whole history whatever happens; last, about RunReport, that a session's *)
(* request precedes its work and that what a report answers was true of    *)
(* the directory while it was made.                                        *)
(***************************************************************************)
EXTENDS RunReport, Sequences, FiniteSetTheorems, TLAPS

-----------------------------------------------------------------------------
(* The type invariant.                                                       *)

\* The stages of a cycle in hand, the ones that have its tree, and the ones before _resume.
CycleStages == {"clear", "cycle", "policy", "rollout", "tree", "pool", "world", "dream",
                "next", "timing", "record"}
TreeStages  == {"tree", "pool", "world", "dream", "next", "timing", "record"}
StartStages == {"cycles", "check", "manifest", "session"}

\* What a session's variables hold at each stage.
JobOK(j) ==
  /\ j \in Jobs
  /\ j.at # "idle" => /\ j.policy \in Policies /\ j.source \in Policies
                      /\ j.want \in 1 .. MaxCycles /\ j.idx <= j.want
  /\ j.at \in CycleStages => j.idx < j.want
  /\ j.at \in TreeStages => j.tree \in Trees
  /\ j.at \in {"next", "timing", "record"} => j.next \in Policies
  /\ j.at \in StartStages => j.idx = 0 /\ ~j.live
  /\ j.at \in {"idle", "resume"} => ~j.live
  /\ j.at = "loop" \/ j.at \in CycleStages \ {"pool", "world"} => j.live

TypeInv ==
  /\ TypeOK
  /\ \A p \in Procs : JobOK(job[p])

\* At most the process that holds the lock is in a session.
OneSession == \A p \in Procs : job[p].at # "idle" => lock = p

\* A session that is done with a stage is at the next one with what it needs there.
LEMMA AdvancedType ==
  ASSUME NEW j, JobOK(j), j.at \in WriteStages \cup DirStages
  PROVE  JobOK(Advanced(j))
<1>1. /\ j.idx \in Nat /\ j.want \in 1 .. MaxCycles /\ j.idx <= j.want
      /\ CycleOver(j) => j.idx < j.want /\ j.next \in Policies
  BY BoundsAreNat DEF JobOK, Jobs, WriteStages, DirStages, CycleStages, CycleOver
<1>2. After(j) \in Stages
  BY DEF After, WriteStages, DirStages, Stages, OtherStages
<1>3. Advanced(j) \in Jobs
  <2>1. j \in Jobs /\ "open" \in Phases
    BY DEF JobOK, Phases
  <2>2. (IF CycleOver(j) THEN j.idx + 1 ELSE j.idx) \in 0 .. MaxCycles
    BY <1>1, <2>1, BoundsAreNat
  <2>3. (IF CycleOver(j) THEN j.next ELSE j.source) \in Policies \cup {Absent}
    BY <1>1, <2>1 DEF Jobs
  <2>. QED
    BY <1>2, <2>1, <2>2, <2>3 DEF Jobs, Advanced
<1>4. /\ Advanced(j).at = After(j) /\ Advanced(j).want = j.want
      /\ Advanced(j).tree = j.tree /\ Advanced(j).next = j.next /\ Advanced(j).policy = j.policy
  BY DEF JobOK, Jobs, Advanced
<1>5. Advanced(j).live = j.live
  BY DEF JobOK, Jobs, Advanced
<1>6. /\ Advanced(j).idx = IF CycleOver(j) THEN j.idx + 1 ELSE j.idx
      /\ Advanced(j).source = IF CycleOver(j) THEN j.next ELSE j.source
  BY DEF JobOK, Jobs, Advanced
<1>7. \/ j.at \in {"cycles", "manifest", "session", "cycle", "policy"} /\ ~CycleOver(j)
           /\ After(j) \in {"check", "session", "resume", "policy", "rollout"}
           /\ (j.at \in {"cycles", "manifest"} <=> After(j) \in {"check", "session"})
           /\ (j.at = "session" <=> After(j) = "resume")
      \/ j.at = "tree" /\ After(j) = "pool" /\ ~CycleOver(j)
      \/ j.at = "pool" /\ After(j) = "world" /\ ~CycleOver(j)
      \/ j.at = "world" /\ j.live /\ After(j) = "dream" /\ ~CycleOver(j)
      \/ j.at = "world" /\ ~j.live /\ After(j) = "resume" /\ ~CycleOver(j)
      \/ j.at = "next" /\ After(j) = "timing" /\ ~CycleOver(j)
      \/ j.at = "timing" /\ After(j) = "record" /\ ~CycleOver(j)
      \/ j.at = "record" /\ After(j) = "loop" /\ CycleOver(j)
  BY DEF After, CycleOver, WriteStages, DirStages
<1>. QED
  BY <1>1, <1>3, <1>4, <1>5, <1>6, <1>7
  DEF JobOK, CycleStages, TreeStages, StartStages

\* The names a running session writes are names of this directory.
LEMMA SlotType ==
  ASSUME NEW j, JobOK(j), j.at \in WriteStages \cup DirStages
  PROVE  /\ Kind(j) \in Names /\ Slot(j) \in Names
         /\ j.at \in WriteStages => Data(j) \in Whole(Slot(j)[1])
         /\ Whole(Kind(j)[1]) = Whole(Slot(j)[1])
<1>1. /\ j.idx \in Cycles \/ j.at \in {"manifest", "session", "cycles", "pool"}
      /\ j.policy \in Policies /\ j.source \in Policies /\ j.want \in 1 .. MaxCycles
      /\ j.at \in TreeStages => j.tree \in Trees
      /\ j.at \in {"next", "timing", "record"} => j.next \in Policies
  BY BoundsAreNat DEF JobOK, Jobs, WriteStages, DirStages, CycleStages, TreeStages, StartStages, Cycles
<1>2. \A kind \in RunKinds : <<kind, 0>> \in Names
  BY DEF Names
<1>3. \A kind \in {"cycle"} \cup FileKinds \cup PoolKinds, k \in Cycles : <<kind, k>> \in Names
  BY DEF Names
<1>4. Kind(j) \in Names /\ Kind(j)[1] = j.at
  BY <1>1, <1>2, <1>3 DEF Kind, RunKinds, FileKinds, PoolKinds, WriteStages, DirStages
<1>5. Slot(j) \in Names /\ (j.at \in WriteStages => Whole(Kind(j)[1]) = Whole(Slot(j)[1]))
  BY <1>1, <1>2, <1>3, <1>4 DEF Kind, Slot, Staging, StagedKinds, RunKinds, FileKinds, PoolKinds, WriteStages, DirStages,
    Whole
<1>6. j.at \in WriteStages => Data(j) \in Whole(j.at) /\ Whole(Slot(j)[1]) = Whole(j.at)
  <2>1. CASE j.at \in {"manifest", "session", "policy", "tree"}
    BY <1>1, <2>1 DEF Data, Whole, Kind, Slot, Staging, StagedKinds, TreeStages
  <2>2. CASE j.at \in {"world", "next", "timing"}
    BY <1>1, <2>2 DEF Data, Whole, Kind, Slot, Staging, StagedKinds, TreeStages
  <2>3. CASE j.at = "record"
    BY <1>1, <2>3 DEF Data, Whole, Kind, Slot, Staging, StagedKinds, TreeStages, Records
  <2>. QED
    BY <2>1, <2>2, <2>3 DEF WriteStages
<1>7. j.at \in DirStages => Slot(j) = Kind(j)
  BY DEF DirStages, Slot, StagedKinds
<1>. QED
  BY <1>4, <1>5, <1>6, <1>7

\* Changing what one name holds, or copying names from one map to the other, keeps a
\* map of files one.
LEMMA FileMapWrite ==
  ASSUME NEW fs, FileMap(fs), NEW n \in Names, NEW c, c \in {Absent, Torn} \cup Whole(n[1])
  PROVE  FileMap([fs EXCEPT ![n] = c])
  BY DEF FileMap

LEMMA FileMapMix ==
  ASSUME NEW fs, NEW gs, FileMap(fs), FileMap(gs), NEW from, from \subseteq Names
  PROVE  FileMap([n \in Names |-> IF n \in from THEN fs[n] ELSE gs[n]])
  BY DEF FileMap

LEMMA FileMapLess ==
  ASSUME NEW fs, FileMap(fs), NEW gone
  PROVE  FileMap([n \in Names |-> IF n \in gone THEN Absent ELSE fs[n]])
  BY DEF FileMap

\* Moving one session to a legal place keeps every session at one.
LEMMA JobMove ==
  ASSUME TypeInv, NEW p \in Procs, NEW j, JobOK(j), job' = [job EXCEPT ![p] = j]
  PROVE  job' \in [Procs -> Jobs] /\ \A q \in Procs : JobOK(job'[q])
  BY DEF TypeInv, TypeOK, JobOK

LEMMA IdleType == JobOK(Idle)
  BY BoundsAreNat DEF JobOK, Jobs, Idle, Stages, OtherStages, Phases, CycleStages, TreeStages, StartStages

LEMMA PhaseType ==
  ASSUME NEW j, JobOK(j), NEW phase \in Phases
  PROVE  JobOK([j EXCEPT !.phase = phase])
  BY DEF JobOK, Jobs

\* A session that leaves its stage for another of the same needs.
LEMMA StageType ==
  ASSUME NEW j, JobOK(j), NEW stage \in Stages,
         stage \in CycleStages => j.idx < j.want /\ (j.live \/ stage \in {"pool", "world"}),
         stage \in TreeStages => j.tree \in Trees,
         stage \in {"next", "timing", "record"} => j.next \in Policies,
         stage \in StartStages => j.idx = 0 /\ ~j.live,
         stage \in {"idle", "resume"} => ~j.live,
         stage = "loop" => j.live,
         j.at # "idle"
  PROVE  JobOK([j EXCEPT !.at = stage])
  BY DEF JobOK, Jobs

LEMMA SyncDirsType ==
  ASSUME TypeInv, NEW ds, SyncDirs(ds)
  PROVE  FileMap(disk')
<1>. DEFINE from == {n \in Names : n # Root /\ Parent(n) \in ds}
<1>1. disk' = [n \in Names |-> IF n \in from THEN seen[n] ELSE disk[n]]
  BY DEF SyncDirs
<1>2. from \subseteq Names /\ FileMap(seen) /\ FileMap(disk)
  BY DEF TypeInv, TypeOK
<1>. HIDE DEF from
<1>. QED
  BY <1>1, <1>2, FileMapMix

LEMMA SurvivorsType ==
  ASSUME TypeInv
  PROVE  FileMap(Survivors)
  BY DEF TypeInv, TypeOK, FileMap, Survivors

\* Every step keeps the type invariant.
LEMMA TypeStep == TypeInv /\ [Next]_vars => TypeInv'
<1>. SUFFICES ASSUME TypeInv, [Next]_vars
              PROVE  TypeInv'
  OBVIOUS
<1>. USE DEF TypeInv
<1>1. ASSUME NEW p \in Procs, NEW policy \in Policies, NEW want \in 1 .. MaxCycles,
             Begin(p, policy, want)
      PROVE  TypeInv'
  <2>. DEFINE j == [Idle EXCEPT !.at = "cycles", !.policy = policy, !.want = want,
                                !.source = policy]
  <2>1. JobOK(j)
    <3>1. Idle \in Jobs /\ Idle.idx = 0 /\ ~Idle.live
      BY IdleType DEF JobOK, Idle
    <3>2. want \in 0 .. MaxCycles /\ "cycles" \in Stages
      BY DEF Stages, DirStages
    <3>3. j \in Jobs /\ j.at = "cycles" /\ j.policy = policy /\ j.source = policy
          /\ j.want = want /\ j.idx = Idle.idx
      BY <3>1, <3>2 DEF Jobs
    <3>4. j.live = Idle.live
      BY <3>1 DEF Jobs
    <3>. HIDE DEF j
    <3>. QED
      BY <3>1, <3>3, <3>4 DEF JobOK, CycleStages, TreeStages, StartStages
  <2>2. job' \in [Procs -> Jobs] /\ \A q \in Procs : JobOK(job'[q])
    BY <1>1, <2>1, JobMove DEF Begin
  <2>3. FileMap(seen')
    BY <1>1, FileMapWrite DEF Begin, TypeOK, Root, Names, RunKinds, Whole
  <2>4. spent' \in [starts : 0 .. MaxStarts, stops : 0 .. MaxStops,
                    power : 0 .. MaxPower, lost : 0 .. MaxLost]
    BY <1>1, BoundsAreNat DEF Begin, TypeOK
  <2>. QED
    BY <1>1, <2>2, <2>3, <2>4 DEF Begin, TypeOK
<1>2. ASSUME NEW p \in Procs, MakeDirectory(p)
      PROVE  TypeInv'
  <2>. DEFINE j == job[p]
  <2>1. JobOK(j) /\ j.at \in DirStages /\ j.phase = "open"
    BY <1>2 DEF MakeDirectory
  <2>2. CASE seen[Kind(j)] # Absent
    <3>1. JobOK(Advanced(j)) /\ job' = [job EXCEPT ![p] = Advanced(j)]
      BY <1>2, <2>1, <2>2, AdvancedType DEF MakeDirectory
    <3>. QED
      BY <1>2, <2>2, <3>1, JobMove DEF MakeDirectory, TypeOK
  <2>3. CASE seen[Kind(j)] = Absent
    <3>1. /\ JobOK([j EXCEPT !.phase = "sync"])
          /\ job' = [job EXCEPT ![p] = [j EXCEPT !.phase = "sync"]]
      BY <1>2, <2>1, <2>3, PhaseType DEF MakeDirectory, Phases
    <3>2. Kind(j) \in Names /\ Some \in Whole(Kind(j)[1])
      BY <2>1, SlotType DEF DirStages, Kind, Whole
    <3>3. FileMap(seen')
      BY <1>2, <2>3, <3>2, FileMapWrite DEF MakeDirectory, TypeOK
    <3>. QED
      BY <1>2, <3>1, <3>3, JobMove DEF MakeDirectory, TypeOK
  <2>. QED
    BY <2>2, <2>3
<1>3. ASSUME NEW p \in Procs, SyncParents(p)
      PROVE  TypeInv'
  <2>1. JobOK(Advanced(job[p])) /\ FileMap(disk')
    BY <1>3, AdvancedType, SyncDirsType DEF SyncParents
  <2>. QED
    BY <1>3, <2>1, JobMove DEF SyncParents, TypeOK
<1>4. ASSUME NEW p \in Procs, OpenFile(p)
      PROVE  TypeInv'
  <2>1. JobOK([job[p] EXCEPT !.phase = "flush"])
    BY <1>4, PhaseType DEF OpenFile, Phases
  <2>2. Slot(job[p]) \in Names
    BY <1>4, SlotType DEF OpenFile
  <2>3. FileMap(seen')
    BY <1>4, <2>2, FileMapWrite DEF OpenFile, TypeOK
  <2>. QED
    BY <1>4, <2>1, <2>2, <2>3, JobMove DEF OpenFile, TypeOK
<1>5. ASSUME NEW p \in Procs, FlushFile(p)
      PROVE  TypeInv'
  <2>1. JobOK([job[p] EXCEPT !.phase = "name"])
    BY <1>5, PhaseType DEF FlushFile, Phases
  <2>2. Slot(job[p]) \in Names /\ Data(job[p]) \in Whole(Slot(job[p])[1])
    BY <1>5, SlotType DEF FlushFile
  <2>3. FileMap(seen') /\ FileMap(disk')
    BY <1>5, <2>2, FileMapWrite DEF FlushFile, TypeOK
  <2>. QED
    BY <1>5, <2>1, <2>3, JobMove DEF FlushFile, TypeOK
<1>6. ASSUME NEW p \in Procs, SyncName(p)
      PROVE  TypeInv'
  <2>. DEFINE j == IF job[p].at \in StagedKinds THEN [job[p] EXCEPT !.phase = "rename"]
                                                ELSE Advanced(job[p])
  <2>1. JobOK(j)
    BY <1>6, PhaseType, AdvancedType DEF SyncName, Phases
  <2>2. FileMap(disk')
    BY <1>6, SyncDirsType DEF SyncName
  <2>. QED
    BY <1>6, <2>1, <2>2, JobMove DEF SyncName, TypeOK
<1>7. ASSUME NEW p \in Procs, Rename(p)
      PROVE  TypeInv'
  <2>1. JobOK([job[p] EXCEPT !.phase = "sync"])
    BY <1>7, PhaseType DEF Rename, Phases
  <2>2. job[p].at \in WriteStages
    BY <1>7 DEF Rename, StagedKinds, WriteStages
  <2>3. /\ Kind(job[p]) \in Names /\ Slot(job[p]) \in Names
        /\ seen[Slot(job[p])] \in {Absent, Torn} \cup Whole(Kind(job[p])[1])
    BY <1>7, <2>2, SlotType DEF TypeOK, FileMap
  <2>4. FileMap([seen EXCEPT ![Kind(job[p])] = seen[Slot(job[p])]])
    BY <2>3, FileMapWrite DEF TypeOK
  <2>5. FileMap(seen')
    BY <1>7, <2>3, <2>4, FileMapWrite DEF Rename
  <2>6. unflushed' \subseteq Names
    BY <1>7, <2>3 DEF Rename, TypeOK
  <2>. QED
    BY <1>7, <2>1, <2>5, <2>6, JobMove DEF Rename, TypeOK
<1>8. ASSUME NEW p \in Procs, SyncRename(p)
      PROVE  TypeInv'
  <2>1. job[p].at \in WriteStages
    BY <1>8 DEF SyncRename, StagedKinds, WriteStages
  <2>2. JobOK(Advanced(job[p])) /\ FileMap(disk')
    BY <1>8, <2>1, AdvancedType, SyncDirsType DEF SyncRename
  <2>3. CycleOver(job[p]) => job[p].idx \in Cycles
    BY BoundsAreNat DEF CycleOver, JobOK, Jobs, CycleStages, Cycles
  <2>4. acked' \subseteq Cycles
    BY <1>8, <2>3 DEF SyncRename, Acknowledge, TypeOK
  <2>. QED
    BY <1>8, <2>2, <2>4, JobMove DEF SyncRename, TypeOK
<1>9. ASSUME NEW p \in Procs, CheckManifest(p)
      PROVE  TypeInv'
  <2>1. job[p].at = "check" /\ JobOK(job[p])
    BY <1>9 DEF CheckManifest
  <2>2. /\ JobOK([job[p] EXCEPT !.at = "manifest"])
        /\ JobOK([job[p] EXCEPT !.at = "session"])
    BY <2>1, StageType
    DEF Stages, WriteStages, CycleStages, TreeStages, StartStages, JobOK
  <2>3. job' \in [Procs -> Jobs] /\ \A q \in Procs : JobOK(job'[q])
    BY <1>9, <2>2, IdleType, JobMove DEF CheckManifest, Goto, Leave
  <2>. QED
    BY <1>9, <2>3 DEF CheckManifest, Leave, fsVars, TypeOK, Verdicts
<1>10. ASSUME NEW p \in Procs, ResumeCycle(p)
       PROVE  TypeInv'
  <2>. DEFINE j == job[p]
              k == job[p].idx
  <2>1. JobOK(j) /\ j.at = "resume" /\ ~j.live /\ k \in 0 .. MaxCycles /\ k < j.want /\ j.want \in 1 .. MaxCycles
    BY <1>10 DEF ResumeCycle, JobOK, Jobs
  <2>2. k \in Cycles /\ k + 1 \in 0 .. MaxCycles /\ k + 1 <= j.want
    BY <2>1, BoundsAreNat DEF Cycles
  <2>. DEFINE reads == Finished(j.want) /\ seen[<<"policy", k>>] \in Policies
  <2>3. CASE reads /\ PoolHolds(k) /\ seen[<<"next", k>>] \in Policies
    <3>. DEFINE moved == [j EXCEPT !.idx = k + 1, !.source = seen[<<"next", k>>]]
    <3>1. JobOK(moved)
      BY <2>1, <2>2, <2>3 DEF JobOK, Jobs, CycleStages, TreeStages, StartStages
    <3>2. job' = [job EXCEPT ![p] = moved] /\ acked' = acked \cup {k} /\ UNCHANGED <<lock, verdict>>
      BY <1>10, <2>3 DEF ResumeCycle
    <3>. QED
      BY <1>10, <2>2, <3>1, <3>2, JobMove DEF ResumeCycle, fsVars, TypeOK
  <2>4. CASE reads /\ ~PoolHolds(k) /\ seen[<<"tree", k>>] \in Trees
    <3>. DEFINE moved == [j EXCEPT !.at = "pool", !.tree = seen[<<"tree", k>>]]
    <3>1. JobOK(moved)
      BY <2>1, <2>4 DEF JobOK, Jobs, Stages, DirStages, CycleStages, TreeStages, StartStages
    <3>2. job' = [job EXCEPT ![p] = moved] /\ UNCHANGED <<acked, lock, verdict>>
      BY <1>10, <2>4 DEF ResumeCycle
    <3>. QED
      BY <1>10, <3>1, <3>2, JobMove DEF ResumeCycle, fsVars, TypeOK
  <2>5. CASE Leave(p, "broken") /\ UNCHANGED <<acked, fsVars, spent>>
    BY <2>5, IdleType, JobMove DEF Leave, fsVars, TypeOK, Verdicts
  <2>. QED
    BY <1>10, <2>3, <2>4, <2>5 DEF ResumeCycle
<1>11. ASSUME NEW p \in Procs, ResumeDone(p)
       PROVE  TypeInv'
  <2>. DEFINE moved == [job[p] EXCEPT !.live = TRUE, !.at = "loop"]
  <2>1. JobOK(moved)
    BY <1>11 DEF ResumeDone, JobOK, Jobs, Stages, OtherStages, CycleStages, TreeStages, StartStages
  <2>2. job' = [job EXCEPT ![p] = moved]
    BY <1>11 DEF ResumeDone
  <2>. QED
    BY <1>11, <2>1, <2>2, JobMove DEF ResumeDone, fsVars, TypeOK
<1>12. ASSUME NEW p \in Procs, NextCycle(p)
       PROVE  TypeInv'
  <2>1. JobOK([job[p] EXCEPT !.at = "clear"])
    <3>1. JobOK(job[p]) /\ job[p].at = "loop" /\ job[p].idx < job[p].want
      BY <1>12 DEF NextCycle
    <3>. QED
      BY <3>1 DEF JobOK, Jobs, Stages, OtherStages, CycleStages, TreeStages, StartStages
  <2>. QED
    BY <1>12, <2>1, JobMove DEF NextCycle, Goto, fsVars, TypeOK
<1>13. ASSUME NEW p \in Procs, Finish(p)
       PROVE  TypeInv'
  BY <1>13, IdleType, JobMove DEF Finish, Leave, fsVars, TypeOK, Verdicts
<1>14. ASSUME NEW p \in Procs, Clear(p)
       PROVE  TypeInv'
  <2>1. JobOK([job[p] EXCEPT !.at = "cycle"])
    BY <1>14, StageType DEF Clear, Stages, DirStages, CycleStages, TreeStages, StartStages, JobOK
  <2>2. FileMap(seen')
    BY <1>14, FileMapLess DEF Clear, Without, TypeOK
  <2>. QED
    BY <1>14, <2>1, <2>2, JobMove DEF Clear, Goto, TypeOK
<1>15. ASSUME NEW p \in Procs, Rollout(p)
       PROVE  TypeInv'
  <2>1. PICK t \in Trees : job' = [job EXCEPT ![p].tree = t, ![p].at = "tree"]
    BY <1>15 DEF Rollout
  <2>2. JobOK([job[p] EXCEPT !.tree = t, !.at = "tree"])
    <3>1. JobOK(job[p]) /\ job[p].at = "rollout" /\ job[p].idx < job[p].want /\ job[p].live
      BY <1>15 DEF Rollout, JobOK, CycleStages
    <3>. QED
      BY <3>1 DEF JobOK, Jobs, Stages, WriteStages, CycleStages, TreeStages, StartStages
  <2>3. job' = [job EXCEPT ![p] = [job[p] EXCEPT !.tree = t, !.at = "tree"]]
    BY <2>1
  <2>. QED
    BY <1>15, <2>2, <2>3, JobMove DEF Rollout, fsVars, TypeOK
<1>16. ASSUME NEW p \in Procs, Dream(p)
       PROVE  TypeInv'
  <2>1. CASE \A k \in Replayed(job[p]) : PoolHolds(k)
    <3>1. PICK q \in Policies : job' = [job EXCEPT ![p].next = q, ![p].at = "next"]
      BY <1>16, <2>1 DEF Dream
    <3>2. JobOK([job[p] EXCEPT !.next = q, !.at = "next"])
      BY <1>16 DEF Dream, JobOK, Jobs, Stages, WriteStages, CycleStages, TreeStages, StartStages
    <3>. QED
      BY <1>16, <2>1, <3>1, <3>2, JobMove DEF Dream, fsVars, TypeOK
  <2>2. CASE ~\A k \in Replayed(job[p]) : PoolHolds(k)
    BY <1>16, <2>2, IdleType, JobMove DEF Dream, Leave, fsVars, TypeOK, Verdicts
  <2>. QED
    BY <2>1, <2>2
<1>17. ASSUME NEW p \in Procs, Stop(p)
       PROVE  TypeInv'
  <2>1. job' \in [Procs -> Jobs] /\ \A q \in Procs : JobOK(job'[q])
    BY <1>17, IdleType, JobMove DEF Stop, Leave
  <2>2. FileMap(seen')
    BY <1>17, FileMapLess DEF Stop, Without, TypeOK
  <2>3. spent' \in [starts : 0 .. MaxStarts, stops : 0 .. MaxStops,
                    power : 0 .. MaxPower, lost : 0 .. MaxLost]
    BY <1>17, BoundsAreNat DEF Stop, TypeOK
  <2>. QED
    BY <1>17, <2>1, <2>2, <2>3 DEF Stop, Leave, TypeOK, Verdicts
<1>18. ASSUME NEW n \in Names, Writeback(n)
       PROVE  TypeInv'
  <2>1. FileMap(disk')
    BY <1>18, FileMapWrite DEF Writeback, TypeOK, FileMap
  <2>. QED
    BY <1>18, <2>1 DEF Writeback, TypeOK
<1>19. ASSUME PowerLoss
       PROVE  TypeInv'
  <2>1. job' \in [Procs -> Jobs] /\ \A q \in Procs : JobOK(job'[q])
    BY <1>19, IdleType DEF PowerLoss, JobOK
  <2>2. FileMap(seen') /\ FileMap(disk')
    BY <1>19, SurvivorsType DEF PowerLoss
  <2>3. spent' \in [starts : 0 .. MaxStarts, stops : 0 .. MaxStops,
                    power : 0 .. MaxPower, lost : 0 .. MaxLost]
    BY <1>19, BoundsAreNat DEF PowerLoss, TypeOK
  <2>. QED
    BY <1>19, <2>1, <2>2, <2>3 DEF PowerLoss, TypeOK, Verdicts
<1>20. ASSUME NEW kind \in Published, NEW k \in Cycles, NEW left \in {Absent, Torn},
              LoseFile(kind, k, left)
       PROVE  TypeInv'
  <2>1. FileMap(seen') /\ FileMap(disk')
    BY <1>20, FileMapWrite DEF LoseFile, TypeOK
  <2>2. spent' \in [starts : 0 .. MaxStarts, stops : 0 .. MaxStops,
                    power : 0 .. MaxPower, lost : 0 .. MaxLost]
    BY <1>20, BoundsAreNat DEF LoseFile, TypeOK
  <2>. QED
    BY <1>20, <2>1, <2>2 DEF LoseFile, TypeOK
<1>21. CASE UNCHANGED vars
  BY <1>21 DEF vars, TypeOK, FileMap
<1>. QED
  BY <1>1, <1>2, <1>3, <1>4, <1>5, <1>6, <1>7, <1>8, <1>9, <1>10, <1>11, <1>12, <1>13, <1>14,
     <1>15, <1>16, <1>17, <1>18, <1>19, <1>20, <1>21
  DEF Next, Step, Environment

LEMMA TypeInit == Init => TypeInv
<1>. SUFFICES ASSUME Init PROVE TypeInv
  OBVIOUS
<1>1. FileMap(seen) /\ FileMap(disk)
  BY DEF Init, FileMap, Root, Whole
<1>2. job \in [Procs -> Jobs] /\ \A p \in Procs : JobOK(job[p])
  BY IdleType DEF Init, JobOK
<1>3. spent \in [starts : 0 .. MaxStarts, stops : 0 .. MaxStops,
                 power : 0 .. MaxPower, lost : 0 .. MaxLost]
  BY BoundsAreNat DEF Init
<1>. QED
  BY <1>1, <1>2, <1>3 DEF Init, TypeInv, TypeOK, Verdicts

\* Whatever is killed or lost, every name of the directory holds nothing, something torn or
\* something of its kind, and every session is at a stage with what that stage writes.
THEOREM TypeCorrect == Spec => []TypeOK
<1>1. TypeInv => TypeOK
  BY DEF TypeInv
<1>. QED
  BY <1>1, TypeInit, TypeStep, PTL DEF Spec

-----------------------------------------------------------------------------
(* The inductive invariant, about a map of files fs and a session j.         *)

\* Until something outside the program takes a file, and on a machine that never loses
\* power, seen is changed by sessions only.
NoPower  == MaxPower = 0
NoLosses == NoPower /\ MaxLost = 0
Spared   == NoPower /\ spent'.lost = 0

IsRecorded(fs, k) == fs[<<"record", k>>] # Absent

\* The files a cycle's record vouches for, and the record.
VouchKinds == {"record", "tree", "world", "policy", "next", "timing"}

\* Records have no gap before them, a pool beside them and vouch for the rest.
Kept(fs) ==
  \A k \in Cycles : IsRecorded(fs, k) =>
    /\ \A i \in 0 .. k - 1 : IsRecorded(fs, i)
    /\ fs[<<"pool", 0>>] # Absent
    /\ Vouched(fs, k)

\* A stage that publishes nothing is at no system call.
PhaseAt(j) ==
  /\ j.at \in OtherStages => j.phase = "open"
  /\ j.at \in DirStages => j.phase \in {"open", "sync"}
  /\ j.at \in WriteStages \ StagedKinds => j.phase \in {"open", "flush", "name"}

\* What was flushed or renamed is what the stage writes.
Written(fs, j) ==
  /\ j.at \in WriteStages /\ j.phase \in {"name", "rename"} => fs[Slot(j)] = Data(j)
  /\ j.at \in StagedKinds /\ j.phase = "sync" => fs[Kind(j)] = Data(j)
  /\ j.at = "pool" /\ j.phase = "sync" => fs[<<"pool", 0>>] # Absent

\* What the stages behind have left in the cycle in hand.
Behind(fs, j) ==
  /\ j.at \in {"rollout"} \cup TreeStages => fs[<<"policy", j.idx>>] = j.source
  /\ j.at \in TreeStages \ {"tree"} => fs[<<"tree", j.idx>>] = j.tree
  /\ j.at \in TreeStages \ {"tree", "pool"} => fs[<<"pool", 0>>] # Absent
  /\ j.at \in TreeStages \ {"tree", "pool", "world"} => fs[<<"world", j.idx>>] = j.tree
  /\ j.at \in {"timing", "record"} => fs[<<"next", j.idx>>] = j.next
  /\ j.at = "record" => fs[<<"timing", j.idx>>] = Some

\* Every cycle before the one in hand has a record; once _resume is over, that one and
\* those after it have none, up to the rename that gives it its own.
Where(fs, j) ==
  /\ j.at # "idle" => \A i \in 0 .. j.idx - 1 : IsRecorded(fs, i)
  /\ ~j.live => j.at \in {"idle", "resume"} \cup StartStages
  /\ j.at = "idle" => ~j.live
  /\ j.live /\ j.idx < j.want =>
       \A i \in Cycles : i >= j.idx /\ IsRecorded(fs, i) =>
                           i = j.idx /\ j.at = "record" /\ j.phase = "sync"

Sound(fs, j) == PhaseAt(j) /\ Written(fs, j) /\ Behind(fs, j) /\ Where(fs, j)

\* One session at a time, records that are kept, and sessions where they may stand.
RecordInv == OneSession /\ Kept(seen) /\ \A p \in Procs : Sound(seen, job[p])

-----------------------------------------------------------------------------
(* Names.                                                                    *)

\* Where a session's stage publishes, and where its bytes are first written.
LEMMA Places ==
  ASSUME NEW j, JobOK(j), j.at \in WriteStages \cup DirStages
  PROVE  /\ Kind(j)[1] = j.at /\ Kind(j) = <<Kind(j)[1], Kind(j)[2]>>
         /\ j.at \in CycleStages \ {"pool"} => Kind(j) = <<j.at, j.idx>>
         /\ j.at \notin StagedKinds => Slot(j) = Kind(j)
         /\ j.at \in StagedKinds => Slot(j) = <<Slot(j)[1], Kind(j)[2]>>
         /\ j.at \in StagedKinds => Slot(j)[1] \in {"session.tmp", "world.tmp", "record.tmp"}
  BY DEF Kind, Slot, Staging, StagedKinds, CycleStages, WriteStages, DirStages

\* A cycle in hand is one of the run's, and past _resume.
LEMMA InHand ==
  ASSUME NEW fs, NEW j, JobOK(j), Where(fs, j), j.at \in CycleStages
  PROVE  /\ j.live /\ j.idx \in Cycles /\ j.idx < j.want
         /\ j.source \in Policies
         /\ \A i \in Cycles : i >= j.idx /\ IsRecorded(fs, i) =>
                                i = j.idx /\ j.at = "record" /\ j.phase = "sync"
<1>1. j.live
  BY DEF Where, CycleStages, StartStages
<1>2. j.idx < j.want /\ j.source \in Policies
  BY DEF JobOK, CycleStages
<1>3. j.idx \in Cycles
  BY <1>2, BoundsAreNat DEF JobOK, Jobs, Cycles
<1>. QED
  BY <1>1, <1>2, <1>3 DEF Where

LEMMA CyclesOrder ==
  ASSUME NEW k \in Cycles
  PROVE  /\ k \in Nat /\ 0 .. k - 1 \subseteq Cycles /\ k \in 0 .. MaxCycles - 1
         /\ \A i \in 0 .. k - 1 : i < k /\ i # k
  BY BoundsAreNat DEF Cycles

\* Nothing a record is about changes as long as its own cycle's files and the pool stay.
LEMMA KeptSame ==
  ASSUME NEW fs, NEW gs, Kept(fs),
         fs[<<"pool", 0>>] # Absent => gs[<<"pool", 0>>] # Absent,
         \A k \in Cycles : IsRecorded(gs, k) => IsRecorded(fs, k),
         \A k \in Cycles : IsRecorded(fs, k) =>
           \A kind \in VouchKinds : gs[<<kind, k>>] = fs[<<kind, k>>]
  PROVE  Kept(gs)
<1>. SUFFICES ASSUME NEW k \in Cycles, IsRecorded(gs, k)
              PROVE  /\ \A i \in 0 .. k - 1 : IsRecorded(gs, i)
                     /\ gs[<<"pool", 0>>] # Absent
                     /\ Vouched(gs, k)
  BY DEF Kept
<1>1. IsRecorded(fs, k) /\ \A i \in 0 .. k - 1 : IsRecorded(fs, i) /\ i \in Cycles
  BY CyclesOrder DEF Kept
<1>2. \A i \in Cycles : IsRecorded(fs, i) => IsRecorded(gs, i)
  BY DEF VouchKinds, IsRecorded
<1>3. Vouched(fs, k) /\ gs[<<"pool", 0>>] # Absent
  BY <1>1 DEF Kept
<1>4. \A kind \in VouchKinds : gs[<<kind, k>>] = fs[<<kind, k>>]
  BY <1>1
<1>. QED
  BY <1>1, <1>2, <1>3, <1>4 DEF Vouched, VouchKinds

-----------------------------------------------------------------------------
(* Writing and making.                                                       *)

\* What a stage writes, short of renaming a record, leaves every record and what the
\* stages behind it wrote as they were.
LEMMA WriteSound ==
  ASSUME NEW fs, NEW gs, NEW j, Kept(fs), JobOK(j), Behind(fs, j), Where(fs, j),
         j.at \in WriteStages \cup DirStages,
         j.at = "record" => j.phase # "sync" /\ gs[Kind(j)] = fs[Kind(j)],
         j.at = "pool" => gs[Kind(j)] # Absent,
         \A n \in Names \ {Kind(j), Slot(j)} : gs[n] = fs[n]
  PROVE  /\ Kept(gs) /\ Behind(gs, j) /\ Where(gs, j)
         /\ \A k \in Cycles : IsRecorded(gs, k) <=> IsRecorded(fs, k)
<1>1. \A k \in Cycles, kind \in VouchKinds : <<kind, k>> \in Names
  BY DEF Names, VouchKinds, FileKinds, PoolKinds
<1>2. <<"pool", 0>> \in Names
  BY DEF Names, RunKinds
<1>3. \A k \in Cycles : gs[<<"record", k>>] = fs[<<"record", k>>]
  <2>. SUFFICES ASSUME NEW k \in Cycles PROVE gs[<<"record", k>>] = fs[<<"record", k>>]
    OBVIOUS
  <2>1. <<"record", k>> # Slot(j) \/ Slot(j) = Kind(j)
    BY Places
  <2>2. <<"record", k>> = Kind(j) => j.at = "record"
    BY Places
  <2>. QED
    BY <1>1, <2>1, <2>2 DEF VouchKinds
<1>4. \A k \in Cycles : IsRecorded(gs, k) <=> IsRecorded(fs, k)
  BY <1>3 DEF IsRecorded
<1>5. ASSUME NEW k \in Cycles, IsRecorded(fs, k), NEW kind \in VouchKinds
      PROVE  gs[<<kind, k>>] = fs[<<kind, k>>]
  <2>1. CASE kind = "record"
    BY <1>3, <2>1
  <2>2. CASE kind # "record" /\ j.at \in CycleStages
    <3>1. k < j.idx /\ j.idx \in Cycles
      BY <1>5, <2>2, InHand DEF Cycles
    <3>2. <<kind, k>> # Kind(j)
      BY <2>2, <3>1, <1>5, Places, InHand DEF VouchKinds, Cycles
    <3>3. <<kind, k>> # Slot(j)
      BY <3>2, Places DEF VouchKinds
    <3>. QED
      BY <1>1, <3>2, <3>3
  <2>3. CASE j.at \notin CycleStages
    <3>1. Kind(j)[1] \notin VouchKinds
      BY <2>3, Places DEF VouchKinds, CycleStages
    <3>2. <<kind, k>> # Kind(j)
      BY <3>1, <1>5
    <3>3. <<kind, k>> # Slot(j)
      BY <3>2, Places DEF VouchKinds
    <3>. QED
      BY <1>1, <3>2, <3>3
  <2>. QED
    BY <2>1, <2>2, <2>3
<1>6. fs[<<"pool", 0>>] # Absent => gs[<<"pool", 0>>] # Absent
  <2>1. <<"pool", 0>> # Slot(j) \/ Slot(j) = Kind(j)
    BY Places
  <2>2. <<"pool", 0>> = Kind(j) => j.at = "pool"
    BY Places
  <2>. QED
    BY <1>2, <2>1, <2>2
<1>7. Kept(gs)
  BY <1>4, <1>5, <1>6, KeptSame
<1>8. Where(gs, j)
  <2>1. \A i \in 0 .. j.idx - 1 : i \in Cycles
    BY BoundsAreNat DEF JobOK, Jobs, Cycles
  <2>. QED
    BY <1>4, <2>1 DEF Where
<1>9. Behind(gs, j)
  <2>1. CASE j.at \notin {"rollout"} \cup TreeStages
    BY <2>1 DEF Behind, TreeStages
  <2>2. CASE j.at \in {"rollout"} \cup TreeStages
    <3>1. j.idx \in Cycles
      BY <2>2, InHand DEF CycleStages, TreeStages
    <3>2. \A kind \in VouchKinds : kind # j.at => gs[<<kind, j.idx>>] = fs[<<kind, j.idx>>]
      <4>. SUFFICES ASSUME NEW kind \in VouchKinds, kind # j.at
                    PROVE  gs[<<kind, j.idx>>] = fs[<<kind, j.idx>>]
        OBVIOUS
      <4>1. <<kind, j.idx>> # Kind(j)
        BY Places
      <4>2. <<kind, j.idx>> # Slot(j)
        BY <4>1, Places DEF VouchKinds
      <4>. QED
        BY <1>1, <3>1, <4>1, <4>2
    <3>. QED
      BY <1>6, <3>2 DEF Behind, VouchKinds, TreeStages
  <2>. QED
    BY <2>1, <2>2
<1>. QED
  BY <1>4, <1>7, <1>8, <1>9

\* A record that was renamed into place vouches for what the stages behind it left, and
\* there is one for every cycle before it.
LEMMA RenameKept ==
  ASSUME NEW fs, NEW gs, NEW j, Kept(fs), JobOK(j), Behind(fs, j), Where(fs, j),
         j.at = "record", j.phase # "sync",
         gs[Kind(j)] = Data(j),
         \A n \in Names \ {Kind(j), Slot(j)} : gs[n] = fs[n]
  PROVE  Kept(gs) /\ Behind(gs, j) /\ Where(gs, [j EXCEPT !.phase = "sync"])
<1>. DEFINE r == <<"record", j.idx>>
            k == j.idx
<1>1. /\ j.live /\ k \in Cycles /\ k < j.want /\ j.source \in Policies
      /\ \A i \in Cycles : i >= k => ~IsRecorded(fs, i)
  BY InHand DEF CycleStages
<1>2. j.tree \in Trees /\ j.next \in Policies
  BY DEF JobOK, TreeStages
<1>3. /\ Kind(j) = r /\ Slot(j) = <<"record.tmp", k>>
      /\ Data(j) = [tree |-> j.tree, policy |-> j.source, next |-> j.next]
  BY DEF Kind, Slot, Staging, StagedKinds, Data
<1>4. Data(j) \in Records /\ Data(j) # Absent
  BY <1>1, <1>2, <1>3, ConstantsDistinct DEF Records
<1>5. \A i \in Cycles, kind \in VouchKinds :
        <<kind, i>> # r => gs[<<kind, i>>] = fs[<<kind, i>>]
  <2>1. \A i \in Cycles, kind \in VouchKinds : <<kind, i>> \in Names /\ <<kind, i>> # Slot(j)
    BY <1>3 DEF Names, VouchKinds, FileKinds, PoolKinds
  <2>. QED
    BY <1>3, <2>1
<1>6. gs[<<"pool", 0>>] = fs[<<"pool", 0>>]
  BY <1>3 DEF Names, RunKinds
<1>7. \A i \in Cycles : IsRecorded(gs, i) <=> IsRecorded(fs, i) \/ i = k
  BY <1>1, <1>3, <1>4, <1>5 DEF IsRecorded, VouchKinds
<1>8. Behind(gs, j)
  BY <1>1, <1>5, <1>6 DEF Behind, VouchKinds, TreeStages
<1>9. \A i \in 0 .. k - 1 : IsRecorded(fs, i) /\ i \in Cycles
  BY <1>1, CyclesOrder DEF Where
<1>10. ASSUME NEW i \in Cycles, IsRecorded(gs, i)
       PROVE  /\ \A h \in 0 .. i - 1 : IsRecorded(gs, h)
              /\ gs[<<"pool", 0>>] # Absent
              /\ Vouched(gs, i)
  <2>1. CASE i = k
    <3>1. Vouched(gs, k)
      BY <1>3, <1>4, <1>8 DEF Vouched, Behind, TreeStages
    <3>2. gs[<<"pool", 0>>] # Absent
      BY <1>8 DEF Behind, TreeStages
    <3>. QED
      BY <2>1, <1>7, <1>9, <3>1, <3>2
  <2>2. CASE i # k
    <3>1. IsRecorded(fs, i)
      BY <1>7, <1>10, <2>2
    <3>2. \A kind \in VouchKinds : gs[<<kind, i>>] = fs[<<kind, i>>]
      BY <1>5, <2>2
    <3>3. \A h \in 0 .. i - 1 : IsRecorded(fs, h) /\ h \in Cycles
      BY <3>1, CyclesOrder DEF Kept
    <3>4. Vouched(fs, i) /\ fs[<<"pool", 0>>] # Absent
      BY <3>1 DEF Kept
    <3>5. Vouched(gs, i)
      BY <3>2, <3>4 DEF Vouched, VouchKinds
    <3>. QED
      BY <1>6, <1>7, <3>3, <3>4, <3>5
  <2>. QED
    BY <2>1, <2>2
<1>11. Where(gs, [j EXCEPT !.phase = "sync"])
  <2>. DEFINE m == [j EXCEPT !.phase = "sync"]
  <2>1. /\ m.at = "record" /\ m.phase = "sync" /\ m.idx = k /\ m.live = j.live
        /\ m.want = j.want
    BY DEF JobOK, Jobs
  <2>2. \A i \in 0 .. k - 1 : IsRecorded(gs, i)
    BY <1>7, <1>9
  <2>3. \A i \in Cycles : i >= k /\ IsRecorded(gs, i) => i = k
    BY <1>1, <1>7
  <2>. HIDE DEF m
  <2>. QED
    BY <1>1, <2>1, <2>2, <2>3 DEF Where
<1>. QED
  BY <1>8, <1>10, <1>11 DEF Kept

-----------------------------------------------------------------------------
(* Stages.                                                                   *)

\* The fields of a session that is done with a stage.
LEMMA AdvancedFields ==
  ASSUME NEW j, JobOK(j), j.at \in WriteStages \cup DirStages
  PROVE  LET a == Advanced(j) IN
         /\ a.at = After(j) /\ a.phase = "open"
         /\ a.idx = IF CycleOver(j) THEN j.idx + 1 ELSE j.idx
         /\ a.source = IF CycleOver(j) THEN j.next ELSE j.source
         /\ a.tree = j.tree /\ a.next = j.next /\ a.want = j.want /\ a.live = j.live
  BY DEF JobOK, Jobs, Advanced

\* A session whose stage has published what it writes stands where the next one needs.
LEMMA AdvancedSound ==
  ASSUME NEW fs, NEW j, JobOK(j), Sound(fs, j), j.at \in WriteStages \cup DirStages,
         j.at \in WriteStages => fs[Kind(j)] = Data(j),
         j.at = "pool" => fs[<<"pool", 0>>] # Absent,
         j.at = "record" => j.phase = "sync"
  PROVE  Sound(fs, Advanced(j))
<1>. DEFINE a == Advanced(j)
<1>1. /\ a.at = After(j) /\ a.phase = "open"
      /\ a.idx = IF CycleOver(j) THEN j.idx + 1 ELSE j.idx
      /\ a.source = IF CycleOver(j) THEN j.next ELSE j.source
      /\ a.tree = j.tree /\ a.next = j.next /\ a.want = j.want /\ a.live = j.live
  BY AdvancedFields
<1>. SUFFICES Sound(fs, a)
  OBVIOUS
<1>. HIDE DEF a
<1>2. PhaseAt(a) /\ Written(fs, a)
  BY <1>1 DEF PhaseAt, Written
<1>3. j.at \in CycleStages \/ j.at \in {"cycles", "manifest", "session"}
  BY DEF WriteStages, DirStages, CycleStages
<1>4. CASE j.at \in {"cycles", "manifest", "session"}
  <2>1. a.at \in {"check", "session", "resume"} /\ a.idx = j.idx /\ ~j.live
    BY <1>1, <1>4 DEF After, CycleOver, JobOK, StartStages
  <2>2. Behind(fs, a)
    BY <2>1 DEF Behind, TreeStages
  <2>3. \A i \in 0 .. j.idx - 1 : IsRecorded(fs, i)
    BY <1>4 DEF Sound, Where
  <2>4. Where(fs, a)
    BY <1>1, <2>1, <2>3 DEF Where, StartStages
  <2>. QED
    BY <1>2, <2>2, <2>4 DEF Sound
<1>5. CASE j.at \in CycleStages \ {"record"}
  <2>1. /\ j.live /\ j.idx \in Cycles /\ j.idx < j.want
        /\ \A i \in Cycles : i >= j.idx => ~IsRecorded(fs, i)
    BY <1>5, InHand DEF Sound
  <2>2. a.idx = j.idx /\ a.source = j.source
    BY <1>1, <1>5 DEF CycleOver
  <2>3. \/ j.at = "cycle" /\ a.at = "policy"
        \/ j.at = "policy" /\ a.at = "rollout"
        \/ j.at = "tree" /\ a.at = "pool"
        \/ j.at = "pool" /\ a.at = "world"
        \/ j.at = "world" /\ a.at = "dream"
        \/ j.at = "next" /\ a.at = "timing"
        \/ j.at = "timing" /\ a.at = "record"
    BY <1>1, <1>3, <1>5, <2>1 DEF After, WriteStages, DirStages, CycleStages
  <2>4. Where(fs, a)
    <3>1. \A i \in 0 .. j.idx - 1 : IsRecorded(fs, i)
      BY <1>5 DEF Sound, Where, CycleStages
    <3>. QED
      BY <1>1, <2>1, <2>2, <2>3, <3>1 DEF Where
  <2>5. Behind(fs, a)
    <3>1. Behind(fs, j)
      BY DEF Sound
    <3>2. Kind(j) = <<j.at, j.idx>> \/ j.at = "pool"
      BY <1>5, Places
    <3>3. j.at \in {"policy", "tree", "world", "next", "timing"} => fs[<<j.at, j.idx>>] = Data(j)
      BY <3>2 DEF WriteStages
    <3>. QED
      BY <1>1, <2>2, <2>3, <3>1, <3>3 DEF Behind, TreeStages, Data
  <2>. QED
    BY <1>2, <2>4, <2>5 DEF Sound
<1>6. CASE j.at = "record"
  <2>1. /\ j.live /\ j.idx \in Cycles /\ j.idx < j.want
        /\ \A i \in Cycles : i >= j.idx /\ IsRecorded(fs, i) => i = j.idx
    BY <1>6, InHand DEF Sound, CycleStages
  <2>2. a.at = "loop" /\ a.idx = j.idx + 1
    BY <1>1, <1>6 DEF After, CycleOver
  <2>3. IsRecorded(fs, j.idx)
    <3>1. Data(j) = [tree |-> j.tree, policy |-> j.source, next |-> j.next]
      BY <1>6 DEF Data
    <3>2. Data(j) \in Records
      BY <1>6, <3>1 DEF JobOK, TreeStages, Records
    <3>3. fs[<<"record", j.idx>>] = Data(j)
      BY <1>6, Places DEF CycleStages, WriteStages
    <3>. QED
      BY <3>2, <3>3, ConstantsDistinct DEF IsRecorded
  <2>4. \A i \in 0 .. j.idx : IsRecorded(fs, i)
    <3>1. \A i \in 0 .. j.idx - 1 : IsRecorded(fs, i)
      BY <1>6 DEF Sound, Where
    <3>. QED
      BY <2>1, <2>3, <3>1, CyclesOrder
  <2>5. Where(fs, a)
    <3>1. \A i \in 0 .. a.idx - 1 : IsRecorded(fs, i)
      BY <2>1, <2>2, <2>4 DEF Cycles
    <3>2. \A i \in Cycles : i >= a.idx => ~IsRecorded(fs, i)
      BY <2>1, <2>2, CyclesOrder
    <3>. QED
      BY <1>1, <2>1, <2>2, <3>1, <3>2 DEF Where
  <2>6. Behind(fs, a)
    BY <2>2 DEF Behind, TreeStages
  <2>. QED
    BY <1>2, <2>5, <2>6 DEF Sound
<1>. QED
  BY <1>3, <1>4, <1>5, <1>6

-----------------------------------------------------------------------------
(* One session at a time.                                                    *)

\* Whoever moves, the others are in no session.
LEMMA Alone ==
  ASSUME OneSession, NEW p \in Procs, job[p].at # "idle" \/ lock = Nobody
  PROVE  /\ \A q \in Procs \ {p} : job[q].at = "idle"
         /\ job[p].at # "idle" => lock = p
  BY ConstantsDistinct DEF OneSession

LEMMA IdleSound ==
  ASSUME NEW fs
  PROVE  Sound(fs, Idle)
  BY DEF Sound, PhaseAt, Written, Behind, Where, Idle, OtherStages, DirStages, WriteStages,
         StagedKinds, TreeStages

\* One session that moves to where it may stand leaves every session where it may stand.
LEMMA SessionStep ==
  ASSUME TypeInv, OneSession, NEW p \in Procs,
         \A q \in Procs : Sound(seen, job[q]),
         \A q \in Procs \ {p} : job[q].at = "idle",
         NEW j, job' = [job EXCEPT ![p] = j], Sound(seen', j), lock' = p \/ j.at = "idle"
  PROVE  OneSession' /\ \A q \in Procs : Sound(seen', job'[q])
<1>1. job \in [Procs -> Jobs]
  BY DEF TypeInv, TypeOK
<1>2. job'[p] = j /\ \A q \in Procs \ {p} : job'[q] = job[q]
  BY <1>1
<1>3. \A q \in Procs \ {p} : Sound(seen', job[q])
  <2>. SUFFICES ASSUME NEW q \in Procs \ {p} PROVE Sound(seen', job[q])
    OBVIOUS
  <2>1. job[q].at = "idle" /\ job[q].phase = "open" /\ ~job[q].live
    BY DEF Sound, PhaseAt, Where, OtherStages
  <2>. QED
    BY <2>1
    DEF Sound, PhaseAt, Written, Behind, Where, OtherStages, DirStages, WriteStages,
        StagedKinds, TreeStages
<1>4. OneSession'
  BY <1>2 DEF OneSession
<1>. QED
  BY <1>2, <1>3, <1>4

\* A session that leaves does so with the files as they were, or fewer of its own cycle.
LEMMA LeaveStep ==
  ASSUME TypeInv, OneSession, NEW p \in Procs, job[p].at # "idle", NEW how, Leave(p, how),
         \A q \in Procs : Sound(seen, job[q])
  PROVE  OneSession' /\ \A q \in Procs : Sound(seen', job'[q])
<1>1. job' = [job EXCEPT ![p] = Idle] /\ Idle.at = "idle"
  BY DEF Leave, Idle
<1>. QED
  BY <1>1, Alone, IdleSound, SessionStep

\* Removing files of a cycle without a record takes nothing from the others.
LEMMA WithoutKept ==
  ASSUME Kept(seen), NEW k \in Cycles, ~IsRecorded(seen, k), NEW gone, gone \subseteq CycleNames(k)
  PROVE  /\ Kept(Without(gone))
         /\ \A i \in Cycles : IsRecorded(Without(gone), i) <=> IsRecorded(seen, i)
<1>. DEFINE gs == Without(gone)
<1>1. \A n \in Names : gs[n] = IF n \in gone THEN Absent ELSE seen[n]
  BY DEF Without
<1>. HIDE DEF gs
<1>2. \A i \in Cycles, kind \in VouchKinds : <<kind, i>> \in Names
  BY DEF Names, VouchKinds, FileKinds, PoolKinds
<1>3. <<"pool", 0>> \in Names /\ <<"pool", 0>> \notin CycleNames(k)
  BY DEF Names, RunKinds, CycleNames, Entries, Parent, FileKinds, PoolKinds, Root
<1>4. ASSUME NEW i \in Cycles, i # k, NEW kind \in VouchKinds
      PROVE  <<kind, i>> \notin CycleNames(k)
  <2>1. Parent(<<kind, i>>) = <<"cycle", i>> \/ Parent(<<kind, i>>) = <<"pool", 0>>
    BY <1>4 DEF Parent, VouchKinds, FileKinds, PoolKinds, RunKinds
  <2>. QED
    BY <1>4, <2>1 DEF CycleNames, Entries
<1>5. \A i \in Cycles : IsRecorded(gs, i) => IsRecorded(seen, i)
  BY <1>1, <1>2 DEF IsRecorded, VouchKinds
<1>6. \A i \in Cycles : IsRecorded(seen, i) =>
        \A kind \in VouchKinds : gs[<<kind, i>>] = seen[<<kind, i>>]
  BY <1>1, <1>2, <1>4
<1>7. Kept(gs)
  BY <1>1, <1>3, <1>5, <1>6, KeptSame
<1>8. \A i \in Cycles : IsRecorded(seen, i) => IsRecorded(gs, i)
  BY <1>6 DEF IsRecorded, VouchKinds
<1>. QED
  BY <1>5, <1>7, <1>8 DEF gs

-----------------------------------------------------------------------------
(* Every step keeps the invariant.                                           *)

\* A stage's system calls (MakeDirectory to SyncRename).
LEMMA PublishStep ==
  ASSUME TypeInv, RecordInv, NEW p \in Procs,
         \/ MakeDirectory(p) \/ SyncParents(p)
         \/ OpenFile(p) \/ FlushFile(p) \/ SyncName(p) \/ Rename(p) \/ SyncRename(p)
  PROVE  RecordInv'
<1>. DEFINE j == job[p]
<1>. USE DEF RecordInv
<1>1. /\ j.at \in WriteStages \cup DirStages /\ JobOK(j) /\ Sound(seen, j)
      /\ lock' = lock
  BY DEF MakeDirectory, SyncParents, OpenFile, FlushFile, SyncName, Rename, SyncRename,
         StagedKinds, WriteStages, TypeInv
<1>2. j.at # "idle"
  BY <1>1 DEF WriteStages, DirStages
<1>3. lock = p /\ lock' = p /\ \A q \in Procs \ {p} : job[q].at = "idle"
  BY <1>1, <1>2, Alone
<1>4. ASSUME NEW m, job' = [job EXCEPT ![p] = m], Sound(seen', m), Kept(seen')
      PROVE  RecordInv'
  BY <1>3, <1>4, SessionStep
<1>5. Kind(j) \in Names /\ Slot(j) \in Names /\ DOMAIN seen = Names
  BY <1>1, SlotType DEF TypeInv, TypeOK, FileMap
<1>. HIDE DEF RecordInv
<1>6. Kept(seen) /\ j \in Jobs
  BY <1>1 DEF RecordInv, JobOK
<1>7. ASSUME NEW phase \in Phases
      PROVE  LET m == [j EXCEPT !.phase = phase] IN
             /\ m.at = j.at /\ m.phase = phase /\ m.idx = j.idx /\ m.live = j.live
             /\ m.want = j.want /\ m.tree = j.tree /\ m.source = j.source /\ m.next = j.next
             /\ m.policy = j.policy
  BY <1>6 DEF Jobs
<1>8. ASSUME NEW phase \in Phases, NEW gs
      PROVE  LET m == [j EXCEPT !.phase = phase] IN
             /\ Kind(m) = Kind(j) /\ Slot(m) = Slot(j) /\ Data(m) = Data(j)
             /\ Behind(gs, j) => Behind(gs, m)
             /\ Where(gs, j) /\ (j.at = "record" => j.phase # "sync") => Where(gs, m)
  <2>. DEFINE m == [j EXCEPT !.phase = phase]
  <2>1. /\ m.at = j.at /\ m.phase = phase /\ m.idx = j.idx /\ m.live = j.live
        /\ m.want = j.want /\ m.tree = j.tree /\ m.source = j.source /\ m.next = j.next
        /\ m.policy = j.policy
    BY <1>7
  <2>. HIDE DEF m
  <2>2. Kind(m) = Kind(j) /\ Slot(m) = Slot(j)
    BY <2>1 DEF Kind, Slot
  <2>3. Data(m) = Data(j)
    BY <2>1 DEF Data
  <2>4. Behind(gs, j) => Behind(gs, m)
    BY <2>1 DEF Behind
  <2>5. Where(gs, j) /\ (j.at = "record" => j.phase # "sync") => Where(gs, m)
    BY <2>1 DEF Where
  <2>. QED
    BY <2>2, <2>3, <2>4, <2>5 DEF m
<1>9. CASE MakeDirectory(p)
  <2>1. j.at \in DirStages /\ j.phase = "open"
    BY <1>9 DEF MakeDirectory
  <2>2. CASE seen[Kind(j)] # Absent
    <3>1. job' = [job EXCEPT ![p] = Advanced(j)] /\ seen' = seen
      BY <1>9, <2>2 DEF MakeDirectory
    <3>2. j.at = "pool" => seen[<<"pool", 0>>] # Absent
      BY <2>2 DEF Kind
    <3>3. Sound(seen, Advanced(j))
      BY <1>1, <2>1, <3>2, AdvancedSound DEF DirStages, WriteStages
    <3>. QED
      BY <1>4, <1>6, <3>1, <3>3
  <2>3. CASE seen[Kind(j)] = Absent
    <3>. DEFINE m == [j EXCEPT !.phase = "sync"]
    <3>1. job' = [job EXCEPT ![p] = m] /\ seen' = [seen EXCEPT ![Kind(j)] = Some]
      BY <1>9, <2>3 DEF MakeDirectory
    <3>2. seen'[Kind(j)] = Some /\ Some # Absent /\ \A n \in Names \ {Kind(j)} : seen'[n] = seen[n]
      BY <1>5, <3>1, ConstantsDistinct
    <3>3. j.at \notin WriteStages /\ j.at # "record"
      BY <2>1 DEF DirStages, WriteStages
    <3>4. Kept(seen') /\ Behind(seen', j) /\ Where(seen', j)
      BY <1>1, <1>6, <3>2, <3>3, WriteSound DEF Sound
    <3>5. "sync" \in Phases /\ m.at = j.at /\ m.phase = "sync"
      BY <1>6 DEF Phases, Jobs
    <3>6. Behind(seen', m) /\ Where(seen', m)
      BY <1>8, <3>3, <3>4, <3>5
    <3>7. j.at = "pool" => seen'[<<"pool", 0>>] # Absent
      BY <3>2 DEF Kind
    <3>8. PhaseAt(m) /\ Written(seen', m)
      BY <2>1, <3>3, <3>5, <3>7 DEF PhaseAt, Written, DirStages, OtherStages, StagedKinds
    <3>. QED
      BY <1>4, <3>1, <3>4, <3>6, <3>8 DEF Sound
  <2>. QED
    BY <2>2, <2>3
<1>10. CASE SyncParents(p)
  <2>1. /\ j.at \in DirStages /\ j.phase = "sync"
        /\ job' = [job EXCEPT ![p] = Advanced(j)] /\ seen' = seen
    BY <1>10 DEF SyncParents
  <2>2. j.at = "pool" => seen[<<"pool", 0>>] # Absent
    BY <1>1, <2>1 DEF Sound, Written
  <2>3. Sound(seen, Advanced(j))
    BY <1>1, <2>1, <2>2, AdvancedSound DEF DirStages, WriteStages
  <2>. QED
    BY <1>4, <1>6, <2>1, <2>3
<1>11. CASE OpenFile(p)
  <2>. DEFINE m == [j EXCEPT !.phase = "flush"]
  <2>1. /\ j.at \in WriteStages /\ j.phase = "open"
        /\ job' = [job EXCEPT ![p] = m] /\ seen' = [seen EXCEPT ![Slot(j)] = Torn]
    BY <1>11 DEF OpenFile
  <2>2. \A n \in Names \ {Slot(j)} : seen'[n] = seen[n]
    BY <1>5, <2>1
  <2>3. j.at = "record" => Kind(j) # Slot(j)
    BY <1>1, Places DEF StagedKinds
  <2>4. j.at # "pool"
    BY <2>1 DEF WriteStages
  <2>5. Kept(seen') /\ Behind(seen', j) /\ Where(seen', j)
    BY <1>1, <1>5, <1>6, <2>1, <2>2, <2>3, <2>4, WriteSound DEF Sound
  <2>6. "flush" \in Phases /\ m.at = j.at /\ m.phase = "flush"
    BY <1>6 DEF Phases, Jobs
  <2>7. Behind(seen', m) /\ Where(seen', m)
    BY <1>8, <2>1, <2>5, <2>6
  <2>8. PhaseAt(m) /\ Written(seen', m)
    BY <2>1, <2>4, <2>6 DEF PhaseAt, Written, WriteStages, DirStages, OtherStages
  <2>. QED
    BY <1>4, <2>1, <2>5, <2>7, <2>8 DEF Sound
<1>12. CASE FlushFile(p)
  <2>. DEFINE m == [j EXCEPT !.phase = "name"]
  <2>1. /\ j.at \in WriteStages /\ j.phase = "flush"
        /\ job' = [job EXCEPT ![p] = m] /\ seen' = [seen EXCEPT ![Slot(j)] = Data(j)]
    BY <1>12 DEF FlushFile
  <2>2. seen'[Slot(j)] = Data(j) /\ \A n \in Names \ {Slot(j)} : seen'[n] = seen[n]
    BY <1>5, <2>1
  <2>3. j.at = "record" => Kind(j) # Slot(j)
    BY <1>1, Places DEF StagedKinds
  <2>4. j.at # "pool"
    BY <2>1 DEF WriteStages
  <2>5. Kept(seen') /\ Behind(seen', j) /\ Where(seen', j)
    BY <1>1, <1>5, <1>6, <2>1, <2>2, <2>3, <2>4, WriteSound DEF Sound
  <2>6. "name" \in Phases /\ m.at = j.at /\ m.phase = "name"
    BY <1>6 DEF Phases, Jobs
  <2>7. Behind(seen', m) /\ Where(seen', m) /\ Slot(m) = Slot(j) /\ Data(m) = Data(j)
    BY <1>8, <2>1, <2>5, <2>6
  <2>8. PhaseAt(m) /\ Written(seen', m)
    BY <2>1, <2>2, <2>4, <2>6, <2>7 DEF PhaseAt, Written, WriteStages, DirStages, OtherStages
  <2>. QED
    BY <1>4, <2>1, <2>5, <2>7, <2>8 DEF Sound
<1>13. CASE SyncName(p)
  <2>1. j.at \in WriteStages /\ j.phase = "name" /\ seen' = seen /\ seen[Slot(j)] = Data(j)
    BY <1>1, <1>13 DEF SyncName, Sound, Written
  <2>2. CASE j.at \in StagedKinds
    <3>. DEFINE m == [j EXCEPT !.phase = "rename"]
    <3>1. job' = [job EXCEPT ![p] = m]
      BY <1>13, <2>2 DEF SyncName
    <3>2. "rename" \in Phases /\ m.at = j.at /\ m.phase = "rename"
      BY <1>6 DEF Phases, Jobs
    <3>3. Behind(seen, m) /\ Where(seen, m) /\ Slot(m) = Slot(j) /\ Data(m) = Data(j)
      BY <1>1, <1>8, <2>1, <3>2 DEF Sound
    <3>4. PhaseAt(m) /\ Written(seen, m)
      BY <2>1, <2>2, <3>2, <3>3 DEF PhaseAt, Written, WriteStages, DirStages, OtherStages
    <3>. QED
      BY <1>4, <1>6, <2>1, <3>1, <3>3, <3>4 DEF Sound
  <2>3. CASE j.at \notin StagedKinds
    <3>1. job' = [job EXCEPT ![p] = Advanced(j)]
      BY <1>13, <2>3 DEF SyncName
    <3>2. seen[Kind(j)] = Data(j)
      BY <1>1, <2>1, <2>3, Places
    <3>3. Sound(seen, Advanced(j))
      BY <1>1, <2>1, <2>3, <3>2, AdvancedSound DEF WriteStages, StagedKinds
    <3>. QED
      BY <1>4, <1>6, <2>1, <3>1, <3>3
  <2>. QED
    BY <2>2, <2>3
<1>14. CASE Rename(p)
  <2>. DEFINE m == [j EXCEPT !.phase = "sync"]
  <2>1. /\ j.at \in StagedKinds /\ j.phase = "rename" /\ job' = [job EXCEPT ![p] = m]
        /\ seen' = [seen EXCEPT ![Kind(j)] = seen[Slot(j)], ![Slot(j)] = Absent]
        /\ seen[Slot(j)] = Data(j)
    BY <1>1, <1>14 DEF Rename, Sound, Written, StagedKinds, WriteStages
  <2>2. Kind(j) # Slot(j)
    BY <1>1, <2>1, Places DEF StagedKinds
  <2>3. seen'[Kind(j)] = Data(j) /\ \A n \in Names \ {Kind(j), Slot(j)} : seen'[n] = seen[n]
    BY <1>5, <2>1, <2>2
  <2>4. "sync" \in Phases /\ m.at = j.at /\ m.phase = "sync" /\ j.at # "pool"
    BY <1>6, <2>1 DEF Phases, Jobs, StagedKinds
  <2>5. Kept(seen') /\ Behind(seen', j) /\ Where(seen', m)
    <3>1. CASE j.at = "record"
      <4>1. JobOK(j) /\ Behind(seen, j) /\ Where(seen, j) /\ j.phase # "sync"
        BY <1>1, <2>1 DEF Sound
      <4>2. Kept(seen') /\ Behind(seen', j) /\ Where(seen', [j EXCEPT !.phase = "sync"])
        BY <1>6, <2>3, <3>1, <4>1, RenameKept
      <4>. QED
        BY <4>2
    <3>2. CASE j.at # "record"
      <4>1. Kept(seen') /\ Behind(seen', j) /\ Where(seen', j)
        BY <1>1, <1>6, <2>3, <2>4, <3>2, WriteSound DEF Sound
      <4>. QED
        BY <1>8, <2>4, <3>2, <4>1
    <3>. QED
      BY <3>1, <3>2
  <2>6. Behind(seen', m) /\ Kind(m) = Kind(j) /\ Data(m) = Data(j)
    BY <1>8, <2>4, <2>5
  <2>7. PhaseAt(m) /\ Written(seen', m)
    BY <2>1, <2>3, <2>4, <2>6
    DEF PhaseAt, Written, WriteStages, DirStages, OtherStages, StagedKinds
  <2>. QED
    BY <1>4, <2>1, <2>5, <2>6, <2>7 DEF Sound
<1>15. CASE SyncRename(p)
  <2>1. /\ j.at \in StagedKinds /\ j.phase = "sync" /\ seen' = seen
        /\ job' = [job EXCEPT ![p] = Advanced(j)] /\ seen[Kind(j)] = Data(j)
    BY <1>1, <1>15 DEF SyncRename, Sound, Written
  <2>2. Sound(seen, Advanced(j))
    BY <1>1, <2>1, AdvancedSound DEF StagedKinds
  <2>. QED
    BY <1>4, <1>6, <2>1, <2>2
<1>. QED
  BY <1>9, <1>10, <1>11, <1>12, <1>13, <1>14, <1>15

\* A session that moves and writes nothing.
LEMMA MoveStep ==
  ASSUME TypeInv, RecordInv, NEW p \in Procs, job[p].at # "idle", NEW m,
         job' = [job EXCEPT ![p] = m], Sound(seen, m), seen' = seen, lock' = lock
  PROVE  RecordInv'
<1>1. lock' = p /\ \A q \in Procs \ {p} : job[q].at = "idle"
  BY Alone DEF RecordInv
<1>2. Sound(seen', m) /\ Kept(seen')
  BY DEF RecordInv
<1>. QED
  BY <1>1, <1>2, SessionStep DEF RecordInv

\* A session that ends and writes nothing.
LEMMA EndStep ==
  ASSUME TypeInv, RecordInv, NEW p \in Procs, job[p].at # "idle", NEW how, Leave(p, how),
         seen' = seen
  PROVE  RecordInv'
<1>1. Kept(seen')
  BY DEF RecordInv
<1>. QED
  BY <1>1, LeaveStep DEF RecordInv

\* The actions between the files (CheckManifest to Dream).
LEMMA DecideStep ==
  ASSUME TypeInv, RecordInv, NEW p \in Procs,
         \/ CheckManifest(p) \/ ResumeCycle(p) \/ ResumeDone(p) \/ NextCycle(p) \/ Finish(p)
         \/ Clear(p) \/ Rollout(p) \/ Dream(p)
  PROVE  RecordInv'
<1>. DEFINE j == job[p]
<1>1. /\ JobOK(j) /\ j \in Jobs /\ Sound(seen, j) /\ Kept(seen)
      /\ j.at # "idle" /\ j.at \in OtherStages /\ j.phase = "open"
  <2>1. j.at # "idle" /\ j.at \in OtherStages
    BY DEF CheckManifest, ResumeCycle, ResumeDone, NextCycle, Finish, Clear, Rollout, Dream,
           OtherStages
  <2>. QED
    BY <2>1 DEF RecordInv, Sound, PhaseAt, TypeInv, JobOK
<1>2. ASSUME NEW m, m.phase = "open"
      PROVE  PhaseAt(m) /\ Written(seen, m) /\ Written(seen', m)
  BY <1>2 DEF PhaseAt, Written
<1>3. CASE CheckManifest(p)
  <2>1. CASE \E stage \in {"manifest", "session"} : Goto(p, stage) /\ UNCHANGED <<lock, verdict>>
    <3>1. PICK stage \in {"manifest", "session"} : Goto(p, stage) /\ lock' = lock
      BY <2>1
    <3>. DEFINE m == [j EXCEPT !.at = stage]
    <3>2. job' = [job EXCEPT ![p] = m]
      BY <3>1 DEF Goto
    <3>3. m.at = stage /\ m.phase = "open" /\ m.idx = j.idx /\ m.live = j.live /\ ~j.live
      BY <1>1, <1>3 DEF CheckManifest, Jobs, JobOK, StartStages
    <3>4. Behind(seen, m)
      BY <3>3 DEF Behind, TreeStages
    <3>5. Where(seen, m)
      BY <1>1, <3>3 DEF Sound, Where, StartStages
    <3>6. Sound(seen, m) /\ seen' = seen
      BY <1>2, <1>3, <3>3, <3>4, <3>5 DEF Sound, CheckManifest, fsVars
    <3>. QED
      BY <1>1, <3>1, <3>2, <3>6, MoveStep
  <2>2. CASE \E how \in Verdicts : Leave(p, how)
    BY <1>1, <1>3, <2>2, EndStep DEF CheckManifest, fsVars
  <2>. QED
    BY <1>3, <2>1, <2>2 DEF CheckManifest, Verdicts
<1>4. CASE ResumeCycle(p)
  <2>. DEFINE k == j.idx
  <2>1. /\ j.at = "resume" /\ ~j.live /\ k < j.want /\ IsRecorded(seen, k) /\ seen' = seen
    BY <1>1, <1>4 DEF ResumeCycle, JobOK, HasRecord, IsRecorded, fsVars
  <2>2. k \in Cycles
    BY <1>1, <2>1, BoundsAreNat DEF JobOK, Jobs, Cycles
  <2>3. PoolHolds(k)
    BY <1>1, <2>1, <2>2 DEF Kept, Vouched, Records, PoolHolds
  <2>4. CASE Leave(p, "broken")
    BY <1>1, <2>1, <2>4, EndStep
  <2>5. CASE ~Leave(p, "broken")
    <3>. DEFINE m == [j EXCEPT !.idx = k + 1, !.source = seen[<<"next", k>>]]
    <3>. DEFINE reads == Finished(j.want) /\ seen[<<"policy", k>>] \in Policies
    <3>0. \/ /\ reads /\ PoolHolds(k) /\ seen[<<"next", k>>] \in Policies
             /\ job' = [job EXCEPT ![p].idx = k + 1, ![p].source = seen[<<"next", k>>]]
             /\ UNCHANGED <<lock, verdict>>
          \/ reads /\ ~PoolHolds(k)
          \/ Leave(p, "broken")
      BY <1>4 DEF ResumeCycle
    <3>1. job' = [job EXCEPT ![p] = m] /\ lock' = lock
      BY <2>3, <2>5, <3>0
    <3>2. m.at = "resume" /\ m.phase = "open" /\ m.idx = k + 1 /\ ~m.live
      BY <1>1, <2>1 DEF Jobs
    <3>. HIDE DEF m, reads
    <3>3. Behind(seen, m)
      BY <3>2 DEF Behind, TreeStages
    <3>4. \A i \in 0 .. m.idx - 1 : IsRecorded(seen, i)
      <4>1. \A i \in 0 .. k - 1 : IsRecorded(seen, i)
        BY <1>1 DEF Sound, Where
      <4>. QED
        BY <2>1, <2>2, <3>2, <4>1, CyclesOrder
    <3>5. Where(seen, m)
      BY <3>2, <3>4 DEF Where
    <3>6. Sound(seen, m)
      BY <1>2, <3>2, <3>3, <3>5 DEF Sound
    <3>. QED
      BY <1>1, <2>1, <3>1, <3>6, MoveStep
  <2>. QED
    BY <2>4, <2>5
<1>5. CASE ResumeDone(p)
  <2>. DEFINE m == [j EXCEPT !.live = TRUE, !.at = "loop"]
  <2>1. /\ job' = [job EXCEPT ![p] = m] /\ lock' = lock /\ seen' = seen
        /\ j.idx < j.want => ~IsRecorded(seen, j.idx)
    BY <1>5 DEF ResumeDone, HasRecord, IsRecorded, fsVars
  <2>2. m.at = "loop" /\ m.phase = "open" /\ m.idx = j.idx /\ m.want = j.want
    BY <1>1 DEF Jobs
  <2>3. Behind(seen, m)
    BY <2>2 DEF Behind, TreeStages
  <2>4. j.idx < j.want => \A i \in Cycles : i >= j.idx => ~IsRecorded(seen, i)
    <3>. SUFFICES ASSUME j.idx < j.want, NEW i \in Cycles, i >= j.idx, IsRecorded(seen, i)
                  PROVE  FALSE
      OBVIOUS
    <3>1. i # j.idx
      BY <2>1
    <3>2. j.idx \in 0 .. i - 1
      BY <1>1, <3>1, BoundsAreNat DEF Jobs, Cycles
    <3>. QED
      BY <1>1, <2>1, <3>2 DEF Kept
  <2>5. Where(seen, m)
    BY <1>1, <2>2, <2>4 DEF Sound, Where
  <2>6. Sound(seen, m)
    BY <1>2, <2>2, <2>3, <2>5 DEF Sound
  <2>. QED
    BY <1>1, <2>1, <2>6, MoveStep
<1>6. CASE NextCycle(p)
  <2>. DEFINE m == [j EXCEPT !.at = "clear"]
  <2>1. /\ job' = [job EXCEPT ![p] = m] /\ lock' = lock /\ seen' = seen
        /\ j.at = "loop" /\ j.idx < j.want
    BY <1>6 DEF NextCycle, Goto, fsVars
  <2>2. /\ m.at = "clear" /\ m.phase = "open" /\ m.idx = j.idx /\ m.want = j.want
        /\ m.live = j.live
    BY <1>1 DEF Jobs
  <2>3. Behind(seen, m)
    BY <2>2 DEF Behind, TreeStages
  <2>4. Where(seen, m)
    BY <1>1, <2>1, <2>2 DEF Sound, Where, StartStages
  <2>5. Sound(seen, m)
    BY <1>2, <2>2, <2>3, <2>4 DEF Sound
  <2>. QED
    BY <1>1, <2>1, <2>5, MoveStep
<1>7. CASE Finish(p)
  BY <1>1, <1>7, EndStep DEF Finish, fsVars
<1>8. CASE Clear(p)
  <2>. DEFINE m == [j EXCEPT !.at = "cycle"]
              gs == Without(CycleNames(j.idx))
  <2>1. /\ job' = [job EXCEPT ![p] = m] /\ lock' = lock /\ seen' = gs /\ j.at = "clear"
    BY <1>8 DEF Clear, Goto
  <2>2. /\ m.at = "cycle" /\ m.phase = "open" /\ m.idx = j.idx /\ m.want = j.want
        /\ m.live = j.live
    BY <1>1 DEF Jobs
  <2>3. /\ j.live /\ j.idx \in Cycles /\ j.idx < j.want
        /\ \A i \in Cycles : i >= j.idx => ~IsRecorded(seen, i)
    BY <1>1, <2>1, InHand DEF Sound, CycleStages
  <2>4. ~IsRecorded(seen, j.idx)
    BY <2>3, CyclesOrder
  <2>5. Kept(gs) /\ \A i \in Cycles : IsRecorded(gs, i) <=> IsRecorded(seen, i)
    BY <1>1, <2>3, <2>4, WithoutKept
  <2>6. Behind(gs, m)
    BY <2>2 DEF Behind, TreeStages
  <2>. HIDE DEF gs
  <2>7. Where(gs, m)
    <3>1. \A i \in 0 .. j.idx - 1 : i \in Cycles
      BY <2>3, CyclesOrder
    <3>2. \A i \in 0 .. j.idx - 1 : IsRecorded(seen, i)
      BY <1>1 DEF Sound, Where
    <3>3. \A i \in 0 .. j.idx - 1 : IsRecorded(gs, i)
      BY <2>5, <3>1, <3>2
    <3>. QED
      BY <2>2, <2>3, <2>5, <3>3 DEF Where
  <2>8. Sound(seen', m) /\ Kept(seen')
    BY <1>2, <2>1, <2>2, <2>5, <2>6, <2>7 DEF Sound
  <2>9. lock' = p /\ \A q \in Procs \ {p} : job[q].at = "idle"
    BY <1>1, <2>1, Alone DEF RecordInv
  <2>. QED
    BY <2>1, <2>8, <2>9, SessionStep DEF RecordInv
<1>9. CASE Rollout(p)
  <2>1. PICK t \in Trees : job' = [job EXCEPT ![p].tree = t, ![p].at = "tree"]
    BY <1>9 DEF Rollout
  <2>. DEFINE m == [j EXCEPT !.tree = t, !.at = "tree"]
  <2>2. job' = [job EXCEPT ![p] = m] /\ lock' = lock /\ seen' = seen /\ j.at = "rollout"
    BY <1>9, <2>1 DEF Rollout, fsVars
  <2>3. /\ m.at = "tree" /\ m.phase = "open" /\ m.idx = j.idx /\ m.want = j.want
        /\ m.live = j.live /\ m.source = j.source
    BY <1>1 DEF Jobs
  <2>4. Behind(seen, m)
    BY <1>1, <2>2, <2>3 DEF Sound, Behind, TreeStages
  <2>5. Where(seen, m)
    BY <1>1, <2>2, <2>3 DEF Sound, Where, StartStages
  <2>6. Sound(seen, m)
    BY <1>2, <2>3, <2>4, <2>5 DEF Sound
  <2>. QED
    BY <1>1, <2>2, <2>6, MoveStep
<1>10. CASE Dream(p)
  <2>1. CASE \A k \in Replayed(j) : PoolHolds(k)
    <3>1. PICK q \in Policies : job' = [job EXCEPT ![p].next = q, ![p].at = "next"]
      BY <1>10, <2>1 DEF Dream
    <3>. DEFINE m == [j EXCEPT !.next = q, !.at = "next"]
    <3>2. job' = [job EXCEPT ![p] = m] /\ lock' = lock /\ seen' = seen /\ j.at = "dream"
      BY <1>10, <2>1, <3>1 DEF Dream, fsVars
    <3>3. /\ m.at = "next" /\ m.phase = "open" /\ m.idx = j.idx /\ m.want = j.want
          /\ m.live = j.live /\ m.source = j.source /\ m.tree = j.tree
      BY <1>1 DEF Jobs
    <3>4. Behind(seen, m)
      BY <1>1, <3>2, <3>3 DEF Sound, Behind, TreeStages
    <3>5. Where(seen, m)
      BY <1>1, <3>2, <3>3 DEF Sound, Where, StartStages
    <3>6. Sound(seen, m)
      BY <1>2, <3>3, <3>4, <3>5 DEF Sound
    <3>. QED
      BY <1>1, <3>2, <3>6, MoveStep
  <2>2. CASE ~\A k \in Replayed(j) : PoolHolds(k)
    BY <1>1, <1>10, <2>2, EndStep DEF Dream, fsVars
  <2>. QED
    BY <2>1, <2>2
<1>. QED
  BY <1>3, <1>4, <1>5, <1>6, <1>7, <1>8, <1>9, <1>10

\* A session that begins finds the records as they were left.
LEMMA BeginStep ==
  ASSUME TypeInv, RecordInv, NEW p \in Procs, NEW policy \in Policies,
         NEW want \in 1 .. MaxCycles, Begin(p, policy, want)
  PROVE  RecordInv'
<1>. DEFINE m == [Idle EXCEPT !.at = "cycles", !.policy = policy, !.want = want,
                              !.source = policy]
<1>1. /\ job' = [job EXCEPT ![p] = m] /\ lock = Nobody /\ lock' = p
      /\ seen' = [seen EXCEPT ![Root] = Some]
  BY DEF Begin
<1>2. m.at = "cycles" /\ m.phase = "open" /\ m.idx = 0 /\ ~m.live
  BY DEF Idle
<1>. HIDE DEF m
<1>3. Sound(seen', m)
  BY <1>2 DEF Sound, PhaseAt, Written, Behind, Where, OtherStages, WriteStages, DirStages,
              StagedKinds, TreeStages, StartStages
<1>4. \A n \in Names \ {Root} : seen'[n] = seen[n]
  BY <1>1 DEF TypeInv, TypeOK, FileMap
<1>5. /\ <<"pool", 0>> \in Names \ {Root}
      /\ \A k \in Cycles, kind \in VouchKinds : <<kind, k>> \in Names \ {Root}
  BY DEF Names, RunKinds, VouchKinds, FileKinds, PoolKinds, Root
<1>6. Kept(seen')
  <2>1. \A k \in Cycles : IsRecorded(seen', k) => IsRecorded(seen, k)
    BY <1>4, <1>5 DEF IsRecorded, VouchKinds
  <2>. QED
    BY <1>4, <1>5, <2>1, KeptSame DEF RecordInv
<1>7. \A q \in Procs \ {p} : job[q].at = "idle"
  BY <1>1, Alone DEF RecordInv
<1>. QED
  BY <1>1, <1>3, <1>6, <1>7, SessionStep DEF RecordInv

LEMMA RecordStep ==
  ASSUME Spared, TypeInv, RecordInv, [Next]_vars
  PROVE  RecordInv'
<1>1. ASSUME NEW p \in Procs, NEW policy \in Policies, NEW want \in 1 .. MaxCycles,
             Begin(p, policy, want)
      PROVE  RecordInv'
  BY <1>1, BeginStep
<1>2. ASSUME NEW p \in Procs, Step(p)
      PROVE  RecordInv'
  BY <1>2, PublishStep, DecideStep DEF Step
<1>3. ASSUME NEW p \in Procs, Stop(p)
      PROVE  RecordInv'
  <2>1. job[p].at # "idle" /\ Leave(p, "stopped")
    BY <1>3 DEF Stop
  <2>2. CASE job[p].at = "clear"
    <3>1. PICK gone \in SUBSET CycleNames(job[p].idx) : seen' = Without(gone)
      BY <1>3, <2>2 DEF Stop
    <3>2. /\ job[p].idx \in Cycles
          /\ \A i \in Cycles : i >= job[p].idx => ~IsRecorded(seen, i)
      BY <2>2, InHand DEF RecordInv, Sound, TypeInv, CycleStages
    <3>3. ~IsRecorded(seen, job[p].idx)
      BY <3>2, CyclesOrder
    <3>4. Kept(seen')
      BY <3>1, <3>2, <3>3, WithoutKept DEF RecordInv
    <3>. QED
      BY <2>1, <3>4, LeaveStep DEF RecordInv
  <2>3. CASE job[p].at # "clear"
    BY <1>3, <2>1, <2>3, EndStep DEF Stop
  <2>. QED
    BY <2>2, <2>3
<1>4. CASE UNCHANGED <<seen, lock, job>>
  BY <1>4 DEF RecordInv, OneSession
<1>5. ASSUME NEW n \in Names, Writeback(n)
      PROVE  RecordInv'
  BY <1>4, <1>5 DEF Writeback
<1>6. ~PowerLoss
  BY DEF PowerLoss, Spared, NoPower, TypeInv, TypeOK
<1>7. ASSUME NEW kind \in Published, NEW k \in Cycles, NEW left \in {Absent, Torn}
      PROVE  ~LoseFile(kind, k, left)
  BY DEF LoseFile, Spared, TypeInv, TypeOK
<1>8. CASE UNCHANGED vars
  BY <1>4, <1>8 DEF vars
<1>. QED
  BY <1>1, <1>2, <1>3, <1>5, <1>6, <1>7, <1>8 DEF Next, Environment

LEMMA RecordInit == Init => RecordInv
<1>. SUFFICES ASSUME Init PROVE RecordInv
  OBVIOUS
<1>1. OneSession /\ \A p \in Procs : Sound(seen, job[p])
  BY IdleSound DEF Init, OneSession, Idle
<1>2. \A k \in Cycles : ~IsRecorded(seen, k)
  BY DEF Init, IsRecorded, Names, FileKinds, Root
<1>. QED
  BY <1>1, <1>2 DEF RecordInv, Kept

\* A file once lost stays counted.
LEMMA LostStays ==
  ASSUME TypeInv, [Next]_vars, spent'.lost = 0
  PROVE  spent.lost = 0
<1>1. spent.lost \in Nat /\ DOMAIN spent = {"starts", "stops", "power", "lost"}
  BY BoundsAreNat DEF TypeInv, TypeOK
<1>2. CASE UNCHANGED spent
  BY <1>2
<1>3. ASSUME NEW p \in Procs, NEW policy \in Policies, NEW want \in 1 .. MaxCycles,
             Begin(p, policy, want)
      PROVE  spent.lost = 0
  BY <1>1, <1>3 DEF Begin
<1>4. ASSUME NEW p \in Procs, Stop(p) PROVE spent.lost = 0
  BY <1>1, <1>4 DEF Stop
<1>5. CASE PowerLoss
  BY <1>1, <1>5 DEF PowerLoss
<1>6. ASSUME NEW kind \in Published, NEW k \in Cycles, NEW left \in {Absent, Torn},
             LoseFile(kind, k, left)
      PROVE  spent.lost = 0
  BY <1>1, <1>6 DEF LoseFile
<1>. QED
  BY <1>2, <1>3, <1>4, <1>5, <1>6
  DEF Next, Environment, Step, Writeback, MakeDirectory, SyncParents, OpenFile, FlushFile,
      SyncName, Rename, SyncRename, CheckManifest, ResumeCycle, ResumeDone, NextCycle, Finish,
      Clear, Rollout, Dream, vars

\* The inductive invariant holds in every reachable state, until a file is lost.
LEMMA UntilLost == NoPower /\ Spec => [](TypeInv /\ (spent.lost = 0 => RecordInv))
<1>1. Init => TypeInv /\ (spent.lost = 0 => RecordInv)
  BY TypeInit, RecordInit
<1>2. NoPower /\ TypeInv /\ (spent.lost = 0 => RecordInv) /\ [Next]_vars
        => (TypeInv /\ (spent.lost = 0 => RecordInv))'
  BY TypeStep, RecordStep, LostStays DEF Spared
<1>3. NoPower => NoPower'
  BY DEF NoPower
<1>. QED
  BY <1>1, <1>2, <1>3, PTL DEF Spec

LEMMA Invariant == NoLosses /\ Spec => [](TypeInv /\ RecordInv)
<1>1. NoLosses /\ TypeInv => spent.lost = 0
  BY DEF NoLosses, TypeInv, TypeOK
<1>2. NoLosses => NoLosses' /\ NoPower
  BY DEF NoLosses, NoPower
<1>. QED
  BY <1>1, <1>2, UntilLost, PTL

-----------------------------------------------------------------------------
(* The theorems.                                                             *)

\* Wherever a session is and wherever one was killed, a record that can be seen is whole and
\* what it reports is there (run.py _cycle, _write_record).
THEOREM RecordsVouch == NoLosses /\ Spec => []RecordVouches
<1>1. RecordInv => RecordVouches
  BY DEF RecordInv, Kept, IsRecorded, HasRecord, RecordVouches
<1>. QED
  BY <1>1, Invariant, PTL

-----------------------------------------------------------------------------
(* The history: the inductive invariant, on top of RecordInv.                *)

\* What cycle k is to deploy: what the manifest names, or what the cycle before it selected.
Selected(fs, k) == IF k = 0 THEN fs[Manifest] ELSE fs[<<"next", k - 1>>]

\* Every recorded cycle deployed it.
Chained(fs) == \A k \in Cycles : IsRecorded(fs, k) => fs[<<"policy", k>>] = Selected(fs, k)

\* Worlds are renamed into the pool whole.
PoolWhole(fs) == \A k \in Cycles : fs[<<"world", k>>] # Torn

\* A session deploys what it was given until it knows the manifest names the same, and
\* from then on what the history has its cycle deploy; it rewrites the manifest of no history.
Deploys(fs, j) ==
  /\ j.at \in StartStages => j.source = j.policy
  /\ j.at = "manifest" => ~IsRecorded(fs, 0)
  /\ j.at = "session" => fs[Manifest] = j.policy
  /\ j.at \notin {"idle"} \cup StartStages => j.source = Selected(fs, j.idx)

\* The cycles acknowledged are the first n, they have records, and a session past its
\* start has walked or recorded those before its own.
Acknowledged(n) ==
  /\ acked = 0 .. n - 1
  /\ \A k \in acked : IsRecorded(seen, k)
  /\ \A p \in Procs : job[p].at \notin {"idle"} \cup StartStages => job[p].idx <= n

HistoryInv ==
  /\ Chained(seen) /\ PoolWhole(seen)
  /\ \A p \in Procs : Deploys(seen, job[p])
  /\ \E n \in 0 .. MaxCycles : Acknowledged(n)
  /\ verdict # "broken"

-----------------------------------------------------------------------------
(* What a step may change of the files.                                      *)

\* One session's step on the files: a system call of the stage it is at, on that stage's
\* names, or the removal of its cycle.
Touches(j, n, bytes) ==
  \/ j.at = "clear" /\ n \in CycleNames(j.idx) /\ bytes = Absent
  \/ /\ j.at \in WriteStages \cup DirStages /\ j.phase # "sync"
     /\ n \in {Kind(j), Slot(j)}
     /\ n = Kind(j) /\ j.at \in StagedKinds => j.phase = "rename" /\ bytes = Data(j)

LEMMA Touched ==
  ASSUME Spared, TypeInv, RecordInv, [Next]_vars, NEW n \in Names \ {Root}, seen'[n] # seen[n]
  PROVE  \E p \in Procs : Touches(job[p], n, seen'[n])
<1>1. DOMAIN seen = Names
  BY DEF TypeInv, TypeOK, FileMap
<1>2. ASSUME NEW p \in Procs, MakeDirectory(p) \/ OpenFile(p) \/ FlushFile(p)
      PROVE  Touches(job[p], n, seen'[n])
  <2>. DEFINE j == job[p]
  <2>1. /\ j.at \in WriteStages \cup DirStages /\ j.phase \in {"open", "flush"}
        /\ n \in {Kind(j), Slot(j)} /\ (j.at \in StagedKinds => n = Slot(j))
    BY <1>1, <1>2 DEF MakeDirectory, OpenFile, FlushFile, StagedKinds, DirStages
  <2>2. JobOK(j)
    BY DEF TypeInv
  <2>3. n = Kind(j) => j.at \notin StagedKinds
    BY <2>1, <2>2, Places DEF StagedKinds
  <2>. QED
    BY <2>1, <2>3 DEF Touches
<1>3. ASSUME NEW p \in Procs, Rename(p)
      PROVE  Touches(job[p], n, seen'[n])
  <2>. DEFINE j == job[p]
  <2>1. /\ j.at \in StagedKinds /\ j.phase = "rename" /\ j.at \in WriteStages
        /\ seen' = [seen EXCEPT ![Kind(j)] = seen[Slot(j)], ![Slot(j)] = Absent]
    BY <1>3 DEF Rename, StagedKinds, WriteStages
  <2>2. JobOK(j) /\ Sound(seen, j)
    BY DEF TypeInv, RecordInv
  <2>3. seen[Slot(j)] = Data(j)
    BY <2>1, <2>2 DEF Sound, Written
  <2>4. Kind(j) # Slot(j)
    BY <2>1, <2>2, Places DEF StagedKinds
  <2>5. n \in {Kind(j), Slot(j)}
    BY <1>1, <2>1
  <2>6. n = Kind(j) => seen'[n] = Data(j)
    BY <1>1, <2>1, <2>3, <2>4
  <2>. QED
    BY <2>1, <2>5, <2>6 DEF Touches
<1>4. ASSUME NEW p \in Procs, Clear(p) \/ Stop(p)
      PROVE  Touches(job[p], n, seen'[n])
  <2>1. /\ job[p].at = "clear"
        /\ \E gone \in SUBSET CycleNames(job[p].idx) : seen' = Without(gone)
    BY <1>4 DEF Clear, Stop
  <2>2. PICK gone \in SUBSET CycleNames(job[p].idx) : seen' = Without(gone)
    BY <2>1
  <2>3. n \in gone /\ seen'[n] = Absent
    BY <1>1, <2>2 DEF Without
  <2>. QED
    BY <2>1, <2>3 DEF Touches
<1>5. ASSUME NEW p \in Procs, NEW policy \in Policies, NEW want \in 1 .. MaxCycles,
             Begin(p, policy, want)
      PROVE  FALSE
  BY <1>1, <1>5 DEF Begin
<1>6. ~PowerLoss
  BY DEF PowerLoss, Spared, NoPower, TypeInv, TypeOK
<1>7. ASSUME NEW kind \in Published, NEW k \in Cycles, NEW left \in {Absent, Torn}
      PROVE  ~LoseFile(kind, k, left)
  BY DEF LoseFile, Spared, TypeInv, TypeOK
<1>8. ASSUME NEW m \in Names, Writeback(m)
      PROVE  FALSE
  BY <1>8 DEF Writeback
<1>9. ASSUME NEW p \in Procs, Step(p)
      PROVE  Touches(job[p], n, seen'[n])
  BY <1>2, <1>3, <1>4, <1>9
  DEF Step, SyncParents, SyncName, SyncRename, CheckManifest, ResumeCycle, ResumeDone, NextCycle,
      Finish, Rollout, Dream, fsVars
<1>. QED
  BY <1>4, <1>5, <1>6, <1>7, <1>8, <1>9 DEF Next, Environment, vars

\* No step changes a file of a recorded cycle's directory.
LEMMA RecordedStays ==
  ASSUME Spared, TypeInv, RecordInv, [Next]_vars, NEW k \in Cycles, IsRecorded(seen, k),
         NEW kind \in FileKinds
  PROVE  seen'[<<kind, k>>] = seen[<<kind, k>>]
<1>. DEFINE n == <<kind, k>>
<1>. SUFFICES ASSUME seen'[n] # seen[n] PROVE FALSE
  OBVIOUS
<1>1. n \in Names \ {Root}
  BY DEF Names, FileKinds, Root
<1>2. PICK p \in Procs : Touches(job[p], n, seen'[n])
  BY <1>1, Touched
<1>. DEFINE j == job[p]
<1>3. JobOK(j) /\ Where(seen, j)
  BY DEF TypeInv, RecordInv, Sound
<1>4. ASSUME j.at \in CycleStages \ {"pool"}, k >= j.idx
      PROVE  k = j.idx /\ j.at = "record" /\ j.phase = "sync"
  <2>1. /\ j.idx \in Cycles
        /\ \A i \in Cycles : i >= j.idx /\ IsRecorded(seen, i) =>
                               i = j.idx /\ j.at = "record" /\ j.phase = "sync"
    BY <1>3, <1>4, InHand
  <2>. QED
    BY <1>4, <2>1
<1>5. CASE j.at = "clear" /\ n \in CycleNames(j.idx)
  <2>1. k = j.idx
    BY <1>5 DEF CycleNames, Entries, Parent, FileKinds, PoolKinds, RunKinds
  <2>. QED
    BY <1>4, <1>5, <2>1, CyclesOrder DEF CycleStages
<1>6. CASE j.at \in WriteStages \cup DirStages /\ j.phase # "sync" /\ n \in {Kind(j), Slot(j)}
  <2>1. n = Kind(j) => j.at = kind
    BY <1>3, <1>6, Places
  <2>2. n = Slot(j) => j.at = kind \/ (kind = "record.tmp" /\ j.at = "record")
    <3>1. CASE j.at \notin StagedKinds
      BY <1>3, <1>6, <2>1, <3>1, Places
    <3>2. CASE j.at \in StagedKinds
      <4>1. Slot(j)[1] = Staging[j.at]
        BY <3>2 DEF Slot
      <4>2. \/ j.at = "session" /\ Slot(j)[1] = "session.tmp"
            \/ j.at = "world" /\ Slot(j)[1] = "world.tmp"
            \/ j.at = "record" /\ Slot(j)[1] = "record.tmp"
        BY <3>2, <4>1 DEF Staging, StagedKinds
      <4>. QED
        BY <4>2 DEF FileKinds
    <3>. QED
      BY <3>1, <3>2
  <2>3. j.at \in CycleStages \ {"pool"} /\ k = j.idx
    <3>1. j.at \in CycleStages \ {"pool"}
      BY <1>6, <2>1, <2>2 DEF FileKinds, CycleStages, WriteStages, DirStages
    <3>2. Kind(j) = <<j.at, j.idx>> /\ (Slot(j) = Kind(j) \/ Slot(j) = <<Slot(j)[1], Kind(j)[2]>>)
      BY <1>3, <1>6, <3>1, Places
    <3>3. Kind(j)[2] = j.idx /\ Slot(j)[2] = j.idx /\ n[2] = k
      BY <3>2
    <3>. QED
      BY <1>6, <3>1, <3>3
  <2>. QED
    BY <1>4, <1>6, <2>3, CyclesOrder
<1>. QED
  BY <1>2, <1>5, <1>6 DEF Touches

\* Only a session at that stage writes the manifest, which it does while there is no history.
LEMMA ManifestStays ==
  ASSUME Spared, TypeInv, RecordInv, [Next]_vars, seen'[Manifest] # seen[Manifest]
  PROVE  \E p \in Procs : job[p].at = "manifest"
<1>1. Manifest \in Names \ {Root} /\ Manifest = <<"manifest", 0>>
  BY DEF Manifest, Names, RunKinds, Root
<1>2. PICK p \in Procs : Touches(job[p], Manifest, seen'[Manifest])
  BY <1>1, Touched
<1>. DEFINE j == job[p]
<1>3. JobOK(j)
  BY DEF TypeInv
<1>4. Manifest \notin CycleNames(j.idx)
  <2>1. Parent(Manifest) = Root
    BY <1>1 DEF Parent, FileKinds, PoolKinds, RunKinds
  <2>2. <<"cycle", j.idx>> # Manifest /\ <<"cycle", j.idx>> # Root
    BY <1>1 DEF Root
  <2>. QED
    BY <2>1, <2>2 DEF CycleNames, Entries
<1>5. j.at \in WriteStages \cup DirStages /\ Manifest \in {Kind(j), Slot(j)}
  BY <1>2, <1>4 DEF Touches
<1>6. Manifest = Kind(j) => j.at = "manifest"
  BY <1>1, <1>3, <1>5, Places
<1>7. Manifest = Slot(j) => Manifest = Kind(j)
  BY <1>1, <1>3, <1>5, Places
<1>. QED
  BY <1>5, <1>6, <1>7

\* What a cycle is to deploy is settled once the cycle before it is recorded.
LEMMA SelectedStays ==
  ASSUME Spared, TypeInv, RecordInv, [Next]_vars, NEW k \in 0 .. MaxCycles,
         k = 0 => \A p \in Procs : job[p].at # "manifest",
         k > 0 => IsRecorded(seen, k - 1)
  PROVE  Selected(seen', k) = Selected(seen, k)
<1>1. CASE k = 0
  BY <1>1, ManifestStays DEF Selected
<1>2. CASE k > 0
  <2>1. k - 1 \in Cycles /\ "next" \in FileKinds
    BY <1>2, BoundsAreNat DEF Cycles, FileKinds
  <2>2. seen'[<<"next", k - 1>>] = seen[<<"next", k - 1>>]
    BY <1>2, <2>1, RecordedStays
  <2>. QED
    BY <1>2, <2>2 DEF Selected
<1>. QED
  BY <1>1, <1>2, BoundsAreNat

\* The one session there is.
LEMMA Only ==
  ASSUME OneSession, NEW p \in Procs, NEW q \in Procs, job[p].at # "idle", job[q].at # "idle"
  PROVE  p = q
BY DEF OneSession

\* A record comes to be seen by the rename of the session that has the cycle in hand.
LEMMA NewlyRecorded ==
  ASSUME Spared, TypeInv, RecordInv, [Next]_vars, NEW k \in Cycles,
         ~IsRecorded(seen, k), IsRecorded(seen', k)
  PROVE  \E p \in Procs : job[p].at = "record" /\ job[p].phase # "sync" /\ job[p].idx = k
<1>. DEFINE n == <<"record", k>>
<1>1. n \in Names \ {Root} /\ seen[n] = Absent /\ seen'[n] # Absent
  BY DEF Names, FileKinds, Root, IsRecorded
<1>2. PICK p \in Procs : Touches(job[p], n, seen'[n])
  BY <1>1, Touched
<1>. DEFINE j == job[p]
<1>3. JobOK(j)
  BY DEF TypeInv
<1>4. /\ j.at \in WriteStages \cup DirStages /\ j.phase # "sync"
      /\ n = Kind(j) \/ n = Slot(j)
  BY <1>1, <1>2 DEF Touches
<1>5. n = Slot(j) => n = Kind(j)
  BY <1>3, <1>4, Places
<1>6. j.at = "record"
  BY <1>3, <1>4, <1>5, Places
<1>7. Kind(j) = <<"record", j.idx>>
  BY <1>3, <1>6, Places DEF CycleStages, WriteStages
<1>. QED
  BY <1>4, <1>5, <1>6, <1>7

-----------------------------------------------------------------------------
(* The history, the pool and the sessions.                                   *)

LEMMA ChainedStep ==
  ASSUME Spared, TypeInv, RecordInv, HistoryInv, [Next]_vars
  PROVE  Chained(seen')
<1>. SUFFICES ASSUME NEW k \in Cycles, IsRecorded(seen', k)
              PROVE  seen'[<<"policy", k>>] = Selected(seen', k)
  BY DEF Chained
<1>1. k \in 0 .. MaxCycles /\ {"policy", "next", "record"} \subseteq FileKinds
  BY BoundsAreNat DEF Cycles, FileKinds
<1>2. CASE IsRecorded(seen, k)
  <2>1. seen'[<<"policy", k>>] = seen[<<"policy", k>>] /\ seen[<<"policy", k>>] = Selected(seen, k)
    BY <1>1, <1>2, RecordedStays DEF HistoryInv, Chained
  <2>2. k = 0 => \A p \in Procs : job[p].at # "manifest"
    BY <1>2 DEF HistoryInv, Deploys
  <2>3. k > 0 => IsRecorded(seen, k - 1)
    BY <1>1, <1>2 DEF RecordInv, Kept
  <2>. QED
    BY <1>1, <2>1, <2>2, <2>3, SelectedStays
<1>3. CASE ~IsRecorded(seen, k)
  <2>1. PICK p \in Procs : job[p].at = "record" /\ job[p].phase # "sync" /\ job[p].idx = k
    BY <1>3, NewlyRecorded
  <2>2. JobOK(job[p]) /\ Sound(seen, job[p]) /\ Deploys(seen, job[p])
    BY DEF TypeInv, RecordInv, HistoryInv
  <2>3. seen[<<"policy", k>>] = Selected(seen, k)
    BY <2>1, <2>2 DEF Sound, Behind, Deploys, TreeStages, StartStages
  <2>4. \A q \in Procs : job[q].at # "idle" => q = p
    BY <2>1, Only DEF RecordInv
  <2>5. seen'[<<"policy", k>>] = seen[<<"policy", k>>]
    <3>. SUFFICES ASSUME seen'[<<"policy", k>>] # seen[<<"policy", k>>] PROVE FALSE
      OBVIOUS
    <3>1. <<"policy", k>> \in Names \ {Root}
      BY DEF Names, FileKinds, Root
    <3>2. PICK q \in Procs : Touches(job[q], <<"policy", k>>, seen'[<<"policy", k>>])
      BY <3>1, Touched
    <3>3. q = p
      BY <2>4, <3>2 DEF Touches, WriteStages, DirStages
    <3>4. <<"policy", k>> \in {Kind(job[p]), Slot(job[p])}
      BY <2>1, <3>2, <3>3 DEF Touches
    <3>5. Kind(job[p])[1] = "record" /\ Slot(job[p])[1] = "record.tmp"
      BY <2>1 DEF Kind, Slot, Staging, StagedKinds
    <3>. QED
      BY <3>4, <3>5
  <2>6. k = 0 => \A q \in Procs : job[q].at # "manifest"
    BY <2>1, <2>4
  <2>7. k > 0 => IsRecorded(seen, k - 1)
    BY <1>1, <2>1, <2>2 DEF Sound, Where
  <2>. QED
    BY <1>1, <2>3, <2>5, <2>6, <2>7, SelectedStays
<1>. QED
  BY <1>2, <1>3

LEMMA PoolWholeStep ==
  ASSUME Spared, TypeInv, RecordInv, HistoryInv, [Next]_vars
  PROVE  PoolWhole(seen')
<1>. SUFFICES ASSUME NEW k \in Cycles, seen'[<<"world", k>>] = Torn PROVE FALSE
  BY DEF PoolWhole
<1>. DEFINE n == <<"world", k>>
<1>1. n \in Names \ {Root} /\ seen'[n] # seen[n]
  BY DEF Names, PoolKinds, Root, HistoryInv, PoolWhole
<1>2. PICK p \in Procs : Touches(job[p], n, seen'[n])
  BY <1>1, Touched
<1>. DEFINE j == job[p]
<1>3. /\ JobOK(j) /\ j.at \in WriteStages \cup DirStages
      /\ n = Kind(j) \/ n = Slot(j)
      /\ n = Kind(j) /\ j.at \in StagedKinds => seen'[n] = Data(j)
  BY <1>2, ConstantsDistinct DEF Touches, TypeInv
<1>4. n = Slot(j) => n = Kind(j)
  BY <1>3, Places
<1>5. j.at = "world"
  BY <1>3, <1>4, Places
<1>6. seen'[n] = j.tree /\ j.tree \in Trees
  BY <1>3, <1>4, <1>5 DEF Data, StagedKinds, JobOK, TreeStages
<1>. QED
  BY <1>6, ConstantsDistinct

\* What a session goes by is as it was when another, or nobody, moves.
LEMMA DeploysStays ==
  ASSUME Spared, TypeInv, RecordInv, HistoryInv, [Next]_vars, NEW p \in Procs
  PROVE  /\ Deploys(seen', job[p])
         /\ job[p].at \notin {"idle"} \cup StartStages =>
              Selected(seen', job[p].idx) = Selected(seen, job[p].idx)
<1>. DEFINE j == job[p]
<1>1. JobOK(j) /\ Where(seen, j) /\ Deploys(seen, j)
  BY DEF TypeInv, RecordInv, Sound, HistoryInv
<1>2. CASE j.at = "idle"
  BY <1>2 DEF Deploys, StartStages
<1>3. CASE j.at # "idle"
  <2>1. \A q \in Procs : job[q].at # "idle" => q = p
    BY <1>3, Only DEF RecordInv
  <2>2. j.at # "manifest" => seen'[Manifest] = seen[Manifest]
    BY <2>1, ManifestStays
  <2>3. j.at = "manifest" => ~IsRecorded(seen', 0)
    <3>1. 0 \in Cycles
      BY BoundsAreNat DEF Cycles
    <3>. QED
      BY <1>1, <2>1, <3>1, NewlyRecorded DEF Deploys
  <2>4. j.at \notin StartStages => Selected(seen', j.idx) = Selected(seen, j.idx)
    <3>1. j.idx \in 0 .. MaxCycles /\ (j.idx > 0 => IsRecorded(seen, j.idx - 1))
      BY <1>1, <1>3, BoundsAreNat DEF JobOK, Jobs, Where
    <3>2. j.at \notin StartStages => \A q \in Procs : job[q].at # "manifest"
      BY <2>1 DEF StartStages
    <3>. QED
      BY <3>1, <3>2, SelectedStays
  <2>. QED
    BY <1>1, <2>2, <2>3, <2>4 DEF Deploys, StartStages
<1>. QED
  BY <1>2, <1>3

\* How a session may go on: it ends, or is at its start; it stays at its cycle; it learns that
\* the manifest names its policy; or it leaves a cycle behind, which is acknowledged.
Turn(j, m) ==
  \/ m.at = "idle"
  \/ m.at \in StartStages /\ Deploys(seen', m)
  \/ {j.at, m.at} \cap ({"idle"} \cup StartStages) = {} /\ m.idx = j.idx /\ m.source = j.source
  \/ m.at \notin {"idle"} \cup StartStages /\ m.idx = 0 /\ m.source = seen'[Manifest]
  \/ /\ j.at \in {"resume", "record"} /\ m.at \notin {"idle"} \cup StartStages
     /\ j.idx \in Cycles /\ m.idx = j.idx + 1 /\ m.source = seen'[<<"next", j.idx>>]
     /\ IsRecorded(seen, j.idx) /\ acked' = acked \cup {j.idx}

\* A session that is done with a stage takes such a turn.
LEMMA AdvancedTurn ==
  ASSUME TypeInv, NEW j, JobOK(j), j.at \in WriteStages \cup DirStages,
         Sound(seen, j), Deploys(seen, j), Deploys(seen', j),
         j.at = "manifest" => seen'[Kind(j)] = Data(j),
         j.at = "record" => j.phase = "sync" /\ Acknowledge(j) /\ seen' = seen
  PROVE  Turn(j, Advanced(j))
<1>. DEFINE a == Advanced(j)
<1>1. /\ a.at = After(j) /\ a.phase = "open"
      /\ a.idx = IF CycleOver(j) THEN j.idx + 1 ELSE j.idx
      /\ a.source = IF CycleOver(j) THEN j.next ELSE j.source
  BY AdvancedFields
<1>2. a.policy = j.policy
  BY DEF JobOK, Jobs, Advanced
<1>. SUFFICES Turn(j, a)
  OBVIOUS
<1>. HIDE DEF a
<1>3. CASE j.at = "cycles"
  <2>1. a.at = "check" /\ a.source = j.source /\ j.source = j.policy
    BY <1>1, <1>3 DEF After, CycleOver, Deploys, StartStages
  <2>. QED
    BY <1>2, <2>1 DEF Turn, Deploys, StartStages
<1>4. CASE j.at = "manifest"
  <2>1. a.at = "session" /\ a.source = j.source /\ j.source = j.policy
    BY <1>1, <1>4 DEF After, CycleOver, Deploys, StartStages
  <2>2. Kind(j) = Manifest /\ Data(j) = j.policy
    BY <1>4 DEF Kind, Data, Manifest
  <2>. QED
    BY <1>2, <1>4, <2>1, <2>2 DEF Turn, Deploys, StartStages
<1>5. CASE j.at = "session"
  <2>1. a.at = "resume" /\ a.source = j.source /\ j.source = j.policy /\ a.idx = 0
    BY <1>1, <1>5 DEF After, CycleOver, Deploys, StartStages, JobOK
  <2>. QED
    BY <1>5, <2>1 DEF Turn, Deploys, StartStages
<1>6. CASE j.at = "record"
  <2>1. a.at = "loop" /\ a.source = j.next /\ a.idx = j.idx + 1 /\ acked' = acked \cup {j.idx}
    BY <1>1, <1>6 DEF After, CycleOver, Acknowledge
  <2>2. j.idx \in Cycles
    BY <1>6, InHand DEF CycleStages, Sound
  <2>3. seen[<<"next", j.idx>>] = j.next
    BY <1>6 DEF Sound, Behind
  <2>4. seen[<<"record", j.idx>>] = Data(j)
    BY <1>6, Places DEF Sound, Written, StagedKinds, CycleStages
  <2>5. Data(j) \in Records
    BY <1>6 DEF Data, JobOK, TreeStages, Records
  <2>6. IsRecorded(seen, j.idx)
    BY <2>4, <2>5, ConstantsDistinct DEF IsRecorded
  <2>. QED
    BY <1>6, <2>1, <2>2, <2>3, <2>6 DEF Turn, StartStages
<1>7. CASE j.at \in (WriteStages \cup DirStages) \ {"cycles", "manifest", "session", "record"}
  <2>1. a.idx = j.idx /\ a.source = j.source
    BY <1>1, <1>7 DEF CycleOver
  <2>2. a.at \notin {"idle"} \cup StartStages
    BY <1>1, <1>7 DEF After, WriteStages, DirStages, StartStages
  <2>3. j.at \notin {"idle"} \cup StartStages
    BY <1>7 DEF WriteStages, DirStages, StartStages
  <2>. QED
    BY <2>1, <2>2, <2>3 DEF Turn
<1>. QED
  BY <1>3, <1>4, <1>5, <1>6, <1>7

\* So does one that goes from one decision to the next, or on with a stage.
LEMMA SameTurn ==
  ASSUME NEW j, NEW m, Deploys(seen', j),
         m.at = j.at, m.idx = j.idx, m.source = j.source, m.policy = j.policy
  PROVE  Turn(j, m)
<1>1. CASE j.at \in StartStages
  BY <1>1 DEF Turn, Deploys
<1>2. CASE j.at \notin StartStages
  BY <1>2 DEF Turn
<1>. QED
  BY <1>1, <1>2

LEMMA Turns ==
  ASSUME Spared, TypeInv, RecordInv, HistoryInv, [Next]_vars, NEW p \in Procs
  PROVE  Turn(job[p], job'[p])
<1>. DEFINE j == job[p]
<1>1. /\ JobOK(j) /\ j \in Jobs /\ Sound(seen, j) /\ Kept(seen)
      /\ Deploys(seen, j) /\ Deploys(seen', j) /\ DOMAIN job = Procs
  BY DeploysStays DEF TypeInv, TypeOK, RecordInv, HistoryInv, JobOK
<1>2. CASE job'[p] = j
  BY <1>1, <1>2, SameTurn
<1>3. ASSUME NEW how, Leave(p, how)
      PROVE  Turn(j, job'[p])
  BY <1>1, <1>3 DEF Leave, Idle, Turn
<1>4. ASSUME NEW phase, job' = [job EXCEPT ![p].phase = phase]
      PROVE  Turn(j, job'[p])
  <2>1. job'[p] = [j EXCEPT !.phase = phase]
    BY <1>1, <1>4
  <2>. QED
    BY <1>1, <2>1, SameTurn DEF Jobs
<1>5. CASE MakeDirectory(p) \/ SyncParents(p)
  <2>1. CASE job' = [job EXCEPT ![p].phase = "sync"]
    BY <1>4, <2>1
  <2>2. CASE job' = [job EXCEPT ![p] = Advanced(j)]
    <3>1. j.at \in DirStages /\ job'[p] = Advanced(j)
      BY <1>1, <1>5, <2>2 DEF MakeDirectory, SyncParents
    <3>. QED
      BY <1>1, <3>1, AdvancedTurn DEF DirStages
  <2>. QED
    BY <1>5, <2>1, <2>2 DEF MakeDirectory, SyncParents
<1>6. CASE OpenFile(p) \/ FlushFile(p) \/ Rename(p)
  BY <1>4, <1>6 DEF OpenFile, FlushFile, Rename
<1>7. CASE SyncName(p)
  <2>1. j.at \in WriteStages /\ j.phase = "name" /\ seen' = seen
    BY <1>7 DEF SyncName
  <2>2. CASE j.at \in StagedKinds
    <3>1. job'[p] = [j EXCEPT !.phase = "rename"]
      BY <1>1, <1>7, <2>2 DEF SyncName
    <3>. QED
      BY <1>1, <3>1, SameTurn DEF Jobs
  <2>3. CASE j.at \notin StagedKinds
    <3>1. job'[p] = Advanced(j)
      BY <1>1, <1>7, <2>3 DEF SyncName
    <3>2. seen[Kind(j)] = Data(j)
      BY <1>1, <2>1, <2>3, Places DEF Sound, Written
    <3>. QED
      BY <1>1, <2>1, <2>3, <3>1, <3>2, AdvancedTurn DEF StagedKinds
  <2>. QED
    BY <2>2, <2>3
<1>8. CASE SyncRename(p)
  <2>1. /\ j.at \in StagedKinds /\ j.at \in WriteStages /\ j.phase = "sync" /\ seen' = seen
        /\ Acknowledge(j) /\ job'[p] = Advanced(j)
    BY <1>1, <1>8 DEF SyncRename, StagedKinds, WriteStages
  <2>. QED
    BY <1>1, <2>1, AdvancedTurn DEF StagedKinds
<1>9. CASE CheckManifest(p)
  <2>1. ASSUME NEW stage \in {"manifest", "session"}, Goto(p, stage),
               stage = "manifest" => ~HasRecord(0),
               stage = "session" => seen[Manifest] = j.policy
        PROVE  Turn(j, job'[p])
    <3>1. job'[p] = [j EXCEPT !.at = stage] /\ seen' = seen /\ j.source = j.policy
      BY <1>1, <1>9, <2>1 DEF Goto, CheckManifest, fsVars, Deploys, StartStages
    <3>2. /\ job'[p].at = stage /\ job'[p].policy = j.policy /\ job'[p].source = j.source
          /\ stage \in StartStages
      BY <1>1, <3>1 DEF Jobs, StartStages
    <3>3. Deploys(seen', job'[p])
      BY <2>1, <3>1, <3>2 DEF Deploys, HasRecord, IsRecorded, StartStages
    <3>. QED
      BY <3>2, <3>3 DEF Turn
  <2>. QED
    BY <1>3, <1>9, <2>1 DEF CheckManifest
<1>10. CASE ResumeCycle(p)
  <2>. DEFINE k == j.idx
  <2>1. j.at = "resume" /\ k < j.want /\ IsRecorded(seen, k) /\ seen' = seen
    BY <1>10 DEF ResumeCycle, HasRecord, IsRecorded, fsVars
  <2>2. k \in Cycles
    BY <1>1, <2>1, BoundsAreNat DEF JobOK, Jobs, Cycles
  <2>3. CASE /\ job' = [job EXCEPT ![p].idx = k + 1, ![p].source = seen[<<"next", k>>]]
             /\ acked' = acked \cup {k}
    <3>1. job'[p] = [j EXCEPT !.idx = k + 1, !.source = seen[<<"next", k>>]]
      BY <1>1, <2>3
    <3>2. /\ job'[p].at = "resume" /\ job'[p].idx = k + 1
          /\ job'[p].source = seen[<<"next", k>>]
      BY <1>1, <2>1, <3>1 DEF Jobs
    <3>. QED
      BY <2>1, <2>2, <2>3, <3>2 DEF Turn, StartStages
  <2>4. CASE job' = [job EXCEPT ![p].at = "pool", ![p].tree = seen[<<"tree", k>>]]
    <3>1. job'[p] = [j EXCEPT !.at = "pool", !.tree = seen[<<"tree", k>>]]
      BY <1>1, <2>4
    <3>2. job'[p].at = "pool" /\ job'[p].idx = k /\ job'[p].source = j.source
      BY <1>1, <3>1 DEF Jobs
    <3>. QED
      BY <2>1, <3>2 DEF Turn, StartStages
  <2>5. CASE Leave(p, "broken")
    BY <1>3, <2>5
  <2>. QED
    BY <1>10, <2>3, <2>4, <2>5 DEF ResumeCycle
<1>11. CASE ResumeDone(p) \/ NextCycle(p) \/ Clear(p) \/ Rollout(p)
  <2>1. /\ j.at \in {"resume", "loop", "clear", "rollout"}
        /\ \E at \in {"loop", "clear", "cycle", "tree"}, live \in BOOLEAN, t \in Trees \cup {Absent} :
             job'[p] = [j EXCEPT !.at = at, !.live = live, !.tree = t]
    <3>1. CASE ResumeDone(p)
      <4>1. job'[p] = [j EXCEPT !.live = TRUE, !.at = "loop"]
        BY <1>1, <3>1 DEF ResumeDone
      <4>2. job'[p] = [j EXCEPT !.at = "loop", !.live = TRUE, !.tree = j.tree]
        BY <1>1, <4>1 DEF Jobs
      <4>. QED
        BY <1>1, <3>1, <4>2 DEF ResumeDone, Jobs
    <3>2. CASE NextCycle(p) \/ Clear(p)
      <4>1. PICK at \in {"clear", "cycle"} : job' = [job EXCEPT ![p].at = at]
        BY <3>2 DEF NextCycle, Clear, Goto
      <4>2. job'[p] = [j EXCEPT !.at = at]
        BY <1>1, <4>1
      <4>3. job'[p] = [j EXCEPT !.at = at, !.live = j.live, !.tree = j.tree]
        BY <1>1, <4>2 DEF Jobs
      <4>4. j.live \in BOOLEAN /\ j.tree \in Trees \cup {Absent}
        BY <1>1 DEF Jobs
      <4>. QED
        BY <1>1, <3>2, <4>4, <4>3 DEF NextCycle, Clear
    <3>3. CASE Rollout(p)
      <4>1. PICK t \in Trees : job'[p] = [j EXCEPT !.tree = t, !.at = "tree"]
        BY <1>1, <3>3 DEF Rollout
      <4>2. job'[p] = [j EXCEPT !.at = "tree", !.live = j.live, !.tree = t]
        BY <1>1, <4>1 DEF Jobs
      <4>. QED
        BY <1>1, <3>3, <4>2 DEF Rollout, Jobs
    <3>. QED
      BY <1>11, <3>1, <3>2, <3>3
  <2>. QED
    BY <1>1, <2>1 DEF Turn, Jobs, StartStages
<1>12. CASE Finish(p)
  BY <1>3, <1>12 DEF Finish
<1>13. CASE Dream(p)
  <2>1. CASE \E q \in Policies : job' = [job EXCEPT ![p].next = q, ![p].at = "next"]
    <3>1. PICK q \in Policies : job'[p] = [j EXCEPT !.next = q, !.at = "next"]
      BY <1>1, <2>1
    <3>2. job'[p].at = "next" /\ job'[p].idx = j.idx /\ job'[p].source = j.source
      BY <1>1, <3>1 DEF Jobs
    <3>. QED
      BY <1>13, <3>2 DEF Dream, Turn, StartStages
  <2>2. CASE Leave(p, "broken")
    BY <1>3, <2>2
  <2>. QED
    BY <1>13, <2>1, <2>2 DEF Dream
<1>14. ASSUME NEW policy \in Policies, NEW want \in 1 .. MaxCycles, Begin(p, policy, want)
       PROVE  Turn(j, job'[p])
  <2>1. job'[p] = [Idle EXCEPT !.at = "cycles", !.policy = policy, !.want = want,
                               !.source = policy]
    BY <1>1, <1>14 DEF Begin
  <2>2. job'[p].at = "cycles" /\ job'[p].policy = policy /\ job'[p].source = policy
    BY <2>1 DEF Idle
  <2>. QED
    BY <2>2 DEF Turn, Deploys, StartStages
<1>15. CASE Step(p)
  BY <1>5, <1>6, <1>7, <1>8, <1>9, <1>10, <1>11, <1>12, <1>13, <1>15 DEF Step
<1>16. CASE Stop(p)
  BY <1>3, <1>16 DEF Stop
<1>17. ASSUME NEW q \in Procs \ {p}, Step(q) \/ Stop(q)
       PROVE  job'[p] = j
  BY <1>1, <1>17
  DEF Step, Stop, Leave, Goto, MakeDirectory, SyncParents, OpenFile, FlushFile, SyncName, Rename,
      SyncRename, CheckManifest, ResumeCycle, ResumeDone, NextCycle, Finish, Clear, Rollout, Dream
<1>18. ASSUME NEW q \in Procs \ {p}, NEW policy \in Policies, NEW want \in 1 .. MaxCycles,
              Begin(q, policy, want)
       PROVE  job'[p] = j
  BY <1>1, <1>18 DEF Begin
<1>19. ~PowerLoss
  BY DEF PowerLoss, Spared, NoPower, TypeInv, TypeOK
<1>20. ASSUME NEW kind \in Published, NEW k \in Cycles, NEW left \in {Absent, Torn}
       PROVE  ~LoseFile(kind, k, left)
  BY DEF LoseFile, Spared, TypeInv, TypeOK
<1>21. ASSUME NEW n \in Names, Writeback(n)
       PROVE  job'[p] = j
  BY <1>21 DEF Writeback
<1>. QED
  BY <1>2, <1>14, <1>15, <1>16, <1>17, <1>18, <1>19, <1>20, <1>21 DEF Next, Environment, vars

LEMMA DeploysStep ==
  ASSUME Spared, TypeInv, RecordInv, HistoryInv, [Next]_vars, NEW p \in Procs
  PROVE  Deploys(seen', job'[p])
<1>. DEFINE j == job[p]
            m == job'[p]
<1>1. Turn(j, m) /\ Deploys(seen, j)
  BY Turns DEF HistoryInv
<1>2. CASE m.at = "idle"
  BY <1>2 DEF Deploys, StartStages
<1>3. CASE {j.at, m.at} \cap ({"idle"} \cup StartStages) = {} /\ m.idx = j.idx /\ m.source = j.source
  <2>1. j.source = Selected(seen', j.idx)
    BY <1>1, <1>3, DeploysStays DEF Deploys
  <2>. QED
    BY <1>3, <2>1 DEF Deploys, StartStages
<1>4. CASE m.at \notin {"idle"} \cup StartStages /\ m.idx = 0 /\ m.source = seen'[Manifest]
  BY <1>4 DEF Deploys, Selected, StartStages
<1>5. CASE /\ m.at \notin {"idle"} \cup StartStages /\ j.idx \in Cycles
           /\ m.idx = j.idx + 1 /\ m.source = seen'[<<"next", j.idx>>]
  <2>1. m.idx # 0 /\ m.idx - 1 = j.idx
    BY <1>5 DEF Cycles
  <2>. QED
    BY <1>5, <2>1 DEF Deploys, Selected, StartStages
<1>. QED
  BY <1>1, <1>2, <1>3, <1>4, <1>5 DEF Turn

\* A cycle is acknowledged by a session that has read its record or has just published it.
LEMMA Acknowledges ==
  ASSUME Spared, TypeInv, RecordInv, [Next]_vars, acked' # acked
  PROVE  \E p \in Procs : /\ job[p].at \in {"resume", "record"} /\ job[p].idx \in Cycles
                          /\ IsRecorded(seen, job[p].idx) /\ seen' = seen
                          /\ acked' = acked \cup {job[p].idx}
<1>1. ASSUME NEW p \in Procs, SyncRename(p)
      PROVE  /\ job[p].at = "record" /\ job[p].idx \in Cycles
             /\ IsRecorded(seen, job[p].idx) /\ seen' = seen /\ acked' = acked \cup {job[p].idx}
  <2>. DEFINE j == job[p]
  <2>1. JobOK(j) /\ Sound(seen, j)
    BY DEF TypeInv, RecordInv
  <2>2. /\ j.at = "record" /\ j.phase = "sync" /\ seen' = seen
        /\ acked' = acked \cup {j.idx}
    BY <1>1 DEF SyncRename, Acknowledge, CycleOver
  <2>3. j.idx \in Cycles
    BY <2>1, <2>2, InHand DEF CycleStages, Sound
  <2>4. seen[<<"record", j.idx>>] = Data(j)
    BY <2>1, <2>2, Places DEF Sound, Written, StagedKinds, CycleStages, WriteStages
  <2>5. Data(j) \in Records
    BY <2>1, <2>2 DEF Data, JobOK, TreeStages, Records
  <2>. QED
    BY <2>2, <2>3, <2>4, <2>5, ConstantsDistinct DEF IsRecorded
<1>2. ASSUME NEW p \in Procs, ResumeCycle(p)
      PROVE  /\ job[p].at = "resume" /\ job[p].idx \in Cycles
             /\ IsRecorded(seen, job[p].idx) /\ seen' = seen /\ acked' = acked \cup {job[p].idx}
  <2>1. JobOK(job[p])
    BY DEF TypeInv
  <2>2. /\ job[p].at = "resume" /\ job[p].idx < job[p].want /\ HasRecord(job[p].idx)
        /\ seen' = seen /\ acked' = acked \cup {job[p].idx}
    BY <1>2 DEF ResumeCycle, fsVars
  <2>. QED
    BY <2>1, <2>2, BoundsAreNat DEF JobOK, Jobs, Cycles, HasRecord, IsRecorded
<1>3. \E p \in Procs : SyncRename(p) \/ ResumeCycle(p)
  <2>1. ~PowerLoss
    BY DEF PowerLoss, Spared, NoPower, TypeInv, TypeOK
  <2>2. ASSUME NEW kind \in Published, NEW k \in Cycles, NEW left \in {Absent, Torn}
        PROVE  ~LoseFile(kind, k, left)
    BY DEF LoseFile, Spared, TypeInv, TypeOK
  <2>. QED
    BY <2>1, <2>2
    DEF Next, Environment, Step, Begin, Stop, Writeback, MakeDirectory, SyncParents, OpenFile,
        FlushFile, SyncName, Rename, CheckManifest, ResumeDone, NextCycle, Finish, Clear, Rollout,
        Dream, vars
<1>. QED
  BY <1>1, <1>2, <1>3

LEMMA AcknowledgedStep ==
  ASSUME Spared, TypeInv, RecordInv, HistoryInv, [Next]_vars,
         NEW n \in 0 .. MaxCycles, Acknowledged(n)
  PROVE  IF acked' = acked THEN Acknowledged(n)'
                           ELSE n \in Cycles /\ acked' = 0 .. n /\ Acknowledged(n + 1)'
<1>1. /\ acked = 0 .. n - 1 /\ acked \subseteq Cycles
      /\ \A k \in acked : IsRecorded(seen, k)
      /\ \A p \in Procs : job[p].at \notin {"idle"} \cup StartStages => job[p].idx <= n
  BY DEF Acknowledged, TypeInv, TypeOK
<1>2. \A k \in Cycles : IsRecorded(seen, k) => IsRecorded(seen', k)
  <2>1. "record" \in FileKinds
    BY DEF FileKinds
  <2>. QED
    BY <2>1, RecordedStays DEF IsRecorded
<1>3. \A p \in Procs : Turn(job[p], job'[p]) /\ JobOK(job[p])
  BY Turns DEF TypeInv
<1>4. ASSUME NEW p \in Procs, job'[p].at \notin {"idle"} \cup StartStages
      PROVE  /\ job'[p].idx \in Nat
             /\ \/ job'[p].idx <= n
                \/ /\ job[p].idx \in Cycles /\ job[p].idx <= n /\ job'[p].idx = job[p].idx + 1
                   /\ acked' = acked \cup {job[p].idx}
             /\ acked' = acked => job'[p].idx <= n
  <2>. DEFINE j == job[p]
              m == job'[p]
  <2>1. j.idx \in Nat /\ n \in Nat /\ (j.at \notin {"idle"} \cup StartStages => j.idx <= n)
    BY <1>1, <1>3, BoundsAreNat DEF JobOK, Jobs
  <2>2. CASE m.at \in StartStages \cup {"idle"}
    BY <1>4, <2>2
  <2>3. CASE {j.at, m.at} \cap ({"idle"} \cup StartStages) = {} /\ m.idx = j.idx
    BY <2>1, <2>3
  <2>4. CASE m.idx = 0
    BY <2>1, <2>4
  <2>5. CASE /\ j.at \in {"resume", "record"} /\ j.idx \in Cycles /\ m.idx = j.idx + 1
             /\ acked' = acked \cup {j.idx}
    <3>1. j.idx <= n
      BY <2>1, <2>5 DEF StartStages
    <3>2. acked' = acked => j.idx \in 0 .. n - 1
      BY <1>1, <2>5
    <3>. QED
      BY <2>1, <2>5, <3>1, <3>2
  <2>. QED
    BY <1>3, <2>2, <2>3, <2>4, <2>5 DEF Turn
<1>5. CASE acked' = acked
  <2>1. ASSUME NEW p \in Procs, job'[p].at \notin {"idle"} \cup StartStages
        PROVE  job'[p].idx <= n
    BY <1>4, <1>5, <2>1
  <2>. QED
    BY <1>1, <1>2, <1>5, <2>1 DEF Acknowledged
<1>6. CASE acked' # acked
  <2>1. PICK p \in Procs : /\ job[p].at \in {"resume", "record"} /\ job[p].idx \in Cycles
                           /\ IsRecorded(seen, job[p].idx) /\ acked' = acked \cup {job[p].idx}
    BY <1>6, Acknowledges
  <2>2. job[p].idx = n
    BY <1>1, <1>6, <2>1, BoundsAreNat DEF Cycles, StartStages
  <2>3. n \in Cycles /\ acked' = 0 .. n /\ acked' = 0 .. (n + 1) - 1 /\ IsRecorded(seen, n)
    BY <1>1, <2>1, <2>2, BoundsAreNat DEF Cycles
  <2>4. ASSUME NEW q \in Procs, job'[q].at \notin {"idle"} \cup StartStages
        PROVE  job'[q].idx <= n + 1
    BY <1>4, <2>3, <2>4 DEF Cycles
  <2>. QED
    BY <1>1, <1>2, <1>6, <2>1, <2>3, <2>4 DEF Acknowledged
<1>. QED
  BY <1>5, <1>6

\* What a session reads of a recorded cycle, and of its own, is there to be read.
LEMMA ReadsBack ==
  ASSUME TypeInv, RecordInv, NEW k \in Cycles, IsRecorded(seen, k)
  PROVE  /\ seen[<<"policy", k>>] \in Policies /\ seen[<<"next", k>>] \in Policies
         /\ seen[<<"record", k>>] \in Records /\ seen[<<"timing", k>>] = Some
         /\ PoolHolds(k)
BY DEF RecordInv, Kept, Vouched, Records, PoolHolds

LEMMA VerdictStep ==
  ASSUME Spared, TypeInv, RecordInv, HistoryInv, [Next]_vars
  PROVE  verdict' # "broken"
<1>. SUFFICES ASSUME verdict' = "broken", verdict # "broken" PROVE FALSE
  BY DEF HistoryInv
<1>1. ASSUME NEW p \in Procs, CheckManifest(p) PROVE FALSE
  <2>1. HasRecord(0) /\ seen[Manifest] \notin Policies
    BY <1>1 DEF CheckManifest, Leave
  <2>2. 0 \in Cycles
    BY BoundsAreNat DEF Cycles
  <2>3. seen[<<"policy", 0>>] = seen[Manifest] /\ seen[<<"policy", 0>>] \in Policies
    BY <2>1, <2>2, ReadsBack DEF HistoryInv, Chained, Selected, HasRecord, IsRecorded
  <2>. QED
    BY <2>1, <2>3
<1>2. ASSUME NEW p \in Procs, ResumeCycle(p) PROVE FALSE
  <2>. DEFINE j == job[p]
              k == j.idx
  <2>1. k < j.want /\ IsRecorded(seen, k) /\ JobOK(j)
    BY <1>2 DEF ResumeCycle, HasRecord, IsRecorded, TypeInv
  <2>2. k \in Cycles /\ 0 .. j.want - 1 \subseteq Cycles
    BY <2>1, BoundsAreNat DEF JobOK, Jobs, Cycles
  <2>3. Finished(j.want)
    <3>. SUFFICES ASSUME NEW i \in 0 .. j.want - 1, Trusted(i)
                  PROVE  seen[<<"record", i>>] \in Records /\ seen[<<"timing", i>>] # Torn
      BY DEF Finished
    <3>1. i \in Cycles /\ IsRecorded(seen, i)
      BY <2>2 DEF Trusted, HasRecord, IsRecorded, Cycles
    <3>. QED
      BY <3>1, ReadsBack, ConstantsDistinct
  <2>4. seen[<<"policy", k>>] \in Policies /\ seen[<<"next", k>>] \in Policies /\ PoolHolds(k)
    BY <2>1, <2>2, ReadsBack
  <2>. QED
    BY <1>2, <2>3, <2>4 DEF ResumeCycle
<1>3. ASSUME NEW p \in Procs, Finish(p) PROVE FALSE
  BY <1>3 DEF Finish, Leave, PoolCounts, HistoryInv, PoolWhole
<1>4. ASSUME NEW p \in Procs, Dream(p) PROVE FALSE
  <2>. DEFINE j == job[p]
  <2>1. j.at = "dream" /\ JobOK(j) /\ Sound(seen, j)
    BY <1>4 DEF Dream, TypeInv, RecordInv
  <2>2. j.idx \in Cycles /\ j.tree \in Trees
    BY <2>1, InHand DEF Sound, CycleStages, JobOK, TreeStages
  <2>3. PoolHolds(j.idx)
    BY <2>1, <2>2 DEF Sound, Behind, TreeStages, PoolHolds
  <2>4. \A k \in 0 .. j.idx - 1 : PoolHolds(k)
    <3>1. \A k \in 0 .. j.idx - 1 : k \in Cycles /\ IsRecorded(seen, k)
      BY <2>1, <2>2, CyclesOrder DEF Sound, Where
    <3>. QED
      BY <3>1, ReadsBack
  <2>5. \A k \in Replayed(j) : PoolHolds(k)
    BY <2>2, <2>3, <2>4 DEF Replayed, Cycles
  <2>. QED
    BY <1>4, <2>5 DEF Dream
<1>5. ASSUME NEW p \in Procs, Stop(p) PROVE FALSE
  BY <1>5 DEF Stop, Leave
<1>6. ~PowerLoss
  BY DEF PowerLoss, Spared, NoPower, TypeInv, TypeOK
<1>. QED
  BY <1>1, <1>2, <1>3, <1>4, <1>5, <1>6
  DEF Next, Environment, Step, Begin, Writeback, LoseFile, MakeDirectory, SyncParents, OpenFile,
      FlushFile, SyncName, Rename, SyncRename, ResumeDone, NextCycle, Clear, Rollout, vars

LEMMA HistoryStep ==
  ASSUME Spared, TypeInv, RecordInv, HistoryInv, [Next]_vars
  PROVE  HistoryInv'
<1>1. PICK n \in 0 .. MaxCycles : Acknowledged(n)
  BY DEF HistoryInv
<1>2. \E m \in 0 .. MaxCycles : Acknowledged(m)'
  <2>1. CASE acked' = acked
    BY <1>1, <2>1, AcknowledgedStep
  <2>2. CASE acked' # acked
    BY <1>1, <2>2, AcknowledgedStep, BoundsAreNat DEF Cycles
  <2>. QED
    BY <2>1, <2>2
<1>. QED
  BY <1>2, ChainedStep, PoolWholeStep, DeploysStep, VerdictStep DEF HistoryInv

LEMMA HistoryInit == Init => HistoryInv
<1>. SUFFICES ASSUME Init PROVE HistoryInv
  OBVIOUS
<1>1. \A k \in Cycles : seen[<<"record", k>>] = Absent /\ seen[<<"world", k>>] = Absent
  BY DEF Init, Names, FileKinds, PoolKinds, Root
<1>2. \A p \in Procs : job[p].at = "idle"
  BY DEF Init, Idle
<1>3. 0 \in 0 .. MaxCycles /\ acked = 0 .. 0 - 1 /\ acked = {}
  BY BoundsAreNat DEF Init
<1>4. Acknowledged(0)
  BY <1>2, <1>3 DEF Acknowledged
<1>. QED
  BY <1>1, <1>2, <1>3, <1>4, ConstantsDistinct
  DEF HistoryInv, Chained, PoolWhole, IsRecorded, Deploys, StartStages, Init

LEMMA HistoryUntilLost ==
  NoPower /\ Spec => [](NoPower /\ TypeInv /\ (spent.lost = 0 => RecordInv /\ HistoryInv))
<1>1. NoPower /\ Init => NoPower /\ TypeInv /\ (spent.lost = 0 => RecordInv /\ HistoryInv)
  BY TypeInit, RecordInit, HistoryInit
<1>2. NoPower /\ TypeInv /\ (spent.lost = 0 => RecordInv /\ HistoryInv) /\ [Next]_vars
        => (NoPower /\ TypeInv /\ (spent.lost = 0 => RecordInv /\ HistoryInv))'
  <2>1. NoPower => NoPower'
    BY DEF NoPower
  <2>. QED
    BY <2>1, TypeStep, RecordStep, HistoryStep, LostStays DEF Spared
<1>. QED
  BY <1>1, <1>2, PTL DEF Spec

LEMMA HistoryInvariant ==
  NoLosses /\ Spec => [](NoLosses /\ TypeInv /\ RecordInv /\ HistoryInv /\ spent.lost = 0)
<1>1. NoLosses /\ TypeInv => spent.lost = 0
  BY DEF NoLosses, TypeInv, TypeOK
<1>2. NoLosses => NoLosses' /\ NoPower
  BY DEF NoLosses, NoPower
<1>. QED
  BY <1>1, <1>2, HistoryUntilLost, PTL

-----------------------------------------------------------------------------
(* The theorems.                                                             *)

\* The cycles a session would trust form one history: each deployed the policy the one before
\* it selected, and the first the policy the manifest names (run.py _resume, _finished).
THEOREM HistoryIsOne == NoLosses /\ Spec => []OneHistory
<1>1. HistoryInv => OneHistory
  <2>. SUFFICES ASSUME HistoryInv, NEW k \in Cycles, Trusted(k)
                PROVE  seen[<<"policy", k>>] = IF k = 0 THEN seen[Manifest]
                                                        ELSE seen[<<"next", k - 1>>]
    BY DEF OneHistory
  <2>1. IsRecorded(seen, k)
    BY BoundsAreNat DEF Trusted, HasRecord, IsRecorded, Cycles
  <2>. QED
    BY <2>1 DEF HistoryInv, Chained, Selected
<1>. QED
  BY <1>1, HistoryInvariant, PTL

\* No kill, wherever it falls, leaves a directory that the command that started it cannot
\* resume, read or replay (run.py run_cycles).
THEOREM KillsBreakNothing == NoLosses /\ Spec => []NeverBroken
<1>1. HistoryInv => NeverBroken
  BY DEF HistoryInv, NeverBroken
<1>. QED
  BY <1>1, HistoryInvariant, PTL

\* No step takes back a cycle a session counted as finished, or changes a file of its directory.
THEOREM FinishedStays == NoLosses /\ Spec => FinishedIsKept
<1>1. Spared /\ TypeInv /\ RecordInv /\ HistoryInv /\ [Next]_vars =>
        [\A k \in acked : /\ k \in acked'
                          /\ \A n \in Entries(<<"cycle", k>>) : seen'[n] = seen[n]]_vars
  <2>. SUFFICES ASSUME Spared, TypeInv, RecordInv, HistoryInv, [Next]_vars, NEW k \in acked
                PROVE  /\ k \in acked'
                       /\ \A n \in Entries(<<"cycle", k>>) : seen'[n] = seen[n]
    OBVIOUS
  <2>1. k \in acked'
    BY Acknowledges
  <2>2. k \in Cycles /\ IsRecorded(seen, k)
    BY DEF HistoryInv, Acknowledged, TypeInv, TypeOK
  <2>3. ASSUME NEW n \in Entries(<<"cycle", k>>)
        PROVE  \E kind \in FileKinds : n = <<kind, k>>
    BY <2>3 DEF Entries, Parent, Names, RunKinds, FileKinds, PoolKinds, Root
  <2>. QED
    BY <2>1, <2>2, <2>3, RecordedStays
<1>2. NoLosses /\ (spent.lost = 0)' => Spared
  BY DEF NoLosses, Spared
<1>. QED
  BY <1>1, <1>2, HistoryInvariant, PTL DEF Spec, FinishedIsKept

-----------------------------------------------------------------------------
(* The directory implements RunHistory.                                      *)

\* The history a directory stands for: the records of the cycles acknowledged.
Log == [i \in 1 .. Cardinality(acked) |-> seen[<<"record", i - 1>>]]

LEMMA FirstCycles ==
  ASSUME NEW n \in Nat
  PROVE  Cardinality(0 .. n - 1) = n
<1>1. Cardinality(0 .. n - 1) = IF 0 > n - 1 THEN 0 ELSE (n - 1) - 0 + 1
  BY FS_Interval
<1>. QED
  BY <1>1

\* It is as long as they are many, and its entries are records.
LEMMA LogIs ==
  ASSUME TypeInv, RecordInv, NEW n \in 0 .. MaxCycles, Acknowledged(n)
  PROVE  /\ Log = [i \in 1 .. n |-> seen[<<"record", i - 1>>]]
         /\ Log \in Seq(Records) /\ Len(Log) = n
         /\ \A i \in 1 .. n : Log[i] = seen[<<"record", i - 1>>]
<1>1. n \in Nat /\ acked = 0 .. n - 1
  BY BoundsAreNat DEF Acknowledged
<1>2. Cardinality(acked) = n
  BY <1>1, FirstCycles
<1>3. Log = [i \in 1 .. n |-> seen[<<"record", i - 1>>]]
  BY <1>2 DEF Log
<1>4. \A i \in 1 .. n : seen[<<"record", i - 1>>] \in Records
  <2>. SUFFICES ASSUME NEW i \in 1 .. n PROVE seen[<<"record", i - 1>>] \in Records
    OBVIOUS
  <2>1. i - 1 \in acked /\ i - 1 \in Cycles
    BY <1>1, BoundsAreNat DEF Cycles
  <2>2. IsRecorded(seen, i - 1)
    BY <2>1 DEF Acknowledged
  <2>. QED
    BY <2>1, <2>2, ReadsBack
<1>5. Log \in [1 .. n -> Records]
  BY <1>3, <1>4
<1>6. Log \in Seq(Records) /\ Len(Log) = n
  BY <1>1, <1>5
<1>. QED
  BY <1>3, <1>6

\* A step that acknowledges a cycle appends its record, which deployed what the last one
\* selected; every other step leaves the history as it was.
LEMMA LogStep ==
  ASSUME Spared, TypeInv, RecordInv, HistoryInv, [Next]_vars,
         TypeInv', RecordInv', HistoryInv'
  PROVE  [History!Next]_Log
<1>1. PICK n \in 0 .. MaxCycles : Acknowledged(n)
  BY DEF HistoryInv
<1>2. n \in Nat /\ acked = 0 .. n - 1
  BY <1>1, BoundsAreNat DEF Acknowledged
<1>3. CASE acked' = acked
  <2>1. Cardinality(acked') = n
    BY <1>2, <1>3, FirstCycles
  <2>2. Log = [i \in 1 .. n |-> seen[<<"record", i - 1>>]]
    BY <1>1, LogIs
  <2>3. Log' = [i \in 1 .. n |-> seen'[<<"record", i - 1>>]]
    BY <2>1 DEF Log
  <2>4. \A i \in 1 .. n : seen'[<<"record", i - 1>>] = seen[<<"record", i - 1>>]
    <3>. SUFFICES ASSUME NEW i \in 1 .. n
                  PROVE  seen'[<<"record", i - 1>>] = seen[<<"record", i - 1>>]
      OBVIOUS
    <3>1. i - 1 \in acked /\ i - 1 \in Cycles /\ "record" \in FileKinds
      BY <1>2, BoundsAreNat DEF Cycles, FileKinds
    <3>2. IsRecorded(seen, i - 1)
      BY <1>1, <3>1 DEF Acknowledged
    <3>. QED
      BY <3>1, <3>2, RecordedStays
  <2>. QED
    BY <2>2, <2>3, <2>4
<1>4. CASE acked' # acked
  <2>. DEFINE r == seen[<<"record", n>>]
  <2>1. n \in Cycles /\ acked' = 0 .. n /\ Acknowledged(n + 1)' /\ n + 1 \in 0 .. MaxCycles
    BY <1>1, <1>4, AcknowledgedStep, BoundsAreNat DEF Cycles
  <2>2. seen' = seen
    BY <1>4, Acknowledges
  <2>3. IsRecorded(seen, n)
    BY <2>1, <2>2 DEF Acknowledged, Cycles
  <2>4. r \in Records /\ Vouched(seen, n) /\ seen[<<"policy", n>>] = Selected(seen, n)
    BY <2>1, <2>3 DEF HistoryInv, Chained, RecordInv, Kept, Vouched
  <2>5. /\ Log = [i \in 1 .. n |-> seen[<<"record", i - 1>>]]
        /\ Log \in Seq(Records) /\ Len(Log) = n
        /\ \A i \in 1 .. n : Log[i] = seen[<<"record", i - 1>>]
    BY <1>1, LogIs
  <2>6. Log' = [i \in 1 .. n + 1 |-> seen[<<"record", i - 1>>]]
    <3>1. acked' = 0 .. (n + 1) - 1
      BY <1>2, <2>1
    <3>2. Cardinality(acked') = n + 1
      BY <1>2, <3>1, FirstCycles
    <3>. QED
      BY <2>2, <3>2 DEF Log
  <2>7. Log' = Append(Log, r)
    BY <1>2, <2>5, <2>6
  <2>8. Log # <<>> => r.policy = Log[n].next
    <3>. SUFFICES ASSUME Log # <<>> PROVE r.policy = Log[n].next
      OBVIOUS
    <3>1. n # 0
      BY <2>5
    <3>2. n - 1 \in acked /\ n - 1 \in Cycles /\ n \in 1 .. n
      BY <1>2, <2>1, <3>1, BoundsAreNat DEF Cycles
    <3>3. Log[n] = seen[<<"record", n - 1>>] /\ IsRecorded(seen, n - 1)
      BY <1>1, <2>5, <3>2 DEF Acknowledged
    <3>4. seen[<<"next", n - 1>>] = Log[n].next
      BY <3>2, <3>3 DEF RecordInv, Kept, Vouched
    <3>. QED
      BY <2>4, <3>1, <3>4 DEF Vouched, Selected
  <2>9. Len(Log) < MaxCycles /\ r \in History!Records
    BY <1>2, <2>1, <2>4, <2>5, BoundsAreNat DEF Cycles, Records, History!Records
  <2>10. History!RunCycle
    BY <2>5, <2>7, <2>8, <2>9 DEF History!RunCycle, Log
  <2>. QED
    BY <2>10 DEF History!Next
<1>. QED
  BY <1>3, <1>4

\* Sessions, kills and resumptions, seen through the records acknowledged, are one history
\* of cycles that grows at its end and is never rewritten (run.py run_cycles, Run.load).
THEOREM DirectoryImplementsHistory == NoLosses /\ Spec => ImplementsHistory
<1>1. Init => History!Init
  <2>. SUFFICES ASSUME Init PROVE Log = <<>>
    BY DEF History!Init, Log
  <2>1. Cardinality(acked) = 0
    BY FS_EmptySet DEF Init
  <2>. QED
    BY <2>1 DEF Log
<1>2. /\ NoLosses /\ TypeInv /\ RecordInv /\ HistoryInv /\ [Next]_vars
      /\ (TypeInv /\ RecordInv /\ HistoryInv /\ spent.lost = 0)'
      => [History!Next]_Log
  BY LogStep DEF NoLosses, Spared
<1>. QED
  BY <1>1, <1>2, HistoryInvariant, PTL DEF Spec, ImplementsHistory, History!Spec, Log

-----------------------------------------------------------------------------
(***************************************************************************)
(* What a power loss can cost: any number of them at any moment, and files *)
(* lost to something outside the program, as long as no session is killed  *)
(* on a machine that stays up.                                             *)
(***************************************************************************)

\* Sessions end by themselves or with the power.  (One killed between the rename of a
\* record and its flush leaves a record the next one builds on and nothing flushes.)
NoStops == MaxStops = 0

-----------------------------------------------------------------------------
(* The inductive invariant: directories and records.                         *)

\* The kinds of name bytes are written under, and so the ones that may be unflushed.
SlotKinds == {"manifest", "session.tmp", "policy", "tree", "world.tmp", "next", "timing",
              "record.tmp"}

\* The names that finished cycles depend on, and that no session rewrites.
Keepers == {<<"cycles", 0>>, <<"pool", 0>>} \cup ({"cycle", "record"} \X Cycles)

\* The name is one the session has made and is about to flush.
Putting(j, n) ==
  j.at \in DirStages \cup {"record"} /\ j.phase = "sync" /\ Kind(j) = n

\* The directories a session stands on, those it makes, above no record, and its bytes on
\* the device by the time it flushes or renames their name.
Stands(fs, un, j) ==
  /\ j.at \in OtherStages => j.phase = "open"
  /\ j.at \notin {"idle", "cycles"} => fs[<<"cycles", 0>>] # Absent
  /\ j.at \in CycleStages \ {"clear", "cycle"} /\ j.live => fs[<<"cycle", j.idx>>] # Absent
  /\ j.at \in DirStages /\ j.phase = "sync" => fs[Kind(j)] # Absent
  /\ j.at = "cycles" /\ j.phase = "sync" => \A k \in Cycles : ~IsRecorded(fs, k)
  /\ j.at = "cycle" => ~IsRecorded(fs, j.idx)
  /\ j.at \in WriteStages /\ j.phase \in {"name", "rename"} => Slot(j) \notin un

\* A record is in a directory that is seen, and that one in another.
Housed(fs) ==
  \A k \in Cycles : /\ IsRecorded(fs, k) => fs[<<"cycle", k>>] # Absent
                    /\ fs[<<"cycle", k>>] # Absent => fs[<<"cycles", 0>>] # Absent

\* The device has every directory and record that is seen, but for the one being put there.
LayInv ==
  /\ OneSession
  /\ \A n \in unflushed : n[1] \in SlotKinds
  /\ \A n \in Keepers : seen[n] # Absent => disk[n] # Absent \/ \E p \in Procs : Putting(job[p], n)
  /\ Housed(seen)
  /\ \A p \in Procs : Stands(seen, unflushed, job[p])

-----------------------------------------------------------------------------
(* The inductive invariant: the cycles acknowledged.                         *)

\* A session is past the acknowledged cycles before its own, and works on none of them.
Past(done, j) ==
  /\ j.at \notin {"idle"} \cup StartStages => 0 .. j.idx - 1 \subseteq done
  /\ j.live /\ j.idx < j.want => \A k \in done : k < j.idx
  /\ j.at = "idle" => ~j.live

\* A record's bytes are under its staged name until they are renamed.
Renaming(fs, j) ==
  j.at = "record" => /\ j.phase \in {"name", "rename"} => fs[Slot(j)] # Absent
                     /\ j.phase = "sync" => IsRecorded(fs, j.idx)

AckInv ==
  /\ disk[Root] # Absent /\ seen[Root] # Absent
  /\ \A k \in acked : /\ 0 .. k - 1 \subseteq acked
                      /\ IsRecorded(seen, k) /\ IsRecorded(disk, k)
  /\ \A p \in Procs : Past(acked, job[p]) /\ Renaming(seen, job[p])

-----------------------------------------------------------------------------
(* The inductive invariant: what the records on the device vouch for.        *)

\* The device has the name as it is seen, and keeps it.
Synced(fs, ds, un, n) == ds[n] = fs[n] /\ n \notin un

\* What a record vouches for, beside itself.
Vouchers == VouchKinds \ {"record"}

\* What the stages behind have put on the device of the cycle in hand; the pool is made
\* before there is a record.
Flushed(fs, ds, un, j) ==
  /\ j.at \in {"rollout"} \cup TreeStages => Synced(fs, ds, un, <<"policy", j.idx>>)
  /\ j.at \in TreeStages \ {"tree"} => Synced(fs, ds, un, <<"tree", j.idx>>)
  /\ j.at \in TreeStages \ {"tree", "pool", "world"} => Synced(fs, ds, un, <<"world", j.idx>>)
  /\ j.at \in {"timing", "record"} => Synced(fs, ds, un, <<"next", j.idx>>)
  /\ j.at = "record" => Synced(fs, ds, un, <<"timing", j.idx>>)
  /\ j.at = "pool" /\ j.phase = "sync" => \A k \in Cycles : ~IsRecorded(fs, k)

\* A record on the device is the one that is seen, and what a record vouches for is there.
Backed(fs, ds, un) ==
  \A k \in Cycles :
    /\ IsRecorded(ds, k) => ds[<<"record", k>>] = fs[<<"record", k>>]
    /\ IsRecorded(fs, k) => \A kind \in Vouchers : Synced(fs, ds, un, <<kind, k>>)

SafeInv ==
  /\ RecordInv
  /\ Backed(seen, disk, unflushed)
  /\ \A p \in Procs : Flushed(seen, disk, unflushed, job[p])

-----------------------------------------------------------------------------
(* Names and sessions.                                                       *)

LEMMA KeeperNames ==
  /\ Keepers \subseteq Names \ {Root}
  /\ \A n \in Keepers : n[1] \in {"cycles", "pool", "cycle", "record"}
BY DEF Keepers, Names, Root, RunKinds, FileKinds, PoolKinds

\* The first writing of bytes is under a name nothing finished depends on.
LEMMA SlotKind ==
  ASSUME NEW j, JobOK(j), j.at \in WriteStages
  PROVE  Slot(j)[1] \in SlotKinds /\ Slot(j) \notin Keepers
<1>1. Slot(j)[1] \in SlotKinds
  <2>1. CASE j.at \notin StagedKinds
    <3>1. Slot(j)[1] = j.at
      BY <2>1, Places
    <3>. QED
      BY <2>1, <3>1 DEF SlotKinds, WriteStages, StagedKinds
  <2>2. CASE j.at \in StagedKinds
    BY <2>2, Places DEF SlotKinds
  <2>. QED
    BY <2>1, <2>2
<1>. QED
  BY <1>1, KeeperNames DEF SlotKinds

\* The name a directory stage makes, or the record stage renames.
LEMMA PutNames ==
  ASSUME NEW j, JobOK(j), j.at \in DirStages \cup {"record"}
  PROVE  /\ Kind(j) \in Keepers
         /\ j.at \in {"cycles", "pool"} => Kind(j) = <<j.at, 0>>
         /\ j.at \in {"cycle", "record"} => Kind(j) = <<j.at, j.idx>> /\ j.idx \in Cycles
<1>1. j.at \in {"cycle", "record"} => j.idx \in Cycles
  BY BoundsAreNat DEF JobOK, Jobs, Cycles, CycleStages
<1>. QED
  BY <1>1 DEF Kind, Keepers, DirStages

\* What a session stands on is there as long as those names are.
LEMMA StandsSame ==
  ASSUME NEW fs, NEW gs, NEW un, NEW vn, NEW j, JobOK(j), Stands(fs, un, j),
         \A n \in Keepers : gs[n] = fs[n],
         j.at \in WriteStages /\ j.phase \in {"name", "rename"} => Slot(j) \notin vn
  PROVE  Stands(gs, vn, j)
<1>1. <<"cycles", 0>> \in Keepers /\ \A k \in Cycles, d \in {"cycle", "record"} : <<d, k>> \in Keepers
  BY DEF Keepers
<1>2. j.at \in CycleStages => j.idx \in Cycles
  BY BoundsAreNat DEF JobOK, Jobs, Cycles
<1>3. j.at \in DirStages => Kind(j) \in Keepers
  BY PutNames
<1>. QED
  BY <1>1, <1>2, <1>3 DEF Stands, IsRecorded, CycleStages

LEMMA IdleStands ==
  ASSUME NEW fs, NEW un, NEW j, j.at = "idle", j.phase = "open"
  PROVE  Stands(fs, un, j)
BY DEF Stands, CycleStages, DirStages, WriteStages

\* A session that has made its directory stands where the next stage needs.
LEMMA AdvancedStands ==
  ASSUME NEW fs, NEW un, NEW j, JobOK(j), j.at \in WriteStages \cup DirStages,
         Stands(fs, un, j), j.at \in {"cycles", "cycle"} => fs[Kind(j)] # Absent
  PROVE  Stands(fs, un, Advanced(j))
<1>. DEFINE a == Advanced(j)
<1>1. /\ a.at = After(j) /\ a.phase = "open" /\ a.live = j.live
      /\ j.at # "record" => a.idx = j.idx
  BY AdvancedFields DEF CycleOver
<1>. SUFFICES Stands(fs, un, a)
  OBVIOUS
<1>. HIDE DEF a
<1>2. a.at \notin {"idle", "cycles", "cycle", "clear"} /\ (j.at = "record" => a.at = "loop")
  BY <1>1 DEF After, WriteStages, DirStages
<1>3. fs[<<"cycles", 0>>] # Absent
  BY DEF Stands, Kind, WriteStages, DirStages
<1>4. a.at \in CycleStages => j.at \in CycleStages \ {"clear", "record"}
  BY <1>1 DEF After, WriteStages, DirStages, CycleStages
<1>5. j.at \in CycleStages \ {"clear", "record"} /\ j.live => fs[<<"cycle", j.idx>>] # Absent
  BY DEF Stands, Kind, CycleStages
<1>. QED
  BY <1>1, <1>2, <1>3, <1>4, <1>5 DEF Stands

\* One session that moves to where it may stand.
LEMMA LayMove ==
  ASSUME TypeInv, LayInv, NEW p \in Procs, NEW m, job' = [job EXCEPT ![p] = m],
         \A q \in Procs \ {p} : job[q].at = "idle",
         lock' = p \/ m.at = "idle",
         \A n \in unflushed' : n[1] \in SlotKinds,
         \A n \in Keepers : seen'[n] # Absent => disk'[n] # Absent \/ Putting(m, n),
         Housed(seen'), Stands(seen', unflushed', m)
  PROVE  LayInv'
<1>1. job'[p] = m /\ \A q \in Procs \ {p} : job'[q] = job[q]
  BY DEF TypeInv, TypeOK
<1>2. OneSession'
  BY <1>1 DEF OneSession
<1>3. \A q \in Procs : Stands(seen', unflushed', job'[q])
  <2>1. \A q \in Procs \ {p} : job[q].phase = "open"
    BY DEF LayInv, Stands, OtherStages
  <2>. QED
    BY <1>1, <2>1, IdleStands
<1>4. \A n \in Keepers : seen'[n] # Absent => disk'[n] # Absent \/ \E q \in Procs : Putting(job'[q], n)
  BY <1>1
<1>. QED
  BY <1>2, <1>3, <1>4 DEF LayInv

-----------------------------------------------------------------------------
(* Every step keeps the directories and records in place.                    *)

\* The device has what is seen, but for what the one session is putting there.
LEMMA OnDevice ==
  ASSUME LayInv, NEW p \in Procs, \A q \in Procs \ {p} : job[q].at = "idle",
         NEW n \in Keepers, seen[n] # Absent
  PROVE  disk[n] # Absent \/ Putting(job[p], n)
BY DEF LayInv, Putting, DirStages

\* Names flushed with their directory, or left alone, stay on the device.
LEMMA SyncedDirs ==
  ASSUME TypeInv, NEW ds, SyncDirs(ds), NEW n \in Names
  PROVE  /\ n # Root /\ Parent(n) \in ds => disk'[n] = seen[n]
         /\ ~(n # Root /\ Parent(n) \in ds) => disk'[n] = disk[n]
BY DEF SyncDirs

LEMMA LayPublish ==
  ASSUME TypeInv, LayInv, NEW p \in Procs,
         \/ MakeDirectory(p) \/ SyncParents(p)
         \/ OpenFile(p) \/ FlushFile(p) \/ SyncName(p) \/ Rename(p) \/ SyncRename(p)
  PROVE  LayInv'
<1>. DEFINE j == job[p]
<1>1. /\ j.at \in WriteStages \cup DirStages /\ JobOK(j) /\ j \in Jobs
      /\ Stands(seen, unflushed, j) /\ Housed(seen) /\ OneSession
      /\ \A n \in unflushed : n[1] \in SlotKinds
      /\ lock' = p /\ \A q \in Procs \ {p} : job[q].at = "idle"
  <2>1. j.at \in WriteStages \cup DirStages /\ lock' = lock
    BY DEF MakeDirectory, SyncParents, OpenFile, FlushFile, SyncName, Rename, SyncRename,
           StagedKinds, WriteStages
  <2>2. j.at # "idle"
    BY <2>1 DEF WriteStages, DirStages
  <2>. QED
    BY <2>1, <2>2, Alone DEF TypeInv, JobOK, LayInv
<1>2. \A n \in Keepers : seen[n] # Absent => disk[n] # Absent \/ Putting(j, n)
  BY <1>1, OnDevice
<1>3. DOMAIN seen = Names /\ DOMAIN disk = Names /\ Keepers \subseteq Names \ {Root}
  BY KeeperNames DEF TypeInv, TypeOK, FileMap
<1>4. ASSUME NEW m, job' = [job EXCEPT ![p] = m],
             \A n \in unflushed' : n[1] \in SlotKinds,
             \A n \in Keepers : seen'[n] # Absent => disk'[n] # Absent \/ Putting(m, n),
             Housed(seen'), Stands(seen', unflushed', m)
      PROVE  LayInv'
  BY <1>1, <1>4, LayMove
<1>5. ASSUME NEW phase \in Phases
      PROVE  LET m == [j EXCEPT !.phase = phase] IN
             /\ m.at = j.at /\ m.phase = phase /\ m.idx = j.idx /\ m.live = j.live
             /\ Kind(m) = Kind(j) /\ Slot(m) = Slot(j)
  BY <1>1 DEF Jobs, Kind, Slot
<1>6. CASE MakeDirectory(p)
  <2>1. j.at \in DirStages /\ j.phase = "open" /\ disk' = disk /\ unflushed' = unflushed
    BY <1>6 DEF MakeDirectory
  <2>2. Kind(j) \in Keepers /\ Kind(j) \in Names
    BY <1>1, <2>1, PutNames, KeeperNames
  <2>3. ~\E n : Putting(j, n)
    BY <2>1 DEF Putting
  <2>4. CASE seen[Kind(j)] # Absent
    <3>1. job' = [job EXCEPT ![p] = Advanced(j)] /\ seen' = seen
      BY <1>6, <2>4 DEF MakeDirectory
    <3>2. Stands(seen, unflushed, Advanced(j))
      BY <1>1, <2>4, AdvancedStands
    <3>. QED
      BY <1>1, <1>2, <1>4, <2>1, <2>3, <3>1, <3>2
  <2>5. CASE seen[Kind(j)] = Absent
    <3>. DEFINE m == [j EXCEPT !.phase = "sync"]
    <3>1. job' = [job EXCEPT ![p] = m] /\ seen' = [seen EXCEPT ![Kind(j)] = Some]
      BY <1>6, <2>5 DEF MakeDirectory
    <3>2. seen'[Kind(j)] = Some /\ Some # Absent /\ \A n \in Names \ {Kind(j)} : seen'[n] = seen[n]
      BY <1>3, <2>2, <3>1, ConstantsDistinct
    <3>3. /\ m.at = j.at /\ m.phase = "sync" /\ m.idx = j.idx /\ m.live = j.live
          /\ Kind(m) = Kind(j) /\ Slot(m) = Slot(j)
      BY <1>5 DEF Phases
    <3>. HIDE DEF m
    <3>4. \A n \in Keepers : seen'[n] # Absent => disk'[n] # Absent \/ Putting(m, n)
      BY <1>2, <1>3, <2>1, <2>3, <3>2, <3>3 DEF Putting
    <3>5. /\ \A k \in Cycles : <<"record", k>> \in Names /\ <<"record", k>> # Kind(j)
          /\ \A k \in Cycles : IsRecorded(seen', k) => IsRecorded(seen, k)
      <4>1. \A k \in Cycles : <<"record", k>> \in Names /\ <<"record", k>> # Kind(j)
        BY <1>1, <2>1, Places DEF Names, FileKinds, DirStages
      <4>. QED
        BY <3>2, <4>1 DEF IsRecorded
    <3>6. <<"cycles", 0>> \in Names /\ \A k \in Cycles : <<"cycle", k>> \in Names
      BY DEF Names, RunKinds
    <3>7. seen'[<<"cycles", 0>>] # Absent
      <4>1. j.at = "cycles" => Kind(j) = <<"cycles", 0>>
        BY DEF Kind
      <4>2. j.at # "cycles" => seen[<<"cycles", 0>>] # Absent
        BY <1>1, <2>1 DEF Stands, DirStages
      <4>. QED
        BY <3>2, <3>6, <4>1, <4>2
    <3>8. Housed(seen')
      <4>1. \A k \in Cycles : IsRecorded(seen', k) => seen'[<<"cycle", k>>] # Absent
        BY <1>1, <3>2, <3>5, <3>6 DEF Housed
      <4>. QED
        BY <3>7, <4>1 DEF Housed
    <3>9. j.at = "cycles" => \A k \in Cycles : ~IsRecorded(seen', k)
      BY <1>1, <2>5, <3>5 DEF Housed, Kind
    <3>10. j.at = "cycle" => ~IsRecorded(seen', j.idx)
      BY <1>1, <2>1, <3>5, PutNames DEF Stands
    <3>11. j.at \in CycleStages \ {"clear", "cycle"} /\ j.live => seen'[<<"cycle", j.idx>>] # Absent
      <4>1. j.at \in CycleStages => j.idx \in Cycles
        BY <1>1, BoundsAreNat DEF JobOK, Jobs, Cycles
      <4>. QED
        BY <1>1, <3>2, <3>6, <4>1 DEF Stands
    <3>12. Stands(seen', unflushed', m)
      BY <2>1, <3>2, <3>3, <3>7, <3>9, <3>10, <3>11
      DEF Stands, DirStages, WriteStages, OtherStages
    <3>. QED
      BY <1>1, <1>4, <2>1, <3>1, <3>4, <3>8, <3>12
  <2>. QED
    BY <2>4, <2>5
<1>7. CASE SyncParents(p)
  <2>. DEFINE ds == {Parent(Kind(j))} \cup (IF j.at = "cycle" THEN {Kind(j)} ELSE {})
  <2>1. /\ j.at \in DirStages /\ j.phase = "sync" /\ seen' = seen /\ unflushed' = unflushed
        /\ job' = [job EXCEPT ![p] = Advanced(j)] /\ SyncDirs(ds)
    BY <1>7 DEF SyncParents
  <2>. HIDE DEF ds
  <2>2. Kind(j) \in Keepers /\ seen[Kind(j)] # Absent /\ Parent(Kind(j)) \in ds
    BY <1>1, <2>1, PutNames DEF Stands, ds
  <2>3. disk'[Kind(j)] = seen[Kind(j)]
    BY <1>3, <2>1, <2>2, SyncedDirs
  <2>4. \A n \in Keepers : seen'[n] # Absent => disk'[n] # Absent
    BY <1>2, <1>3, <2>1, <2>2, <2>3, SyncedDirs DEF Putting
  <2>5. Stands(seen', unflushed', Advanced(j))
    BY <1>1, <2>1, <2>2, AdvancedStands
  <2>. QED
    BY <1>1, <1>4, <2>1, <2>4, <2>5
<1>8. CASE OpenFile(p) \/ FlushFile(p)
  <2>1. j.at \in WriteStages
    BY <1>8 DEF OpenFile, FlushFile
  <2>2. Slot(j)[1] \in SlotKinds /\ Slot(j) \notin Keepers
    BY <1>1, <2>1, SlotKind
  <2>3. PICK phase \in {"flush", "name"} : job' = [job EXCEPT ![p] = [j EXCEPT !.phase = phase]]
    BY <1>8 DEF OpenFile, FlushFile
  <2>. DEFINE m == [j EXCEPT !.phase = phase]
  <2>4. /\ m.at = j.at /\ m.phase = phase /\ m.idx = j.idx /\ m.live = j.live
        /\ Kind(m) = Kind(j) /\ Slot(m) = Slot(j)
    BY <1>5, <2>3 DEF Phases
  <2>5. \A n \in Keepers : seen'[n] = seen[n] /\ disk'[n] = disk[n]
    BY <1>3, <1>8, <2>2 DEF OpenFile, FlushFile
  <2>6. j.phase \in {"open", "flush"}
    BY <1>8 DEF OpenFile, FlushFile
  <2>7. \A n \in unflushed' : n[1] \in SlotKinds
    BY <1>1, <1>8, <2>2 DEF OpenFile, FlushFile
  <2>8. m.phase \in {"name", "rename"} => Slot(m) \notin unflushed'
    <3>1. DOMAIN job = Procs
      BY DEF TypeInv, TypeOK
    <3>2. OpenFile(p) => job'[p].phase = "flush"
      BY <1>1, <3>1 DEF OpenFile, Jobs
    <3>3. job'[p] = m
      BY <2>3, <3>1
    <3>4. FlushFile(p) => Slot(j) \notin unflushed'
      BY DEF FlushFile
    <3>. QED
      BY <1>8, <2>4, <3>2, <3>3, <3>4
  <2>9. JobOK(m)
    BY <1>1, <2>3, <2>4 DEF JobOK, Jobs, Phases
  <2>. HIDE DEF m
  <2>11. j.at \notin DirStages /\ j.at # "idle"
    BY <2>1 DEF WriteStages, DirStages
  <2>12. Stands(seen', unflushed', m)
    <3>1. Stands(seen, {}, m)
      BY <1>1, <2>1, <2>4, <2>11 DEF Stands, DirStages, OtherStages, WriteStages
    <3>. QED
      BY <2>4, <2>5, <2>8, <2>9, <3>1, StandsSame
  <2>13. Housed(seen')
    <3>1. <<"cycles", 0>> \in Keepers /\ \A k \in Cycles, d \in {"cycle", "record"} : <<d, k>> \in Keepers
      BY DEF Keepers
    <3>. QED
      BY <1>1, <2>5, <3>1 DEF Housed, IsRecorded
  <2>14. \A n \in Keepers : seen'[n] # Absent => disk'[n] # Absent
    BY <1>2, <2>5, <2>6 DEF Putting
  <2>. QED
    BY <1>4, <2>3, <2>7, <2>12, <2>13, <2>14 DEF m
<1>9. CASE SyncName(p)
  <2>1. /\ j.at \in WriteStages /\ j.phase = "name" /\ seen' = seen /\ unflushed' = unflushed
        /\ SyncDirs({Parent(Slot(j))})
    BY <1>9 DEF SyncName
  <2>2. \A n \in Keepers : seen'[n] # Absent => disk'[n] # Absent
    BY <1>2, <1>3, <2>1, SyncedDirs DEF Putting
  <2>3. CASE j.at \in StagedKinds
    <3>. DEFINE m == [j EXCEPT !.phase = "rename"]
    <3>1. job' = [job EXCEPT ![p] = m]
      BY <1>9, <2>3 DEF SyncName
    <3>2. /\ m.at = j.at /\ m.phase = "rename" /\ m.idx = j.idx /\ m.live = j.live
          /\ Kind(m) = Kind(j) /\ Slot(m) = Slot(j)
      BY <1>5 DEF Phases
    <3>. HIDE DEF m
    <3>3. Stands(seen, unflushed, m)
      BY <1>1, <2>1, <3>2 DEF Stands, DirStages, WriteStages
    <3>. QED
      BY <1>1, <1>4, <2>1, <2>2, <3>1, <3>3
  <2>4. CASE j.at \notin StagedKinds
    <3>1. job' = [job EXCEPT ![p] = Advanced(j)]
      BY <1>9, <2>4 DEF SyncName
    <3>2. Stands(seen, unflushed, Advanced(j))
      BY <1>1, <2>1, AdvancedStands DEF WriteStages
    <3>. QED
      BY <1>1, <1>4, <2>1, <2>2, <3>1, <3>2
  <2>. QED
    BY <2>3, <2>4
<1>10. CASE Rename(p)
  <2>. DEFINE m == [j EXCEPT !.phase = "sync"]
  <2>1. /\ j.at \in StagedKinds /\ j.at \in WriteStages /\ j.phase = "rename" /\ disk' = disk
        /\ job' = [job EXCEPT ![p] = m]
        /\ seen' = [seen EXCEPT ![Kind(j)] = seen[Slot(j)], ![Slot(j)] = Absent]
        /\ Slot(j) \notin unflushed
    BY <1>1, <1>10 DEF Rename, StagedKinds, WriteStages, Stands
  <2>2. unflushed' \subseteq unflushed
    BY <1>10, <2>1 DEF Rename
  <2>3. /\ m.at = j.at /\ m.phase = "sync" /\ m.idx = j.idx /\ m.live = j.live
        /\ Kind(m) = Kind(j) /\ Slot(m) = Slot(j)
    BY <1>5 DEF Phases
  <2>. HIDE DEF m
  <2>4. Slot(j) \notin Keepers
    BY <1>1, <2>1, SlotKind
  <2>5. \A n \in Keepers \ {Kind(j)} : seen'[n] = seen[n]
    BY <1>3, <2>1, <2>4
  <2>6. Kind(j) \in Keepers => j.at = "record"
    BY <1>1, <2>1, KeeperNames, Places DEF StagedKinds
  <2>7. \A n \in Keepers : seen'[n] # Absent => disk'[n] # Absent \/ Putting(m, n)
    BY <1>2, <2>1, <2>3, <2>5, <2>6 DEF Putting
  <2>8. <<"cycles", 0>> \in Keepers /\ \A k \in Cycles, d \in {"cycle", "record"} : <<d, k>> \in Keepers
    BY DEF Keepers
  <2>9. /\ seen'[<<"cycles", 0>>] = seen[<<"cycles", 0>>]
        /\ \A k \in Cycles : seen'[<<"cycle", k>>] = seen[<<"cycle", k>>]
    <3>1. <<"cycles", 0>> # Kind(j) /\ \A k \in Cycles : <<"cycle", k>> # Kind(j)
      BY <1>1, <2>1, Places DEF StagedKinds
    <3>. QED
      BY <2>5, <2>8, <3>1
  <2>10. Housed(seen')
    <3>1. ASSUME NEW k \in Cycles, IsRecorded(seen', k)
          PROVE  seen[<<"cycle", k>>] # Absent
      <4>1. CASE <<"record", k>> = Kind(j)
        <5>1. j.at = "record"
          BY <2>6, <2>8, <4>1
        <5>2. Kind(j) = <<"record", j.idx>>
          BY <1>1, <5>1, PutNames
        <5>3. j.idx = k /\ j.live
          BY <1>1, <4>1, <5>1, <5>2 DEF JobOK, CycleStages
        <5>. QED
          BY <1>1, <5>1, <5>3 DEF Stands, CycleStages
      <4>2. CASE <<"record", k>> # Kind(j)
        BY <1>1, <2>5, <2>8, <3>1, <4>2 DEF Housed, IsRecorded
      <4>. QED
        BY <4>1, <4>2
    <3>. QED
      BY <1>1, <2>9, <3>1 DEF Housed
  <2>11. Stands(seen', unflushed', m)
    <3>1. j.at \in CycleStages => j.idx \in Cycles
      BY <1>1, BoundsAreNat DEF JobOK, Jobs, Cycles
    <3>. QED
      BY <1>1, <2>1, <2>3, <2>9, <3>1 DEF Stands, StagedKinds, DirStages, WriteStages, CycleStages
  <2>. QED
    BY <1>1, <1>4, <2>1, <2>2, <2>7, <2>10, <2>11
<1>11. CASE SyncRename(p)
  <2>1. /\ j.at \in StagedKinds /\ j.at \in WriteStages /\ j.phase = "sync" /\ seen' = seen
        /\ unflushed' = unflushed /\ SyncDirs({Parent(Kind(j))})
        /\ job' = [job EXCEPT ![p] = Advanced(j)]
    BY <1>11 DEF SyncRename, StagedKinds, WriteStages
  <2>2. \A n \in Keepers : seen'[n] # Absent => disk'[n] # Absent
    BY <1>2, <1>3, <2>1, SyncedDirs DEF Putting
  <2>3. Stands(seen, unflushed, Advanced(j))
    BY <1>1, <2>1, AdvancedStands DEF WriteStages
  <2>. QED
    BY <1>1, <1>4, <2>1, <2>2, <2>3
<1>. QED
  BY <1>6, <1>7, <1>8, <1>9, <1>10, <1>11

\* A session that moves and writes nothing, from a stage that publishes nothing.
LEMMA LayGoto ==
  ASSUME TypeInv, LayInv, NEW p \in Procs, job[p].at # "idle", job[p].at \in OtherStages,
         NEW m, job' = [job EXCEPT ![p] = m], seen' = seen, disk' = disk,
         unflushed' = unflushed, lock' = p \/ m.at = "idle", Stands(seen, unflushed, m)
  PROVE  LayInv'
<1>1. \A q \in Procs \ {p} : job[q].at = "idle"
  BY Alone DEF LayInv
<1>2. ~\E n : Putting(job[p], n)
  BY DEF Putting, DirStages, OtherStages
<1>3. \A n \in Keepers : seen[n] # Absent => disk[n] # Absent
  BY <1>1, <1>2, OnDevice
<1>4. Housed(seen) /\ \A n \in unflushed : n[1] \in SlotKinds
  BY DEF LayInv
<1>. QED
  BY <1>1, <1>3, <1>4, LayMove

LEMMA LayLeave ==
  ASSUME TypeInv, LayInv, NEW p \in Procs, job[p].at # "idle", job[p].at \in OtherStages,
         NEW how, Leave(p, how), UNCHANGED fsVars
  PROVE  LayInv'
<1>1. job' = [job EXCEPT ![p] = Idle] /\ Idle.at = "idle" /\ Idle.phase = "open"
  BY DEF Leave, Idle
<1>2. Stands(seen, unflushed, Idle)
  BY <1>1, IdleStands
<1>. QED
  BY <1>1, <1>2, LayGoto DEF fsVars

LEMMA LayDecide ==
  ASSUME TypeInv, LayInv, NEW p \in Procs,
         \/ CheckManifest(p) \/ ResumeCycle(p) \/ ResumeDone(p) \/ NextCycle(p) \/ Finish(p)
         \/ Clear(p) \/ Rollout(p) \/ Dream(p)
  PROVE  LayInv'
<1>. DEFINE j == job[p]
<1>1. /\ JobOK(j) /\ j \in Jobs /\ Stands(seen, unflushed, j) /\ Housed(seen)
      /\ j.at # "idle" /\ j.at \in OtherStages /\ j.phase = "open"
      /\ lock = p /\ \A q \in Procs \ {p} : job[q].at = "idle"
      /\ \A n \in unflushed : n[1] \in SlotKinds
  <2>1. j.at # "idle" /\ j.at \in OtherStages
    BY DEF CheckManifest, ResumeCycle, ResumeDone, NextCycle, Finish, Clear, Rollout, Dream,
           OtherStages
  <2>. QED
    BY <2>1, Alone DEF LayInv, Stands, TypeInv, JobOK
<1>2. seen[<<"cycles", 0>>] # Absent
  BY <1>1 DEF Stands, OtherStages
<1>3. ASSUME NEW m, job' = [job EXCEPT ![p] = m], m.at \notin {"cycles", "cycle"},
             m.phase = "open", UNCHANGED fsVars, lock' = lock,
             m.at \in CycleStages \ {"clear"} /\ m.live =>
               m.idx = j.idx /\ j.live /\ j.at \in CycleStages \ {"clear"}
      PROVE  LayInv'
  <2>1. Stands(seen, unflushed, m)
    BY <1>1, <1>2, <1>3 DEF Stands, DirStages, OtherStages
  <2>. QED
    BY <1>1, <1>3, <2>1, LayGoto DEF fsVars
<1>4. ASSUME NEW how, Leave(p, how), UNCHANGED fsVars
      PROVE  LayInv'
  BY <1>1, <1>4, LayLeave
<1>5. CASE CheckManifest(p)
  <2>1. CASE \E stage \in {"manifest", "session"} : Goto(p, stage) /\ UNCHANGED <<lock, verdict>>
    <3>1. PICK stage \in {"manifest", "session"} : Goto(p, stage) /\ lock' = lock
      BY <2>1
    <3>. DEFINE m == [j EXCEPT !.at = stage]
    <3>2. job' = [job EXCEPT ![p] = m]
      BY <3>1 DEF Goto
    <3>3. m.at = stage /\ m.phase = "open"
      BY <1>1 DEF Jobs
    <3>. QED
      BY <1>3, <1>5, <3>1, <3>2, <3>3 DEF CheckManifest, CycleStages
  <2>2. CASE \E how \in Verdicts : Leave(p, how)
    BY <1>4, <1>5, <2>2 DEF CheckManifest
  <2>. QED
    BY <1>5, <2>1, <2>2 DEF CheckManifest, Verdicts
<1>6. CASE ResumeCycle(p)
  <2>. DEFINE k == j.idx
              walks == [j EXCEPT !.idx = k + 1, !.source = seen[<<"next", k>>]]
              restores == [j EXCEPT !.at = "pool", !.tree = seen[<<"tree", k>>]]
  <2>1. j.at = "resume" /\ UNCHANGED fsVars
    BY <1>6 DEF ResumeCycle
  <2>2. j.live = FALSE
    BY <1>1, <2>1 DEF JobOK, Jobs
  <2>3. \/ job' = [job EXCEPT ![p] = walks] /\ lock' = lock
        \/ job' = [job EXCEPT ![p] = restores] /\ lock' = lock
        \/ Leave(p, "broken")
    BY <1>6 DEF ResumeCycle
  <2>4. walks.at = "resume" /\ walks.phase = "open"
    BY <1>1, <2>1 DEF Jobs
  <2>5. restores.at = "pool" /\ restores.phase = "open" /\ restores.live = FALSE
    BY <1>1, <2>2 DEF Jobs
  <2>. HIDE DEF walks, restores
  <2>6. CASE job' = [job EXCEPT ![p] = walks] /\ lock' = lock
    BY <1>3, <2>1, <2>4, <2>6 DEF CycleStages
  <2>7. CASE job' = [job EXCEPT ![p] = restores] /\ lock' = lock
    BY <1>3, <2>1, <2>5, <2>7
  <2>. QED
    BY <1>4, <2>1, <2>3, <2>6, <2>7
<1>7. CASE ResumeDone(p)
  <2>. DEFINE m == [j EXCEPT !.live = TRUE, !.at = "loop"]
  <2>1. job' = [job EXCEPT ![p] = m] /\ lock' = lock /\ UNCHANGED fsVars
    BY <1>7 DEF ResumeDone
  <2>2. m.at = "loop" /\ m.phase = "open"
    BY <1>1 DEF Jobs
  <2>. QED
    BY <1>3, <2>1, <2>2 DEF CycleStages
<1>8. CASE NextCycle(p)
  <2>. DEFINE m == [j EXCEPT !.at = "clear"]
  <2>1. job' = [job EXCEPT ![p] = m] /\ lock' = lock /\ UNCHANGED fsVars
    BY <1>8 DEF NextCycle, Goto
  <2>2. m.at = "clear" /\ m.phase = "open"
    BY <1>1 DEF Jobs
  <2>. QED
    BY <1>3, <2>1, <2>2
<1>9. CASE Finish(p)
  BY <1>4, <1>9 DEF Finish
<1>10. CASE Clear(p)
  <2>. DEFINE m == [j EXCEPT !.at = "cycle"]
              gone == CycleNames(j.idx)
  <2>1. /\ job' = [job EXCEPT ![p] = m] /\ lock' = lock /\ seen' = Without(gone)
        /\ disk' = disk /\ unflushed' = unflushed /\ j.at = "clear"
    BY <1>10 DEF Clear, Goto
  <2>2. /\ m.at = "cycle" /\ m.phase = "open" /\ m.idx = j.idx /\ m.live = j.live
    BY <1>1 DEF Jobs
  <2>3. j.idx \in Cycles
    BY <1>1, <2>1, BoundsAreNat DEF JobOK, Jobs, Cycles, CycleStages
  <2>4. \A n \in Names : seen'[n] = IF n \in gone THEN Absent ELSE seen[n]
    BY <2>1 DEF Without
  <2>5. /\ <<"cycles", 0>> \in Names \ gone
        /\ <<"record", j.idx>> \in gone
    BY <2>3 DEF CycleNames, Entries, Parent, Names, Root, RunKinds, FileKinds, PoolKinds
  <2>6. \A k \in Cycles \ {j.idx} : <<"cycle", k>> \in Names \ gone
    <3>1. \A k \in Cycles : Parent(<<"cycle", k>>) = <<"cycles", 0>>
      BY DEF Parent, FileKinds, PoolKinds, RunKinds
    <3>2. \A k \in Cycles : <<"cycle", k>> \in Names /\ <<"cycles", 0>> # <<"cycle", j.idx>>
      BY DEF Names
    <3>. QED
      BY <3>1, <3>2 DEF CycleNames, Entries
  <2>. HIDE DEF m, gone
  <2>7. \A n \in Keepers : seen'[n] # Absent => disk'[n] # Absent
    <3>1. ~\E n : Putting(j, n)
      BY <2>1 DEF Putting, DirStages
    <3>. QED
      BY <1>1, <2>1, <2>4, <3>1, OnDevice, KeeperNames
  <2>8. /\ ~IsRecorded(seen', j.idx)
        /\ \A k \in Cycles : IsRecorded(seen', k) => IsRecorded(seen, k)
    <3>1. \A k \in Cycles : <<"record", k>> \in Names
      BY DEF Names, FileKinds
    <3>. QED
      BY <2>3, <2>4, <2>5, <3>1 DEF IsRecorded
  <2>9. Housed(seen')
    <3>1. seen'[<<"cycles", 0>>] # Absent
      BY <1>2, <2>4, <2>5
    <3>2. \A k \in Cycles : IsRecorded(seen', k) => seen'[<<"cycle", k>>] # Absent
      BY <1>1, <2>4, <2>6, <2>8 DEF Housed
    <3>. QED
      BY <3>1, <3>2 DEF Housed
  <2>10. Stands(seen', unflushed', m)
    BY <1>2, <2>2, <2>4, <2>5, <2>8 DEF Stands, OtherStages, WriteStages
  <2>. QED
    BY <1>1, <2>1, <2>7, <2>9, <2>10, LayMove
<1>11. CASE Rollout(p)
  <2>1. PICK t \in Trees : job' = [job EXCEPT ![p].tree = t, ![p].at = "tree"]
    BY <1>11 DEF Rollout
  <2>. DEFINE m == [j EXCEPT !.tree = t, !.at = "tree"]
  <2>2. job' = [job EXCEPT ![p] = m] /\ lock' = lock /\ UNCHANGED fsVars /\ j.at = "rollout"
    BY <1>11, <2>1 DEF Rollout
  <2>3. m.at = "tree" /\ m.phase = "open" /\ m.idx = j.idx /\ m.live = j.live
    BY <1>1 DEF Jobs
  <2>. HIDE DEF m
  <2>. QED
    BY <1>1, <1>3, <2>2, <2>3 DEF CycleStages, JobOK
<1>12. CASE Dream(p)
  <2>1. CASE \A k \in Replayed(j) : PoolHolds(k)
    <3>1. PICK q \in Policies : job' = [job EXCEPT ![p].next = q, ![p].at = "next"]
      BY <1>12, <2>1 DEF Dream
    <3>. DEFINE m == [j EXCEPT !.next = q, !.at = "next"]
    <3>2. job' = [job EXCEPT ![p] = m] /\ lock' = lock /\ UNCHANGED fsVars /\ j.at = "dream"
      BY <1>12, <2>1, <3>1 DEF Dream
    <3>3. m.at = "next" /\ m.phase = "open" /\ m.idx = j.idx /\ m.live = j.live
      BY <1>1 DEF Jobs
    <3>. HIDE DEF m
    <3>. QED
      BY <1>1, <1>3, <3>2, <3>3 DEF CycleStages, JobOK
  <2>2. CASE ~\A k \in Replayed(j) : PoolHolds(k)
    BY <1>4, <1>12, <2>2 DEF Dream
  <2>. QED
    BY <2>1, <2>2
<1>. QED
  BY <1>5, <1>6, <1>7, <1>8, <1>9, <1>10, <1>11, <1>12

\* What has to be on the device for a name to survive.
LEMMA SurvivorsAre ==
  ASSUME TypeInv
  PROVE  /\ Survivors[Root] = disk[Root]
         /\ \A d \in {"cycles", "pool"} :
              Survivors[<<d, 0>>] = IF disk[Root] = Absent THEN Absent ELSE disk[<<d, 0>>]
         /\ \A k \in Cycles :
              Survivors[<<"cycle", k>>] =
                IF Absent \in {disk[Root], disk[<<"cycles", 0>>]} THEN Absent
                                                                 ELSE disk[<<"cycle", k>>]
         /\ \A kind \in FileKinds, k \in Cycles :
              Survivors[<<kind, k>>] =
                IF Absent \in {disk[Root], disk[<<"cycles", 0>>], disk[<<"cycle", k>>]}
                THEN Absent ELSE disk[<<kind, k>>]
         /\ \A k \in Cycles :
              Survivors[<<"world", k>>] =
                IF Absent \in {disk[Root], disk[<<"pool", 0>>]} THEN Absent
                                                                ELSE disk[<<"world", k>>]
<1>1. /\ Root \in Names /\ \A d \in {"cycles", "pool"} : <<d, 0>> \in Names
      /\ \A kind \in {"cycle", "world"} \cup FileKinds, k \in Cycles : <<kind, k>> \in Names
  BY DEF Names, Root, RunKinds, PoolKinds
<1>2. Parent(Root) = Root /\ \A d \in {"cycles", "pool"} : Parent(<<d, 0>>) = Root
  BY DEF Parent, Root, RunKinds, FileKinds, PoolKinds
<1>3. /\ \A k \in Cycles : Parent(<<"cycle", k>>) = <<"cycles", 0>>
      /\ \A kind \in FileKinds, k \in Cycles : Parent(<<kind, k>>) = <<"cycle", k>>
      /\ \A k \in Cycles : Parent(<<"world", k>>) = <<"pool", 0>>
  BY DEF Parent, RunKinds, FileKinds, PoolKinds
<1>4. \A n \in Names : Survivors[n] =
        IF Absent \in {disk[Root], disk[Parent(n)], disk[Parent(Parent(n))]}
        THEN Absent ELSE disk[n]
  BY DEF Survivors
<1>5. \A kind \in FileKinds, k \in Cycles :
        Survivors[<<kind, k>>] =
          IF Absent \in {disk[Root], disk[<<"cycles", 0>>], disk[<<"cycle", k>>]}
          THEN Absent ELSE disk[<<kind, k>>]
  <2>. SUFFICES ASSUME NEW kind \in FileKinds, NEW k \in Cycles
                PROVE  Survivors[<<kind, k>>] =
                         IF Absent \in {disk[Root], disk[<<"cycles", 0>>], disk[<<"cycle", k>>]}
                         THEN Absent ELSE disk[<<kind, k>>]
    OBVIOUS
  <2>1. <<kind, k>> \in Names /\ Parent(<<kind, k>>) = <<"cycle", k>>
    BY <1>1, <1>3
  <2>2. Parent(Parent(<<kind, k>>)) = <<"cycles", 0>>
    BY <1>3, <2>1
  <2>. QED
    BY <1>4, <2>1, <2>2
<1>6. Survivors[Root] = disk[Root]
  BY <1>1, <1>2, <1>4
<1>7. \A d \in {"cycles", "pool"} :
        Survivors[<<d, 0>>] = IF disk[Root] = Absent THEN Absent ELSE disk[<<d, 0>>]
  BY <1>1, <1>2, <1>4
<1>8. \A k \in Cycles :
        Survivors[<<"cycle", k>>] =
          IF Absent \in {disk[Root], disk[<<"cycles", 0>>]} THEN Absent ELSE disk[<<"cycle", k>>]
  <2>. SUFFICES ASSUME NEW k \in Cycles
                PROVE  Survivors[<<"cycle", k>>] =
                         IF Absent \in {disk[Root], disk[<<"cycles", 0>>]}
                         THEN Absent ELSE disk[<<"cycle", k>>]
    OBVIOUS
  <2>1. <<"cycle", k>> \in Names /\ Parent(<<"cycle", k>>) = <<"cycles", 0>>
    BY <1>1, <1>3
  <2>2. Parent(Parent(<<"cycle", k>>)) = Root
    BY <1>2, <2>1
  <2>. QED
    BY <1>4, <2>1, <2>2
<1>9. \A k \in Cycles :
        Survivors[<<"world", k>>] =
          IF Absent \in {disk[Root], disk[<<"pool", 0>>]} THEN Absent ELSE disk[<<"world", k>>]
  <2>. SUFFICES ASSUME NEW k \in Cycles
                PROVE  Survivors[<<"world", k>>] =
                         IF Absent \in {disk[Root], disk[<<"pool", 0>>]}
                         THEN Absent ELSE disk[<<"world", k>>]
    OBVIOUS
  <2>1. <<"world", k>> \in Names /\ Parent(<<"world", k>>) = <<"pool", 0>>
    BY <1>1, <1>3
  <2>2. Parent(Parent(<<"world", k>>)) = Root
    BY <1>2, <2>1
  <2>. QED
    BY <1>4, <2>1, <2>2
<1>. QED
  BY <1>5, <1>6, <1>7, <1>8, <1>9

\* A session that begins stands on nothing yet.
LEMMA LayBegin ==
  ASSUME TypeInv, LayInv, NEW p \in Procs, NEW policy \in Policies,
         NEW want \in 1 .. MaxCycles, Begin(p, policy, want)
  PROVE  LayInv'
<1>. DEFINE m == [Idle EXCEPT !.at = "cycles", !.policy = policy, !.want = want,
                              !.source = policy]
<1>1. /\ job' = [job EXCEPT ![p] = m] /\ lock = Nobody /\ lock' = p /\ disk' = disk
      /\ seen' = [seen EXCEPT ![Root] = Some] /\ unflushed' = unflushed
      /\ job[p].at = "idle"
  BY DEF Begin
<1>2. m.at = "cycles" /\ m.phase = "open" /\ m.idx = 0
  BY DEF Idle
<1>. HIDE DEF m
<1>3. \A q \in Procs \ {p} : job[q].at = "idle"
  BY <1>1, Alone DEF LayInv
<1>4. \A n \in Keepers : seen'[n] = seen[n]
  BY <1>1, KeeperNames DEF TypeInv, TypeOK, FileMap
<1>5. \A n \in Keepers : seen[n] # Absent => disk[n] # Absent
  BY <1>1, <1>3, OnDevice DEF Putting, DirStages
<1>6. <<"cycles", 0>> \in Keepers /\ \A k \in Cycles, d \in {"cycle", "record"} : <<d, k>> \in Keepers
  BY DEF Keepers
<1>7. Housed(seen') /\ \A n \in unflushed : n[1] \in SlotKinds
  BY <1>4, <1>6 DEF LayInv, Housed, IsRecorded
<1>8. Stands(seen', unflushed', m)
  BY <1>2 DEF Stands, OtherStages, CycleStages, DirStages, WriteStages
<1>. QED
  BY <1>1, <1>3, <1>4, <1>5, <1>7, <1>8, LayMove

\* What the kernel writes back is what is seen, of every name a finished cycle depends on.
LEMMA LayWriteback ==
  ASSUME TypeInv, LayInv, NEW n \in Names, Writeback(n)
  PROVE  LayInv'
<1>1. /\ seen' = seen /\ unflushed' = unflushed /\ lock' = lock /\ job' = job
      /\ \E c \in {seen[n]} \cup {t \in {Torn} : n \in unflushed} : disk' = [disk EXCEPT ![n] = c]
  BY DEF Writeback
<1>2. ASSUME NEW i \in Keepers
      PROVE  disk'[i] = disk[i] \/ disk'[i] = seen[i]
  <2>1. i \notin unflushed
    BY KeeperNames DEF LayInv, SlotKinds
  <2>. QED
    BY <1>1, <2>1, KeeperNames DEF TypeInv, TypeOK, FileMap
<1>3. \A i \in Keepers : seen'[i] # Absent => disk'[i] # Absent \/ \E p \in Procs : Putting(job'[p], i)
  BY <1>1, <1>2 DEF LayInv
<1>4. \A p \in Procs : Stands(seen', unflushed', job'[p])
  BY <1>1 DEF LayInv
<1>. QED
  BY <1>1, <1>3, <1>4 DEF LayInv, OneSession

\* A power loss leaves a record in the directories it is in.
LEMMA LayPowerLoss ==
  ASSUME TypeInv, LayInv, PowerLoss
  PROVE  LayInv'
<1>1. /\ seen' = Survivors /\ disk' = Survivors /\ unflushed' = {}
      /\ \A p \in Procs : job'[p].at = "idle" /\ job'[p].phase = "open"
  BY DEF PowerLoss, Idle
<1>2. Housed(Survivors)
  BY SurvivorsAre DEF Housed, IsRecorded, FileKinds
<1>3. \A p \in Procs : Stands(seen', unflushed', job'[p])
  BY <1>1, IdleStands
<1>. QED
  BY <1>1, <1>2, <1>3 DEF LayInv, OneSession

\* A file lost between sessions is lost on the device too.
LEMMA LayLoseFile ==
  ASSUME TypeInv, LayInv, NEW kind \in Published, NEW k \in Cycles, NEW left \in {Absent, Torn},
         LoseFile(kind, k, left)
  PROVE  LayInv'
<1>. DEFINE n == <<kind, k>>
<1>1. /\ lock = Nobody /\ lock' = lock /\ job' = job /\ unflushed' = unflushed
      /\ n \in Names /\ (left = Torn => kind = "world")
      /\ seen' = [seen EXCEPT ![n] = left] /\ disk' = [disk EXCEPT ![n] = left]
  BY DEF LoseFile
<1>2. \A p \in Procs : job[p].at = "idle" /\ job[p].phase = "open"
  BY <1>1, ConstantsDistinct DEF TypeInv, TypeOK, LayInv, OneSession, Stands, OtherStages
<1>3. \A i \in Names \ {n} : seen'[i] = seen[i] /\ disk'[i] = disk[i]
  BY <1>1 DEF TypeInv, TypeOK, FileMap
<1>4. seen'[n] = disk'[n]
  BY <1>1 DEF TypeInv, TypeOK, FileMap
<1>5. kind = "record" => seen'[n] = Absent
  BY <1>1 DEF TypeInv, TypeOK, FileMap
<1>6. \A i \in Keepers : seen'[i] # Absent => disk'[i] # Absent
  BY <1>2, <1>3, <1>4, KeeperNames DEF LayInv, Putting, DirStages
<1>7. Housed(seen')
  <2>1. /\ <<"cycles", 0>> \in Names \ {n}
        /\ \A i \in Cycles : <<"cycle", i>> \in Names \ {n} /\ <<"record", i>> \in Names
    BY DEF Names, RunKinds, FileKinds, Published
  <2>2. \A i \in Cycles : IsRecorded(seen', i) => IsRecorded(seen, i)
    BY <1>3, <1>5, <2>1 DEF IsRecorded
  <2>. QED
    BY <1>3, <2>1, <2>2 DEF LayInv, Housed
<1>8. \A p \in Procs : Stands(seen', unflushed', job'[p])
  BY <1>1, <1>2, IdleStands
<1>9. OneSession' /\ \A i \in unflushed' : i[1] \in SlotKinds
  BY <1>1 DEF LayInv, OneSession
<1>. QED
  BY <1>6, <1>7, <1>8, <1>9 DEF LayInv

LEMMA LayStep ==
  ASSUME NoStops, TypeInv, LayInv, [Next]_vars
  PROVE  LayInv'
<1>1. ASSUME NEW p \in Procs, Step(p)
      PROVE  LayInv'
  BY <1>1, LayPublish, LayDecide DEF Step
<1>2. ASSUME NEW p \in Procs
      PROVE  ~Stop(p)
  BY DEF Stop, NoStops, TypeInv, TypeOK
<1>3. CASE UNCHANGED vars
  BY <1>3 DEF vars, LayInv, OneSession, Putting, Stands
<1>. QED
  BY <1>1, <1>2, <1>3, LayBegin, LayWriteback, LayPowerLoss, LayLoseFile DEF Next, Environment

LEMMA LayInit == Init => LayInv
<1>. SUFFICES ASSUME Init PROVE LayInv
  OBVIOUS
<1>1. \A p \in Procs : job[p].at = "idle" /\ job[p].phase = "open"
  BY DEF Init, Idle
<1>2. \A n \in Keepers : seen[n] = Absent
  BY KeeperNames DEF Init
<1>3. Housed(seen)
  BY <1>2 DEF Housed, IsRecorded, Keepers
<1>4. \A p \in Procs : Stands(seen, unflushed, job[p])
  BY <1>1, IdleStands
<1>. QED
  BY <1>1, <1>2, <1>3, <1>4 DEF LayInv, OneSession, Init

-----------------------------------------------------------------------------
(* Every step keeps the acknowledged cycles.                                 *)

\* One session that moves past the acknowledged cycles, which keep their records.
LEMMA AckMove ==
  ASSUME TypeInv, AckInv, NEW p \in Procs, NEW m, job' = [job EXCEPT ![p] = m],
         \A q \in Procs \ {p} : job[q].at = "idle" /\ job[q].live = FALSE,
         disk'[Root] # Absent, seen'[Root] # Absent,
         \A k \in acked' : /\ 0 .. k - 1 \subseteq acked'
                           /\ IsRecorded(seen', k) /\ IsRecorded(disk', k),
         Past(acked', m), Renaming(seen', m)
  PROVE  AckInv'
<1>1. job'[p] = m /\ \A q \in Procs \ {p} : job'[q] = job[q]
  BY DEF TypeInv, TypeOK
<1>2. \A q \in Procs : Past(acked', job'[q])
  BY <1>1 DEF Past
<1>3. \A q \in Procs : Renaming(seen', job'[q])
  BY <1>1 DEF Renaming
<1>. QED
  BY <1>2, <1>3 DEF AckInv

\* A session that works on a cycle does so past every acknowledged one.
LEMMA AckBehind ==
  ASSUME TypeInv, AckInv, NEW p \in Procs, job[p].at \in CycleStages, job[p].live
  PROVE  \A k \in acked : k < job[p].idx /\ k # job[p].idx
<1>1. job[p].idx < job[p].want
  BY DEF TypeInv, JobOK
<1>2. \A k \in acked : k < job[p].idx
  BY <1>1 DEF AckInv, Past
<1>3. job[p].idx \in Nat /\ acked \subseteq Nat
  BY BoundsAreNat DEF TypeInv, TypeOK, JobOK, Jobs, Cycles
<1>. QED
  BY <1>2, <1>3

\* The names a stage writes are not the root, and are no acknowledged cycle's record.
LEMMA AckNames ==
  ASSUME TypeInv, AckInv, NEW p \in Procs, job[p].at \in WriteStages \cup DirStages
  PROVE  /\ Root \notin {Kind(job[p]), Slot(job[p])}
         /\ \A k \in acked : <<"record", k>> \notin {Kind(job[p]), Slot(job[p])}
         /\ Root \in Names /\ \A k \in Cycles : <<"record", k>> \in Names \ {Root}
         /\ acked \subseteq Cycles
<1>. DEFINE j == job[p]
<1>1. JobOK(j)
  BY DEF TypeInv
<1>2. Kind(j)[1] = j.at /\ (Slot(j) = Kind(j) \/ Slot(j)[1] \in {"session.tmp", "world.tmp", "record.tmp"})
  BY <1>1, Places
<1>3. j.at \notin {"root"}
  BY DEF WriteStages, DirStages
<1>4. ASSUME NEW k \in acked
      PROVE  <<"record", k>> # Kind(j)
  <2>1. CASE j.at # "record"
    BY <1>2, <2>1
  <2>2. CASE j.at = "record"
    <3>1. Kind(j) = <<"record", j.idx>>
      BY <1>1, <2>2, PutNames
    <3>2. k # j.idx
      BY <1>1, <2>2, AckBehind DEF CycleStages, JobOK
    <3>. QED
      BY <3>1, <3>2
  <2>. QED
    BY <2>1, <2>2
<1>5. acked \subseteq Cycles /\ Root \in Names /\ \A k \in Cycles : <<"record", k>> \in Names \ {Root}
  BY DEF TypeInv, TypeOK, Root, Names, RunKinds, FileKinds
<1>. QED
  BY <1>2, <1>3, <1>4, <1>5 DEF Root

LEMMA AckPublish ==
  ASSUME TypeInv, LayInv, AckInv, NEW p \in Procs,
         \/ MakeDirectory(p) \/ SyncParents(p)
         \/ OpenFile(p) \/ FlushFile(p) \/ SyncName(p) \/ Rename(p) \/ SyncRename(p)
  PROVE  AckInv'
<1>. DEFINE j == job[p]
<1>1. /\ j.at \in WriteStages \cup DirStages /\ JobOK(j) /\ j \in Jobs
      /\ Past(acked, j) /\ Renaming(seen, j)
      /\ \A q \in Procs \ {p} : job[q].at = "idle" /\ job[q].live = FALSE
  <2>1. j.at \in WriteStages \cup DirStages
    BY DEF MakeDirectory, SyncParents, OpenFile, FlushFile, SyncName, Rename, SyncRename,
           StagedKinds, WriteStages
  <2>2. j.at # "idle"
    BY <2>1 DEF WriteStages, DirStages
  <2>. QED
    BY <2>1, <2>2, Alone DEF TypeInv, TypeOK, JobOK, LayInv, AckInv, Past, Jobs
<1>2. /\ Root \notin {Kind(j), Slot(j)}
      /\ \A k \in acked : <<"record", k>> \notin {Kind(j), Slot(j)}
      /\ Root \in Names /\ \A k \in Cycles : <<"record", k>> \in Names \ {Root}
      /\ acked \subseteq Cycles
  BY <1>1, AckNames
<1>3. /\ DOMAIN seen = Names /\ DOMAIN disk = Names
      /\ seen[Root] # Absent /\ disk[Root] # Absent
      /\ \A k \in acked : /\ 0 .. k - 1 \subseteq acked
                         /\ IsRecorded(seen, k) /\ IsRecorded(disk, k)
  BY DEF AckInv, TypeInv, TypeOK, FileMap
<1>4. ASSUME NEW m, job' = [job EXCEPT ![p] = m], acked' = acked,
             \A n \in {Root} \cup ({"record"} \X acked) :
               /\ seen'[n] = seen[n]
               /\ disk'[n] = disk[n] \/ disk'[n] = seen[n],
             Past(acked, m), Renaming(seen', m)
      PROVE  AckInv'
  <2>1. seen'[Root] # Absent /\ disk'[Root] # Absent
    BY <1>3, <1>4
  <2>2. \A k \in acked : IsRecorded(seen', k) /\ IsRecorded(disk', k)
    BY <1>3, <1>4 DEF IsRecorded
  <2>. QED
    BY <1>1, <1>3, <1>4, <2>1, <2>2, AckMove
<1>5. ASSUME NEW phase \in Phases
      PROVE  LET m == [j EXCEPT !.phase = phase] IN
             /\ m.at = j.at /\ m.phase = phase /\ m.idx = j.idx
             /\ Kind(m) = Kind(j) /\ Slot(m) = Slot(j) /\ Past(acked, m)
  BY <1>1 DEF Jobs, Kind, Slot, Past
<1>6. ASSUME j.at # "record", NEW fs
      PROVE  Past(acked, Advanced(j)) /\ Renaming(fs, Advanced(j))
  <2>. DEFINE a == Advanced(j)
  <2>1. /\ a.at = After(j) /\ a.phase = "open" /\ a.idx = j.idx /\ a.want = j.want
        /\ a.live = j.live /\ a.at # "idle"
    BY <1>1, <1>6, AdvancedFields DEF CycleOver, After, WriteStages, DirStages
  <2>. SUFFICES Past(acked, a) /\ Renaming(fs, a)
    OBVIOUS
  <2>. HIDE DEF a
  <2>2. j.at \in StartStages => j.idx = 0
    BY <1>1 DEF JobOK
  <2>3. 0 .. j.idx - 1 \subseteq acked
    BY <1>1, <2>2 DEF Past, WriteStages, DirStages
  <2>. QED
    BY <1>1, <2>1, <2>3 DEF Past, Renaming
<1>7. \A n \in {Root} \cup ({"record"} \X acked) : n \in Names \ {Kind(j), Slot(j)}
  BY <1>2
<1>8. CASE MakeDirectory(p)
  <2>1. /\ j.at \in DirStages /\ disk' = disk /\ acked' = acked
        /\ seen' = seen \/ seen' = [seen EXCEPT ![Kind(j)] = Some]
        /\ \/ job' = [job EXCEPT ![p] = Advanced(j)]
           \/ job' = [job EXCEPT ![p] = [j EXCEPT !.phase = "sync"]]
    BY <1>8 DEF MakeDirectory
  <2>2. j.at # "record"
    BY <2>1 DEF DirStages
  <2>3. \A n \in {Root} \cup ({"record"} \X acked) : seen'[n] = seen[n]
    BY <1>3, <1>7, <2>1
  <2>4. CASE job' = [job EXCEPT ![p] = Advanced(j)]
    BY <1>4, <1>6, <2>1, <2>2, <2>3, <2>4
  <2>5. CASE job' = [job EXCEPT ![p] = [j EXCEPT !.phase = "sync"]]
    <3>. DEFINE m == [j EXCEPT !.phase = "sync"]
    <3>1. Past(acked, m) /\ m.at # "record"
      BY <1>5, <2>2 DEF Phases
    <3>2. Renaming(seen', m)
      BY <3>1 DEF Renaming
    <3>. QED
      BY <1>4, <2>1, <2>3, <2>5, <3>1, <3>2
  <2>. QED
    BY <2>1, <2>4, <2>5
<1>9. CASE SyncParents(p)
  <2>1. /\ j.at # "record" /\ seen' = seen /\ acked' = acked
        /\ job' = [job EXCEPT ![p] = Advanced(j)]
        /\ \E ds : SyncDirs(ds)
    BY <1>9 DEF SyncParents, DirStages
  <2>2. \A n \in Names : disk'[n] = disk[n] \/ disk'[n] = seen[n]
    BY <2>1, SyncedDirs
  <2>. QED
    BY <1>4, <1>6, <1>7, <2>1, <2>2
<1>10. CASE OpenFile(p) \/ FlushFile(p)
  <2>1. PICK phase \in {"flush", "name"} : job' = [job EXCEPT ![p] = [j EXCEPT !.phase = phase]]
    BY <1>10 DEF OpenFile, FlushFile
  <2>. DEFINE m == [j EXCEPT !.phase = phase]
  <2>2. /\ m.at = j.at /\ m.phase = phase /\ m.idx = j.idx
        /\ Slot(m) = Slot(j) /\ Past(acked, m)
    BY <1>5, <2>1 DEF Phases
  <2>. HIDE DEF m
  <2>3. \A n \in {Root} \cup ({"record"} \X acked) : seen'[n] = seen[n] /\ disk'[n] = disk[n]
    BY <1>3, <1>7, <1>10 DEF OpenFile, FlushFile
  <2>4. OpenFile(p) => seen'[Slot(j)] # Absent
    BY <1>1, <1>3, SlotType, ConstantsDistinct DEF OpenFile
  <2>5. FlushFile(p) /\ j.at = "record" => seen'[Slot(j)] # Absent
    <3>1. j.at = "record" => Data(j) \in Records
      BY <1>1 DEF Data, JobOK, TreeStages, Records, CycleStages
    <3>. QED
      BY <1>1, <1>3, <3>1, SlotType, ConstantsDistinct DEF FlushFile
  <2>6. Renaming(seen', m)
    BY <1>10, <2>1, <2>2, <2>4, <2>5 DEF Renaming
  <2>. QED
    BY <1>4, <1>10, <2>1, <2>2, <2>3, <2>6 DEF OpenFile, FlushFile, m
<1>11. CASE SyncName(p)
  <2>1. /\ j.at \in WriteStages /\ j.phase = "name" /\ seen' = seen /\ acked' = acked
        /\ SyncDirs({Parent(Slot(j))})
    BY <1>11 DEF SyncName
  <2>2. \A n \in {Root} \cup ({"record"} \X acked) : disk'[n] = disk[n] \/ disk'[n] = seen[n]
    BY <1>7, <2>1, SyncedDirs
  <2>3. CASE j.at \in StagedKinds
    <3>. DEFINE m == [j EXCEPT !.phase = "rename"]
    <3>1. job' = [job EXCEPT ![p] = m]
      BY <1>11, <2>3 DEF SyncName
    <3>2. /\ m.at = j.at /\ m.phase = "rename" /\ Slot(m) = Slot(j) /\ Past(acked, m)
      BY <1>5 DEF Phases
    <3>. HIDE DEF m
    <3>3. Renaming(seen', m)
      BY <1>1, <2>1, <3>2 DEF Renaming
    <3>. QED
      BY <1>4, <2>1, <2>2, <3>1, <3>2, <3>3
  <2>4. CASE j.at \notin StagedKinds
    <3>1. job' = [job EXCEPT ![p] = Advanced(j)] /\ j.at # "record"
      BY <1>11, <2>4 DEF SyncName, StagedKinds
    <3>. QED
      BY <1>4, <1>6, <2>1, <2>2, <3>1
  <2>. QED
    BY <2>3, <2>4
<1>12. CASE Rename(p)
  <2>. DEFINE m == [j EXCEPT !.phase = "sync"]
  <2>1. /\ j.at \in StagedKinds /\ j.phase = "rename" /\ disk' = disk /\ acked' = acked
        /\ job' = [job EXCEPT ![p] = m]
        /\ seen' = [seen EXCEPT ![Kind(j)] = seen[Slot(j)], ![Slot(j)] = Absent]
    BY <1>12 DEF Rename
  <2>2. m.at = j.at /\ m.phase = "sync" /\ m.idx = j.idx /\ Past(acked, m)
    BY <1>5 DEF Phases
  <2>. HIDE DEF m
  <2>3. \A n \in {Root} \cup ({"record"} \X acked) : seen'[n] = seen[n]
    BY <1>3, <1>7, <2>1
  <2>4. ASSUME j.at = "record"
        PROVE  IsRecorded(seen', j.idx)
    <3>1. Kind(j) = <<"record", j.idx>> /\ Kind(j) \in Names
      BY <1>1, <2>4, PutNames, SlotType
    <3>2. Slot(j) # Kind(j)
      BY <1>1, <2>1, Places DEF StagedKinds
    <3>. QED
      BY <1>1, <1>3, <2>1, <2>4, <3>1, <3>2 DEF Renaming, IsRecorded
  <2>5. Renaming(seen', m)
    BY <2>2, <2>4 DEF Renaming
  <2>. QED
    BY <1>4, <2>1, <2>2, <2>3, <2>5
<1>13. CASE SyncRename(p)
  <2>1. /\ j.at \in StagedKinds /\ j.phase = "sync" /\ seen' = seen
        /\ SyncDirs({Parent(Kind(j))}) /\ Acknowledge(j)
        /\ job' = [job EXCEPT ![p] = Advanced(j)]
    BY <1>13 DEF SyncRename
  <2>2. \A n \in Names : disk'[n] = disk[n] \/ disk'[n] = seen[n]
    BY <2>1, SyncedDirs
  <2>3. CASE j.at # "record"
    BY <1>4, <1>6, <1>7, <2>1, <2>2, <2>3 DEF Acknowledge, CycleOver
  <2>4. CASE j.at = "record"
    <3>. DEFINE a == Advanced(j)
                k == j.idx
    <3>1. /\ a.at = "loop" /\ a.phase = "open" /\ a.idx = k + 1 /\ a.want = j.want
      BY <1>1, <2>4, AdvancedFields DEF CycleOver, After
    <3>. HIDE DEF a
    <3>2. acked' = acked \cup {k}
      BY <2>1, <2>4 DEF Acknowledge, CycleOver
    <3>3. Kind(j) = <<"record", k>> /\ k \in Cycles /\ IsRecorded(seen, k)
      BY <1>1, <2>1, <2>4, PutNames DEF Renaming
    <3>4. IsRecorded(disk', k)
      BY <1>2, <2>1, <3>3, SyncedDirs DEF IsRecorded
    <3>5. 0 .. k - 1 \subseteq acked /\ \A i \in acked : i < k
      BY <1>1, <2>4, AckBehind DEF Past, CycleStages, JobOK, StartStages
    <3>6. ASSUME NEW i \in acked'
          PROVE  /\ 0 .. i - 1 \subseteq acked'
                 /\ IsRecorded(seen', i) /\ IsRecorded(disk', i)
      <4>1. CASE i = k
        BY <2>1, <3>2, <3>3, <3>4, <3>5, <4>1 DEF IsRecorded
      <4>2. CASE i \in acked
        <5>1. 0 .. i - 1 \subseteq acked /\ IsRecorded(seen, i) /\ IsRecorded(disk, i)
          BY <1>3, <4>2
        <5>2. <<"record", i>> \in Names
          BY <1>2, <4>2
        <5>3. IsRecorded(seen', i) /\ IsRecorded(disk', i)
          BY <2>1, <2>2, <5>1, <5>2 DEF IsRecorded
        <5>. QED
          BY <3>2, <5>1, <5>3
      <4>. QED
        BY <3>2, <4>1, <4>2
    <3>7. Past(acked', a)
      <4>1. k \in Nat /\ acked \subseteq Nat
        BY <1>2, <3>3, BoundsAreNat DEF Cycles
      <4>2. ASSUME NEW i \in acked' PROVE i < k + 1
        <5>1. i \in acked \/ i = k
          BY <3>2
        <5>2. i \in acked => i \in Nat /\ i < k
          BY <3>5, <4>1
        <5>. QED
          BY <4>1, <5>1, <5>2
      <4>3. 0 .. (k + 1) - 1 \subseteq acked'
        BY <3>2, <3>5, <4>1
      <4>. QED
        BY <3>1, <4>2, <4>3 DEF Past
    <3>8. Renaming(seen', a)
      BY <3>1 DEF Renaming
    <3>9. disk'[Root] # Absent /\ seen'[Root] # Absent
      BY <1>2, <1>3, <2>1, <2>2
    <3>. QED
      BY <1>1, <2>1, <3>6, <3>7, <3>8, <3>9, AckMove DEF a
  <2>. QED
    BY <2>3, <2>4
<1>. QED
  BY <1>8, <1>9, <1>10, <1>11, <1>12, <1>13

LEMMA IdleBehind ==
  ASSUME NEW done, NEW fs
  PROVE  Past(done, Idle) /\ Renaming(fs, Idle)
BY DEF Past, Renaming, Idle

LEMMA AckDecide ==
  ASSUME TypeInv, LayInv, AckInv, NEW p \in Procs,
         \/ CheckManifest(p) \/ ResumeCycle(p) \/ ResumeDone(p) \/ NextCycle(p) \/ Finish(p)
         \/ Clear(p) \/ Rollout(p) \/ Dream(p)
  PROVE  AckInv'
<1>. DEFINE j == job[p]
<1>1. /\ JobOK(j) /\ j \in Jobs /\ j.at # "idle" /\ j.at \in OtherStages /\ Past(acked, j)
      /\ \A q \in Procs \ {p} : job[q].at = "idle" /\ job[q].live = FALSE
      /\ disk' = disk
  <2>1. j.at # "idle" /\ j.at \in OtherStages /\ disk' = disk
    BY DEF CheckManifest, ResumeCycle, ResumeDone, NextCycle, Finish, Clear, Rollout, Dream,
           OtherStages, fsVars
  <2>. QED
    BY <2>1, Alone DEF TypeInv, TypeOK, JobOK, LayInv, AckInv, Past, Jobs
<1>2. /\ DOMAIN seen = Names /\ acked \subseteq Cycles
      /\ seen[Root] # Absent /\ disk[Root] # Absent
      /\ \A k \in acked : /\ 0 .. k - 1 \subseteq acked
                         /\ IsRecorded(seen, k) /\ IsRecorded(disk, k)
  BY DEF AckInv, TypeInv, TypeOK, FileMap
<1>3. acked \subseteq Nat /\ j.idx \in Nat /\ j.want \in Nat
  BY <1>1, <1>2, BoundsAreNat DEF Cycles, Jobs
<1>4. ASSUME NEW m, job' = [job EXCEPT ![p] = m], acked' = acked, seen' = seen,
             Past(acked, m), m.at # "record"
      PROVE  AckInv'
  <2>1. Renaming(seen', m)
    BY <1>4 DEF Renaming
  <2>. QED
    BY <1>1, <1>2, <1>4, <2>1, AckMove
<1>5. ASSUME NEW how, Leave(p, how), acked' = acked, seen' = seen
      PROVE  AckInv'
  <2>1. job' = [job EXCEPT ![p] = Idle] /\ Idle.at # "record" /\ Past(acked, Idle)
    BY <1>5, IdleBehind DEF Leave, Idle
  <2>. QED
    BY <1>4, <1>5, <2>1
<1>6. ASSUME NEW m, m.idx = j.idx, m.want = j.want, m.live = j.live, m.at # "idle",
             j.at \in StartStages \/ m.at \notin StartStages
      PROVE  Past(acked, m)
  <2>1. j.at \in StartStages => j.idx = 0
    BY <1>1 DEF JobOK
  <2>2. 0 .. j.idx - 1 \subseteq acked
    BY <1>1, <2>1 DEF Past
  <2>. QED
    BY <1>1, <1>6, <2>2 DEF Past
<1>7. CASE CheckManifest(p)
  <2>1. CASE \E stage \in {"manifest", "session"} : Goto(p, stage) /\ UNCHANGED <<lock, verdict>>
    <3>1. PICK stage \in {"manifest", "session"} : Goto(p, stage)
      BY <2>1
    <3>. DEFINE m == [j EXCEPT !.at = stage]
    <3>2. job' = [job EXCEPT ![p] = m]
      BY <3>1 DEF Goto
    <3>3. m.at = stage /\ m.idx = j.idx /\ m.want = j.want /\ m.live = j.live
      BY <1>1 DEF Jobs
    <3>. HIDE DEF m
    <3>4. Past(acked, m)
      BY <1>6, <1>7, <3>3 DEF CheckManifest, StartStages
    <3>. QED
      BY <1>4, <1>7, <3>2, <3>3, <3>4 DEF CheckManifest, fsVars
  <2>2. CASE \E how \in Verdicts : Leave(p, how)
    BY <1>5, <1>7, <2>2 DEF CheckManifest, fsVars
  <2>. QED
    BY <1>7, <2>1, <2>2 DEF CheckManifest, Verdicts
<1>8. CASE ResumeCycle(p)
  <2>. DEFINE k == j.idx
              walks == [j EXCEPT !.idx = k + 1, !.source = seen[<<"next", k>>]]
              restores == [j EXCEPT !.at = "pool", !.tree = seen[<<"tree", k>>]]
  <2>1. /\ j.at = "resume" /\ k < j.want /\ IsRecorded(seen, k) /\ seen' = seen
    BY <1>8 DEF ResumeCycle, HasRecord, IsRecorded, fsVars
  <2>2. j.live = FALSE /\ k \in Cycles
    BY <1>1, <2>1, BoundsAreNat DEF JobOK, Jobs, Cycles
  <2>3. \/ job' = [job EXCEPT ![p] = walks] /\ acked' = acked \cup {k}
        \/ job' = [job EXCEPT ![p] = restores] /\ acked' = acked
        \/ Leave(p, "broken") /\ acked' = acked
    BY <1>8 DEF ResumeCycle
  <2>4. walks.at = "resume" /\ walks.idx = k + 1 /\ walks.live = FALSE
    BY <1>1, <2>1, <2>2 DEF Jobs
  <2>5. /\ restores.at = "pool" /\ restores.idx = k /\ restores.want = j.want
        /\ restores.live = j.live
    BY <1>1 DEF Jobs
  <2>. HIDE DEF walks, restores
  <2>6. CASE job' = [job EXCEPT ![p] = walks] /\ acked' = acked \cup {k}
    <3>1. 0 .. k - 1 \subseteq acked
      BY <1>1, <2>1 DEF Past, StartStages
    <3>2. IsRecorded(disk, k)
      <4>1. <<"record", k>> \in Keepers
        BY <2>2 DEF Keepers
      <4>2. ~Putting(j, <<"record", k>>)
        BY <2>1 DEF Putting, DirStages
      <4>. QED
        BY <1>1, <2>1, <4>1, <4>2, OnDevice DEF IsRecorded
    <3>3. \A i \in acked' : /\ 0 .. i - 1 \subseteq acked'
                           /\ IsRecorded(seen', i) /\ IsRecorded(disk', i)
      BY <1>1, <1>2, <2>1, <2>6, <3>1, <3>2
    <3>4. 0 .. (k + 1) - 1 \subseteq acked'
      BY <1>3, <2>6, <3>1
    <3>5. Past(acked', walks) /\ Renaming(seen', walks)
      BY <2>4, <3>4 DEF Past, Renaming
    <3>. QED
      BY <1>1, <1>2, <2>1, <2>6, <3>3, <3>5, AckMove
  <2>7. CASE job' = [job EXCEPT ![p] = restores] /\ acked' = acked
    BY <1>4, <1>6, <2>1, <2>5, <2>7 DEF StartStages
  <2>. QED
    BY <1>5, <2>1, <2>3, <2>6, <2>7
<1>9. CASE ResumeDone(p)
  <2>. DEFINE m == [j EXCEPT !.live = TRUE, !.at = "loop"]
  <2>1. /\ j.at = "resume" /\ job' = [job EXCEPT ![p] = m] /\ seen' = seen /\ acked' = acked
        /\ j.idx < j.want => ~IsRecorded(seen, j.idx)
    BY <1>9 DEF ResumeDone, HasRecord, IsRecorded, fsVars
  <2>2. m.at = "loop" /\ m.idx = j.idx /\ m.want = j.want
    BY <1>1 DEF Jobs
  <2>. HIDE DEF m
  <2>3. j.idx < j.want => \A k \in acked : k < j.idx
    <3>. SUFFICES ASSUME j.idx < j.want, NEW k \in acked, ~(k < j.idx)
                  PROVE  FALSE
      OBVIOUS
    <3>1. j.idx \notin acked
      BY <1>2, <2>1
    <3>2. j.idx \in 0 .. k - 1
      BY <1>3, <3>1
    <3>. QED
      BY <1>2, <3>1, <3>2
  <2>4. 0 .. j.idx - 1 \subseteq acked
    BY <1>1, <2>1 DEF Past, StartStages
  <2>5. Past(acked, m)
    BY <2>2, <2>3, <2>4 DEF Past
  <2>. QED
    BY <1>4, <2>1, <2>2, <2>5
<1>10. CASE NextCycle(p)
  <2>. DEFINE m == [j EXCEPT !.at = "clear"]
  <2>1. job' = [job EXCEPT ![p] = m] /\ seen' = seen /\ acked' = acked
    BY <1>10 DEF NextCycle, Goto, fsVars
  <2>2. m.at = "clear" /\ m.idx = j.idx /\ m.want = j.want /\ m.live = j.live
    BY <1>1 DEF Jobs
  <2>. HIDE DEF m
  <2>. QED
    BY <1>4, <1>6, <2>1, <2>2 DEF StartStages
<1>11. CASE Finish(p)
  BY <1>5, <1>11 DEF Finish, fsVars
<1>12. CASE Clear(p)
  <2>. DEFINE m == [j EXCEPT !.at = "cycle"]
  <2>1. /\ job' = [job EXCEPT ![p] = m] /\ seen' = Without(CycleNames(j.idx))
        /\ j.at = "clear" /\ acked' = acked
    BY <1>12 DEF Clear, Goto
  <2>2. m.at = "cycle" /\ m.idx = j.idx /\ m.want = j.want /\ m.live = j.live
    BY <1>1 DEF Jobs
  <2>. HIDE DEF m
  <2>3. \A k \in acked : k # j.idx
    BY <1>1, <2>1, AckBehind DEF JobOK, CycleStages
  <2>4. Root \in Names \ CycleNames(j.idx)
    BY DEF CycleNames, Entries, Names, Root, RunKinds
  <2>5. \A k \in acked : <<"record", k>> \in Names \ CycleNames(j.idx)
    <3>1. \A k \in Cycles : <<"record", k>> \in Names
      BY DEF Names, FileKinds
    <3>2. \A k \in Cycles : Parent(<<"record", k>>) = <<"cycle", k>>
      BY DEF Parent, FileKinds, PoolKinds, RunKinds
    <3>3. \A k \in acked : <<"cycle", k>> # <<"cycle", j.idx>>
      BY <2>3
    <3>. QED
      BY <1>2, <3>1, <3>2, <3>3 DEF CycleNames, Entries
  <2>6. \A n \in Names \ CycleNames(j.idx) : seen'[n] = seen[n]
    BY <2>1 DEF Without
  <2>7. Past(acked, m) /\ Renaming(seen', m)
    BY <1>6, <2>2 DEF Renaming, StartStages
  <2>8. \A k \in acked : IsRecorded(seen', k) /\ IsRecorded(disk', k)
    BY <1>1, <1>2, <2>5, <2>6 DEF IsRecorded
  <2>. QED
    BY <1>1, <1>2, <2>1, <2>4, <2>6, <2>7, <2>8, AckMove
<1>13. CASE Rollout(p)
  <2>1. PICK t \in Trees : job' = [job EXCEPT ![p].tree = t, ![p].at = "tree"]
    BY <1>13 DEF Rollout
  <2>. DEFINE m == [j EXCEPT !.tree = t, !.at = "tree"]
  <2>2. job' = [job EXCEPT ![p] = m] /\ seen' = seen /\ acked' = acked
    BY <1>13, <2>1 DEF Rollout, fsVars
  <2>3. m.at = "tree" /\ m.idx = j.idx /\ m.want = j.want /\ m.live = j.live
    BY <1>1 DEF Jobs
  <2>. HIDE DEF m
  <2>. QED
    BY <1>4, <1>6, <2>2, <2>3 DEF StartStages
<1>14. CASE Dream(p)
  <2>1. CASE \A k \in Replayed(j) : PoolHolds(k)
    <3>1. PICK q \in Policies : job' = [job EXCEPT ![p].next = q, ![p].at = "next"]
      BY <1>14, <2>1 DEF Dream
    <3>. DEFINE m == [j EXCEPT !.next = q, !.at = "next"]
    <3>2. job' = [job EXCEPT ![p] = m] /\ seen' = seen /\ acked' = acked
      BY <1>14, <2>1, <3>1 DEF Dream, fsVars
    <3>3. m.at = "next" /\ m.idx = j.idx /\ m.want = j.want /\ m.live = j.live
      BY <1>1 DEF Jobs
    <3>. HIDE DEF m
    <3>. QED
      BY <1>4, <1>6, <3>2, <3>3 DEF StartStages
  <2>2. CASE ~\A k \in Replayed(j) : PoolHolds(k)
    BY <1>5, <1>14, <2>2 DEF Dream, fsVars
  <2>. QED
    BY <2>1, <2>2
<1>. QED
  BY <1>7, <1>8, <1>9, <1>10, <1>11, <1>12, <1>13, <1>14

\* An acknowledged cycle's record would survive a power loss at this instant.
LEMMA AckSurvives ==
  ASSUME TypeInv, LayInv, AckInv, NEW k \in acked
  PROVE  IsRecorded(Survivors, k)
<1>1. k \in Cycles /\ IsRecorded(seen, k) /\ IsRecorded(disk, k) /\ disk[Root] # Absent
  BY DEF AckInv, TypeInv, TypeOK
<1>2. seen[<<"cycle", k>>] # Absent /\ seen[<<"cycles", 0>>] # Absent
  BY <1>1 DEF LayInv, Housed
<1>3. <<"cycle", k>> \in Keepers /\ <<"cycles", 0>> \in Keepers
  BY <1>1 DEF Keepers
<1>4. ASSUME NEW p \in Procs, Putting(job[p], <<"cycle", k>>)
      PROVE  FALSE
  <2>1. job[p].at \in DirStages \cup {"record"} /\ Kind(job[p]) = <<"cycle", k>> /\ JobOK(job[p])
    BY <1>4 DEF Putting, TypeInv
  <2>2. job[p].at = "cycle" /\ job[p].idx = k
    BY <2>1, PutNames DEF DirStages
  <2>. QED
    BY <1>1, <2>2 DEF LayInv, Stands
<1>5. ASSUME NEW p \in Procs, Putting(job[p], <<"cycles", 0>>)
      PROVE  FALSE
  <2>1. /\ job[p].at \in DirStages \cup {"record"} /\ Kind(job[p]) = <<"cycles", 0>>
        /\ JobOK(job[p]) /\ job[p].phase = "sync"
    BY <1>5 DEF Putting, TypeInv
  <2>2. job[p].at = "cycles"
    BY <2>1, PutNames DEF DirStages
  <2>. QED
    BY <1>1, <2>1, <2>2 DEF LayInv, Stands
<1>6. disk[<<"cycle", k>>] # Absent /\ disk[<<"cycles", 0>>] # Absent
  BY <1>2, <1>3, <1>4, <1>5 DEF LayInv
<1>. QED
  BY <1>1, <1>6, SurvivorsAre DEF IsRecorded, FileKinds

LEMMA AckBegin ==
  ASSUME TypeInv, LayInv, AckInv, NEW p \in Procs, NEW policy \in Policies,
         NEW want \in 1 .. MaxCycles, Begin(p, policy, want)
  PROVE  AckInv'
<1>. DEFINE m == [Idle EXCEPT !.at = "cycles", !.policy = policy, !.want = want,
                              !.source = policy]
<1>1. /\ job' = [job EXCEPT ![p] = m] /\ lock = Nobody /\ disk' = disk /\ acked' = acked
      /\ seen' = [seen EXCEPT ![Root] = Some]
  BY DEF Begin
<1>2. m.at = "cycles" /\ m.live = FALSE
  BY DEF Idle
<1>. HIDE DEF m
<1>3. \A q \in Procs \ {p} : job[q].at = "idle" /\ job[q].live = FALSE
  BY <1>1, Alone DEF LayInv, AckInv, Past, TypeInv, TypeOK, Jobs
<1>4. Root \in Names /\ \A k \in acked : <<"record", k>> \in Names \ {Root}
  BY DEF TypeInv, TypeOK, Names, Root, RunKinds, FileKinds
<1>5. seen'[Root] # Absent /\ \A n \in Names \ {Root} : seen'[n] = seen[n]
  BY <1>1, <1>4, ConstantsDistinct DEF TypeInv, TypeOK, FileMap
<1>6. \A k \in acked' : /\ 0 .. k - 1 \subseteq acked'
                       /\ IsRecorded(seen', k) /\ IsRecorded(disk', k)
  BY <1>1, <1>4, <1>5 DEF AckInv, IsRecorded
<1>7. Past(acked', m) /\ Renaming(seen', m) /\ disk'[Root] # Absent
  BY <1>1, <1>2 DEF AckInv, Past, Renaming, StartStages
<1>. QED
  BY <1>1, <1>3, <1>5, <1>6, <1>7, AckMove

LEMMA AckWriteback ==
  ASSUME TypeInv, LayInv, AckInv, NEW n \in Names, Writeback(n)
  PROVE  AckInv'
<1>1. /\ seen' = seen /\ job' = job /\ acked' = acked
      /\ \E c \in {seen[n], Torn} : disk' = [disk EXCEPT ![n] = c]
  BY DEF Writeback
<1>2. Root \in Names /\ \A k \in acked : <<"record", k>> \in Names
  BY DEF TypeInv, TypeOK, Names, Root, RunKinds, FileKinds
<1>3. \A i \in Names : seen[i] # Absent /\ disk[i] # Absent => disk'[i] # Absent
  BY <1>1, ConstantsDistinct DEF TypeInv, TypeOK, FileMap
<1>4. disk'[Root] # Absent /\ \A k \in acked : IsRecorded(disk', k)
  BY <1>2, <1>3 DEF AckInv, IsRecorded
<1>. QED
  BY <1>1, <1>4 DEF AckInv

LEMMA AckPowerLoss ==
  ASSUME TypeInv, LayInv, AckInv, PowerLoss
  PROVE  AckInv'
<1>1. seen' = Survivors /\ disk' = Survivors /\ acked' = acked /\ \A p \in Procs : job'[p] = Idle
  BY DEF PowerLoss
<1>2. Survivors[Root] # Absent
  BY SurvivorsAre DEF AckInv
<1>3. \A p \in Procs : Past(acked', job'[p]) /\ Renaming(seen', job'[p])
  BY <1>1, IdleBehind
<1>. QED
  BY <1>1, <1>2, <1>3, AckSurvives DEF AckInv

LEMMA AckLoseFile ==
  ASSUME TypeInv, LayInv, AckInv, NEW kind \in Published, NEW k \in Cycles,
         NEW left \in {Absent, Torn}, LoseFile(kind, k, left)
  PROVE  AckInv'
<1>. DEFINE n == <<kind, k>>
<1>1. /\ lock = Nobody /\ job' = job /\ n \in Names
      /\ seen' = [seen EXCEPT ![n] = left] /\ disk' = [disk EXCEPT ![n] = left]
      /\ acked' = IF kind = "record" THEN {c \in acked : c < k} ELSE acked
  BY DEF LoseFile
<1>2. \A i \in Names \ {n} : seen'[i] = seen[i] /\ disk'[i] = disk[i]
  BY <1>1 DEF TypeInv, TypeOK, FileMap
<1>3. acked \subseteq Cycles /\ acked' \subseteq acked
  BY <1>1 DEF TypeInv, TypeOK
<1>4. Root \in Names \ {n} /\ \A i \in acked' : <<"record", i>> \in Names \ {n}
  <2>1. \A i \in Cycles : <<"record", i>> \in Names
    BY DEF Names, FileKinds
  <2>2. \A i \in acked' : kind = "record" => i # k
    BY <1>1, <1>3, CyclesOrder
  <2>3. Root \in Names \ {n}
    BY DEF Names, Root, RunKinds, Published
  <2>. QED
    BY <1>3, <2>1, <2>2, <2>3
<1>5. disk'[Root] # Absent /\ seen'[Root] # Absent
  BY <1>2, <1>4 DEF AckInv
<1>6. \A i \in acked' : IsRecorded(seen', i) /\ IsRecorded(disk', i)
  BY <1>2, <1>3, <1>4 DEF AckInv, IsRecorded
<1>7. \A i \in acked' : 0 .. i - 1 \subseteq acked'
  <2>. SUFFICES ASSUME NEW i \in acked', NEW h \in 0 .. i - 1
                PROVE  h \in acked'
    OBVIOUS
  <2>1. h \in acked /\ i \in Nat /\ k \in Nat
    BY <1>3, BoundsAreNat DEF AckInv, Cycles
  <2>. QED
    BY <1>1, <2>1
<1>8. \A p \in Procs : Past(acked', job'[p]) /\ Renaming(seen', job'[p])
  <2>1. \A p \in Procs : job[p].at = "idle"
    BY <1>1, ConstantsDistinct DEF LayInv, OneSession
  <2>. QED
    BY <1>1, <1>3, <2>1 DEF AckInv, Past, Renaming
<1>. QED
  BY <1>5, <1>6, <1>7, <1>8 DEF AckInv

LEMMA AckStep ==
  ASSUME NoStops, TypeInv, LayInv, AckInv, [Next]_vars
  PROVE  AckInv'
<1>1. ASSUME NEW p \in Procs, Step(p)
      PROVE  AckInv'
  BY <1>1, AckPublish, AckDecide DEF Step
<1>2. ASSUME NEW p \in Procs
      PROVE  ~Stop(p)
  BY DEF Stop, NoStops, TypeInv, TypeOK
<1>3. CASE UNCHANGED vars
  BY <1>3 DEF vars, AckInv, Past, Renaming
<1>. QED
  BY <1>1, <1>2, <1>3, AckBegin, AckWriteback, AckPowerLoss, AckLoseFile DEF Next, Environment

LEMMA AckInit == ~FreshRoot /\ Init => AckInv
<1>. SUFFICES ASSUME ~FreshRoot, Init PROVE AckInv
  OBVIOUS
<1>1. Root \in Names
  BY DEF Names, Root, RunKinds
<1>2. seen[Root] # Absent /\ disk[Root] # Absent
  BY <1>1, ConstantsDistinct DEF Init
<1>3. \A p \in Procs : Past(acked, job[p]) /\ Renaming(seen, job[p])
  BY IdleBehind DEF Init
<1>. QED
  BY <1>2, <1>3 DEF AckInv, Init

\* A session that built on a cycle, in a directory that was there before, has put its record
\* on the device with the directories above it: no power loss takes a cycle that finished
\* (durable.py), whatever else was lost.
THEOREM FinishedAreDurable == NoStops /\ ~FreshRoot /\ Spec => []FinishedIsDurable
<1>1. NoStops /\ ~FreshRoot /\ Init => TypeInv /\ LayInv /\ AckInv
  BY TypeInit, LayInit, AckInit
<1>2. NoStops /\ TypeInv /\ LayInv /\ AckInv /\ [Next]_vars => (TypeInv /\ LayInv /\ AckInv)'
  BY TypeStep, LayStep, AckStep
<1>3. TypeInv /\ LayInv /\ AckInv => FinishedIsDurable
  BY AckSurvives DEF IsRecorded, FinishedIsDurable
<1>4. NoStops => NoStops'
  BY DEF NoStops
<1>. QED
  BY <1>1, <1>2, <1>3, <1>4, PTL DEF Spec

-----------------------------------------------------------------------------
(* Every step keeps what the records on the device vouch for.                *)

\* A name that is left alone, or only flushed, keeps what it has on the device.
LEMMA SpareSynced ==
  ASSUME NEW fs, NEW gs, NEW ds, NEW es, NEW un, NEW vn, NEW n, Synced(fs, ds, un, n),
         gs[n] = fs[n], n \in vn => n \in un, es[n] = ds[n] \/ es[n] = fs[n]
  PROVE  Synced(gs, es, vn, n)
BY DEF Synced

\* Records that are left alone, or only flushed, stay the ones that are seen.
LEMMA BackedSame ==
  ASSUME NEW fs, NEW gs, NEW ds, NEW es, NEW un, NEW vn, Backed(fs, ds, un),
         \A k \in Cycles : /\ gs[<<"record", k>>] = fs[<<"record", k>>]
                           /\ \/ es[<<"record", k>>] = ds[<<"record", k>>]
                              \/ es[<<"record", k>>] = fs[<<"record", k>>],
         \A k \in Cycles : IsRecorded(fs, k) =>
           \A kind \in Vouchers : Synced(gs, es, vn, <<kind, k>>)
  PROVE  Backed(gs, es, vn)
BY DEF Backed, IsRecorded

\* What a record vouches for is under no name that a session writes.
LEMMA Elsewhere ==
  ASSUME NEW fs, NEW j, JobOK(j), Where(fs, j), j.at \in WriteStages \cup DirStages,
         NEW k \in Cycles, IsRecorded(fs, k), NEW kind \in Vouchers
  PROVE  <<kind, k>> \in Names \ {Kind(j), Slot(j)}
<1>1. <<kind, k>> \in Names
  BY DEF Names, Vouchers, VouchKinds, FileKinds, PoolKinds
<1>2. <<kind, k>> # Kind(j)
  <2>1. CASE j.at \in {"record", "pool"} \/ j.at \notin CycleStages
    <3>1. Kind(j)[1] \notin Vouchers
      BY <2>1, Places DEF Vouchers, VouchKinds, CycleStages
    <3>. QED
      BY <3>1
  <2>2. CASE j.at \in CycleStages \ {"record", "pool"}
    <3>1. k # j.idx /\ Kind(j) = <<j.at, j.idx>>
      BY <2>2, InHand, Places, CyclesOrder
    <3>. QED
      BY <3>1
  <2>. QED
    BY <2>1, <2>2
<1>3. <<kind, k>> # Slot(j)
  BY <1>2, Places DEF Vouchers, VouchKinds
<1>. QED
  BY <1>1, <1>2, <1>3

\* What the stages behind have flushed is under no name that the session writes.
LEMMA FlushedSame ==
  ASSUME NEW fs, NEW gs, NEW ds, NEW es, NEW un, NEW vn, NEW j, NEW m, JobOK(j),
         Where(fs, j), j.at \in WriteStages \cup DirStages, Flushed(fs, ds, un, j),
         \A n \in Names \ {Kind(j), Slot(j)} : /\ gs[n] = fs[n]
                                               /\ n \in vn => n \in un
                                               /\ es[n] = ds[n] \/ es[n] = fs[n],
         m.at = j.at, m.idx = j.idx,
         m.at = "pool" /\ m.phase = "sync" => \A k \in Cycles : ~IsRecorded(gs, k)
  PROVE  Flushed(gs, es, vn, m)
<1>1. CASE j.at \notin TreeStages
  BY <1>1 DEF Flushed, TreeStages, WriteStages, DirStages
<1>2. CASE j.at \in TreeStages
  <2>1. j.idx \in Cycles
    BY <1>2, InHand DEF CycleStages, TreeStages
  <2>2. ASSUME NEW kind \in Vouchers, kind # j.at, Synced(fs, ds, un, <<kind, j.idx>>)
        PROVE  Synced(gs, es, vn, <<kind, j.idx>>)
    <3>1. <<kind, j.idx>> \in Names
      BY <2>1 DEF Names, Vouchers, VouchKinds, FileKinds, PoolKinds
    <3>2. <<kind, j.idx>> # Kind(j) /\ <<kind, j.idx>> # Slot(j)
      BY <2>2, Places DEF Vouchers, VouchKinds
    <3>. QED
      BY <2>2, <3>1, <3>2, SpareSynced
  <2>. QED
    BY <2>2 DEF Flushed, TreeStages, Vouchers, VouchKinds
<1>. QED
  BY <1>1, <1>2

\* A session that has flushed what its stage writes is at the next with that behind it.
LEMMA AdvancedFlushed ==
  ASSUME NEW fs, NEW ds, NEW un, NEW j, JobOK(j), j.at \in WriteStages \cup DirStages,
         Flushed(fs, ds, un, j), j.at \in Vouchers => Synced(fs, ds, un, <<j.at, j.idx>>)
  PROVE  Flushed(fs, ds, un, Advanced(j))
<1>. DEFINE a == Advanced(j)
<1>1. /\ a.at = After(j) /\ a.phase = "open"
      /\ a.idx = IF CycleOver(j) THEN j.idx + 1 ELSE j.idx
  BY AdvancedFields
<1>. SUFFICES Flushed(fs, ds, un, a)
  OBVIOUS
<1>. HIDE DEF a
<1>2. CASE j.at \in {"cycles", "manifest", "session", "cycle", "record"}
  <2>1. a.at \in {"check", "session", "resume", "policy", "loop"}
    BY <1>1, <1>2 DEF After
  <2>. QED
    BY <2>1 DEF Flushed, TreeStages
<1>3. CASE j.at \in {"policy", "tree", "pool", "world", "next", "timing"}
  <2>1. /\ a.idx = j.idx
        /\ \/ j.at = "policy" /\ a.at = "rollout"
           \/ j.at = "tree" /\ a.at = "pool"
           \/ j.at = "pool" /\ a.at = "world"
           \/ j.at = "world" /\ a.at \in {"dream", "resume"}
           \/ j.at = "next" /\ a.at = "timing"
           \/ j.at = "timing" /\ a.at = "record"
    BY <1>1, <1>3 DEF After, CycleOver
  <2>2. j.at # "pool" => Synced(fs, ds, un, <<j.at, j.idx>>)
    BY <1>3 DEF Vouchers, VouchKinds
  <2>. QED
    BY <1>1, <2>1, <2>2 DEF Flushed, TreeStages
<1>. QED
  BY <1>2, <1>3 DEF WriteStages, DirStages

\* One session that moves to where what it needs is flushed.
LEMMA SafeMove ==
  ASSUME TypeInv, RecordInv', NEW p \in Procs, NEW m, job' = [job EXCEPT ![p] = m],
         \A q \in Procs \ {p} : job[q].at = "idle",
         Backed(seen', disk', unflushed'), Flushed(seen', disk', unflushed', m)
  PROVE  SafeInv'
<1>1. job'[p] = m /\ \A q \in Procs \ {p} : job'[q] = job[q]
  BY DEF TypeInv, TypeOK
<1>2. \A q \in Procs : Flushed(seen', disk', unflushed', job'[q])
  BY <1>1 DEF Flushed, TreeStages
<1>. QED
  BY <1>2 DEF SafeInv

\* A session's step at a stage leaves every other name alone, or only flushes it.
LEMMA Spares ==
  ASSUME TypeInv, NEW p \in Procs,
         \/ MakeDirectory(p) \/ SyncParents(p)
         \/ OpenFile(p) \/ FlushFile(p) \/ SyncName(p) \/ Rename(p) \/ SyncRename(p)
  PROVE  \A n \in Names \ {Kind(job[p]), Slot(job[p])} :
           /\ seen'[n] = seen[n]
           /\ n \in unflushed' => n \in unflushed
           /\ disk'[n] = disk[n] \/ disk'[n] = seen[n]
<1>. DEFINE j == job[p]
<1>1. DOMAIN seen = Names /\ DOMAIN disk = Names
  BY DEF TypeInv, TypeOK, FileMap
<1>2. CASE MakeDirectory(p)
  BY <1>1, <1>2 DEF MakeDirectory
<1>3. CASE SyncParents(p)
  BY <1>3 DEF SyncParents, SyncDirs
<1>4. CASE OpenFile(p)
  BY <1>1, <1>4 DEF OpenFile
<1>5. CASE FlushFile(p)
  BY <1>1, <1>5 DEF FlushFile
<1>6. CASE SyncName(p)
  BY <1>6 DEF SyncName, SyncDirs
<1>7. CASE Rename(p)
  BY <1>1, <1>7 DEF Rename
<1>8. CASE SyncRename(p)
  BY <1>8 DEF SyncRename, SyncDirs
<1>. QED
  BY <1>2, <1>3, <1>4, <1>5, <1>6, <1>7, <1>8

LEMMA SafePublish ==
  ASSUME TypeInv, LayInv, SafeInv, NEW p \in Procs,
         \/ MakeDirectory(p) \/ SyncParents(p)
         \/ OpenFile(p) \/ FlushFile(p) \/ SyncName(p) \/ Rename(p) \/ SyncRename(p)
  PROVE  SafeInv'
<1>. DEFINE j == job[p]
<1>1. /\ j.at \in WriteStages \cup DirStages /\ JobOK(j) /\ j \in Jobs
      /\ Sound(seen, j) /\ Where(seen, j) /\ Stands(seen, unflushed, j)
      /\ Flushed(seen, disk, unflushed, j) /\ Backed(seen, disk, unflushed)
      /\ \A q \in Procs \ {p} : job[q].at = "idle"
  <2>1. j.at \in WriteStages \cup DirStages
    BY DEF MakeDirectory, SyncParents, OpenFile, FlushFile, SyncName, Rename, SyncRename,
           StagedKinds, WriteStages
  <2>2. j.at # "idle"
    BY <2>1 DEF WriteStages, DirStages
  <2>. QED
    BY <2>1, <2>2, Alone DEF TypeInv, JobOK, LayInv, SafeInv, RecordInv, Sound
<1>2. RecordInv'
  BY PublishStep DEF SafeInv
<1>3. \A n \in Names \ {Kind(j), Slot(j)} : /\ seen'[n] = seen[n]
                                            /\ n \in unflushed' => n \in unflushed
                                            /\ disk'[n] = disk[n] \/ disk'[n] = seen[n]
  BY Spares
<1>4. \A k \in Cycles : IsRecorded(seen, k) =>
        \A kind \in Vouchers : Synced(seen', disk', unflushed', <<kind, k>>)
  <2>. SUFFICES ASSUME NEW k \in Cycles, IsRecorded(seen, k), NEW kind \in Vouchers
                PROVE  Synced(seen', disk', unflushed', <<kind, k>>)
    OBVIOUS
  <2>1. <<kind, k>> \in Names \ {Kind(j), Slot(j)}
    BY <1>1, Elsewhere
  <2>2. Synced(seen, disk, unflushed, <<kind, k>>)
    BY <1>1 DEF Backed
  <2>. QED
    BY <1>3, <2>1, <2>2, SpareSynced
<1>5. /\ DOMAIN seen = Names /\ DOMAIN disk = Names
      /\ \A k \in Cycles : <<"record", k>> \in Names
      /\ \A k \in Cycles : <<"record", k>> # Slot(j)
      /\ \A k \in Cycles : <<"record", k>> = Kind(j) => j.at = "record" /\ k = j.idx
      /\ j.at = "record" => Kind(j) = <<"record", j.idx>> /\ Slot(j) = <<"record.tmp", j.idx>>
  <2>1. \A k \in Cycles : <<"record", k>> \in Names
    BY DEF Names, FileKinds
  <2>2. j.at = "record" => Kind(j) = <<"record", j.idx>> /\ Slot(j) = <<"record.tmp", j.idx>>
    BY <1>1, PutNames DEF Slot, StagedKinds, Staging
  <2>3. \A k \in Cycles : <<"record", k>> = Kind(j) => j.at = "record" /\ k = j.idx
    BY <1>1, <2>2, Places
  <2>4. \A k \in Cycles : <<"record", k>> # Slot(j)
    <3>1. \A k \in Cycles : <<"record", k>>[1] = "record"
      OBVIOUS
    <3>2. CASE j.at = "record"
      BY <2>2, <3>1, <3>2
    <3>3. CASE j.at # "record"
      BY <1>1, <2>3, <3>3, Places
    <3>. QED
      BY <3>2, <3>3
  <2>. QED
    BY <2>1, <2>2, <2>3, <2>4 DEF TypeInv, TypeOK, FileMap
<1>6. CASE ~(Rename(p) /\ j.at = "record")
  <2>1. \A k \in Cycles : /\ seen'[<<"record", k>>] = seen[<<"record", k>>]
                          /\ \/ disk'[<<"record", k>>] = disk[<<"record", k>>]
                             \/ disk'[<<"record", k>>] = seen[<<"record", k>>]
    <3>1. CASE j.at # "record"
      BY <1>3, <1>5, <3>1
    <3>2. CASE j.at = "record"
      <4>1. \A k \in Cycles : <<"record", k>> \in Names \ {Slot(j)}
        BY <1>5, <3>2
      <4>2. \A n \in Names \ {Slot(j)} : /\ seen'[n] = seen[n]
                                         /\ disk'[n] = disk[n] \/ disk'[n] = seen[n]
        BY <1>5, <1>6, <3>2
        DEF MakeDirectory, SyncParents, DirStages, OpenFile, FlushFile, SyncName, SyncRename, SyncDirs
      <4>. QED
        BY <4>1, <4>2
    <3>. QED
      BY <3>1, <3>2
  <2>2. Backed(seen', disk', unflushed')
    BY <1>1, <1>4, <2>1, BackedSame
  <2>3. \A k \in Cycles : IsRecorded(seen', k) <=> IsRecorded(seen, k)
    BY <2>1 DEF IsRecorded
  <2>4. j.at = "pool" /\ j.phase = "sync" => \A k \in Cycles : ~IsRecorded(seen', k)
    BY <1>1, <2>3 DEF Flushed
  <2>5. Flushed(seen', disk', unflushed', j)
    BY <1>1, <1>3, <2>4, FlushedSame
  <2>6. ASSUME NEW m, job' = [job EXCEPT ![p] = m], Flushed(seen', disk', unflushed', m)
        PROVE  SafeInv'
    BY <1>1, <1>2, <2>2, <2>6, SafeMove
  <2>7. CASE job' = [job EXCEPT ![p] = Advanced(j)]
    <3>1. j.at \in Vouchers => Synced(seen', disk', unflushed', <<j.at, j.idx>>)
      <4>. SUFFICES ASSUME j.at \in Vouchers
                    PROVE  Synced(seen', disk', unflushed', <<j.at, j.idx>>)
        OBVIOUS
      <4>1. Kind(j) = <<j.at, j.idx>> /\ Kind(j) \in Names /\ Kind(j) # Root
        BY <1>1, Places, SlotType DEF Vouchers, VouchKinds, CycleStages, Root
      <4>2. SyncName(p) \/ SyncRename(p)
        <5>1. ~(MakeDirectory(p) \/ SyncParents(p))
          BY DEF MakeDirectory, SyncParents, DirStages, Vouchers, VouchKinds
        <5>2. j.at = After(j) => FALSE
          BY DEF After, Vouchers, VouchKinds
        <5>3. DOMAIN job = Procs /\ Advanced(j).at = After(j)
          BY <1>1, AdvancedFields DEF TypeInv, TypeOK
        <5>4. \A phase : [j EXCEPT !.phase = phase].at = j.at
          BY <1>1 DEF Jobs
        <5>5. ~(OpenFile(p) \/ FlushFile(p) \/ Rename(p))
          BY <2>7, <5>2, <5>3, <5>4 DEF OpenFile, FlushFile, Rename
        <5>. QED
          BY <5>1, <5>5
      <4>3. seen' = seen /\ unflushed' = unflushed /\ SyncDirs({Parent(Kind(j))})
        <5>1. CASE SyncRename(p)
          BY <5>1 DEF SyncRename
        <5>2. CASE SyncName(p)
          <6>1. j.at \notin StagedKinds
            <7>1. Advanced(j).phase = "open" /\ [j EXCEPT !.phase = "rename"].phase = "rename"
              BY <1>1, AdvancedFields DEF Jobs
            <7>2. DOMAIN job = Procs
              BY DEF TypeInv, TypeOK
            <7>. QED
              BY <2>7, <5>2, <7>1, <7>2 DEF SyncName
          <6>. QED
            BY <5>2, <6>1 DEF SyncName, Slot
        <5>. QED
          BY <4>2, <5>1, <5>2
      <4>4. Kind(j) \notin unflushed
        <5>1. CASE j.at \in StagedKinds
          <6>1. Kind(j)[1] \notin SlotKinds
            BY <1>1, <4>1, <5>1 DEF StagedKinds, SlotKinds, Vouchers, VouchKinds
          <6>. QED
            BY <6>1 DEF LayInv
        <5>2. CASE j.at \notin StagedKinds
          <6>1. j.phase = "name" /\ j.at \in WriteStages /\ Slot(j) = Kind(j)
            BY <4>2, <5>2 DEF SyncName, SyncRename, Slot
          <6>. QED
            BY <1>1, <6>1 DEF Stands
        <5>. QED
          BY <5>1, <5>2
      <4>. QED
        BY <4>1, <4>3, <4>4, SyncedDirs DEF Synced
    <3>. QED
      BY <1>1, <2>5, <2>6, <2>7, <3>1, AdvancedFlushed
  <2>8. CASE job' # [job EXCEPT ![p] = Advanced(j)]
    <3>1. PICK phase \in Phases : job' = [job EXCEPT ![p] = [j EXCEPT !.phase = phase]]
      BY <2>8
      DEF MakeDirectory, SyncParents, OpenFile, FlushFile, SyncName, Rename, SyncRename, Phases
    <3>. DEFINE m == [j EXCEPT !.phase = phase]
    <3>2. m.at = j.at /\ m.phase = phase /\ m.idx = j.idx
      BY <1>1 DEF Jobs
    <3>3. ASSUME j.at = "pool"
          PROVE  \A k \in Cycles : ~IsRecorded(seen', k)
      <4>1. MakeDirectory(p) /\ seen[Kind(j)] = Absent
        BY <2>8, <3>3
        DEF MakeDirectory, SyncParents, OpenFile, FlushFile, SyncName, Rename, SyncRename,
            WriteStages, StagedKinds
      <4>2. seen[<<"pool", 0>>] = Absent
        BY <3>3, <4>1 DEF Kind
      <4>. QED
        BY <2>3, <4>2 DEF SafeInv, RecordInv, Kept
    <3>. HIDE DEF m
    <3>4. Flushed(seen', disk', unflushed', m)
      BY <1>1, <1>3, <3>2, <3>3, FlushedSame
    <3>. QED
      BY <2>6, <3>1, <3>4 DEF m
  <2>. QED
    BY <2>7, <2>8
<1>7. CASE Rename(p) /\ j.at = "record"
  <2>. DEFINE m == [j EXCEPT !.phase = "sync"]
              k == j.idx
  <2>1. /\ j.phase = "rename" /\ disk' = disk /\ job' = [job EXCEPT ![p] = m]
    BY <1>7 DEF Rename
  <2>2. k \in Cycles /\ \A i \in Cycles : i >= k => ~IsRecorded(seen, i)
    BY <1>1, <1>7, <2>1, InHand DEF CycleStages
  <2>3. ~IsRecorded(seen, k) /\ ~IsRecorded(disk, k)
    <3>1. ~IsRecorded(seen, k)
      BY <2>2, CyclesOrder
    <3>. QED
      BY <1>1, <2>2, <3>1 DEF Backed, IsRecorded
  <2>4. \A i \in Cycles \ {k} : seen'[<<"record", i>>] = seen[<<"record", i>>]
    <3>1. \A i \in Cycles \ {k} : <<"record", i>> \in Names \ {Kind(j), Slot(j)}
      BY <1>5, <1>7
    <3>. QED
      BY <1>3, <3>1
  <2>5. Flushed(seen', disk', unflushed', m)
    <3>1. m.at = j.at /\ m.idx = j.idx /\ m.at # "pool"
      BY <1>1, <1>7 DEF Jobs
    <3>. HIDE DEF m
    <3>. QED
      BY <1>1, <1>3, <3>1, FlushedSame
  <2>6. \A kind \in Vouchers : Synced(seen', disk', unflushed', <<kind, k>>)
    <3>1. m.at = "record" /\ m.idx = k
      BY <1>1, <1>7 DEF Jobs
    <3>. HIDE DEF m
    <3>. QED
      BY <2>5, <3>1 DEF Flushed, TreeStages, Vouchers, VouchKinds
  <2>7. Backed(seen', disk', unflushed')
    <3>. SUFFICES ASSUME NEW i \in Cycles
                  PROVE  /\ IsRecorded(disk', i) => disk'[<<"record", i>>] = seen'[<<"record", i>>]
                         /\ IsRecorded(seen', i) =>
                              \A kind \in Vouchers : Synced(seen', disk', unflushed', <<kind, i>>)
      BY DEF Backed
    <3>1. CASE i = k
      BY <2>1, <2>3, <2>6, <3>1 DEF IsRecorded
    <3>2. CASE i # k
      BY <1>1, <1>4, <2>1, <2>4, <3>2 DEF Backed, IsRecorded
    <3>. QED
      BY <3>1, <3>2
  <2>. QED
    BY <1>1, <1>2, <2>1, <2>5, <2>7, SafeMove
<1>. QED
  BY <1>6, <1>7

\* Between the files a session flushes nothing and takes nothing a record vouches for.
LEMMA SafeDecide ==
  ASSUME TypeInv, LayInv, SafeInv, NEW p \in Procs,
         \/ CheckManifest(p) \/ ResumeCycle(p) \/ ResumeDone(p) \/ NextCycle(p) \/ Finish(p)
         \/ Clear(p) \/ Rollout(p) \/ Dream(p)
  PROVE  SafeInv'
<1>. DEFINE j == job[p]
<1>1. /\ JobOK(j) /\ j \in Jobs /\ Sound(seen, j) /\ Where(seen, j)
      /\ j.at \in OtherStages /\ j.phase = "open"
      /\ Flushed(seen, disk, unflushed, j) /\ Backed(seen, disk, unflushed)
      /\ \A q \in Procs \ {p} : job[q].at = "idle"
      /\ disk' = disk /\ unflushed' = unflushed
  <2>1. j.at # "idle" /\ j.at \in OtherStages /\ disk' = disk /\ unflushed' = unflushed
    BY DEF CheckManifest, ResumeCycle, ResumeDone, NextCycle, Finish, Clear, Rollout, Dream,
           OtherStages, fsVars
  <2>. QED
    BY <2>1, Alone DEF TypeInv, JobOK, SafeInv, RecordInv, Sound, PhaseAt
<1>2. RecordInv'
  BY DecideStep DEF SafeInv
<1>3. ASSUME NEW m, job' = [job EXCEPT ![p] = m], seen' = seen,
             m.at \in (OtherStages \ {"rollout", "dream"}) \cup {"manifest", "session", "cycle"}
      PROVE  SafeInv'
  <2>1. Flushed(seen', disk', unflushed', m)
    BY <1>3 DEF Flushed, OtherStages, TreeStages
  <2>. QED
    BY <1>1, <1>2, <1>3, <2>1, SafeMove
<1>4. ASSUME NEW how, Leave(p, how), seen' = seen
      PROVE  SafeInv'
  BY <1>3, <1>4 DEF Leave, Idle, OtherStages
<1>5. CASE CheckManifest(p)
  <2>1. CASE \E stage \in {"manifest", "session"} : Goto(p, stage) /\ UNCHANGED <<lock, verdict>>
    <3>1. PICK stage \in {"manifest", "session"} : Goto(p, stage)
      BY <2>1
    <3>. DEFINE m == [j EXCEPT !.at = stage]
    <3>2. job' = [job EXCEPT ![p] = m]
      BY <3>1 DEF Goto
    <3>3. m.at = stage
      BY <1>1 DEF Jobs
    <3>. QED
      BY <1>3, <1>5, <3>2, <3>3 DEF CheckManifest, fsVars
  <2>2. CASE \E how \in Verdicts : Leave(p, how)
    BY <1>4, <1>5, <2>2 DEF CheckManifest, fsVars
  <2>. QED
    BY <1>5, <2>1, <2>2 DEF CheckManifest, Verdicts
<1>6. CASE ResumeCycle(p)
  <2>. DEFINE k == j.idx
              walks == [j EXCEPT !.idx = k + 1, !.source = seen[<<"next", k>>]]
  <2>1. j.at = "resume" /\ k < j.want /\ IsRecorded(seen, k) /\ seen' = seen
    BY <1>6 DEF ResumeCycle, HasRecord, IsRecorded, fsVars
  <2>2. PoolHolds(k)
    <3>1. k \in Cycles
      BY <1>1, <2>1, BoundsAreNat DEF JobOK, Jobs, Cycles
    <3>. QED
      BY <2>1, <3>1 DEF SafeInv, RecordInv, Kept, Vouched, Records, PoolHolds
  <2>3. job' = [job EXCEPT ![p] = walks] \/ Leave(p, "broken")
    BY <1>6, <2>2 DEF ResumeCycle
  <2>4. walks.at = "resume"
    BY <1>1, <2>1 DEF Jobs
  <2>. HIDE DEF walks
  <2>. QED
    BY <1>3, <1>4, <2>1, <2>3, <2>4 DEF OtherStages
<1>7. CASE ResumeDone(p)
  <2>. DEFINE m == [j EXCEPT !.live = TRUE, !.at = "loop"]
  <2>1. job' = [job EXCEPT ![p] = m] /\ seen' = seen
    BY <1>7 DEF ResumeDone, fsVars
  <2>2. m.at = "loop"
    BY <1>1 DEF Jobs
  <2>. QED
    BY <1>3, <2>1, <2>2 DEF OtherStages
<1>8. CASE NextCycle(p)
  <2>. DEFINE m == [j EXCEPT !.at = "clear"]
  <2>1. job' = [job EXCEPT ![p] = m] /\ seen' = seen
    BY <1>8 DEF NextCycle, Goto, fsVars
  <2>2. m.at = "clear"
    BY <1>1 DEF Jobs
  <2>. QED
    BY <1>3, <2>1, <2>2 DEF OtherStages
<1>9. CASE Finish(p)
  BY <1>4, <1>9 DEF Finish, fsVars
<1>10. CASE Clear(p)
  <2>. DEFINE m == [j EXCEPT !.at = "cycle"]
              gone == CycleNames(j.idx)
  <2>1. /\ job' = [job EXCEPT ![p] = m] /\ seen' = Without(gone) /\ j.at = "clear"
    BY <1>10 DEF Clear, Goto
  <2>2. m.at = "cycle"
    BY <1>1 DEF Jobs
  <2>3. j.idx \in Cycles /\ ~IsRecorded(seen, j.idx)
    BY <1>1, <2>1, InHand, CyclesOrder DEF CycleStages
  <2>4. \A n \in Names : seen'[n] = IF n \in gone THEN Absent ELSE seen[n]
    BY <2>1 DEF Without
  <2>5. \A k \in Cycles, kind \in VouchKinds : <<kind, k>> \in Names
    BY DEF Names, VouchKinds, FileKinds, PoolKinds
  <2>6. ASSUME NEW k \in Cycles \ {j.idx}, NEW kind \in VouchKinds
        PROVE  <<kind, k>> \notin gone
    <3>1. Parent(<<kind, k>>) = <<"cycle", k>> \/ Parent(<<kind, k>>) = <<"pool", 0>>
      BY DEF Parent, VouchKinds, FileKinds, PoolKinds, RunKinds
    <3>2. <<"cycle", k>> # <<"cycle", j.idx>> /\ <<kind, k>> # <<"cycle", j.idx>>
      BY <2>6
    <3>. QED
      BY <3>1, <3>2 DEF CycleNames, Entries
  <2>. HIDE DEF m, gone
  <2>7. \A k \in Cycles : seen'[<<"record", k>>] = seen[<<"record", k>>]
    BY <2>3, <2>4, <2>5, <2>6 DEF IsRecorded, VouchKinds
  <2>8. \A k \in Cycles : IsRecorded(seen, k) =>
          \A kind \in Vouchers : Synced(seen', disk', unflushed', <<kind, k>>)
    BY <1>1, <2>3, <2>4, <2>5, <2>6, SpareSynced DEF Backed, Vouchers
  <2>9. Backed(seen', disk', unflushed')
    BY <1>1, <2>7, <2>8, BackedSame
  <2>10. Flushed(seen', disk', unflushed', m)
    BY <2>2 DEF Flushed, TreeStages
  <2>. QED
    BY <1>1, <1>2, <2>1, <2>9, <2>10, SafeMove
<1>11. CASE Rollout(p)
  <2>1. PICK t \in Trees : job' = [job EXCEPT ![p].tree = t, ![p].at = "tree"]
    BY <1>11 DEF Rollout
  <2>. DEFINE m == [j EXCEPT !.tree = t, !.at = "tree"]
  <2>2. job' = [job EXCEPT ![p] = m] /\ seen' = seen /\ j.at = "rollout"
    BY <1>11, <2>1 DEF Rollout, fsVars
  <2>3. m.at = "tree" /\ m.idx = j.idx
    BY <1>1 DEF Jobs
  <2>. HIDE DEF m
  <2>4. Flushed(seen', disk', unflushed', m)
    BY <1>1, <2>2, <2>3 DEF Flushed, TreeStages
  <2>. QED
    BY <1>1, <1>2, <2>2, <2>4, SafeMove
<1>12. CASE Dream(p)
  <2>1. CASE \A k \in Replayed(j) : PoolHolds(k)
    <3>1. PICK q \in Policies : job' = [job EXCEPT ![p].next = q, ![p].at = "next"]
      BY <1>12, <2>1 DEF Dream
    <3>. DEFINE m == [j EXCEPT !.next = q, !.at = "next"]
    <3>2. job' = [job EXCEPT ![p] = m] /\ seen' = seen /\ j.at = "dream"
      BY <1>12, <2>1, <3>1 DEF Dream, fsVars
    <3>3. m.at = "next" /\ m.idx = j.idx
      BY <1>1 DEF Jobs
    <3>. HIDE DEF m
    <3>4. Flushed(seen', disk', unflushed', m)
      BY <1>1, <3>2, <3>3 DEF Flushed, TreeStages
    <3>. QED
      BY <1>1, <1>2, <3>2, <3>4, SafeMove
  <2>2. CASE ~\A k \in Replayed(j) : PoolHolds(k)
    BY <1>4, <1>12, <2>2 DEF Dream, fsVars
  <2>. QED
    BY <2>1, <2>2
<1>. QED
  BY <1>5, <1>6, <1>7, <1>8, <1>9, <1>10, <1>11, <1>12

\* What a power loss leaves at this instant is a directory whose records vouch for what they
\* report, with none missing before another.
LEMMA SurvivorsKept ==
  ASSUME TypeInv, LayInv, SafeInv
  PROVE  Kept(Survivors)
<1>. SUFFICES ASSUME NEW k \in Cycles, IsRecorded(Survivors, k)
              PROVE  /\ \A i \in 0 .. k - 1 : IsRecorded(Survivors, i)
                     /\ Survivors[<<"pool", 0>>] # Absent
                     /\ Vouched(Survivors, k)
  BY DEF Kept
<1>1. /\ IsRecorded(disk, k) /\ disk[Root] # Absent /\ disk[<<"cycles", 0>>] # Absent
      /\ disk[<<"cycle", k>>] # Absent
  BY SurvivorsAre DEF IsRecorded, FileKinds
<1>2. disk[<<"record", k>>] = seen[<<"record", k>>] /\ IsRecorded(seen, k)
  BY <1>1 DEF SafeInv, Backed, IsRecorded
<1>3. /\ \A i \in 0 .. k - 1 : IsRecorded(seen, i) /\ i \in Cycles /\ i < k /\ i \in Nat
      /\ seen[<<"pool", 0>>] # Absent /\ Vouched(seen, k)
  BY <1>2, CyclesOrder DEF SafeInv, RecordInv, Kept
<1>4. <<"pool", 0>> \in Keepers /\ \A i \in Cycles, d \in {"cycle", "record"} : <<d, i>> \in Keepers
  BY DEF Keepers
<1>5. disk[<<"pool", 0>>] # Absent
  <2>1. ASSUME NEW p \in Procs, Putting(job[p], <<"pool", 0>>)
        PROVE  FALSE
    <3>1. /\ job[p].at \in DirStages \cup {"record"} /\ Kind(job[p]) = <<"pool", 0>>
          /\ JobOK(job[p]) /\ job[p].phase = "sync"
      BY <2>1 DEF Putting, TypeInv
    <3>2. job[p].at = "pool"
      BY <3>1, PutNames DEF DirStages
    <3>. QED
      BY <1>2, <3>1, <3>2 DEF SafeInv, Flushed
  <2>. QED
    BY <1>3, <1>4, <2>1 DEF LayInv
<1>6. ASSUME NEW i \in 0 .. k - 1
      PROVE  IsRecorded(Survivors, i)
  <2>1. seen[<<"cycle", i>>] # Absent /\ IsRecorded(seen, i) /\ i \in Cycles
    BY <1>3 DEF LayInv, Housed
  <2>2. disk[<<"cycle", i>>] # Absent
    <3>1. ASSUME NEW p \in Procs, Putting(job[p], <<"cycle", i>>)
          PROVE  FALSE
      <4>1. job[p].at \in DirStages \cup {"record"} /\ Kind(job[p]) = <<"cycle", i>> /\ JobOK(job[p])
        BY <3>1 DEF Putting, TypeInv
      <4>2. job[p].at = "cycle" /\ job[p].idx = i
        BY <4>1, PutNames DEF DirStages
      <4>. QED
        BY <2>1, <4>2 DEF LayInv, Stands
    <3>. QED
      BY <1>4, <2>1, <3>1 DEF LayInv
  <2>3. disk[<<"record", i>>] # Absent
    <3>1. ASSUME NEW p \in Procs, Putting(job[p], <<"record", i>>)
          PROVE  FALSE
      <4>1. job[p].at \in DirStages \cup {"record"} /\ Kind(job[p]) = <<"record", i>> /\ JobOK(job[p])
        BY <3>1 DEF Putting, TypeInv
      <4>2. job[p].at = "record" /\ job[p].idx = i
        BY <4>1, PutNames DEF DirStages
      <4>3. k = i
        BY <1>2, <1>3, <4>1, <4>2, CyclesOrder, InHand DEF SafeInv, RecordInv, Sound, CycleStages
      <4>. QED
        BY <1>3, <4>3
    <3>. QED
      BY <1>4, <2>1, <3>1 DEF LayInv, IsRecorded
  <2>. QED
    BY <1>1, <2>1, <2>2, <2>3, SurvivorsAre DEF IsRecorded, FileKinds
<1>7. \A kind \in Vouchers : disk[<<kind, k>>] = seen[<<kind, k>>]
  BY <1>2 DEF SafeInv, Backed, Synced
<1>8. \A kind \in VouchKinds : Survivors[<<kind, k>>] = seen[<<kind, k>>]
  <2>1. Survivors[<<"world", k>>] = disk[<<"world", k>>]
    BY <1>1, <1>5, SurvivorsAre
  <2>2. \A kind \in VouchKinds \ {"world"} : Survivors[<<kind, k>>] = disk[<<kind, k>>]
    <3>1. VouchKinds \ {"world"} \subseteq FileKinds
      BY DEF VouchKinds, FileKinds
    <3>. QED
      BY <1>1, <3>1, SurvivorsAre
  <2>. QED
    BY <1>2, <1>7, <2>1, <2>2 DEF Vouchers
<1>9. Survivors[<<"pool", 0>>] # Absent
  BY <1>1, <1>5, SurvivorsAre
<1>10. Vouched(Survivors, k)
  BY <1>3, <1>8 DEF Vouched, VouchKinds
<1>. QED
  BY <1>6, <1>9, <1>10

LEMMA SafePowerLoss ==
  ASSUME TypeInv, LayInv, SafeInv, PowerLoss
  PROVE  SafeInv'
<1>1. /\ seen' = Survivors /\ disk' = Survivors /\ unflushed' = {}
      /\ \A p \in Procs : job'[p] = Idle
  BY DEF PowerLoss
<1>2. Kept(seen')
  BY <1>1, SurvivorsKept
<1>3. \A p \in Procs : Sound(seen', job'[p])
  BY <1>1, IdleSound
<1>4. OneSession' /\ \A p \in Procs : Flushed(seen', disk', unflushed', job'[p])
  BY <1>1 DEF OneSession, Flushed, TreeStages, Idle
<1>5. Backed(seen', disk', unflushed')
  BY <1>1 DEF Backed, Synced
<1>. QED
  BY <1>2, <1>3, <1>4, <1>5 DEF SafeInv, RecordInv

LEMMA SafeWriteback ==
  ASSUME TypeInv, LayInv, SafeInv, NEW n \in Names, Writeback(n)
  PROVE  SafeInv'
<1>1. /\ seen' = seen /\ unflushed' = unflushed /\ lock' = lock /\ job' = job
      /\ \E c \in {seen[n]} \cup {t \in {Torn} : n \in unflushed} : disk' = [disk EXCEPT ![n] = c]
  BY DEF Writeback
<1>2. ASSUME NEW i \in Names, i \notin unflushed
      PROVE  disk'[i] = disk[i] \/ disk'[i] = seen[i]
  BY <1>1, <1>2 DEF TypeInv, TypeOK, FileMap
<1>3. ASSUME NEW i \in Names, Synced(seen, disk, unflushed, i)
      PROVE  Synced(seen', disk', unflushed', i)
  BY <1>1, <1>2, <1>3 DEF Synced
<1>4. \A k \in Cycles : /\ <<"record", k>> \notin unflushed
                        /\ \A kind \in VouchKinds : <<kind, k>> \in Names
  BY DEF LayInv, SlotKinds, Names, VouchKinds, FileKinds, PoolKinds
<1>5. Backed(seen', disk', unflushed')
  <2>1. \A k \in Cycles : \/ disk'[<<"record", k>>] = disk[<<"record", k>>]
                          \/ disk'[<<"record", k>>] = seen[<<"record", k>>]
    BY <1>2, <1>4 DEF VouchKinds
  <2>2. \A k \in Cycles : IsRecorded(seen, k) =>
          \A kind \in Vouchers : Synced(seen', disk', unflushed', <<kind, k>>)
    BY <1>3, <1>4 DEF SafeInv, Backed, Vouchers
  <2>. QED
    BY <1>1, <2>1, <2>2, BackedSame DEF SafeInv
<1>6. \A p \in Procs : Flushed(seen', disk', unflushed', job'[p])
  <2>. SUFFICES ASSUME NEW p \in Procs
                PROVE  Flushed(seen', disk', unflushed', job'[p])
    OBVIOUS
  <2>1. job'[p] = job[p] /\ Flushed(seen, disk, unflushed, job[p])
    BY <1>1 DEF SafeInv
  <2>2. job[p].at \in TreeStages \cup {"rollout"} => job[p].idx \in Cycles
    BY InHand DEF SafeInv, RecordInv, Sound, TypeInv, TreeStages, CycleStages
  <2>3. job[p].at \in TreeStages \cup {"rollout"} =>
          \A kind \in VouchKinds : Synced(seen, disk, unflushed, <<kind, job[p].idx>>) =>
                                     Synced(seen', disk', unflushed', <<kind, job[p].idx>>)
    BY <1>3, <1>4, <2>2
  <2>. QED
    BY <1>1, <2>1, <2>3 DEF Flushed, TreeStages, VouchKinds
<1>7. RecordInv'
  BY <1>1 DEF SafeInv, RecordInv, OneSession
<1>. QED
  BY <1>5, <1>6, <1>7 DEF SafeInv

LEMMA SafeBegin ==
  ASSUME TypeInv, LayInv, SafeInv, NEW p \in Procs, NEW policy \in Policies,
         NEW want \in 1 .. MaxCycles, Begin(p, policy, want)
  PROVE  SafeInv'
<1>. DEFINE m == [Idle EXCEPT !.at = "cycles", !.policy = policy, !.want = want,
                              !.source = policy]
<1>1. /\ job' = [job EXCEPT ![p] = m] /\ lock = Nobody /\ disk' = disk
      /\ seen' = [seen EXCEPT ![Root] = Some] /\ unflushed' = unflushed
  BY DEF Begin
<1>2. m.at = "cycles"
  BY DEF Idle
<1>. HIDE DEF m
<1>3. RecordInv' /\ \A q \in Procs \ {p} : job[q].at = "idle"
  BY <1>1, BeginStep, Alone DEF SafeInv, RecordInv
<1>4. \A n \in Names \ {Root} : seen'[n] = seen[n]
  BY <1>1 DEF TypeInv, TypeOK, FileMap
<1>5. \A k \in Cycles, kind \in VouchKinds : <<kind, k>> \in Names \ {Root}
  BY DEF Names, VouchKinds, FileKinds, PoolKinds, Root
<1>6. Backed(seen', disk', unflushed')
  <2>1. \A k \in Cycles : seen'[<<"record", k>>] = seen[<<"record", k>>]
    BY <1>4, <1>5 DEF VouchKinds
  <2>2. \A k \in Cycles : IsRecorded(seen, k) =>
          \A kind \in Vouchers : Synced(seen', disk', unflushed', <<kind, k>>)
    BY <1>1, <1>4, <1>5 DEF SafeInv, Backed, Synced, Vouchers
  <2>. QED
    BY <1>1, <2>1, <2>2, BackedSame DEF SafeInv
<1>7. Flushed(seen', disk', unflushed', m)
  BY <1>2 DEF Flushed, TreeStages
<1>. QED
  BY <1>1, <1>3, <1>6, <1>7, SafeMove

\* As long as nothing outside the program took a file.
Safe == spent.lost = 0 => SafeInv

LEMMA SafeStep ==
  ASSUME NoStops, TypeInv, LayInv, Safe, [Next]_vars
  PROVE  Safe'
<1>. SUFFICES ASSUME spent'.lost = 0
              PROVE  SafeInv'
  BY DEF Safe
<1>1. ASSUME NEW kind \in Published, NEW k \in Cycles, NEW left \in {Absent, Torn}
      PROVE  ~LoseFile(kind, k, left)
  BY BoundsAreNat DEF LoseFile, TypeInv, TypeOK
<1>2. ASSUME NEW p \in Procs
      PROVE  ~Stop(p)
  BY DEF Stop, NoStops, TypeInv, TypeOK
<1>3. spent.lost = 0 => SafeInv
  BY DEF Safe
<1>4. ASSUME NEW p \in Procs, Step(p)
      PROVE  SafeInv'
  <2>1. spent' = spent
    BY <1>4
    DEF Step, MakeDirectory, SyncParents, OpenFile, FlushFile, SyncName, Rename, SyncRename,
        CheckManifest, ResumeCycle, ResumeDone, NextCycle, Finish, Clear, Rollout, Dream
  <2>2. SafeInv
    BY <1>3, <2>1
  <2>3. CASE \/ MakeDirectory(p) \/ SyncParents(p)
             \/ OpenFile(p) \/ FlushFile(p) \/ SyncName(p) \/ Rename(p) \/ SyncRename(p)
    BY <2>2, <2>3, SafePublish
  <2>4. CASE \/ CheckManifest(p) \/ ResumeCycle(p) \/ ResumeDone(p) \/ NextCycle(p) \/ Finish(p)
             \/ Clear(p) \/ Rollout(p) \/ Dream(p)
    BY <2>2, <2>4, SafeDecide
  <2>. QED
    BY <1>4, <2>3, <2>4 DEF Step
<1>5. ASSUME NEW p \in Procs, NEW policy \in Policies, NEW want \in 1 .. MaxCycles,
             Begin(p, policy, want)
      PROVE  SafeInv'
  <2>1. spent'.lost = spent.lost
    BY <1>5 DEF Begin, TypeInv, TypeOK
  <2>. QED
    BY <1>3, <1>5, <2>1, SafeBegin
<1>6. CASE PowerLoss
  <2>1. spent'.lost = spent.lost
    BY <1>6 DEF PowerLoss, TypeInv, TypeOK
  <2>. QED
    BY <1>3, <1>6, <2>1, SafePowerLoss
<1>7. ASSUME NEW n \in Names, Writeback(n)
      PROVE  SafeInv'
  BY <1>3, <1>7, SafeWriteback DEF Writeback
<1>8. CASE UNCHANGED vars
  BY <1>3, <1>8 DEF vars, SafeInv, RecordInv, OneSession
<1>. QED
  BY <1>1, <1>2, <1>4, <1>5, <1>6, <1>7, <1>8 DEF Next, Environment

LEMMA SafeInit == Init => SafeInv
<1>. SUFFICES ASSUME Init PROVE SafeInv
  OBVIOUS
<1>1. RecordInv
  BY RecordInit
<1>2. \A k \in Cycles : ~IsRecorded(seen, k) /\ ~IsRecorded(disk, k)
  BY DEF Init, IsRecorded, Names, FileKinds, Root
<1>3. Backed(seen, disk, unflushed)
  BY <1>2 DEF Backed
<1>4. \A p \in Procs : Flushed(seen, disk, unflushed, job[p])
  BY DEF Init, Flushed, TreeStages, Idle
<1>. QED
  BY <1>1, <1>3, <1>4 DEF SafeInv

\* Whatever a session is in the middle of and whatever the kernel has written back, a record
\* that a power loss at this instant would leave is whole, and so is everything it reports
\* (durable.py): no reader finds a name without the bytes, or a record without its files.
THEOREM SurvivorsAreSafe == NoStops /\ Spec => []SurvivorsVouch
<1>1. NoStops /\ Init => TypeInv /\ LayInv /\ Safe
  BY TypeInit, LayInit, SafeInit DEF Safe
<1>2. NoStops /\ TypeInv /\ LayInv /\ Safe /\ [Next]_vars => (TypeInv /\ LayInv /\ Safe)'
  BY TypeStep, LayStep, SafeStep
<1>3. TypeInv /\ LayInv /\ Safe => SurvivorsVouch
  BY SurvivorsKept DEF Safe, Kept, IsRecorded, SurvivorsVouch
<1>4. NoStops => NoStops'
  BY DEF NoStops
<1>. QED
  BY <1>1, <1>2, <1>3, <1>4, PTL DEF Spec

-----------------------------------------------------------------------------
(* The pool, whatever is killed, lost or taken: what the directory may still *)
(* tell after that is little, but never the wrong tree for a cycle.          *)

\* The stages at which a cycle's directory is its own, from the first file in it on.
MadeStages == CycleStages \ {"clear", "cycle"}

\* What is read under a name, now or after a power loss.
Reads(fs, ds, n) == {fs[n], ds[n]}
RecordsOf(fs, ds, k) == Reads(fs, ds, <<"record", k>>) \ {Absent}

\* Whatever a power loss brings back: a record is whole, and a tree beside it that is whole
\* is the tree it reports.
Coherent(fs, ds) ==
  \A k \in Cycles : \A r \in RecordsOf(fs, ds, k) :
    /\ r \in Records
    /\ \A kind \in {"tree", "world"} : Reads(fs, ds, <<kind, k>>) \subseteq {Absent, Torn, r.tree}

\* Every cycle before the one in hand has its record, and its tree in the pool.
Walked(fs, j) ==
  \A k \in 0 .. j.idx - 1 : IsRecorded(fs, k) /\ fs[<<"world", k>>] = fs[<<"record", k>>].tree

\* The directory of a cycle begins empty, and is flushed so.
Emptied(fs, j) ==
  j.at = "cycle" => /\ fs[<<"record", j.idx>>] = Absent /\ fs[<<"tree", j.idx>>] = Absent
                    /\ j.phase = "open" => fs[<<"cycle", j.idx>>] = Absent

\* From then on nothing comes back in it but what this session wrote.
Made(fs, ds, j) ==
  j.at \in MadeStages /\ j.live =>
    /\ ~(j.at = "record" /\ j.phase = "sync") => RecordsOf(fs, ds, j.idx) = {}
    /\ Reads(fs, ds, <<"tree", j.idx>>) \subseteq
         {Absent, Torn} \cup {t \in {j.tree} : j.at \in TreeStages}
    /\ j.at \in {"dream", "next", "timing", "record"} =>
         /\ fs[<<"world", j.idx>>] = j.tree
         /\ Reads(fs, ds, <<"world", j.idx>>) \subseteq {Absent, Torn, j.tree}

\* A tree _resume puts back into the pool is the one the cycle's record reports.
PutBack(fs, ds, j) ==
  j.at \in {"pool", "world"} /\ ~j.live =>
    /\ IsRecorded(fs, j.idx)
    /\ \A r \in RecordsOf(fs, ds, j.idx) : r.tree = j.tree

\* What is renamed into place was flushed whole.
Staged(fs, un, j) ==
  j.at \in {"world", "record"} =>
    /\ j.phase \in {"name", "rename"} => fs[Slot(j)] = Data(j) /\ Slot(j) \notin un
    /\ j.phase = "sync" => fs[Kind(j)] = Data(j)

Stocked(fs, ds, un, j) ==
  /\ Walked(fs, j) /\ Emptied(fs, j) /\ Made(fs, ds, j) /\ PutBack(fs, ds, j) /\ Staged(fs, un, j)

PoolInv ==
  /\ OneSession
  /\ Coherent(seen, disk) /\ \A k \in Cycles : <<"record", k>> \notin unflushed
  /\ \A p \in Procs : job[p].at # "idle" => Stocked(seen, disk, unflushed, job[p])

LEMMA StockNames ==
  ASSUME NEW k \in Cycles, NEW kind \in {"record", "tree", "world"}
  PROVE  <<kind, k>> \in Names /\ <<kind, k>> # Root
  BY DEF Names, Root, FileKinds, PoolKinds

\* What is only forgotten, torn or copied from one map to the other stays coherent.
LEMMA Faded ==
  ASSUME NEW fs, NEW gs, NEW ds, NEW es, Coherent(fs, ds),
         \A k \in Cycles :
           Reads(gs, es, <<"record", k>>) \subseteq Reads(fs, ds, <<"record", k>>) \cup {Absent},
         \A k \in Cycles : \A kind \in {"tree", "world"} :
           Reads(gs, es, <<kind, k>>) \subseteq Reads(fs, ds, <<kind, k>>) \cup {Absent, Torn}
  PROVE  Coherent(gs, es)
<1>. SUFFICES ASSUME NEW k \in Cycles, NEW r \in RecordsOf(gs, es, k)
              PROVE  /\ r \in Records
                     /\ \A kind \in {"tree", "world"} :
                          Reads(gs, es, <<kind, k>>) \subseteq {Absent, Torn, r.tree}
  BY DEF Coherent
<1>1. r \in RecordsOf(fs, ds, k)
  BY DEF RecordsOf
<1>2. /\ r \in Records
      /\ \A kind \in {"tree", "world"} : Reads(fs, ds, <<kind, k>>) \subseteq {Absent, Torn, r.tree}
  BY <1>1 DEF Coherent
<1>. QED
  BY <1>2

LEMMA FadedOnly ==
  ASSUME NEW fs, NEW gs, NEW ds, NEW es, Coherent(fs, ds),
         \A k \in Cycles, kind \in {"record", "tree", "world"} :
           Reads(gs, es, <<kind, k>>) \subseteq Reads(fs, ds, <<kind, k>>)
  PROVE  Coherent(gs, es)
<1>1. \A k \in Cycles :
        Reads(gs, es, <<"record", k>>) \subseteq Reads(fs, ds, <<"record", k>>) \cup {Absent}
  OBVIOUS
<1>2. \A k \in Cycles : \A kind \in {"tree", "world"} :
        Reads(gs, es, <<kind, k>>) \subseteq Reads(fs, ds, <<kind, k>>) \cup {Absent, Torn}
  OBVIOUS
<1>. QED
  BY <1>1, <1>2, Faded

\* So does what changes in one cycle, if it does there.
LEMMA Rewritten ==
  ASSUME NEW fs, NEW gs, NEW ds, NEW es, Coherent(fs, ds), NEW i,
         \A k \in Cycles \ {i} : \A kind \in {"record", "tree", "world"} :
           gs[<<kind, k>>] = fs[<<kind, k>>] /\ es[<<kind, k>>] = ds[<<kind, k>>],
         \A r \in RecordsOf(gs, es, i) :
           /\ r \in Records
           /\ \A kind \in {"tree", "world"} :
                Reads(gs, es, <<kind, i>>) \subseteq {Absent, Torn, r.tree}
  PROVE  Coherent(gs, es)
<1>. SUFFICES ASSUME NEW k \in Cycles, NEW r \in RecordsOf(gs, es, k)
              PROVE  /\ r \in Records
                     /\ \A kind \in {"tree", "world"} :
                          Reads(gs, es, <<kind, k>>) \subseteq {Absent, Torn, r.tree}
  BY DEF Coherent
<1>1. CASE k = i
  BY <1>1
<1>2. CASE k # i
  <2>1. /\ r \in RecordsOf(fs, ds, k)
        /\ \A kind \in {"tree", "world"} : Reads(gs, es, <<kind, k>>) = Reads(fs, ds, <<kind, k>>)
    BY <1>2 DEF RecordsOf, Reads
  <2>. QED
    BY <2>1 DEF Coherent
<1>. QED
  BY <1>1, <1>2

\* The cycle in hand is one of the run's, and those before it are.
LEMMA StockCycles ==
  ASSUME NEW j, JobOK(j)
  PROVE  /\ \A k \in 0 .. j.idx - 1 : k \in Cycles /\ k # j.idx
         /\ j.at \in CycleStages => j.idx \in Cycles
  BY BoundsAreNat DEF JobOK, Jobs, Cycles

\* What the kernel writes back changes nothing for a session.
LEMMA StockedMixed ==
  ASSUME NEW j, JobOK(j), NEW fs, NEW ds, NEW es, NEW un, Stocked(fs, ds, un, j),
         \A k \in Cycles : es[<<"record", k>>] \in Reads(fs, ds, <<"record", k>>),
         \A k \in Cycles : \A kind \in {"tree", "world"} :
           es[<<kind, k>>] \in Reads(fs, ds, <<kind, k>>) \cup {Torn}
  PROVE  Stocked(fs, es, un, j)
<1>1. j.at \in CycleStages =>
        /\ RecordsOf(fs, es, j.idx) \subseteq RecordsOf(fs, ds, j.idx)
        /\ \A kind \in {"tree", "world"} :
             Reads(fs, es, <<kind, j.idx>>) \subseteq Reads(fs, ds, <<kind, j.idx>>) \cup {Torn}
  BY StockCycles DEF RecordsOf, Reads
<1>2. Made(fs, es, j)
  <2>1. SUFFICES ASSUME j.at \in MadeStages, j.live
                 PROVE  Made(fs, es, j)
    BY DEF Made
  <2>2. j.at \in CycleStages
    BY <2>1 DEF MadeStages
  <2>. QED
    BY <1>1, <2>1, <2>2 DEF Stocked, Made
<1>3. PutBack(fs, es, j)
  BY <1>1 DEF Stocked, PutBack, CycleStages
<1>. QED
  BY <1>2, <1>3 DEF Stocked

\* A stage's system calls up to its last: the files of the cycle in hand it may change are
\* its own.
LEMMA StockedWrite ==
  ASSUME NEW j, JobOK(j), j.at \in WriteStages \cup DirStages,
         NEW phase \in Phases \ {"open"}, j.phase # "sync",
         NEW fs, NEW gs, NEW ds, NEW es, NEW un, NEW vn, Stocked(fs, ds, un, j),
         \A k \in Cycles :
           \/ j.at = "record" /\ k = j.idx /\ phase = "sync"
           \/ /\ gs[<<"record", k>>] = fs[<<"record", k>>]
              /\ es[<<"record", k>>] = ds[<<"record", k>>],
         \A k \in Cycles :
           \/ j.at = "tree" /\ k = j.idx /\ Reads(gs, es, <<"tree", k>>)
             \subseteq {Absent, Torn, j.tree}
           \/ gs[<<"tree", k>>] = fs[<<"tree", k>>] /\ es[<<"tree", k>>] = ds[<<"tree", k>>],
         \A k \in Cycles :
           \/ j.at = "world" /\ k = j.idx
           \/ gs[<<"world", k>>] = fs[<<"world", k>>] /\ es[<<"world", k>>] = ds[<<"world", k>>],
         Staged(gs, vn, [j EXCEPT !.phase = phase])
  PROVE  Stocked(gs, es, vn, [j EXCEPT !.phase = phase])
<1>1. PICK m : m = [j EXCEPT !.phase = phase]
  OBVIOUS
<1>2. /\ m.at = j.at /\ m.phase = phase /\ m.idx = j.idx /\ m.live = j.live
      /\ m.tree = j.tree
  BY <1>1 DEF JobOK, Jobs
<1>3. /\ \A k \in 0 .. j.idx - 1 : k \in Cycles /\ k # j.idx
      /\ j.at \in CycleStages => j.idx \in Cycles
  BY StockCycles
<1>4. Walked(gs, m)
  BY <1>2, <1>3 DEF Stocked, Walked, IsRecorded
<1>5. Emptied(gs, m)
  BY <1>2, <1>3 DEF Stocked, Emptied, CycleStages
<1>6. Made(gs, es, m)
  <2>1. SUFFICES ASSUME j.at \in MadeStages, j.live
                 PROVE  Made(gs, es, m)
    BY <1>2 DEF Made
  <2>2. j.idx \in Cycles
    BY <1>3, <2>1 DEF MadeStages
  <2>3. ~(m.at = "record" /\ m.phase = "sync") => RecordsOf(gs, es, j.idx) = {}
    <3>1. RecordsOf(fs, ds, j.idx) = {}
      BY <2>1 DEF Stocked, Made
    <3>. QED
      BY <1>2, <2>2, <3>1 DEF RecordsOf, Reads
  <2>4. Reads(gs, es, <<"tree", j.idx>>) \subseteq
          {Absent, Torn} \cup {t \in {j.tree} : j.at \in TreeStages}
    <3>1. Reads(fs, ds, <<"tree", j.idx>>) \subseteq
            {Absent, Torn} \cup {t \in {j.tree} : j.at \in TreeStages}
      BY <2>1 DEF Stocked, Made
    <3>2. CASE gs[<<"tree", j.idx>>] = fs[<<"tree", j.idx>>] /\ es[<<"tree", j.idx>>] = ds[<<"tree", j.idx>>]
      BY <3>1, <3>2 DEF Reads
    <3>3. CASE j.at = "tree" /\ Reads(gs, es, <<"tree", j.idx>>) \subseteq {Absent, Torn, j.tree}
      BY <3>3 DEF TreeStages
    <3>. QED
      BY <2>2, <3>2, <3>3
  <2>5. j.at \in {"dream", "next", "timing", "record"} =>
          /\ gs[<<"world", j.idx>>] = j.tree
          /\ Reads(gs, es, <<"world", j.idx>>) \subseteq {Absent, Torn, j.tree}
    BY <2>1, <2>2 DEF Stocked, Made, Reads
  <2>. QED
    BY <1>2, <2>3, <2>4, <2>5 DEF Made
<1>7. PutBack(gs, es, m)
  BY <1>2, <1>3 DEF Stocked, PutBack, IsRecorded, RecordsOf, Reads, CycleStages
<1>. QED
  BY <1>1, <1>4, <1>5, <1>6, <1>7 DEF Stocked

\* A session that is done with a stage.
LEMMA StockedAdvance ==
  ASSUME NEW j, JobOK(j), j.at \in WriteStages \cup DirStages,
         NEW fs, NEW ds, NEW un, Stocked(fs, ds, un, j),
         j.at \in StagedKinds => j.phase = "sync",
         j.at = "cycle" => ds[<<"record", j.idx>>] = Absent /\ ds[<<"tree", j.idx>>] = Absent,
         j.at = "world" => ds[<<"world", j.idx>>] = fs[<<"world", j.idx>>]
  PROVE  Stocked(fs, ds, un, Advanced(j))
<1>1. PICK a : a = Advanced(j)
  OBVIOUS
<1>2. /\ a.at = After(j) /\ a.phase = "open" /\ a.tree = j.tree /\ a.live = j.live
      /\ a.idx = IF CycleOver(j) THEN j.idx + 1 ELSE j.idx
  BY <1>1, AdvancedFields
<1>3. /\ j.idx \in Nat
      /\ j.at \in CycleStages => j.idx \in Cycles
      /\ j.at \in CycleStages \ {"pool", "world"} => j.live
  BY StockCycles DEF JobOK, Jobs
<1>4. /\ j.at \in {"cycles", "manifest", "session"} => a.at \in {"check", "session", "resume"}
      /\ j.at = "cycle" => a.at = "policy"
      /\ j.at = "policy" => a.at = "rollout"
      /\ j.at = "tree" => a.at = "pool"
      /\ j.at = "pool" => a.at = "world"
      /\ j.at = "world" => a.at = IF j.live THEN "dream" ELSE "resume"
      /\ j.at = "next" => a.at = "timing"
      /\ j.at = "timing" => a.at = "record"
      /\ j.at = "record" => a.at = "loop"
  BY <1>2 DEF After
<1>5. j.at # "record" => a.idx = j.idx
  BY <1>2 DEF CycleOver
<1>6. Walked(fs, a)
  <2>1. CASE j.at # "record"
    BY <1>5, <2>1 DEF Stocked, Walked
  <2>2. CASE j.at = "record"
    <3>1. a.idx = j.idx + 1
      BY <1>2, <2>2 DEF CycleOver
    <3>2. \A k \in 0 .. a.idx - 1 : k \in 0 .. j.idx - 1 \/ k = j.idx
      BY <1>3, <3>1
    <3>3. Kind(j) = <<"record", j.idx>> /\ Data(j).tree = j.tree
      BY <2>2 DEF Kind, Data
    <3>4. fs[<<"record", j.idx>>] = Data(j) /\ fs[<<"world", j.idx>>] = j.tree
      BY <1>3, <2>2, <3>3 DEF Stocked, Staged, Made, MadeStages, CycleStages, StagedKinds
    <3>5. Data(j) # Absent
      BY <2>2, SlotType, ConstantsDistinct DEF Whole, Slot, Staging, StagedKinds, WriteStages
    <3>. QED
      BY <3>3, <3>4, <3>5, <3>2 DEF Stocked, Walked, IsRecorded
  <2>. QED
    BY <2>1, <2>2
<1>7. Emptied(fs, a)
  BY <1>4 DEF Emptied, WriteStages, DirStages
<1>8. Made(fs, ds, a)
  <2>1. SUFFICES ASSUME a.at \in MadeStages, a.live
                 PROVE  Made(fs, ds, a)
    BY DEF Made
  <2>2. j.at \in {"cycle", "policy", "tree", "pool", "world", "next", "timing"} /\ a.idx = j.idx
    BY <1>4, <1>5, <2>1 DEF MadeStages, CycleStages, WriteStages, DirStages
  <2>3. CASE j.at = "cycle"
    <3>1. RecordsOf(fs, ds, j.idx) = {} /\ Reads(fs, ds, <<"tree", j.idx>>) \subseteq {Absent}
      BY <2>3 DEF Stocked, Emptied, RecordsOf, Reads
    <3>. QED
      BY <1>4, <2>2, <2>3, <3>1 DEF Made
  <2>4. CASE j.at # "cycle"
    <3>1. /\ RecordsOf(fs, ds, j.idx) = {}
          /\ Reads(fs, ds, <<"tree", j.idx>>) \subseteq
               {Absent, Torn} \cup {t \in {j.tree} : j.at \in TreeStages}
      BY <1>2, <2>1, <2>2, <2>4 DEF Stocked, Made, MadeStages, CycleStages
    <3>2. j.at \in TreeStages => a.at \in TreeStages
      BY <1>2, <1>4, <2>1, <2>2 DEF TreeStages
    <3>3. a.at \in {"dream", "next", "timing", "record"} =>
            /\ fs[<<"world", j.idx>>] = j.tree
            /\ Reads(fs, ds, <<"world", j.idx>>) \subseteq {Absent, Torn, j.tree}
      <4>1. CASE j.at = "world"
        <5>1. Kind(j) = <<"world", j.idx>> /\ Data(j) = j.tree
          BY <4>1 DEF Kind, Data
        <5>2. fs[<<"world", j.idx>>] = j.tree
          BY <4>1, <5>1 DEF Stocked, Staged, StagedKinds
        <5>. QED
          BY <4>1, <5>2 DEF Reads
      <4>2. CASE j.at \in {"next", "timing"}
        BY <1>2, <2>1, <4>2 DEF Stocked, Made, MadeStages, CycleStages
      <4>. QED
        BY <1>4, <2>2, <2>4, <4>1, <4>2
    <3>. QED
      BY <1>2, <2>2, <3>1, <3>2, <3>3 DEF Made
  <2>. QED
    BY <2>3, <2>4
<1>9. PutBack(fs, ds, a)
  <2>1. a.at \in {"pool", "world"} /\ ~a.live => j.at = "pool" /\ ~j.live
    BY <1>2, <1>3, <1>4 DEF CycleStages, WriteStages, DirStages
  <2>. QED
    BY <1>2, <1>5, <2>1 DEF Stocked, PutBack
<1>10. Staged(fs, un, a)
  BY <1>2 DEF Staged
<1>. QED
  BY <1>1, <1>6, <1>7, <1>8, <1>9, <1>10 DEF Stocked

\* One session moves; the others are in none.
LEMMA StockMove ==
  ASSUME TypeInv, PoolInv, NEW p \in Procs, job[p].at # "idle" \/ lock = Nobody,
         NEW m, job' = [job EXCEPT ![p] = m],
         m.at # "idle" => lock' = p /\ Stocked(seen', disk', unflushed', m),
         Coherent(seen', disk'), \A k \in Cycles : <<"record", k>> \notin unflushed'
  PROVE  PoolInv'
<1>1. \A q \in Procs \ {p} : job[q].at = "idle"
  BY Alone DEF PoolInv
<1>2. job'[p] = m /\ \A q \in Procs \ {p} : job'[q] = job[q]
  BY DEF TypeInv, TypeOK
<1>3. OneSession'
  BY <1>1, <1>2 DEF OneSession
<1>4. \A q \in Procs : job'[q].at # "idle" => Stocked(seen', disk', unflushed', job'[q])
  BY <1>1, <1>2
<1>. QED
  BY <1>3, <1>4 DEF PoolInv

\* A stage's system calls (MakeDirectory to SyncRename).
LEMMA StockPublish ==
  ASSUME TypeInv, PoolInv, NEW p \in Procs,
         \/ MakeDirectory(p) \/ SyncParents(p)
         \/ OpenFile(p) \/ FlushFile(p) \/ SyncName(p) \/ Rename(p) \/ SyncRename(p)
  PROVE  PoolInv'
<1>. DEFINE j == job[p]
<1>1. /\ j.at \in WriteStages \cup DirStages /\ JobOK(j) /\ j \in Jobs
      /\ lock' = lock /\ OneSession /\ Coherent(seen, disk)
      /\ \A k \in Cycles : <<"record", k>> \notin unflushed
  BY DEF MakeDirectory, SyncParents, OpenFile, FlushFile, SyncName, Rename, SyncRename,
         StagedKinds, WriteStages, TypeInv, PoolInv, JobOK
<1>2. j.at # "idle" /\ lock' = p /\ Stocked(seen, disk, unflushed, j)
  BY <1>1 DEF WriteStages, DirStages, OneSession, PoolInv
<1>3. /\ Kind(j) \in Names /\ Slot(j) \in Names /\ DOMAIN seen = Names /\ DOMAIN disk = Names
      /\ \A k \in Cycles, kind \in {"record", "tree", "world"} : <<kind, k>> \in Names
  BY <1>1, SlotType, StockNames DEF TypeInv, TypeOK, FileMap
\* The names of a stage that are records, trees or worlds.
<1>4. /\ \A k \in Cycles : Slot(j) # <<"record", k>> /\ Slot(j) # <<"world", k>>
      /\ \A k \in Cycles : Slot(j) = <<"tree", k>> => j.at = "tree" /\ k = j.idx
      /\ \A k \in Cycles, kind \in {"record", "tree", "world"} :
           Kind(j) = <<kind, k>> => j.at = kind /\ k = j.idx
  <2>1. /\ Kind(j)[1] = j.at /\ Kind(j) = <<Kind(j)[1], Kind(j)[2]>>
        /\ j.at \in CycleStages \ {"pool"} => Kind(j) = <<j.at, j.idx>>
        /\ j.at \notin StagedKinds => Slot(j) = Kind(j)
        /\ j.at \in StagedKinds => Slot(j)[1] \in {"session.tmp", "world.tmp", "record.tmp"}
    BY <1>1, Places
  <2>2. \A k \in Cycles, kind \in {"record", "tree", "world"} :
          Kind(j) = <<kind, k>> => j.at = kind /\ k = j.idx
    BY <2>1 DEF CycleStages
  <2>3. \A k \in Cycles, kind \in {"record", "tree", "world"} :
          Slot(j) = <<kind, k>> => j.at \notin StagedKinds /\ Kind(j) = <<kind, k>>
    BY <2>1
  <2>. QED
    BY <2>2, <2>3 DEF StagedKinds
\* What is left to prove of a system call that is not the stage's last, and of one that is.
<1>5. ASSUME NEW phase \in Phases \ {"open"}, job' = [job EXCEPT ![p].phase = phase],
             Stocked(seen', disk', unflushed', [j EXCEPT !.phase = phase]),
             Coherent(seen', disk'), \A k \in Cycles : <<"record", k>> \notin unflushed'
      PROVE  PoolInv'
  <2>1. job' = [job EXCEPT ![p] = [j EXCEPT !.phase = phase]]
    BY <1>5
  <2>. QED
    BY <1>2, <1>5, <2>1, StockMove
<1>6. ASSUME NEW ds, SyncDirs(ds)
      PROVE  Coherent(seen, disk') /\ Stocked(seen, disk', unflushed, j)
  <2>1. \A k \in Cycles, kind \in {"record", "tree", "world"} :
          disk'[<<kind, k>>] \in Reads(seen, disk, <<kind, k>>)
    BY <1>3, <1>6, SyncedDirs DEF Reads
  <2>2. Coherent(seen, disk')
    <3>1. \A k \in Cycles, kind \in {"record", "tree", "world"} :
            Reads(seen, disk', <<kind, k>>) \subseteq Reads(seen, disk, <<kind, k>>)
      BY <2>1 DEF Reads
    <3>. QED
      BY <1>1, <3>1, FadedOnly
  <2>3. Stocked(seen, disk', unflushed, j)
    BY <1>1, <1>2, <2>1, StockedMixed
  <2>. QED
    BY <2>2, <2>3
<1>7. ASSUME job' = [job EXCEPT ![p] = Advanced(j)], seen' = seen, unflushed' = unflushed,
             Coherent(seen, disk'), Stocked(seen, disk', unflushed, j),
             j.at \in StagedKinds => j.phase = "sync",
             j.at = "cycle" => disk'[<<"record", j.idx>>] = Absent /\ disk'[<<"tree", j.idx>>] = Absent,
             j.at = "world" => disk'[<<"world", j.idx>>] = seen[<<"world", j.idx>>]
      PROVE  PoolInv'
  <2>1. Stocked(seen, disk', unflushed, Advanced(j))
    BY <1>1, <1>7, StockedAdvance
  <2>. QED
    BY <1>1, <1>2, <1>7, <2>1, StockMove
<1>8. j.at \in CycleStages => j.idx \in Cycles
  BY <1>1, StockCycles
<1>9. CASE MakeDirectory(p)
  <2>1. j.at \in DirStages /\ j.phase = "open" /\ disk' = disk /\ unflushed' = unflushed
    BY <1>9 DEF MakeDirectory
  <2>2. CASE seen[Kind(j)] # Absent
    <3>1. job' = [job EXCEPT ![p] = Advanced(j)] /\ seen' = seen
      BY <1>9, <2>2 DEF MakeDirectory
    <3>2. j.at = "cycle" => Kind(j) = <<"cycle", j.idx>>
      BY DEF Kind
    <3>3. j.at # "cycle"
      BY <1>2, <2>1, <2>2, <3>2 DEF Stocked, Emptied
    <3>. QED
      BY <1>1, <1>2, <1>7, <2>1, <3>1, <3>3 DEF DirStages, StagedKinds
  <2>3. CASE seen[Kind(j)] = Absent
    <3>1. job' = [job EXCEPT ![p].phase = "sync"] /\ seen' = [seen EXCEPT ![Kind(j)] = Some]
      BY <1>9, <2>3 DEF MakeDirectory
    <3>2. \A k \in Cycles, kind \in {"record", "tree", "world"} :
            seen'[<<kind, k>>] = seen[<<kind, k>>]
      BY <1>3, <1>4, <2>1, <3>1 DEF DirStages
    <3>3. Staged(seen', unflushed', [j EXCEPT !.phase = "sync"])
      BY <1>1, <2>1 DEF Staged, DirStages, Jobs
    <3>4. Stocked(seen', disk', unflushed', [j EXCEPT !.phase = "sync"])
      BY <1>1, <1>2, <2>1, <3>2, <3>3, StockedWrite DEF Phases
    <3>5. Coherent(seen', disk')
      <4>1. \A k \in Cycles, kind \in {"record", "tree", "world"} :
              Reads(seen', disk', <<kind, k>>) \subseteq Reads(seen, disk, <<kind, k>>)
        BY <2>1, <3>2 DEF Reads
      <4>. QED
        BY <1>1, <4>1, FadedOnly
    <3>. QED
      BY <1>1, <1>5, <2>1, <3>1, <3>4, <3>5 DEF Phases
  <2>. QED
    BY <2>2, <2>3
<1>10. CASE SyncParents(p)
  <2>1. /\ j.at \in DirStages /\ j.phase = "sync"
        /\ SyncDirs({Parent(Kind(j))} \cup (IF j.at = "cycle" THEN {Kind(j)} ELSE {}))
        /\ job' = [job EXCEPT ![p] = Advanced(j)] /\ seen' = seen /\ unflushed' = unflushed
    BY <1>10 DEF SyncParents
  <2>2. Coherent(seen, disk') /\ Stocked(seen, disk', unflushed, j)
    BY <1>6, <2>1
  <2>3. j.at = "cycle" => \A kind \in {"record", "tree"} : disk'[<<kind, j.idx>>] = Absent
    <3>1. SUFFICES ASSUME j.at = "cycle", NEW kind \in {"record", "tree"}
                   PROVE  disk'[<<kind, j.idx>>] = Absent
      OBVIOUS
    <3>2. Kind(j) = <<"cycle", j.idx>> /\ j.idx \in Cycles
      BY <1>8, <3>1 DEF Kind, CycleStages
    <3>3. <<kind, j.idx>> # Root /\ <<kind, j.idx>> \in Names
      BY <3>1, <3>2, StockNames
    <3>4. Parent(<<kind, j.idx>>) = Kind(j)
      BY <3>1, <3>2 DEF Parent, FileKinds, RunKinds, PoolKinds
    <3>5. disk'[<<kind, j.idx>>] = seen[<<kind, j.idx>>]
      BY <2>1, <3>1, <3>3, <3>4, SyncedDirs
    <3>. QED
      BY <1>2, <3>1, <3>5 DEF Stocked, Emptied
  <2>. QED
    BY <1>7, <2>1, <2>2, <2>3 DEF DirStages, StagedKinds
<1>11. CASE OpenFile(p)
  <2>1. /\ job' = [job EXCEPT ![p].phase = "flush"] /\ seen' = [seen EXCEPT ![Slot(j)] = Torn]
        /\ disk' = disk /\ unflushed' = unflushed \cup {Slot(j)} /\ j.phase = "open"
    BY <1>11 DEF OpenFile
  <2>2. /\ \A k \in Cycles, kind \in {"record", "world"} : seen'[<<kind, k>>] = seen[<<kind, k>>]
        /\ \A k \in Cycles : \/ seen'[<<"tree", k>>] = seen[<<"tree", k>>]
                             \/ j.at = "tree" /\ k = j.idx /\ seen'[<<"tree", k>>] = Torn
    BY <1>3, <1>4, <2>1
  <2>3. Coherent(seen', disk')
    <3>1. \A k \in Cycles :
            Reads(seen', disk', <<"record", k>>)
              \subseteq Reads(seen, disk, <<"record", k>>) \cup {Absent}
      BY <2>1, <2>2 DEF Reads
    <3>2. \A k \in Cycles : \A kind \in {"tree", "world"} :
            Reads(seen', disk', <<kind, k>>)
              \subseteq Reads(seen, disk, <<kind, k>>) \cup {Absent, Torn}
      BY <2>1, <2>2 DEF Reads
    <3>. QED
      BY <1>1, <3>1, <3>2, Faded
  <2>4. Staged(seen', unflushed', [j EXCEPT !.phase = "flush"])
    BY <1>1 DEF Staged, Jobs
  <2>5. \A k \in Cycles :
           \/ j.at = "tree" /\ k = j.idx /\ Reads(seen', disk', <<"tree", k>>)
             \subseteq {Absent, Torn, j.tree}
           \/ seen'[<<"tree", k>>] = seen[<<"tree", k>>]
    <3>1. j.at = "tree" => Reads(seen, disk, <<"tree", j.idx>>) \subseteq {Absent, Torn, j.tree}
      BY <1>1, <1>2 DEF Stocked, Made, MadeStages, CycleStages, JobOK
    <3>. QED
      BY <2>1, <2>2, <3>1 DEF Reads
  <2>6. Stocked(seen', disk', unflushed', [j EXCEPT !.phase = "flush"])
    BY <1>1, <1>2, <2>1, <2>2, <2>4, <2>5, StockedWrite DEF Phases
  <2>. QED
    BY <1>1, <1>4, <1>5, <2>1, <2>3, <2>6 DEF Phases
<1>12. CASE FlushFile(p)
  <2>1. /\ job' = [job EXCEPT ![p].phase = "name"] /\ seen' = [seen EXCEPT ![Slot(j)] = Data(j)]
        /\ disk' = [disk EXCEPT ![Slot(j)] = IF @ = Absent THEN Absent ELSE Data(j)]
        /\ unflushed' = unflushed \ {Slot(j)} /\ j.phase = "flush"
    BY <1>12 DEF FlushFile
  <2>2. \A k \in Cycles, kind \in {"record", "tree", "world"} :
          \/ j.at = "tree" /\ kind = "tree" /\ k = j.idx
          \/ seen'[<<kind, k>>] = seen[<<kind, k>>] /\ disk'[<<kind, k>>] = disk[<<kind, k>>]
    BY <1>3, <1>4, <2>1
  <2>3. j.at = "tree" => Reads(seen', disk', <<"tree", j.idx>>) \subseteq {Absent, j.tree}
    <3>1. j.at = "tree" => Slot(j) = <<"tree", j.idx>> /\ Data(j) = j.tree
      BY DEF Slot, Kind, Data, StagedKinds
    <3>. QED
      BY <1>3, <2>1, <3>1 DEF Reads
  <2>4. Coherent(seen', disk')
    <3>1. CASE j.at = "tree"
      <4>1. RecordsOf(seen, disk, j.idx) = {} /\ j.idx \in Cycles
        BY <1>1, <1>2, <1>8, <3>1 DEF Stocked, Made, MadeStages, CycleStages, JobOK
      <4>2. RecordsOf(seen', disk', j.idx) = {}
        BY <2>2, <4>1 DEF RecordsOf, Reads
      <4>3. \A r \in RecordsOf(seen', disk', j.idx) :
              /\ r \in Records
              /\ \A kind \in {"tree", "world"} :
                   Reads(seen', disk', <<kind, j.idx>>) \subseteq {Absent, Torn, r.tree}
        BY <4>2
      <4>4. \A k \in Cycles \ {j.idx} : \A kind \in {"record", "tree", "world"} :
              seen'[<<kind, k>>] = seen[<<kind, k>>] /\ disk'[<<kind, k>>] = disk[<<kind, k>>]
        BY <2>2
      <4>. QED
        BY <1>1, <4>3, <4>4, Rewritten
    <3>2. CASE j.at # "tree"
      <4>1. \A k \in Cycles, kind \in {"record", "tree", "world"} :
              Reads(seen', disk', <<kind, k>>) \subseteq Reads(seen, disk, <<kind, k>>)
        BY <2>2, <3>2 DEF Reads
      <4>. QED
        BY <1>1, <4>1, FadedOnly
    <3>. QED
      BY <3>1, <3>2
  <2>5. Staged(seen', unflushed', [j EXCEPT !.phase = "name"])
    <3>1. PICK m : m = [j EXCEPT !.phase = "name"]
      OBVIOUS
    <3>2. m.phase = "name" /\ Slot(m) = Slot(j) /\ Data(m) = Data(j)
      BY <1>1, <3>1 DEF Jobs, Slot, Kind, Data
    <3>. QED
      BY <1>3, <2>1, <3>1, <3>2 DEF Staged
  <2>6. Stocked(seen', disk', unflushed', [j EXCEPT !.phase = "name"])
    <3>1. \A k \in Cycles :
            /\ seen'[<<"record", k>>] = seen[<<"record", k>>]
            /\ disk'[<<"record", k>>] = disk[<<"record", k>>]
      BY <2>2
    <3>2. \A k \in Cycles :
            /\ seen'[<<"world", k>>] = seen[<<"world", k>>]
            /\ disk'[<<"world", k>>] = disk[<<"world", k>>]
      BY <2>2
    <3>3. \A k \in Cycles :
            \/ j.at = "tree" /\ k = j.idx /\ Reads(seen', disk', <<"tree", k>>)
              \subseteq {Absent, Torn, j.tree}
            \/ /\ seen'[<<"tree", k>>] = seen[<<"tree", k>>]
               /\ disk'[<<"tree", k>>] = disk[<<"tree", k>>]
      BY <2>2, <2>3
    <3>. QED
      <4>1. "name" \in Phases \ {"open"} /\ j.phase # "sync"
        BY <2>1 DEF Phases
      <4>. QED
        BY <1>1, <1>2, <2>5, <3>1, <3>2, <3>3, <4>1, StockedWrite
  <2>. QED
    BY <1>1, <1>5, <2>1, <2>4, <2>6 DEF Phases
<1>13. CASE SyncName(p)
  <2>1. /\ j.at \in WriteStages /\ j.phase = "name" /\ SyncDirs({Parent(Slot(j))})
        /\ seen' = seen /\ unflushed' = unflushed
    BY <1>13 DEF SyncName
  <2>2. Coherent(seen, disk') /\ Stocked(seen, disk', unflushed, j)
    BY <1>6, <2>1
  <2>3. CASE j.at \in StagedKinds
    <3>1. job' = [job EXCEPT ![p].phase = "rename"]
      BY <1>13, <2>3 DEF SyncName
    <3>2. Staged(seen', unflushed', [j EXCEPT !.phase = "rename"])
      <4>1. PICK m : m = [j EXCEPT !.phase = "rename"]
        OBVIOUS
      <4>2. m.phase = "rename" /\ m.at = j.at /\ Slot(m) = Slot(j) /\ Data(m) = Data(j)
        BY <1>1, <4>1 DEF Jobs, Slot, Kind, Data
      <4>. QED
        BY <2>1, <2>2, <4>1, <4>2 DEF Staged, Stocked
    <3>3. Stocked(seen', disk', unflushed', [j EXCEPT !.phase = "rename"])
      BY <1>1, <2>1, <2>2, <3>2, StockedWrite DEF Phases
    <3>. QED
      BY <1>1, <1>5, <2>1, <2>2, <3>1, <3>3 DEF Phases
  <2>4. CASE j.at \notin StagedKinds
    <3>1. job' = [job EXCEPT ![p] = Advanced(j)]
      BY <1>13, <2>4 DEF SyncName
    <3>. QED
      BY <1>7, <2>1, <2>2, <2>4, <3>1 DEF StagedKinds, WriteStages
  <2>. QED
    BY <2>3, <2>4
<1>14. CASE Rename(p)
  <2>1. /\ j.at \in StagedKinds /\ j.phase = "rename" /\ disk' = disk
        /\ job' = [job EXCEPT ![p].phase = "sync"]
        /\ seen' = [seen EXCEPT ![Kind(j)] = seen[Slot(j)], ![Slot(j)] = Absent]
        /\ unflushed' = (unflushed \ {Kind(j), Slot(j)}) \cup {n \in {Kind(j)} : Slot(j) \in unflushed}
    BY <1>14 DEF Rename
  <2>2. /\ j.at \in {"session", "world", "record"} /\ Slot(j) # Kind(j)
        /\ \A k \in Cycles : Slot(j) # <<"tree", k>>
        /\ j.at \in {"world", "record"} => Kind(j) = <<j.at, j.idx>> /\ j.idx \in Cycles
    BY <1>4, <1>8, <2>1 DEF StagedKinds, Slot, Kind, Staging, CycleStages
  <2>3. /\ \A k \in Cycles, kind \in {"record", "tree", "world"} :
             \/ j.at = kind /\ k = j.idx
             \/ seen'[<<kind, k>>] = seen[<<kind, k>>]
        /\ j.at \in {"world", "record"} => /\ seen'[<<j.at, j.idx>>] = Data(j)
                                           /\ Slot(j) \notin unflushed
    <3>1. j.at \in {"world", "record"} => seen[Slot(j)] = Data(j) /\ Slot(j) \notin unflushed
      BY <1>2, <2>1 DEF Stocked, Staged
    <3>. QED
      BY <1>3, <1>4, <2>1, <2>2, <3>1
  <2>4. \A k \in Cycles : <<"record", k>> \notin unflushed'
    BY <1>1, <1>4, <2>1, <2>3
  <2>5. Coherent(seen', disk')
    <3>1. CASE j.at = "session"
      <4>1. \A k \in Cycles, kind \in {"record", "tree", "world"} :
              Reads(seen', disk', <<kind, k>>) \subseteq Reads(seen, disk, <<kind, k>>)
        BY <2>1, <2>3, <3>1 DEF Reads
      <4>. QED
        BY <1>1, <4>1, FadedOnly
    <3>2. CASE j.at = "world"
      <4>1. Data(j) = j.tree /\ Reads(seen', disk', <<"world", j.idx>>) = {j.tree, disk[<<"world", j.idx>>]}
        BY <2>1, <2>3, <3>2 DEF Data, Reads
      <4>2. \A r \in RecordsOf(seen, disk, j.idx) : r.tree = j.tree
        BY <1>1, <1>2, <3>2 DEF Stocked, Made, PutBack, MadeStages, CycleStages
      <4>3. \A r \in RecordsOf(seen, disk, j.idx) :
              /\ r \in Records
              /\ \A kind \in {"tree", "world"} :
                   Reads(seen, disk, <<kind, j.idx>>) \subseteq {Absent, Torn, r.tree}
        BY <1>1, <2>2, <3>2 DEF Coherent
      <4>4. /\ RecordsOf(seen', disk', j.idx) = RecordsOf(seen, disk, j.idx)
            /\ Reads(seen', disk', <<"tree", j.idx>>) = Reads(seen, disk, <<"tree", j.idx>>)
        BY <2>1, <2>2, <2>3, <3>2 DEF RecordsOf, Reads
      <4>5. \A r \in RecordsOf(seen', disk', j.idx) :
              /\ r \in Records
              /\ \A kind \in {"tree", "world"} :
                   Reads(seen', disk', <<kind, j.idx>>) \subseteq {Absent, Torn, r.tree}
        BY <4>1, <4>2, <4>3, <4>4 DEF Reads
      <4>6. \A k \in Cycles \ {j.idx} : \A kind \in {"record", "tree", "world"} :
              seen'[<<kind, k>>] = seen[<<kind, k>>] /\ disk'[<<kind, k>>] = disk[<<kind, k>>]
        BY <2>1, <2>3
      <4>. QED
        BY <1>1, <4>5, <4>6, Rewritten
    <3>3. CASE j.at = "record"
      <4>1. Data(j) \in Records /\ Data(j).tree = j.tree
        BY <1>1, <3>3 DEF Data, Records, JobOK, TreeStages
      <4>2. /\ RecordsOf(seen, disk, j.idx) = {}
            /\ \A kind \in {"tree", "world"} :
                 Reads(seen, disk, <<kind, j.idx>>) \subseteq {Absent, Torn, j.tree}
        BY <1>1, <1>2, <2>1, <3>3 DEF Stocked, Made, MadeStages, CycleStages, TreeStages, JobOK
      <4>3. /\ RecordsOf(seen', disk', j.idx) \subseteq {Data(j)}
            /\ \A kind \in {"tree", "world"} :
                 Reads(seen', disk', <<kind, j.idx>>) = Reads(seen, disk, <<kind, j.idx>>)
        BY <2>1, <2>2, <2>3, <3>3, <4>2 DEF RecordsOf, Reads
      <4>4. \A r \in RecordsOf(seen', disk', j.idx) :
              /\ r \in Records
              /\ \A kind \in {"tree", "world"} :
                   Reads(seen', disk', <<kind, j.idx>>) \subseteq {Absent, Torn, r.tree}
        BY <4>1, <4>2, <4>3
      <4>5. \A k \in Cycles \ {j.idx} : \A kind \in {"record", "tree", "world"} :
              seen'[<<kind, k>>] = seen[<<kind, k>>] /\ disk'[<<kind, k>>] = disk[<<kind, k>>]
        BY <2>1, <2>3
      <4>. QED
        BY <1>1, <4>4, <4>5, Rewritten
    <3>. QED
      BY <2>2, <3>1, <3>2, <3>3
  <2>6. Staged(seen', unflushed', [j EXCEPT !.phase = "sync"])
    <3>1. PICK m : m = [j EXCEPT !.phase = "sync"]
      OBVIOUS
    <3>2. m.phase = "sync" /\ m.at = j.at /\ Kind(m) = Kind(j) /\ Data(m) = Data(j)
      BY <1>1, <3>1 DEF Jobs, Kind, Data
    <3>. QED
      BY <2>2, <2>3, <3>1, <3>2 DEF Staged
  <2>7. Stocked(seen', disk', unflushed', [j EXCEPT !.phase = "sync"])
    <3>1. \A k \in Cycles :
            \/ j.at = "record" /\ k = j.idx
            \/ /\ seen'[<<"record", k>>] = seen[<<"record", k>>]
               /\ disk'[<<"record", k>>] = disk[<<"record", k>>]
      BY <2>1, <2>3
    <3>2. \A k \in Cycles :
            /\ /\ seen'[<<"tree", k>>] = seen[<<"tree", k>>]
               /\ disk'[<<"tree", k>>] = disk[<<"tree", k>>]
      BY <2>1, <2>2, <2>3
    <3>3. \A k \in Cycles :
            \/ j.at = "world" /\ k = j.idx
            \/ /\ seen'[<<"world", k>>] = seen[<<"world", k>>]
               /\ disk'[<<"world", k>>] = disk[<<"world", k>>]
      BY <2>1, <2>3
    <3>. QED
      <4>1. "sync" \in Phases \ {"open"} /\ j.phase # "sync"
        BY <2>1 DEF Phases
      <4>. QED
        BY <1>1, <1>2, <2>6, <3>1, <3>2, <3>3, <4>1, StockedWrite
  <2>. QED
    BY <1>5, <2>1, <2>4, <2>5, <2>7 DEF Phases
<1>15. CASE SyncRename(p)
  <2>1. /\ j.at \in StagedKinds /\ j.phase = "sync" /\ SyncDirs({Parent(Kind(j))})
        /\ seen' = seen /\ unflushed' = unflushed /\ job' = [job EXCEPT ![p] = Advanced(j)]
    BY <1>15 DEF SyncRename
  <2>2. Coherent(seen, disk') /\ Stocked(seen, disk', unflushed, j)
    BY <1>6, <2>1
  <2>3. j.at = "world" => disk'[<<"world", j.idx>>] = seen[<<"world", j.idx>>]
    <3>1. j.at = "world" => /\ Kind(j) = <<"world", j.idx>> /\ j.idx \in Cycles
      BY <1>8 DEF Kind, CycleStages
    <3>. QED
      BY <2>1, <3>1, StockNames, SyncedDirs
  <2>. QED
    BY <1>7, <2>1, <2>2, <2>3 DEF StagedKinds
<1>. QED
  BY <1>9, <1>10, <1>11, <1>12, <1>13, <1>14, <1>15

\* Between the stages that make a cycle, only what was walked matters.
LEMMA StockedPlain ==
  ASSUME NEW fs, NEW ds, NEW un, NEW m, Walked(fs, m), m.at \notin {"cycle"} \cup MadeStages
  PROVE  Stocked(fs, ds, un, m)
  BY DEF Stocked, Emptied, Made, PutBack, Staged, MadeStages, CycleStages

\* A whole tree beside a record is the one it reports.
LEMMA RecordedTree ==
  ASSUME NEW fs, NEW ds, Coherent(fs, ds), NEW k \in Cycles, NEW r \in RecordsOf(fs, ds, k),
         NEW kind \in {"tree", "world"}, fs[<<kind, k>>] \in Trees
  PROVE  fs[<<kind, k>>] = r.tree
<1>1. fs[<<kind, k>>] \in {Absent, Torn, r.tree}
  BY DEF Coherent, Reads
<1>. QED
  BY <1>1, ConstantsDistinct

\* What clearing cycle i takes, and what it leaves.
LEMMA ClearedNames ==
  ASSUME NEW i \in Cycles
  PROVE  /\ {<<"cycle", i>>, <<"record", i>>, <<"tree", i>>} \subseteq CycleNames(i)
         /\ \A k \in Cycles \ {i} : <<"record", k>> \notin CycleNames(i)
         /\ \A k \in Cycles : <<"world", k>> \notin CycleNames(i)
<1>1. \A k \in Cycles, kind \in {"record", "tree"} : Parent(<<kind, k>>) = <<"cycle", k>>
  BY DEF Parent, RunKinds, FileKinds, PoolKinds
<1>2. \A k \in Cycles : Parent(<<"world", k>>) = <<"pool", 0>>
  BY DEF Parent, RunKinds, FileKinds, PoolKinds
<1>3. \A k \in Cycles, kind \in {"record", "tree", "world"} :
        <<kind, k>> \in Names /\ <<kind, k>> # Root /\ <<kind, k>> # <<"cycle", i>>
  BY StockNames
<1>4. \A k, l : <<"cycle", k>> = <<"cycle", l>> => k = l
  OBVIOUS
<1>5. \A l : <<"pool", 0>> # <<"cycle", l>>
  OBVIOUS
<1>6. {<<"cycle", i>>, <<"record", i>>, <<"tree", i>>} \subseteq CycleNames(i)
  BY <1>1, <1>3 DEF CycleNames, Entries
<1>7. \A k \in Cycles \ {i} : <<"record", k>> \notin CycleNames(i)
  BY <1>1, <1>3, <1>4 DEF CycleNames, Entries
<1>8. \A k \in Cycles : <<"world", k>> \notin CycleNames(i)
  BY <1>2, <1>3, <1>5 DEF CycleNames, Entries
<1>. QED
  BY <1>6, <1>7, <1>8

\* The actions between the files (CheckManifest to Dream), and a session that is stopped.
LEMMA StockDecide ==
  ASSUME TypeInv, PoolInv, NEW p \in Procs,
         \/ CheckManifest(p) \/ ResumeCycle(p) \/ ResumeDone(p) \/ NextCycle(p) \/ Finish(p)
         \/ Clear(p) \/ Rollout(p) \/ Dream(p) \/ Stop(p)
  PROVE  PoolInv'
<1>. DEFINE j == job[p]
<1>1. /\ JobOK(j) /\ j \in Jobs /\ j.at # "idle" /\ lock = p
      /\ Stocked(seen, disk, unflushed, j) /\ Coherent(seen, disk)
  BY DEF CheckManifest, ResumeCycle, ResumeDone, NextCycle, Finish, Clear, Rollout, Dream, Stop,
         TypeInv, JobOK, PoolInv, OneSession
<1>2. disk' = disk /\ unflushed' = unflushed /\ \A n \in Names : seen'[n] \in {seen[n], Absent}
  <2>1. CASE \E gone \in SUBSET CycleNames(j.idx) : seen' = Without(gone)
    BY <2>1 DEF Without, CheckManifest, ResumeCycle, ResumeDone, NextCycle, Finish, Clear,
                Rollout, Dream, Stop, fsVars
  <2>2. CASE seen' = seen
    BY <2>2 DEF CheckManifest, ResumeCycle, ResumeDone, NextCycle, Finish, Clear, Rollout,
                Dream, Stop, fsVars
  <2>. QED
    BY <2>1, <2>2
    DEF CheckManifest, ResumeCycle, ResumeDone, NextCycle, Finish, Clear, Rollout, Dream, Stop,
        fsVars
<1>3. Coherent(seen', disk') /\ \A k \in Cycles : <<"record", k>> \notin unflushed'
  <2>1. \A k \in Cycles :
          Reads(seen', disk', <<"record", k>>)
            \subseteq Reads(seen, disk, <<"record", k>>) \cup {Absent}
    BY <1>2, StockNames DEF Reads
  <2>2. \A k \in Cycles : \A kind \in {"tree", "world"} :
          Reads(seen', disk', <<kind, k>>)
            \subseteq Reads(seen, disk, <<kind, k>>) \cup {Absent, Torn}
    BY <1>2, StockNames DEF Reads
  <2>3. Coherent(seen', disk')
    BY <1>1, <2>1, <2>2, Faded
  <2>. QED
    BY <1>2, <2>3 DEF PoolInv
<1>4. ASSUME NEW how, Leave(p, how)
      PROVE  PoolInv'
  <2>1. job' = [job EXCEPT ![p] = Idle] /\ Idle.at = "idle"
    BY <1>4 DEF Leave, Idle
  <2>. QED
    BY <1>1, <1>3, <2>1, StockMove
<1>5. ASSUME NEW m, job' = [job EXCEPT ![p] = m], lock' = lock,
             Stocked(seen', disk, unflushed, m)
      PROVE  PoolInv'
  BY <1>1, <1>2, <1>3, <1>5, StockMove
<1>6. ASSUME NEW m, job' = [job EXCEPT ![p] = m], lock' = lock, seen' = seen, m.idx = j.idx,
             m.at \notin {"cycle"} \cup MadeStages
      PROVE  PoolInv'
  <2>1. Walked(seen', m)
    BY <1>1, <1>6 DEF Stocked, Walked
  <2>. QED
    BY <1>5, <1>6, <2>1, StockedPlain
<1>7. CASE CheckManifest(p)
  <2>1. ASSUME NEW stage \in {"manifest", "session"}, Goto(p, stage), lock' = lock, seen' = seen
        PROVE  PoolInv'
    <3>1. PICK m : m = [j EXCEPT !.at = stage]
      OBVIOUS
    <3>2. job' = [job EXCEPT ![p] = m] /\ m.idx = j.idx /\ m.at \notin {"cycle"} \cup MadeStages
      BY <1>1, <2>1, <3>1 DEF Goto, Jobs, MadeStages, CycleStages
    <3>. QED
      BY <1>6, <2>1, <3>2
  <2>. QED
    BY <1>4, <1>7, <2>1 DEF CheckManifest, fsVars
<1>8. CASE ResumeCycle(p)
  <2>1. /\ j.at = "resume" /\ ~j.live /\ j.idx \in Cycles /\ seen' = seen
        /\ seen[<<"record", j.idx>>] \in RecordsOf(seen, disk, j.idx)
    <3>1. j.at = "resume" /\ j.idx < j.want /\ HasRecord(j.idx) /\ seen' = seen
      BY <1>8 DEF ResumeCycle, fsVars
    <3>2. j.idx \in Cycles
      BY <1>1, <3>1, BoundsAreNat DEF JobOK, Jobs, Cycles
    <3>. QED
      BY <1>1, <3>1, <3>2 DEF JobOK, HasRecord, RecordsOf, Reads
  <2>2. \/ \E source : /\ job' = [job EXCEPT ![p] = [j EXCEPT !.idx = j.idx + 1, !.source = source]]
                       /\ lock' = lock /\ PoolHolds(j.idx)
        \/ /\ job' = [job EXCEPT ![p] = [j EXCEPT !.at = "pool", !.tree = seen[<<"tree", j.idx>>]]]
           /\ lock' = lock /\ seen[<<"tree", j.idx>>] \in Trees
        \/ Leave(p, "broken")
    BY <1>8 DEF ResumeCycle
  <2>3. ASSUME NEW source,
               job' = [job EXCEPT ![p] = [j EXCEPT !.idx = j.idx + 1, !.source = source]],
               lock' = lock, PoolHolds(j.idx)
        PROVE  PoolInv'
    <3>1. PICK m : m = [j EXCEPT !.idx = j.idx + 1, !.source = source]
      OBVIOUS
    <3>2. m.idx = j.idx + 1 /\ m.at = "resume"
      BY <1>1, <2>1, <3>1 DEF Jobs
    <3>3. seen[<<"world", j.idx>>] = seen[<<"record", j.idx>>].tree
      BY <1>1, <2>1, <2>3, RecordedTree DEF PoolHolds
    <3>4. IsRecorded(seen, j.idx)
      BY <2>1 DEF RecordsOf, IsRecorded
    <3>5. \A k \in 0 .. m.idx - 1 : k \in 0 .. j.idx - 1 \/ k = j.idx
      BY <1>1, <3>2 DEF Jobs
    <3>6. Walked(seen', m)
      BY <1>1, <2>1, <3>3, <3>4, <3>5 DEF Stocked, Walked
    <3>7. Stocked(seen', disk, unflushed, m)
      BY <3>2, <3>6, StockedPlain DEF MadeStages, CycleStages
    <3>. QED
      BY <1>5, <2>3, <3>1, <3>7
  <2>4. ASSUME job' = [job EXCEPT ![p] = [j EXCEPT !.at = "pool", !.tree = seen[<<"tree", j.idx>>]]],
               lock' = lock, seen[<<"tree", j.idx>>] \in Trees
        PROVE  PoolInv'
    <3>1. PICK m : m = [j EXCEPT !.at = "pool", !.tree = seen[<<"tree", j.idx>>]]
      OBVIOUS
    <3>2. m.idx = j.idx /\ m.at = "pool" /\ m.tree = seen[<<"tree", j.idx>>] /\ m.live = j.live
      BY <1>1, <3>1 DEF Jobs
    <3>3. \A r \in RecordsOf(seen, disk, j.idx) : r.tree = m.tree
      BY <1>1, <2>1, <2>4, <3>2, RecordedTree
    <3>4. PutBack(seen, disk, m)
      BY <2>1, <3>2, <3>3 DEF PutBack, RecordsOf, IsRecorded
    <3>5. Walked(seen, m) /\ Emptied(seen, m) /\ Made(seen, disk, m) /\ Staged(seen, unflushed, m)
      BY <1>1, <2>1, <3>2 DEF Stocked, Walked, Emptied, Made, Staged
    <3>6. Stocked(seen', disk, unflushed, m)
      BY <2>1, <3>4, <3>5 DEF Stocked
    <3>. QED
      BY <1>5, <2>4, <3>1, <3>6
  <2>. QED
    BY <1>4, <2>2, <2>3, <2>4
<1>9. CASE ResumeDone(p)
  <2>1. PICK m : m = [j EXCEPT !.live = TRUE, !.at = "loop"]
    OBVIOUS
  <2>2. job' = [job EXCEPT ![p] = m] /\ lock' = lock /\ seen' = seen
    BY <1>9, <2>1 DEF ResumeDone, fsVars
  <2>3. m.idx = j.idx /\ m.at \notin {"cycle"} \cup MadeStages
    BY <1>1, <2>1 DEF Jobs, MadeStages, CycleStages
  <2>. QED
    BY <1>6, <2>2, <2>3
<1>10. CASE NextCycle(p)
  <2>1. PICK m : m = [j EXCEPT !.at = "clear"]
    OBVIOUS
  <2>2. job' = [job EXCEPT ![p] = m] /\ lock' = lock /\ seen' = seen
    BY <1>10, <2>1 DEF NextCycle, Goto, fsVars
  <2>3. m.idx = j.idx /\ m.at \notin {"cycle"} \cup MadeStages
    BY <1>1, <2>1 DEF Jobs, MadeStages, CycleStages
  <2>. QED
    BY <1>6, <2>2, <2>3
<1>11. CASE Finish(p)
  BY <1>4, <1>11 DEF Finish
<1>12. CASE Clear(p)
  <2>1. PICK m : m = [j EXCEPT !.at = "cycle"]
    OBVIOUS
  <2>2. /\ job' = [job EXCEPT ![p] = m] /\ lock' = lock /\ seen' = Without(CycleNames(j.idx))
        /\ j.at = "clear"
    BY <1>12, <2>1 DEF Clear, Goto
  <2>3. m.idx = j.idx /\ m.at = "cycle"
    BY <1>1, <2>1 DEF Jobs
  <2>4. j.idx \in Cycles /\ \A k \in 0 .. j.idx - 1 : k \in Cycles /\ k # j.idx
    BY <1>1, <2>2, StockCycles DEF CycleStages
  <2>5. /\ \A k \in 0 .. j.idx - 1 : /\ seen'[<<"record", k>>] = seen[<<"record", k>>]
                                     /\ seen'[<<"world", k>>] = seen[<<"world", k>>]
        /\ seen'[<<"record", j.idx>>] = Absent /\ seen'[<<"tree", j.idx>>] = Absent
        /\ seen'[<<"cycle", j.idx>>] = Absent
    <3>1. /\ <<"cycle", j.idx>> \in Names
          /\ \A k \in Cycles, kind \in {"record", "tree", "world"} : <<kind, k>> \in Names
      BY <2>4, StockNames DEF Names
    <3>. QED
      BY <2>2, <2>4, <3>1, ClearedNames DEF Without
  <2>6. Walked(seen', m)
    BY <1>1, <2>3, <2>5 DEF Stocked, Walked, IsRecorded
  <2>7. Emptied(seen', m)
    BY <2>3, <2>5 DEF Emptied
  <2>8. Made(seen', disk, m) /\ PutBack(seen', disk, m) /\ Staged(seen', unflushed, m)
    BY <2>3 DEF Made, PutBack, Staged, MadeStages
  <2>9. Stocked(seen', disk, unflushed, m)
    BY <2>6, <2>7, <2>8 DEF Stocked
  <2>. QED
    BY <1>5, <2>2, <2>9
<1>13. CASE Rollout(p)
  <2>1. PICK t \in Trees : job' = [job EXCEPT ![p] = [j EXCEPT !.tree = t, !.at = "tree"]]
    BY <1>13 DEF Rollout
  <2>2. PICK m : m = [j EXCEPT !.tree = t, !.at = "tree"]
    OBVIOUS
  <2>3. /\ j.at = "rollout" /\ lock' = lock /\ seen' = seen
        /\ m.idx = j.idx /\ m.at = "tree" /\ m.live = j.live /\ m.tree = t
    BY <1>1, <1>13, <2>2 DEF Rollout, Jobs, fsVars
  <2>4. Made(seen, disk, m)
    BY <1>1, <2>3 DEF Stocked, Made, MadeStages, CycleStages, TreeStages
  <2>5. Walked(seen, m) /\ Emptied(seen, m) /\ PutBack(seen, disk, m) /\ Staged(seen, unflushed, m)
    BY <1>1, <2>3 DEF Stocked, Walked, Emptied, PutBack, Staged
  <2>6. Stocked(seen', disk, unflushed, m)
    BY <2>3, <2>4, <2>5 DEF Stocked
  <2>. QED
    BY <1>5, <2>1, <2>2, <2>3, <2>6
<1>14. CASE Dream(p)
  <2>1. \/ \E q \in Policies : job' = [job EXCEPT ![p] = [j EXCEPT !.next = q, !.at = "next"]]
                               /\ lock' = lock
        \/ Leave(p, "broken")
    BY <1>14 DEF Dream
  <2>2. j.at = "dream" /\ seen' = seen
    BY <1>14 DEF Dream, fsVars
  <2>3. ASSUME NEW q \in Policies, job' = [job EXCEPT ![p] = [j EXCEPT !.next = q, !.at = "next"]],
               lock' = lock
        PROVE  PoolInv'
    <3>1. PICK m : m = [j EXCEPT !.next = q, !.at = "next"]
      OBVIOUS
    <3>2. m.idx = j.idx /\ m.at = "next" /\ m.live = j.live /\ m.tree = j.tree
      BY <1>1, <3>1 DEF Jobs
    <3>3. Made(seen, disk, m)
      BY <1>1, <2>2, <3>2 DEF Stocked, Made, MadeStages, CycleStages, TreeStages
    <3>4. Walked(seen, m) /\ Emptied(seen, m) /\ PutBack(seen, disk, m) /\ Staged(seen, unflushed, m)
      BY <1>1, <3>2 DEF Stocked, Walked, Emptied, PutBack, Staged
    <3>5. Stocked(seen', disk, unflushed, m)
      BY <2>2, <3>3, <3>4 DEF Stocked
    <3>. QED
      BY <1>5, <2>3, <3>1, <3>5
  <2>. QED
    BY <1>4, <2>1, <2>3
<1>15. CASE Stop(p)
  BY <1>4, <1>15 DEF Stop
<1>. QED
  BY <1>7, <1>8, <1>9, <1>10, <1>11, <1>12, <1>13, <1>14, <1>15

LEMMA StockStep ==
  ASSUME TypeInv, PoolInv, [Next]_vars
  PROVE  PoolInv'
<1>. /\ Coherent(seen, disk) /\ \A k \in Cycles : <<"record", k>> \notin unflushed
     /\ DOMAIN seen = Names /\ DOMAIN disk = Names
  BY DEF PoolInv, TypeInv, TypeOK, FileMap
<1>1. ASSUME NEW p \in Procs, NEW policy \in Policies, NEW want \in 1 .. MaxCycles,
             Begin(p, policy, want)
      PROVE  PoolInv'
  <2>1. PICK m : m = [Idle EXCEPT !.at = "cycles", !.policy = policy, !.want = want,
                                  !.source = policy]
    OBVIOUS
  <2>2. /\ job' = [job EXCEPT ![p] = m] /\ lock = Nobody /\ lock' = p
        /\ seen' = [seen EXCEPT ![Root] = Some] /\ disk' = disk /\ unflushed' = unflushed
    BY <1>1, <2>1 DEF Begin
  <2>3. m.at = "cycles" /\ m.idx = 0
    BY <2>1 DEF Idle
  <2>4. Stocked(seen', disk', unflushed', m)
    BY <2>3, StockedPlain DEF Walked, MadeStages, CycleStages
  <2>5. \A k \in Cycles, kind \in {"record", "tree", "world"} :
          Reads(seen', disk', <<kind, k>>) \subseteq Reads(seen, disk, <<kind, k>>)
    BY <2>2, StockNames DEF Reads
  <2>6. Coherent(seen', disk')
    BY <2>5, FadedOnly
  <2>. QED
    BY <2>2, <2>4, <2>6, StockMove
<1>2. ASSUME NEW p \in Procs, Step(p) \/ Stop(p)
      PROVE  PoolInv'
  BY <1>2, StockPublish, StockDecide DEF Step
<1>3. ASSUME NEW n \in Names, Writeback(n)
      PROVE  PoolInv'
  <2>1. /\ \A k \in Cycles : disk'[<<"record", k>>] \in Reads(seen, disk, <<"record", k>>)
        /\ \A k \in Cycles : \A kind \in {"tree", "world"} :
             disk'[<<kind, k>>] \in Reads(seen, disk, <<kind, k>>) \cup {Torn}
    <3>1. PICK c \in {seen[n]} \cup {t \in {Torn} : n \in unflushed} : disk' = [disk EXCEPT ![n] = c]
      BY <1>3 DEF Writeback
    <3>2. \A m \in Names : \/ disk'[m] \in {seen[m], disk[m]}
                           \/ m \in unflushed /\ disk'[m] = Torn
      BY <3>1
    <3>. QED
      BY <3>2, StockNames DEF Reads
  <2>2. seen' = seen /\ unflushed' = unflushed /\ job' = job /\ lock' = lock
    BY <1>3 DEF Writeback
  <2>3. Coherent(seen, disk')
    <3>1. \A k \in Cycles :
            Reads(seen, disk', <<"record", k>>)
              \subseteq Reads(seen, disk, <<"record", k>>) \cup {Absent}
      BY <2>1 DEF Reads
    <3>2. \A k \in Cycles : \A kind \in {"tree", "world"} :
            Reads(seen, disk', <<kind, k>>)
              \subseteq Reads(seen, disk, <<kind, k>>) \cup {Absent, Torn}
      BY <2>1 DEF Reads
    <3>. QED
      BY <3>1, <3>2, Faded
  <2>4. \A p \in Procs : job[p].at # "idle" => Stocked(seen, disk', unflushed, job[p])
    BY <2>1, StockedMixed DEF PoolInv, TypeInv
  <2>. QED
    BY <2>2, <2>3, <2>4 DEF PoolInv, OneSession
<1>4. ASSUME PowerLoss
      PROVE  PoolInv'
  <2>1. seen' = Survivors /\ disk' = Survivors /\ unflushed' = {} /\ job' = [p \in Procs |-> Idle]
    BY <1>4 DEF PowerLoss
  <2>2. \A k \in Cycles, kind \in {"record", "tree", "world"} :
          Survivors[<<kind, k>>] \in {disk[<<kind, k>>], Absent}
    BY StockNames DEF Survivors
  <2>3. \A k \in Cycles :
          Reads(seen', disk', <<"record", k>>)
            \subseteq Reads(seen, disk, <<"record", k>>) \cup {Absent}
    BY <2>1, <2>2 DEF Reads
  <2>4. \A k \in Cycles : \A kind \in {"tree", "world"} :
          Reads(seen', disk', <<kind, k>>)
            \subseteq Reads(seen, disk, <<kind, k>>) \cup {Absent, Torn}
    BY <2>1, <2>2 DEF Reads
  <2>5. Coherent(seen', disk')
    BY <2>3, <2>4, Faded
  <2>6. \A p \in Procs : job'[p].at = "idle"
    BY <2>1 DEF Idle
  <2>. QED
    BY <2>1, <2>5, <2>6 DEF PoolInv, OneSession
<1>5. ASSUME NEW kind \in Published, NEW k \in Cycles, NEW left \in {Absent, Torn},
             LoseFile(kind, k, left)
      PROVE  PoolInv'
  <2>1. /\ seen' = [seen EXCEPT ![<<kind, k>>] = left] /\ disk' = [disk EXCEPT ![<<kind, k>>] = left]
        /\ left = Torn => kind = "world"
        /\ lock = Nobody /\ lock' = lock /\ job' = job /\ unflushed' = unflushed
    BY <1>5 DEF LoseFile
  <2>2. \A p \in Procs : job[p].at = "idle"
    BY <2>1, ConstantsDistinct DEF PoolInv, OneSession
  <2>3. \A i \in Cycles :
          Reads(seen', disk', <<"record", i>>)
            \subseteq Reads(seen, disk, <<"record", i>>) \cup {Absent}
    BY <2>1, StockNames DEF Reads
  <2>4. \A i \in Cycles : \A what \in {"tree", "world"} :
          Reads(seen', disk', <<what, i>>)
            \subseteq Reads(seen, disk, <<what, i>>) \cup {Absent, Torn}
    BY <2>1, StockNames DEF Reads
  <2>5. Coherent(seen', disk')
    BY <2>3, <2>4, Faded
  <2>. QED
    BY <2>1, <2>2, <2>5 DEF PoolInv, OneSession
<1>6. CASE UNCHANGED vars
  BY <1>6 DEF vars, PoolInv, OneSession
<1>. QED
  BY <1>1, <1>2, <1>3, <1>4, <1>5, <1>6 DEF Next, Environment

LEMMA StockInit == Init => PoolInv
<1>. SUFFICES ASSUME Init PROVE PoolInv
  OBVIOUS
<1>1. \A k \in Cycles : seen[<<"record", k>>] = Absent /\ disk[<<"record", k>>] = Absent
  BY StockNames DEF Init
<1>2. Coherent(seen, disk)
  BY <1>1 DEF Coherent, RecordsOf, Reads
<1>. QED
  BY <1>2 DEF Init, PoolInv, OneSession, Idle

LEMMA PoolInvariant == Spec => [](TypeInv /\ PoolInv)
  BY TypeInit, TypeStep, StockInit, StockStep, PTL DEF Spec

\* Past _resume, the pool has the tree of every earlier cycle's record (run.py _resume,
\* _cycle), so a dreaming round replays the whole history: whatever sessions are killed,
\* whatever the power losses bring back and whatever files are taken in between.
THEOREM PoolServesHistory == Spec => []PoolHasHistory
<1>1. TypeInv /\ PoolInv => PoolHasHistory
  <2>. SUFFICES ASSUME TypeInv, PoolInv, NEW p \in Procs, job[p].live,
                       NEW k \in 0 .. job[p].idx - 1
                PROVE  HasRecord(k) /\ seen[<<"world", k>>] = seen[<<"record", k>>].tree
    BY DEF PoolHasHistory
  <2>1. job[p].at # "idle"
    BY DEF TypeInv, JobOK
  <2>. QED
    BY <2>1 DEF PoolInv, Stocked, Walked, IsRecorded, HasRecord
<1>. QED
  BY <1>1, PoolInvariant, PTL

\* Two processes are never in a session of one directory at once (lock.py), and a power
\* loss ends all of them.
THEOREM OneAtATime == Spec => []OneSession
<1>1. PoolInv => OneSession
  BY DEF PoolInv
<1>. QED
  BY <1>1, PoolInvariant, PTL

-----------------------------------------------------------------------------
(* Requests (run_cycles' session record), on a machine that never loses power *)
(* and whatever files are taken from outside the program.                    *)

\* A session is past its start only when the request on record is its own, and what it
\* stages and renames there is that request.
Asks(fs, j) ==
  /\ j.at \in OtherStages => j.phase = "open"
  /\ j.at = "session" /\ j.phase \in {"name", "rename"} => fs[<<"session.tmp", 0>>] = j.want
  /\ j.at = "session" /\ j.phase = "sync" => fs[Session] = j.want
  /\ j.at \notin {"idle"} \cup StartStages => fs[Session] = j.want

AskedInv ==
  /\ OneSession
  /\ seen[Session] # Torn
  /\ \A p \in Procs : Asks(seen, job[p])

\* The names of the request, and the stage that writes them.
LEMMA RequestNames ==
  /\ Session = <<"session", 0>> /\ Session \in Names /\ <<"session.tmp", 0>> \in Names
  /\ Session # Root /\ <<"session.tmp", 0>> # Root
  /\ \A k : Session \notin CycleNames(k) /\ <<"session.tmp", 0>> \notin CycleNames(k)
<1>1. Session = <<"session", 0>> /\ Session # Root /\ <<"session.tmp", 0>> # Root
  BY DEF Session, Root
<1>2. Session \in Names /\ <<"session.tmp", 0>> \in Names
  BY <1>1 DEF Names, RunKinds
<1>3. Parent(Session) = Root /\ Parent(<<"session.tmp", 0>>) = Root
  BY <1>1 DEF Parent, RunKinds, FileKinds, PoolKinds
<1>4. \A k : <<"cycle", k>> # Root /\ <<"cycle", k>> # Session /\ <<"cycle", k>> # <<"session.tmp", 0>>
  BY <1>1 DEF Root
<1>. QED
  BY <1>1, <1>2, <1>3, <1>4 DEF CycleNames, Entries

LEMMA RequestStage ==
  ASSUME NEW j, JobOK(j), j.at \in WriteStages \cup DirStages
  PROVE  /\ j.at = "session" => Kind(j) = Session /\ Slot(j) = <<"session.tmp", 0>> /\ Data(j) = j.want
         /\ Slot(j) # Session
         /\ j.at # "session" => Kind(j) # Session /\ Kind(j) # <<"session.tmp", 0>>
                                /\ Slot(j) # <<"session.tmp", 0>>
<1>1. j.at = "session" => Kind(j) = Session /\ Slot(j) = <<"session.tmp", 0>> /\ Data(j) = j.want
  BY DEF Kind, Slot, Staging, StagedKinds, Data, Session
<1>2. Kind(j)[1] = j.at /\ Session[1] = "session" /\ <<"session.tmp", 0>>[1] = "session.tmp"
  BY Places DEF Session
<1>3. j.at # "session.tmp"
  BY DEF WriteStages, DirStages
<1>4. j.at \in StagedKinds \ {"session"} => Slot(j)[1] \in {"world.tmp", "record.tmp"}
  BY DEF Slot, Staging, StagedKinds
<1>5. j.at \notin StagedKinds => Slot(j) = Kind(j)
  BY Places
<1>6. j.at = "session" => Slot(j) # Session
  BY <1>1, <1>2
<1>7. j.at # "session" => Slot(j) # Session /\ Slot(j) # <<"session.tmp", 0>>
  <2>1. CASE j.at \in StagedKinds
    BY <1>2, <1>4, <2>1
  <2>2. CASE j.at \notin StagedKinds
    BY <1>2, <1>3, <1>5, <2>2 DEF StagedKinds
  <2>. QED
    BY <2>1, <2>2
<1>8. j.at # "session" => Kind(j) # Session /\ Kind(j) # <<"session.tmp", 0>>
  BY <1>2, <1>3
<1>. QED
  BY <1>1, <1>6, <1>7, <1>8

\* One session moves; the others are in none.
LEMMA AskedMove ==
  ASSUME TypeInv, AskedInv, NEW p \in Procs, job[p].at # "idle" \/ lock = Nobody,
         NEW m, job' = [job EXCEPT ![p] = m], Asks(seen', m), seen'[Session] # Torn,
         lock' = p \/ m.at = "idle"
  PROVE  AskedInv'
<1>1. \A q \in Procs \ {p} : job[q].at = "idle" /\ job[q].phase = "open"
  <2>1. \A q \in Procs \ {p} : job[q].at = "idle"
    BY Alone DEF AskedInv
  <2>. QED
    BY <2>1 DEF AskedInv, Asks, OtherStages
<1>2. job'[p] = m /\ \A q \in Procs \ {p} : job'[q] = job[q]
  BY DEF TypeInv, TypeOK
<1>3. OneSession'
  BY <1>1, <1>2 DEF OneSession
<1>4. \A q \in Procs \ {p} : Asks(seen', job'[q])
  BY <1>1, <1>2 DEF Asks
<1>5. Asks(seen', job'[p])
  BY <1>2
<1>. QED
  BY <1>3, <1>4, <1>5 DEF AskedInv

LEMMA IdleAsks ==
  ASSUME NEW fs
  PROVE  Asks(fs, Idle)
  BY DEF Asks, Idle

\* A session done with a stage: past that of its request, it is on record.
LEMMA AdvancedAsks ==
  ASSUME NEW fs, NEW j, JobOK(j), Asks(fs, j), j.at \in WriteStages \cup DirStages,
         j.at = "session" => j.phase = "sync"
  PROVE  Asks(fs, Advanced(j))
<1>. DEFINE a == Advanced(j)
<1>1. a.at = After(j) /\ a.phase = "open" /\ a.want = j.want
  BY AdvancedFields
<1>. HIDE DEF a
<1>2. CASE j.at \in {"cycles", "manifest"}
  <2>1. a.at \in {"check", "session"}
    BY <1>1, <1>2 DEF After
  <2>. QED
    BY <1>1, <2>1 DEF Asks, StartStages, a
<1>3. CASE j.at \notin {"cycles", "manifest"}
  <2>1. fs[Session] = j.want
    BY <1>3 DEF Asks, StartStages, WriteStages, DirStages
  <2>2. a.at # "session"
    BY <1>1, <1>3 DEF After, WriteStages, DirStages
  <2>. QED
    BY <1>1, <2>1, <2>2 DEF Asks, a
<1>. QED
  BY <1>2, <1>3

\* A stage's system calls (MakeDirectory to SyncRename).
LEMMA AskedPublish ==
  ASSUME TypeInv, AskedInv, NEW p \in Procs,
         \/ MakeDirectory(p) \/ SyncParents(p)
         \/ OpenFile(p) \/ FlushFile(p) \/ SyncName(p) \/ Rename(p) \/ SyncRename(p)
  PROVE  AskedInv'
<1>. DEFINE j == job[p]
<1>1. /\ j.at \in WriteStages \cup DirStages /\ JobOK(j) /\ Asks(seen, j) /\ j \in Jobs
      /\ lock' = lock /\ seen[Session] # Torn /\ OneSession
  BY DEF MakeDirectory, SyncParents, OpenFile, FlushFile, SyncName, Rename, SyncRename,
         StagedKinds, WriteStages, TypeInv, AskedInv, JobOK
<1>2. j.at # "idle" /\ j.at \notin OtherStages
  BY <1>1 DEF WriteStages, DirStages, OtherStages
<1>3. lock' = p
  BY <1>1, <1>2 DEF OneSession
<1>4. ASSUME NEW m, job' = [job EXCEPT ![p] = m], Asks(seen', m), seen'[Session] # Torn
      PROVE  AskedInv'
  BY <1>2, <1>3, <1>4, AskedMove
<1>5. ASSUME job' = [job EXCEPT ![p] = Advanced(j)], seen' = seen,
             j.at = "session" => j.phase = "sync"
      PROVE  AskedInv'
  <2>1. Asks(seen, Advanced(j))
    BY <1>1, <1>5, AdvancedAsks
  <2>. QED
    BY <1>1, <1>4, <1>5, <2>1
<1>6. ASSUME NEW phase \in Phases, job' = [job EXCEPT ![p].phase = phase],
             j.at = "session" /\ phase \in {"name", "rename"} => seen'[<<"session.tmp", 0>>] = j.want,
             j.at = "session" /\ phase = "sync" => seen'[Session] = j.want,
             j.at # "session" => seen'[Session] = seen[Session],
             seen'[Session] # Torn
      PROVE  AskedInv'
  <2>. DEFINE m == [j EXCEPT !.phase = phase]
  <2>1. m.at = j.at /\ m.phase = phase /\ m.want = j.want
    BY <1>1 DEF Jobs
  <2>2. job' = [job EXCEPT ![p] = m]
    BY <1>6
  <2>. HIDE DEF m
  <2>3. Asks(seen', m)
    BY <1>1, <1>2, <1>6, <2>1 DEF Asks, StartStages
  <2>. QED
    BY <1>4, <1>6, <2>2, <2>3
<1>7. /\ Kind(j) \in Names /\ Slot(j) \in Names /\ DOMAIN seen = Names
      /\ Session \in Names /\ <<"session.tmp", 0>> \in Names
  BY <1>1, SlotType, RequestNames DEF TypeInv, TypeOK, FileMap
<1>8. /\ j.at = "session" => Kind(j) = Session /\ Slot(j) = <<"session.tmp", 0>> /\ Data(j) = j.want
      /\ Slot(j) # Session
      /\ j.at # "session" => Kind(j) # Session
  BY <1>1, RequestStage
<1>9. CASE MakeDirectory(p)
  <2>1. j.at \in DirStages /\ j.at # "session" /\ Kind(j) # Session
    BY <1>8, <1>9 DEF MakeDirectory, DirStages
  <2>2. CASE seen[Kind(j)] # Absent
    BY <1>5, <1>9, <2>1, <2>2 DEF MakeDirectory
  <2>3. CASE seen[Kind(j)] = Absent
    <3>1. job' = [job EXCEPT ![p].phase = "sync"] /\ seen' = [seen EXCEPT ![Kind(j)] = Some]
      BY <1>9, <2>3 DEF MakeDirectory
    <3>2. seen'[Session] = seen[Session]
      BY <1>7, <2>1, <3>1
    <3>. QED
      BY <1>1, <1>6, <2>1, <3>1, <3>2 DEF Phases
  <2>. QED
    BY <2>2, <2>3
<1>10. CASE SyncParents(p)
  BY <1>5, <1>10 DEF SyncParents, DirStages
<1>11. CASE OpenFile(p)
  <2>1. job' = [job EXCEPT ![p].phase = "flush"] /\ seen' = [seen EXCEPT ![Slot(j)] = Torn]
    BY <1>11 DEF OpenFile
  <2>2. seen'[Session] = seen[Session]
    BY <1>7, <1>8, <2>1
  <2>. QED
    BY <1>1, <1>6, <2>1, <2>2 DEF Phases
<1>12. CASE FlushFile(p)
  <2>1. job' = [job EXCEPT ![p].phase = "name"] /\ seen' = [seen EXCEPT ![Slot(j)] = Data(j)]
    BY <1>12 DEF FlushFile
  <2>2. seen'[Session] = seen[Session] /\ (j.at = "session" => seen'[<<"session.tmp", 0>>] = j.want)
    BY <1>7, <1>8, <2>1
  <2>. QED
    BY <1>1, <1>6, <2>1, <2>2 DEF Phases
<1>13. CASE SyncName(p)
  <2>1. seen' = seen /\ j.phase = "name"
    BY <1>13 DEF SyncName
  <2>2. CASE j.at \in StagedKinds
    <3>1. job' = [job EXCEPT ![p].phase = "rename"]
      BY <1>13, <2>2 DEF SyncName
    <3>2. j.at = "session" => seen[<<"session.tmp", 0>>] = j.want
      BY <1>1, <2>1 DEF Asks
    <3>. QED
      BY <1>1, <1>6, <2>1, <3>1, <3>2 DEF Phases
  <2>3. CASE j.at \notin StagedKinds
    <3>1. job' = [job EXCEPT ![p] = Advanced(j)]
      BY <1>13, <2>3 DEF SyncName
    <3>. QED
      BY <1>5, <2>1, <2>3, <3>1 DEF StagedKinds
  <2>. QED
    BY <2>2, <2>3
<1>14. CASE Rename(p)
  <2>1. /\ job' = [job EXCEPT ![p].phase = "sync"] /\ j.phase = "rename"
        /\ seen' = [seen EXCEPT ![Kind(j)] = seen[Slot(j)], ![Slot(j)] = Absent]
    BY <1>14 DEF Rename
  <2>2. j.at = "session" => seen'[Session] = j.want /\ j.want # Torn
    <3>1. j.at = "session" => seen[<<"session.tmp", 0>>] = j.want
      BY <1>1, <2>1 DEF Asks
    <3>2. j.want \in Nat /\ Torn \notin Nat
      BY <1>1, ConstantsDistinct DEF JobOK, Jobs
    <3>3. j.want # Torn
      BY <3>2
    <3>. QED
      BY <1>7, <1>8, <2>1, <3>1, <3>3
  <2>3. j.at # "session" => seen'[Session] = seen[Session]
    BY <1>7, <1>8, <2>1
  <2>. QED
    BY <1>1, <1>6, <2>1, <2>2, <2>3 DEF Phases
<1>15. CASE SyncRename(p)
  BY <1>5, <1>15 DEF SyncRename
<1>. QED
  BY <1>9, <1>10, <1>11, <1>12, <1>13, <1>14, <1>15

\* The actions between the files (CheckManifest to Dream), and a session that is stopped.
LEMMA AskedDecide ==
  ASSUME TypeInv, AskedInv, NEW p \in Procs,
         \/ CheckManifest(p) \/ ResumeCycle(p) \/ ResumeDone(p) \/ NextCycle(p) \/ Finish(p)
         \/ Clear(p) \/ Rollout(p) \/ Dream(p) \/ Stop(p)
  PROVE  AskedInv'
<1>. DEFINE j == job[p]
<1>1. /\ JobOK(j) /\ j \in Jobs /\ Asks(seen, j) /\ j.at # "idle" /\ lock = p
      /\ seen[Session] # Torn
  BY DEF CheckManifest, ResumeCycle, ResumeDone, NextCycle, Finish, Clear, Rollout, Dream, Stop,
         TypeInv, JobOK, AskedInv, OneSession
<1>2. seen'[Session] = seen[Session]
  <2>1. CASE \E gone \in SUBSET CycleNames(j.idx) : seen' = Without(gone)
    BY <2>1, RequestNames DEF Without
  <2>2. CASE seen' = seen
    BY <2>2
  <2>. QED
    BY <2>1, <2>2
    DEF CheckManifest, ResumeCycle, ResumeDone, NextCycle, Finish, Clear, Rollout, Dream, Stop,
        fsVars
<1>3. ASSUME NEW how, Leave(p, how)
      PROVE  AskedInv'
  <2>1. job' = [job EXCEPT ![p] = Idle] /\ Idle.at = "idle"
    BY <1>3 DEF Leave, Idle
  <2>. QED
    BY <1>1, <1>2, <2>1, IdleAsks, AskedMove
<1>4. ASSUME NEW m, job' = [job EXCEPT ![p] = m], lock' = lock, m.phase = j.phase,
             m.want = j.want,
             \/ j.at = "check" /\ m.at \in {"manifest", "session"}
             \/ j.at \in OtherStages \ {"idle", "check"} /\ m.at \notin {"session"}
      PROVE  AskedInv'
  <2>1. m.phase = "open"
    BY <1>1, <1>4 DEF Asks, OtherStages
  <2>2. Asks(seen', m)
    BY <1>1, <1>2, <1>4, <2>1 DEF Asks, OtherStages, StartStages
  <2>. QED
    BY <1>1, <1>2, <1>4, <2>2, AskedMove
<1>5. CASE CheckManifest(p)
  <2>1. j.at = "check"
    BY <1>5 DEF CheckManifest
  <2>2. ASSUME NEW stage \in {"manifest", "session"}, Goto(p, stage), lock' = lock
        PROVE  AskedInv'
    <3>1. job' = [job EXCEPT ![p] = [j EXCEPT !.at = stage]]
      BY <2>2 DEF Goto
    <3>. QED
      BY <1>1, <1>4, <2>1, <2>2, <3>1 DEF Jobs
  <2>. QED
    BY <1>3, <1>5, <2>2 DEF CheckManifest
<1>6. CASE ResumeCycle(p)
  <2>1. j.at = "resume" /\ j.at \in OtherStages \ {"idle", "check"}
    BY <1>6 DEF ResumeCycle, OtherStages
  <2>2. \/ \E source : job' = [job EXCEPT ![p] = [j EXCEPT !.idx = j.idx + 1, !.source = source]]
                       /\ lock' = lock
        \/ \E tree : job' = [job EXCEPT ![p] = [j EXCEPT !.at = "pool", !.tree = tree]]
                     /\ lock' = lock
        \/ Leave(p, "broken")
    BY <1>6 DEF ResumeCycle
  <2>3. ASSUME NEW source, job' = [job EXCEPT ![p] = [j EXCEPT !.idx = j.idx + 1, !.source = source]],
               lock' = lock
        PROVE  AskedInv'
    BY <1>1, <1>4, <2>1, <2>3 DEF Jobs
  <2>4. ASSUME NEW tree, job' = [job EXCEPT ![p] = [j EXCEPT !.at = "pool", !.tree = tree]],
               lock' = lock
        PROVE  AskedInv'
    BY <1>1, <1>4, <2>1, <2>4 DEF Jobs
  <2>. QED
    BY <1>3, <2>2, <2>3, <2>4
<1>7. CASE ResumeDone(p)
  <2>1. j.at = "resume" /\ j.at \in OtherStages \ {"idle", "check"} /\ lock' = lock
        /\ job' = [job EXCEPT ![p] = [j EXCEPT !.live = TRUE, !.at = "loop"]]
    BY <1>7 DEF ResumeDone, OtherStages
  <2>. QED
    BY <1>1, <1>4, <2>1 DEF Jobs
<1>8. CASE NextCycle(p)
  <2>1. j.at \in OtherStages \ {"idle", "check"} /\ lock' = lock
        /\ job' = [job EXCEPT ![p] = [j EXCEPT !.at = "clear"]]
    BY <1>8 DEF NextCycle, OtherStages, Goto
  <2>. QED
    BY <1>1, <1>4, <2>1 DEF Jobs
<1>9. CASE Finish(p)
  BY <1>3, <1>9 DEF Finish
<1>10. CASE Clear(p)
  <2>1. j.at \in OtherStages \ {"idle", "check"} /\ lock' = lock
        /\ job' = [job EXCEPT ![p] = [j EXCEPT !.at = "cycle"]]
    BY <1>10 DEF Clear, OtherStages, Goto
  <2>. QED
    BY <1>1, <1>4, <2>1 DEF Jobs
<1>11. CASE Rollout(p)
  <2>1. PICK t \in Trees : job' = [job EXCEPT ![p] = [j EXCEPT !.tree = t, !.at = "tree"]]
    BY <1>11 DEF Rollout
  <2>2. j.at \in OtherStages \ {"idle", "check"} /\ lock' = lock
    BY <1>11 DEF Rollout, OtherStages
  <2>. QED
    BY <1>1, <1>4, <2>1, <2>2 DEF Jobs
<1>12. CASE Dream(p)
  <2>1. \/ \E q \in Policies : job' = [job EXCEPT ![p] = [j EXCEPT !.next = q, !.at = "next"]]
                               /\ lock' = lock
        \/ Leave(p, "broken")
    BY <1>12 DEF Dream
  <2>2. j.at \in OtherStages \ {"idle", "check"}
    BY <1>12 DEF Dream, OtherStages
  <2>3. ASSUME NEW q \in Policies, job' = [job EXCEPT ![p] = [j EXCEPT !.next = q, !.at = "next"]],
               lock' = lock
        PROVE  AskedInv'
    BY <1>1, <1>4, <2>2, <2>3 DEF Jobs
  <2>. QED
    BY <1>3, <2>1, <2>3
<1>13. CASE Stop(p)
  BY <1>3, <1>13 DEF Stop
<1>. QED
  BY <1>5, <1>6, <1>7, <1>8, <1>9, <1>10, <1>11, <1>12, <1>13

LEMMA AskedStep ==
  ASSUME NoPower, TypeInv, AskedInv, [Next]_vars
  PROVE  AskedInv'
<1>1. ASSUME NEW p \in Procs, NEW policy \in Policies, NEW want \in 1 .. MaxCycles,
             Begin(p, policy, want)
      PROVE  AskedInv'
  <2>. DEFINE m == [Idle EXCEPT !.at = "cycles", !.policy = policy, !.want = want,
                                !.source = policy]
  <2>1. job' = [job EXCEPT ![p] = m] /\ lock = Nobody /\ lock' = p
        /\ seen' = [seen EXCEPT ![Root] = Some]
    BY <1>1 DEF Begin
  <2>2. m.at = "cycles" /\ m.phase = "open"
    BY DEF Idle
  <2>. HIDE DEF m
  <2>3. Asks(seen', m)
    BY <2>2 DEF Asks, StartStages
  <2>4. seen'[Session] # Torn
    BY <2>1, RequestNames DEF AskedInv, TypeInv, TypeOK, FileMap
  <2>. QED
    BY <2>1, <2>3, <2>4, AskedMove
<1>2. ASSUME NEW p \in Procs, Step(p) \/ Stop(p)
      PROVE  AskedInv'
  BY <1>2, AskedPublish, AskedDecide DEF Step
<1>3. CASE UNCHANGED <<seen, lock, job>>
  BY <1>3 DEF AskedInv, OneSession
<1>4. ASSUME NEW n \in Names, Writeback(n)
      PROVE  AskedInv'
  BY <1>3, <1>4 DEF Writeback
<1>5. ~PowerLoss
  BY DEF PowerLoss, NoPower, TypeInv, TypeOK
<1>6. ASSUME NEW kind \in Published, NEW k \in Cycles, NEW left \in {Absent, Torn},
             LoseFile(kind, k, left)
      PROVE  AskedInv'
  <2>1. /\ <<kind, k>> # Session /\ <<kind, k>> # <<"session.tmp", 0>>
        /\ seen' = [seen EXCEPT ![<<kind, k>>] = left] /\ UNCHANGED <<job, lock>>
    BY <1>6 DEF LoseFile, Published, Session
  <2>2. seen'[Session] = seen[Session] /\ seen'[<<"session.tmp", 0>>] = seen[<<"session.tmp", 0>>]
    BY <2>1, RequestNames DEF TypeInv, TypeOK, FileMap
  <2>3. \A p \in Procs : Asks(seen', job'[p])
    BY <2>1, <2>2 DEF AskedInv, Asks
  <2>. QED
    BY <2>1, <2>2, <2>3 DEF AskedInv, OneSession
<1>7. CASE UNCHANGED vars
  BY <1>3, <1>7 DEF vars
<1>. QED
  BY <1>1, <1>2, <1>4, <1>5, <1>6, <1>7 DEF Next, Environment

LEMMA AskedInit == Init => AskedInv
<1>1. Init => seen[Session] = Absent
  BY RequestNames DEF Init
<1>. QED
  BY <1>1, IdleAsks, ConstantsDistinct DEF Init, AskedInv, OneSession, Idle, Asks

LEMMA AskedInvariant == NoPower /\ Spec => [](NoPower /\ TypeInv /\ AskedInv)
<1>1. NoPower => NoPower'
  BY DEF NoPower
<1>. QED
  BY <1>1, TypeInit, TypeStep, AskedInit, AskedStep, PTL DEF Spec

\* While a session has the lock, whatever changes of the files is written by a stage of its
\* own, or cleared.
LEMMA Writers ==
  ASSUME NoPower, TypeInv, OneSession, [Next]_vars, lock # Nobody,
         NEW n \in Names \ {Root}, seen'[n] # seen[n]
  PROVE  \E p \in Procs : /\ lock = p
                          /\ \/ job[p].at = "clear"
                             \/ job[p].at \in WriteStages \cup DirStages /\ n \in {Kind(job[p]), Slot(job[p])}
<1>1. DOMAIN seen = Names
  BY DEF TypeInv, TypeOK, FileMap
<1>2. ASSUME NEW p \in Procs, MakeDirectory(p) \/ OpenFile(p) \/ FlushFile(p) \/ Rename(p)
      PROVE  /\ lock = p
             /\ job[p].at \in WriteStages \cup DirStages /\ n \in {Kind(job[p]), Slot(job[p])}
  <2>1. job[p].at \in WriteStages \cup DirStages
    BY <1>2 DEF MakeDirectory, OpenFile, FlushFile, Rename, StagedKinds, WriteStages
  <2>2. lock = p
    BY <2>1 DEF OneSession, WriteStages, DirStages
  <2>3. n \in {Kind(job[p]), Slot(job[p])}
    BY <1>1, <1>2 DEF MakeDirectory, OpenFile, FlushFile, Rename
  <2>. QED
    BY <2>1, <2>2, <2>3
<1>3. ASSUME NEW p \in Procs, Clear(p) \/ Stop(p)
      PROVE  job[p].at = "clear" /\ lock = p
  BY <1>3 DEF Clear, Stop, OneSession
<1>4. ASSUME NEW p \in Procs, Step(p)
      PROVE  /\ lock = p
             /\ \/ job[p].at = "clear"
                \/ job[p].at \in WriteStages \cup DirStages /\ n \in {Kind(job[p]), Slot(job[p])}
  BY <1>2, <1>3, <1>4
  DEF Step, SyncParents, SyncName, SyncRename, CheckManifest, ResumeCycle, ResumeDone, NextCycle,
      Finish, Rollout, Dream, fsVars
<1>5. ASSUME NEW p \in Procs, NEW policy \in Policies, NEW want \in 1 .. MaxCycles
      PROVE  ~Begin(p, policy, want)
  BY DEF Begin
<1>6. ~PowerLoss
  BY DEF PowerLoss, NoPower, TypeInv, TypeOK
<1>7. ASSUME NEW kind \in Published, NEW k \in Cycles, NEW left \in {Absent, Torn}
      PROVE  ~LoseFile(kind, k, left)
  BY DEF LoseFile
<1>8. ASSUME NEW m \in Names
      PROVE  ~Writeback(m)
  BY DEF Writeback
<1>. QED
  BY <1>3, <1>4, <1>5, <1>6, <1>7, <1>8 DEF Next, Environment, vars

\* What is reported on is a run of RunDirectory.
LEMMA ReportedIsRun == SpecReport => Spec
<1>1. InitReport => Init
  BY DEF InitReport
<1>2. [NextReport]_<<vars, reportVars>> => [Next]_vars
  BY DEF NextReport
<1>. QED
  BY <1>1, <1>2, PTL DEF SpecReport, Spec

\* A session touches a cycle or the pool only once its own request is the one on record
\* (run.py run_cycles, on the session record): whatever sessions are killed and whatever
\* files are taken, as long as the machine does not lose power.
THEOREM RequestsPrecedeWork == NoPower /\ SpecReport => RequestPrecedesWork
<1>1. ASSUME NoPower, TypeInv, AskedInv, [Next]_vars, NEW p \in Procs,
             NEW n \in Names, n[1] \notin RunKinds, seen'[n] # seen[n], lock = p
      PROVE  seen[Session] = job[p].want
  <2>1. n # Root /\ lock # Nobody
    BY <1>1, ConstantsDistinct DEF Root, RunKinds
  <2>2. \/ job[p].at = "clear"
        \/ job[p].at \in WriteStages \cup DirStages /\ n \in {Kind(job[p]), Slot(job[p])}
    BY <1>1, <2>1, Writers DEF AskedInv
  <2>3. job[p].at \notin {"idle"} \cup StartStages
    <3>1. CASE job[p].at = "clear"
      BY <3>1 DEF StartStages
    <3>2. CASE job[p].at \in WriteStages \cup DirStages /\ n \in {Kind(job[p]), Slot(job[p])}
      <4>1. Kind(job[p])[1] = job[p].at
        BY <3>2, <1>1, Places DEF TypeInv
      <4>2. job[p].at = "session" => Slot(job[p])[1] = "session.tmp"
        BY DEF Slot, Staging, StagedKinds
      <4>3. job[p].at \in {"cycles", "manifest"} => Slot(job[p]) = Kind(job[p])
        BY DEF Slot, StagedKinds
      <4>4. job[p].at \notin {"session", "cycles", "manifest"}
        BY <1>1, <3>2, <4>1, <4>2, <4>3 DEF RunKinds
      <4>. QED
        BY <3>2, <4>4 DEF StartStages, WriteStages, DirStages
    <3>. QED
      BY <2>2, <3>1, <3>2
  <2>. QED
    BY <1>1, <2>3 DEF AskedInv, Asks
<1>2. NoPower /\ TypeInv /\ AskedInv /\ [Next]_vars =>
        [\A p \in Procs :
           (\E n \in Names : n[1] \notin RunKinds /\ seen'[n] # seen[n]) /\ lock = p
             => seen[Session] = job[p].want]_vars
  BY <1>1
<1>. QED
  BY <1>2, ReportedIsRun, AskedInvariant, PTL DEF Spec, RequestPrecedesWork

-----------------------------------------------------------------------------
(* The report.  While it is made no file is lost, so the directory is one of *)
(* records that vouch for their cycles.                                      *)

Reports == [at : {"idle", "probe", "isrun", "load", "request", "reprobe"}, held : BOOLEAN,
            done : 0 .. MaxCycles, requested : {Absent} \cup 1 .. MaxCycles, again : BOOLEAN,
            answer : Answers \cup {"none"}]

\* What a reporter counted is still there.  One that found the lock free and no run directory
\* has been through a moment when it was none.  And what it read the second time is how the
\* directory is, until a session takes the lock: from then on it is seen held, or overtaken.
ReportInv ==
  /\ report \in Reports
  /\ report # NoReport => spent.lost = 0
  /\ report.at \in {"probe", "isrun"} => report.done = 0 /\ ~report.again
  /\ report.at \in {"load", "request", "reprobe"} =>
       \A k \in 0 .. report.done - 1 : IsRecorded(seen, k)
  /\ report.at = "isrun" /\ ~report.held /\ seen[Manifest] = Absent /\ ~IsRecorded(seen, 0) =>
       "refused" \in truths
  /\ report.at # "idle" /\ report.again /\ lock = Nobody /\ "overtaken" \notin truths =>
       /\ report.at \in {"request", "reprobe"} /\ report.done < MaxCycles =>
            ~IsRecorded(seen, report.done)
       /\ report.at = "reprobe" => report.requested = seen[Session]

\* A manifest is truncated and rewritten, never removed.
LEMMA ManifestRemains ==
  ASSUME Spared, TypeInv, RecordInv, [Next]_vars, seen[Manifest] # Absent
  PROVE  seen'[Manifest] # Absent
<1>1. /\ DOMAIN seen = Names /\ Manifest \in Names /\ Manifest # Root
      /\ Manifest = <<"manifest", 0>>
  BY DEF TypeInv, TypeOK, FileMap, Manifest, Names, RunKinds, Root
<1>2. \A k : Manifest \notin CycleNames(k)
  <2>1. Parent(Manifest) = Root /\ \A k : <<"cycle", k>> # Manifest /\ <<"cycle", k>> # Root
    BY <1>1 DEF Parent, RunKinds, FileKinds, PoolKinds, Root
  <2>. QED
    BY <2>1 DEF CycleNames, Entries
<1>3. ASSUME NEW p \in Procs, MakeDirectory(p) PROVE seen'[Manifest] # Absent
  BY <1>1, <1>3, ConstantsDistinct DEF MakeDirectory
<1>4. ASSUME NEW p \in Procs, OpenFile(p) PROVE seen'[Manifest] # Absent
  BY <1>1, <1>4, ConstantsDistinct DEF OpenFile
<1>5. ASSUME NEW p \in Procs, FlushFile(p) PROVE seen'[Manifest] # Absent
  <2>1. JobOK(job[p]) /\ job[p].at \in WriteStages
    BY <1>5 DEF FlushFile, TypeInv
  <2>2. Slot(job[p]) = Manifest => Data(job[p]) \in Policies
    BY <1>1, <2>1, SlotType DEF Whole
  <2>3. Absent \notin Policies
    BY ConstantsDistinct
  <2>. QED
    BY <1>1, <1>5, <2>2, <2>3 DEF FlushFile
<1>6. ASSUME NEW p \in Procs, Rename(p) PROVE seen'[Manifest] # Absent
  <2>1. JobOK(job[p]) /\ job[p].at \in StagedKinds /\ job[p].at \in WriteStages
    BY <1>6 DEF Rename, TypeInv, StagedKinds, WriteStages
  <2>2. Kind(job[p]) # Manifest /\ Slot(job[p]) # Manifest
    BY <1>1, <2>1, Places DEF StagedKinds
  <2>. QED
    BY <1>1, <1>6, <2>2 DEF Rename
<1>7. ASSUME NEW p \in Procs, Clear(p) \/ Stop(p) PROVE seen'[Manifest] # Absent
  <2>1. CASE seen' = seen
    BY <2>1
  <2>2. CASE \E gone \in SUBSET CycleNames(job[p].idx) : seen' = Without(gone)
    BY <1>1, <1>2, <2>2 DEF Without
  <2>. QED
    BY <1>7, <2>1, <2>2 DEF Clear, Stop
<1>8. ASSUME NEW p \in Procs, Step(p) PROVE seen'[Manifest] # Absent
  BY <1>3, <1>4, <1>5, <1>6, <1>7, <1>8
  DEF Step, SyncParents, SyncName, SyncRename, CheckManifest, ResumeCycle, ResumeDone, NextCycle,
      Finish, Rollout, Dream, fsVars
<1>9. ASSUME NEW p \in Procs, NEW policy \in Policies, NEW want \in 1 .. MaxCycles,
             Begin(p, policy, want)
      PROVE  seen'[Manifest] # Absent
  BY <1>1, <1>9 DEF Begin
<1>10. ~PowerLoss
  BY DEF PowerLoss, Spared, NoPower, TypeInv, TypeOK
<1>11. ASSUME NEW kind \in Published, NEW k \in Cycles, NEW left \in {Absent, Torn}
       PROVE  ~LoseFile(kind, k, left)
  BY DEF LoseFile, Spared, TypeInv, TypeOK
<1>. QED
  BY <1>7, <1>8, <1>9, <1>10, <1>11 DEF Next, Environment, Writeback, vars

\* A directory no session holds, before a step and after it, is as it was.
LEMMA Quiet ==
  ASSUME Spared, TypeInv, OneSession, [Next]_vars, lock = Nobody, lock' = Nobody
  PROVE  seen' = seen
<1>1. \A p \in Procs : job[p].at = "idle"
  BY ConstantsDistinct DEF OneSession
<1>2. \A p \in Procs : ~Step(p) /\ ~Stop(p)
  BY <1>1
  DEF Step, Stop, MakeDirectory, SyncParents, OpenFile, FlushFile, SyncName, Rename, SyncRename,
      CheckManifest, ResumeCycle, ResumeDone, NextCycle, Finish, Clear, Rollout, Dream,
      WriteStages, DirStages, StagedKinds
<1>3. \A p \in Procs, policy \in Policies, want \in 1 .. MaxCycles : ~Begin(p, policy, want)
  BY ConstantsDistinct DEF Begin
<1>4. ~PowerLoss
  BY DEF PowerLoss, Spared, NoPower, TypeInv, TypeOK
<1>5. ASSUME NEW kind \in Published, NEW k \in Cycles, NEW left \in {Absent, Torn}
      PROVE  ~LoseFile(kind, k, left)
  BY DEF LoseFile, Spared, TypeInv, TypeOK
<1>. QED
  BY <1>2, <1>3, <1>4, <1>5 DEF Next, Environment, Writeback, vars

\* The cycles a reader would trust, once it has read up to the first gap.
LEMMA Counted ==
  ASSUME NEW n \in 0 .. MaxCycles, \A k \in 0 .. n - 1 : IsRecorded(seen, k),
         n < MaxCycles => ~IsRecorded(seen, n)
  PROVE  Done = n
<1>1. \A k \in Cycles : Trusted(k) <=> k < n
  BY BoundsAreNat DEF Cycles, Trusted, HasRecord, IsRecorded
<1>2. {k \in Cycles : Trusted(k)} = 0 .. n - 1
  BY <1>1, BoundsAreNat DEF Cycles
<1>3. n \in Nat
  BY BoundsAreNat
<1>. QED
  BY <1>2, <1>3, FirstCycles DEF Done

\* What was true during the report stays noted.
LEMMA Noted ==
  ASSUME Watch, report.at # "idle"
  PROVE  truths \subseteq truths' /\ Moment \subseteq truths' /\ Overtaken \subseteq truths'
  BY DEF Watch

\* A step of the directory, under the eyes of a reporter.
LEMMA ReportWatches ==
  ASSUME NoPower, TypeInv, AskedInv, spent.lost = 0 => RecordInv /\ HistoryInv, ReportInv,
         [Next]_vars, LeftAlone, UNCHANGED report, Watch
  PROVE  ReportInv'
<1>1. CASE report = NoReport
  BY <1>1 DEF ReportInv, NoReport
<1>2. CASE report # NoReport
  <2>1. Spared /\ spent.lost = 0 /\ RecordInv /\ HistoryInv
    BY <1>2 DEF ReportInv, LeftAlone, Spared
  <2>2. /\ report' = report /\ report \in Reports /\ spent'.lost = 0
        /\ report.done \in 0 .. MaxCycles /\ 0 \in Cycles
    BY <2>1, BoundsAreNat DEF ReportInv, Reports, Spared, Cycles
  <2>3. \A k \in Cycles : IsRecorded(seen, k) => IsRecorded(seen', k)
    BY <2>1, RecordedStays DEF IsRecorded, FileKinds
  <2>4. \A k \in 0 .. report.done - 1 : k \in Cycles
    BY <2>2, BoundsAreNat DEF Cycles
  <2>5. report.at \in {"load", "request", "reprobe"} =>
          \A k \in 0 .. report.done - 1 : IsRecorded(seen', k)
    BY <2>3, <2>4 DEF ReportInv
  <2>6. report.at = "isrun" /\ ~report.held /\ seen'[Manifest] = Absent /\ ~IsRecorded(seen', 0)
          => "refused" \in truths'
    BY <2>1, <2>2, <2>3, ManifestRemains, Noted DEF ReportInv
  <2>7. ASSUME report.at # "idle", report.again, lock' = Nobody, "overtaken" \notin truths'
        PROVE  /\ report.at \in {"request", "reprobe"} /\ report.done < MaxCycles =>
                    ~IsRecorded(seen', report.done)
               /\ report.at = "reprobe" => report.requested = seen'[Session]
    <3>1. lock = Nobody /\ "overtaken" \notin truths
      BY <2>7, Noted DEF Overtaken
    <3>2. seen' = seen
      BY <2>1, <2>7, <3>1, Quiet DEF AskedInv
    <3>. QED
      BY <2>7, <3>1, <3>2 DEF ReportInv
  <2>. QED
    BY <2>2, <2>5, <2>6, <2>7 DEF ReportInv
<1>. QED
  BY <1>1, <1>2

\* A call that has answered is over.
LEMMA Over ==
  ASSUME ReportInv, NEW how \in Answers, Answer(how), report # NoReport, UNCHANGED spent
  PROVE  ReportInv' /\ report'.answer = how
<1>1. report' \in Reports /\ report'.at = "idle" /\ report'.answer = how
  BY DEF ReportInv, Answer, Reports
<1>. QED
  BY <1>1 DEF ReportInv

\* What a reporter concludes from its last probe.
Short == report.requested # Absent /\ report.done < report.requested

LEMMA Concludes ==
  ASSUME NEW held \in BOOLEAN, Conclude(held)
  PROVE  \/ held /\ Answer("running")
         \/ ~held /\ Short /\ Answer("stopped")
         \/ ~held /\ ~Short /\ Answer("finished")
<1>. DEFINE how == CASE held -> "running"
                     [] ~held /\ report.requested # Absent /\ report.done < report.requested -> "stopped"
                     [] OTHER -> "finished"
<1>1. Answer(how)
  BY DEF Conclude
<1>2. held => how = "running"
  OBVIOUS
<1>3. ~held /\ Short => how = "stopped"
  BY DEF Short
<1>4. ~held /\ ~Short => how = "finished"
  BY DEF Short
<1>. HIDE DEF how
<1>. QED
  BY <1>1, <1>2, <1>3, <1>4

\* A step of the reporter.
LEMMA ReportMoves ==
  ASSUME NoPower, TypeInv, AskedInv, spent.lost = 0 => RecordInv /\ HistoryInv, ReportInv,
         ReportStep, UNCHANGED vars, Watch
  PROVE  ReportInv'
<1>1. /\ report \in Reports /\ UNCHANGED <<seen, lock, spent>>
      /\ report.done \in 0 .. MaxCycles /\ MaxCycles \in Nat
  BY BoundsAreNat DEF ReportInv, Reports, vars
<1>2. report.at # "idle" => report # NoReport
  BY DEF NoReport
<1>3. ASSUME NEW how \in Answers, Answer(how), report.at # "idle" PROVE ReportInv'
  BY <1>1, <1>2, <1>3, Over
<1>4. CASE StartReport
  <2>1. report' \in Reports /\ report'.at = "probe" /\ report'.done = 0 /\ ~report'.again
        /\ spent.lost = 0
    BY <1>1, <1>4 DEF StartReport, NoReport, Reports
  <2>. QED
    BY <1>1, <2>1 DEF ReportInv
<1>5. CASE FirstProbe
  <2>1. /\ report' = [report EXCEPT !.held = (lock # Nobody), !.at = "isrun"]
        /\ report.at = "probe" /\ report.done = 0 /\ ~report.again
    BY <1>5 DEF FirstProbe, ReportInv
  <2>2. /\ report' \in Reports /\ report'.at = "isrun" /\ report'.done = 0 /\ ~report'.again
        /\ report'.held = (lock # Nobody)
    BY <1>1, <2>1 DEF Reports
  <2>3. lock = Nobody /\ seen[Manifest] = Absent /\ ~IsRecorded(seen, 0) => "refused" \in truths'
    <3>1. lock = Nobody /\ seen[Manifest] = Absent /\ ~IsRecorded(seen, 0) => "refused" \in Moment
      BY ConstantsDistinct DEF Moment, Answers, Holds, IsRun, HasRecord, IsRecorded
    <3>. QED
      BY <2>1, <3>1, Noted
  <2>. QED
    BY <1>1, <1>2, <2>1, <2>2, <2>3 DEF ReportInv
<1>6. CASE CheckIsRun
  <2>1. report.at = "isrun" /\ report.done = 0 /\ ~report.again
    BY <1>6 DEF CheckIsRun, ReportInv
  <2>2. CASE report' = [report EXCEPT !.at = "load"]
    <3>1. report' \in Reports /\ report'.at = "load" /\ report'.done = 0 /\ ~report'.again
      BY <1>1, <2>1, <2>2 DEF Reports
    <3>. QED
      BY <1>1, <1>2, <2>1, <3>1 DEF ReportInv
  <2>3. CASE Answer("refused")
    BY <1>3, <2>1, <2>3 DEF Answers
  <2>. QED
    BY <1>6, <2>2, <2>3 DEF CheckIsRun
<1>7. CASE LoadRecord
  <2>1. report.at = "load" /\ report.done < MaxCycles /\ IsRecorded(seen, report.done)
    BY <1>7 DEF LoadRecord, HasRecord, IsRecorded
  <2>2. CASE report' = [report EXCEPT !.done = @ + 1]
    <3>1. report' \in Reports /\ report'.at = "load" /\ report'.done = report.done + 1
      BY <1>1, <2>1, <2>2 DEF Reports
    <3>2. \A k \in 0 .. report'.done - 1 : IsRecorded(seen, k)
      BY <1>1, <2>1, <3>1 DEF ReportInv
    <3>. QED
      BY <1>1, <1>2, <2>1, <3>1, <3>2 DEF ReportInv
  <2>3. CASE Answer("refused")
    BY <1>3, <2>1, <2>3 DEF Answers
  <2>. QED
    BY <1>7, <2>2, <2>3 DEF LoadRecord
<1>8. CASE LoadRest
  <2>1. report.at = "load" /\ (report.done < MaxCycles => ~IsRecorded(seen, report.done))
    BY <1>8 DEF LoadRest, HasRecord, IsRecorded
  <2>2. CASE report' = [report EXCEPT !.at = "request"]
    <3>1. report' \in Reports /\ report'.at = "request" /\ report'.done = report.done
      BY <1>1, <2>2 DEF Reports
    <3>. QED
      BY <1>1, <1>2, <2>1, <3>1 DEF ReportInv
  <2>3. CASE Answer("refused")
    BY <1>3, <2>1, <2>3 DEF Answers
  <2>. QED
    BY <1>8, <2>2, <2>3 DEF LoadRest
<1>9. CASE ReadRequest
  <2>1. report.at = "request" /\ seen[Session] # Torn
    BY <1>9 DEF ReadRequest, AskedInv
  <2>2. report' = [report EXCEPT !.requested = seen[Session], !.at = "reprobe"]
    BY <1>9, <2>1 DEF ReadRequest
  <2>3. seen[Session] \in {Absent} \cup 1 .. MaxCycles
    BY <2>1, RequestNames DEF TypeInv, TypeOK, FileMap, Whole
  <2>4. /\ report' \in Reports /\ report'.at = "reprobe" /\ report'.done = report.done
        /\ report'.requested = seen[Session] /\ report'.again = report.again
    BY <1>1, <2>2, <2>3 DEF Reports
  <2>5. "overtaken" \notin truths' => "overtaken" \notin truths
    BY <2>1, Noted
  <2>. QED
    BY <1>1, <1>2, <2>1, <2>4, <2>5 DEF ReportInv
<1>10. CASE Reprobe
  <2>1. report.at = "reprobe"
    BY <1>10 DEF Reprobe
  <2>2. CASE report' = [report EXCEPT !.done = 0, !.again = TRUE, !.at = "load"]
    <3>1. 0 \in 0 .. MaxCycles
      BY <1>1
    <3>2. report' \in Reports
      BY <1>1, <2>2, <3>1 DEF Reports
    <3>3. report'.at = "load" /\ report'.done = 0
      BY <1>1, <2>2 DEF Reports
    <3>. QED
      BY <1>1, <1>2, <2>1, <3>2, <3>3 DEF ReportInv
  <2>3. CASE Conclude(lock # Nobody)
    <3>1. \E how \in Answers : Answer(how)
      BY <2>3, Concludes DEF Answers
    <3>. QED
      BY <1>3, <2>1, <3>1
  <2>. QED
    BY <1>10, <2>2, <2>3 DEF Reprobe
<1>. QED
  BY <1>4, <1>5, <1>6, <1>7, <1>8, <1>9, <1>10 DEF ReportStep

LEMMA ReportInit == InitReport => ReportInv
<1>. SUFFICES ASSUME InitReport PROVE ReportInv
  OBVIOUS
<1>1. report = NoReport /\ NoReport \in Reports /\ report.at = "idle"
  BY BoundsAreNat DEF InitReport, NoReport, Reports
<1>. QED
  BY <1>1 DEF ReportInv

LEMMA ReportInvariant ==
  NoPower /\ SpecReport =>
    [](NoPower /\ TypeInv /\ AskedInv /\ (spent.lost = 0 => RecordInv /\ HistoryInv) /\ ReportInv)
<1>1. ASSUME NoPower, TypeInv, AskedInv, spent.lost = 0 => RecordInv /\ HistoryInv, ReportInv,
             [NextReport]_<<vars, reportVars>>
      PROVE  ReportInv'
  <2>1. CASE UNCHANGED <<vars, reportVars>>
    BY <1>1, <2>1 DEF ReportInv, vars, reportVars
  <2>. QED
    BY <1>1, <2>1, ReportWatches, ReportMoves DEF NextReport
<1>2. NoPower /\ SpecReport => [](NoPower /\ TypeInv /\ AskedInv)
  BY ReportedIsRun, AskedInvariant, PTL
<1>3. NoPower /\ SpecReport => [](spent.lost = 0 => RecordInv /\ HistoryInv)
  BY ReportedIsRun, HistoryUntilLost, PTL
<1>4. InitReport => ReportInv
  BY ReportInit
<1>. QED
  BY <1>1, <1>2, <1>3, <1>4, PTL DEF SpecReport

\* What a report answers is true, was true while it was made, or is one of the two answers
\* that are not about the directory at a moment.
LEMMA AnswersTrue ==
  ASSUME NoPower, TypeInv, AskedInv, spent.lost = 0 => RecordInv /\ HistoryInv, ReportInv,
         ReportStep, UNCHANGED vars, Watch, Answered
  PROVE  \/ report'.answer \in truths'
         \/ report'.answer = "refused" /\ "illegible" \in truths'
         \/ report'.answer = "finished" /\ report.requested = Absent
         \/ "overtaken" \in truths'
<1>1. /\ report \in Reports /\ report.done \in 0 .. MaxCycles /\ MaxCycles \in Nat
      /\ \A n \in 0 .. MaxCycles : 0 .. n - 1 \subseteq Cycles
  BY BoundsAreNat DEF ReportInv, Reports, Cycles
<1>2. report # NoReport => spent.lost = 0 /\ RecordInv /\ HistoryInv
  BY DEF ReportInv
<1>3. report.at # "idle" => report # NoReport
  BY DEF NoReport
<1>4. ASSUME NEW how, Answer(how) PROVE report'.answer = how
  BY <1>1, <1>4 DEF Answer, Reports
<1>5. ASSUME NEW k \in Cycles, IsRecorded(seen, k), report # NoReport
      PROVE  /\ RecordReads(k) /\ seen[<<"policy", k>>] \in Policies
             /\ seen[<<"next", k>>] \in Policies
  BY <1>2, <1>5, ReadsBack, ConstantsDistinct DEF RecordReads
<1>6. ~StartReport /\ ~FirstProbe
  BY <1>1 DEF StartReport, FirstProbe, Answered, Reports
<1>7. CASE CheckIsRun
  <2>1. report.at = "isrun" /\ ~report.held /\ ~HasRecord(0) /\ seen[Manifest] \notin Policies
        /\ Answer("refused")
    BY <1>1, <1>7 DEF CheckIsRun, Answered, Reports
  <2>2. seen[Manifest] \in {Absent, Torn}
    <3>1. Manifest \in Names /\ Manifest[1] = "manifest"
      BY DEF Manifest, Names, RunKinds
    <3>. QED
      BY <2>1, <3>1 DEF TypeInv, TypeOK, FileMap, Whole
  <2>3. CASE seen[Manifest] = Absent
    BY <1>4, <2>1, <2>3, Noted DEF ReportInv, HasRecord, IsRecorded
  <2>4. CASE seen[Manifest] = Torn
    <3>1. Done = 0
      BY <1>1, <2>1, Counted DEF HasRecord, IsRecorded
    <3>2. "illegible" \in Moment
      BY <2>4, <3>1 DEF Moment, Legible
    <3>. QED
      BY <1>4, <2>1, <3>2, Noted
  <2>. QED
    BY <2>2, <2>3, <2>4
<1>8. ~LoadRecord
  <2>. SUFFICES ASSUME LoadRecord PROVE FALSE
    OBVIOUS
  <2>1. report.at = "load" /\ ~RecordReads(report.done) /\ report.done < MaxCycles
        /\ IsRecorded(seen, report.done)
    BY <1>1 DEF LoadRecord, Answered, Reports, HasRecord, IsRecorded
  <2>2. report.done \in Cycles
    BY <1>1, <2>1 DEF Cycles
  <2>. QED
    BY <1>3, <1>5, <2>1, <2>2
<1>9. ~LoadRest
  <2>. SUFFICES ASSUME LoadRest PROVE FALSE
    OBVIOUS
  <2>1. report.at = "load" /\ ~Readable(report.done)
    BY <1>1 DEF LoadRest, Answered, Reports
  <2>2. \A k \in 0 .. report.done - 1 : k \in Cycles /\ IsRecorded(seen, k)
    BY <1>1, <2>1 DEF ReportInv
  <2>3. \A k \in 0 .. report.done - 1 : seen[<<"policy", k>>] \in Policies
    BY <1>3, <1>5, <2>1, <2>2
  <2>4. report.done > 0 => seen[<<"next", report.done - 1>>] \in Policies
    <3>1. report.done > 0 => report.done - 1 \in 0 .. report.done - 1
      BY <1>1
    <3>. QED
      BY <1>3, <1>5, <2>1, <2>2, <3>1
  <2>5. PoolCounts
    BY <1>2, <1>3, <2>1 DEF HistoryInv, PoolWhole, PoolCounts
  <2>. QED
    BY <2>1, <2>3, <2>4, <2>5 DEF Readable
<1>10. ~ReadRequest
  BY <1>1 DEF ReadRequest, AskedInv, Answered, Reports
<1>11. CASE Reprobe
  <2>1. report.at = "reprobe" /\ Conclude(lock # Nobody) /\ (lock = Nobody => report.again)
    BY <1>1, <1>11 DEF Reprobe, Answered, Reports
  <2>2. CASE lock # Nobody
    <3>1. Answer("running")
      BY <2>1, <2>2, Concludes
    <3>2. "running" \in Moment
      BY <2>2 DEF Moment, Answers, Holds
    <3>. QED
      BY <1>4, <2>1, <3>1, <3>2, Noted
  <2>3. CASE lock = Nobody /\ "overtaken" \in truths
    BY <2>1, <2>3, Noted
  <2>4. CASE lock = Nobody /\ "overtaken" \notin truths
    <3>1. /\ report.done < MaxCycles => ~IsRecorded(seen, report.done)
          /\ report.requested = seen[Session]
          /\ \A k \in 0 .. report.done - 1 : IsRecorded(seen, k)
      BY <2>1, <2>4 DEF ReportInv
    <3>2. Done = report.done
      BY <1>1, <3>1, Counted
    <3>3. CASE Short
      <4>1. Answer("stopped")
        BY <2>1, <2>4, <3>3, Concludes
      <4>2. Recorded = report.requested
        BY <3>1, <3>3 DEF Recorded, Short
      <4>3. "stopped" \in Moment
        BY <2>4, <3>2, <3>3, <4>2 DEF Moment, Answers, Holds, Short
      <4>. QED
        BY <1>4, <2>1, <4>1, <4>3, Noted
    <3>4. CASE ~Short
      <4>1. Answer("finished")
        BY <2>1, <2>4, <3>4, Concludes
      <4>2. CASE report.requested = Absent
        BY <1>4, <4>1, <4>2
      <4>3. CASE report.requested # Absent
        <5>1. report.requested \in 1 .. MaxCycles /\ report.done >= report.requested
          BY <1>1, <3>4, <4>3 DEF Short, Reports
        <5>2. Recorded = report.requested
          BY <3>1, <4>3 DEF Recorded
        <5>3. HasRecord(0)
          BY <1>1, <3>1, <5>1 DEF HasRecord, IsRecorded
        <5>4. Done >= Recorded /\ IsRun
          BY <3>2, <5>1, <5>2, <5>3 DEF IsRun
        <5>5. "finished" \in Moment
          BY <2>4, <5>4 DEF Moment, Answers, Holds
        <5>. QED
          BY <1>4, <2>1, <4>1, <5>5, Noted
      <4>. QED
        BY <4>2, <4>3
    <3>. QED
      BY <3>3, <3>4
  <2>. QED
    BY <2>2, <2>3, <2>4
<1>. QED
  BY <1>6, <1>7, <1>8, <1>9, <1>10, <1>11 DEF ReportStep

\* However a report's reads interleave with sessions that publish, end or are killed, the exit
\* status it gives was true of the directory at some moment while it was made (run.py
\* _report), short of a power loss and with the two exceptions the property names.
THEOREM ReportsWereTrue == NoPower /\ SpecReport => ReportWasTrue
<1>1. NoPower /\ TypeInv /\ AskedInv /\ (spent.lost = 0 => RecordInv /\ HistoryInv) /\ ReportInv
        /\ [NextReport]_<<vars, reportVars>> =>
          [Answered =>
             \/ report'.answer \in truths'
             \/ report'.answer = "refused" /\ "illegible" \in truths'
             \/ report'.answer = "finished" /\ report.requested = Absent
             \/ "overtaken" \in truths']_<<vars, reportVars>>
  <2>1. UNCHANGED report => ~Answered
    BY DEF Answered
  <2>. QED
    BY <2>1, AnswersTrue DEF NextReport
<1>. QED
  BY <1>1, ReportInvariant, PTL DEF SpecReport, ReportWasTrue
=============================================================================
