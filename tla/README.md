# dream-rsi in TLA+

A verification development for `dream_rsi` (`src/src/dream_rsi/`): a driver that
alternates an *online* phase, in which an exploration policy decides which attempts an
agent makes and an evaluator scores, with a *dreaming* phase, in which revisions of that
policy are replayed over every tree recorded so far and the best of them is deployed for
the next cycle.  Everything is written to one run directory that has to survive kills,
power losses and concurrent commands.

Paths below are relative to `src/src/dream_rsi/`.  `PROJECT.json` maps every definition to
the lines it models.

## The system: parts, state, interactions

| part | state | operations | interacts with | what makes it correct |
|---|---|---|---|---|
| Run driver `run.py` | the run directory: manifest, session record, one directory per cycle, the pool | `run_cycles`, `_check_manifest`, `_resume`, `_finished`, `_cycle` | lock, durable, pool, rollout, develop | a record vouches for what it reports; records form one history; a finished cycle is never lost or redone; a run can always be resumed |
| Report `run.py --report` | what it has read so far | `_report`, `Run.load`, `_requested` | reads the directory and the lock of a run that goes on | the status it prints was true at some moment |
| Lock `lock.py` | who holds `run.lock` | `__enter__`, `__exit__`, `probe` | driver, report | one session at a time; released by death |
| Durability `durable.py` | page cache vs device | `write`, `publish`, `mkdir`, `copy_tree` | every writer | no name without its bytes |
| Pool `pool.py` | recorded trees, as files | `add`, `holds`, `subsample`, `stats` | driver, develop | has the tree of every finished cycle |
| Rollout `orchestrator.py` | the tree, the round log, attempts in flight | `run_rollout`, `_plan`, `_eligible`, `_admitted`, `_check_batch`, `_run_attempt` | policy, agent, evaluator, store | results reach their node; budgets hold in a round; the tree stays replayable |
| Tree `tree.py` | nodes | `add_child`, `eligible_nodes`, (de)serialisation | rollout, replay | every parent is older |
| Replay `replay.py` | revealed subtree, curve, rounds | `replay`, `reveal`, `_next_child`, `_record`, `SimResult.from_dict` | policy, dreaming | oldest child first, once each; the trajectory reads back as it was run |
| Policy base `policy.py` | closed nodes, last selections | `select`, `solve`, `reset`, `_close_barren`, `_keep_selected` | replay, rollout | closes only what is exhausted; `solve` ends |
| Baselines `policy.py` | the budget-aware one's best and stagnation | `choose`, `_schedule`, `_track`, the signals of a branch | policy base | spend no more than they may, and stop only for their reasons |
| Dreaming `dream.py`, `develop.py`, `scoring.py` | versions, the grid of replays, calls | `develop`, `_revise`, `validate_source`, `dream`, `_aggregate`, `ranking`, `select`, `_best`, `replay_score` | pool, replay, sandbox, developer agent | the next policy is no worse than any scored version; what is written of the choice and of its cost is so |
| Snapshot store `workspace.py` | refs and the copies they name | `capture`, `checkout`, `materialize` | rollout workers | a ref names the state it is the digest of |
| Sandbox `sandbox.py`, `_sandbox_child.py` | a child process, two pipes, a directory | `__init__`, `reset`, `select`, `plan_grid`, `close`, `_request` | replay, rollout | an answer is the answer to its request; requests end, by the deadline if by nothing else; nothing outlives |
| Command adapters `adapters/` | a process group, files in the workspace | `run_command`, `propose`, `evaluate`, `revise` | rollout, develop | a score is the evaluator's own, of a clean run; every attempt ends |
| Costs `cost.py` | counts | `OnlineCost`, `DreamCost` | rollout, dreaming | count what was spent, refused calls included |
| Tasks, installer, toys, examples | – | – | – | not modelled |

Hard behaviours: processes killed between any two system calls and power losses that keep
any subset of what was not flushed (run directory); threads that capture one state at the
same time, or capture a workspace something still writes to (store); attempts and replays
that end in any order (rollout, dreaming); a child that holds code a model wrote (sandbox,
commands); deadlines that race with late answers; a reader concurrent with the writer
(report); and decision loops that must end whatever a policy answers.

## Modules

Order of the plan: the run directory first, since everything else is only worth what it
records; then the two phases and what they share; then the services under them.

| module | models | runs |
|---|---|---|
| `RunDirectory` | `run.py`, `lock.py`, `durable.py`, `pool.py` as one directory several sessions append to | `RunDirectoryKills`, `RunDirectoryPower`, `RunDirectoryStale`, `RunDirectoryFresh`, and inside `RunReport` |
| `RunHistory` | the abstract promise: records are appended, each deploying what the one before selected | implemented by `RunDirectory` in `RunDirectoryKills` |
| `RunReport` | `--report` beside sessions (extends `RunDirectory`) | `RunReport`, `RunReportStarting` |
| `DiscoveryTree` | `tree.py` operators: what a tree is, what the loader accepts, what both drivers refuse of a batch | used by `Rollout`, `Replay` |
| `Rollout` | `orchestrator.py`, with the workspace each attempt works in | `Rollout` |
| `Retrace` | composes a rollout with a replay of what it recorded | `Rollout` |
| `Replay` | `replay.py` | `PolicyLoop`, and inside `Retrace` |
| `Strategies` | the three baselines of `policy.py` and the signals they read, as functions of a revealed tree | `PolicyLoop` |
| `PolicyLoop` | `policy.py`'s base class on top of `Replay`, under three drivers, with any strategy or a baseline | `PolicyLoop` |
| `Dreaming` | `dream.py`, `develop.py`, `scoring.py` | `Dreaming` |
| `SnapshotStore` | `workspace.py` with concurrent workers | `SnapshotStore` |
| `Sandbox` | `sandbox.py` and its child | `Sandbox` |
| `Command` | `adapters/_command.py`, `command_agent.py`, `command_evaluator.py`, `command_developer.py` | `Command` |
| `RunDirectory_proofs` | theorems about `RunDirectory` and `RunReport` | `tlapm` |
| `Rollout_proofs` | theorems about `Rollout` and `Retrace` | `tlapm` |
| `Dreaming_proofs`, `SnapshotStore_proofs`, `Sandbox_proofs`, `Command_proofs` | theorems about those modules | `tlapm` |
| `PolicyLoop_proofs` | theorems about `PolicyLoop`, `Replay` and `Strategies` together | `tlapm` |
| `Inductions` | the induction over naturals and finite sets, folds and sums that proofs about the others cite | `tlapm` |

`MC*` modules only give TLC its values and symmetry.  A definition preceded by "Seeded
defect" is not part of a specification: it is the definition below it with a plausible bug,
kept so that each property can be shown to notice one.

### How state and actions correspond to the code

*RunDirectory.*  A name is a kind and a cycle; `seen` is what a process reads under it,
`disk` what a power loss would leave, `unflushed` the names whose bytes were never flushed.
`job[p]` is the local state of one call of `run_cycles`.  Each action is one system call
with the code around it: `OpenFile`, `FlushFile`, `SyncName`, `Rename`, `SyncRename` are
`durable.write` and `publish`; `MakeDirectory`, `SyncParents` are `durable.mkdir`;
`CheckManifest`, `ResumeCycle`, `ResumeDone`, `NextCycle`, `Clear`, `Rollout`, `Dream`,
`Finish` are the steps of `run_cycles`, `_resume`, `_finished` and `_cycle`.  `After` is the
order in which a cycle writes.  `Stop` is a kill or an exception at any of them (inside
`rmtree`, any part of the directory may be gone), `Writeback` the kernel in its own time,
`PowerLoss` keeps `Survivors`, `LoseFile` an operator's cleaning between sessions.  File
contents are reduced to what the properties compare: a policy, a tree, a record of both.

*Rollout.*  `Select` is one round up to the pool, with `Offered` (`_eligible`), `Admitted`
(`_admitted`) and `Truncated`; `Start` (`checkout` from the parent's snapshot, `Base`),
`Attempt`, `Capture`, `StoreFails` are `_run_attempt` in a worker; `Attach` and `RaiseOut`
are the runner after `pool.map`.  A snapshot is known by the chain of attempts that made
it, so a node that inherits its parent's, or gets its neighbour's, can be told.  The policy
may answer anything.

*Replay, PolicyLoop, Strategies.*  A world is any tree the loader accepts (`Accepts`), not
only one a rollout makes.  `Reveal` is `ReplayRun.reveal`: the checks (`Legal`), then the
whole batch looked up (`Found`, `Retrieved` is `_next_child`), refused if it meets a node a
trajectory cannot hold (`Holdable`), and only then committed.  `Loads` is
`SimResult.from_dict` on what was logged.  `Choose` is `OptimalPolicy.select` around an
arbitrary strategy or a baseline; `ReplayRound` is K2's loop or a hand stepping it,
`SolveRound` is `solve`.  `Strategies` writes `choose` of each baseline as a function of
what is revealed; the budget-aware one's memory is `track`.

*Dreaming.*  A source is a short list of the statements that decide what the sandbox finds
in it: bindings of `NAME` (known or computed), classes, and what else is bound under a
class's name, whether it can be called (an alias, a factory, an import) or not; `Refused` is
`validate_source`, `Executed` and `Loads` what the child does with the module, which takes
anything that can be called.  `Refuse`, `Accept`,
`GiveUp` are the developer's retries; `StartCell`, `EndCell`, `EndRow` one row of the grid
in a thread pool; `Select` the choice, `RankedFirst`, `Margin`, `Rationale` what is written
of it, `DreamCost` what it took.

*SnapshotStore.*  A capture is its digest part by part, the look-up, the copy part by part,
the flush, the rename and the flush of the folder, with `Edit` anywhere in between.

*Sandbox.*  `Send`, `ReadLine`, `TimeOut`, `Die`, `Close` are the proxy; `Take`, `Respond`,
`Babble`, `ChildEnds` the child and the candidate in it.  The pipes block: a request with
room in its pipe is sent at once, a larger one is inside `os.write` from `BeginWrite` to
`EndWrite`, where `TimeOut` cannot reach it, and leaves it when the child reads or ends.

*Command.*  `StartCommand`, `Reap`, `NoticeFlood`, `TimeOut`, `KillGroup` are `run_command`;
`Resume`, `TakeAttempt`, `RefuseAttempt` are `propose`; `Prepare`, `TakeScore`,
`RefuseScore` are `evaluate`; `TakeRevision`, `RefuseRevision` are `revise`; `Write`, `Fork`,
`Flood`, `Exit` are what a command may do.  `Write` may also leave a named pipe (a FIFO) in
the place of the proposal or of the file the rationale is kept in; `Digest` is `_digest`,
which takes one for a missing file, and `OpensPipe` says where `propose` then waits on it.
A workspace with one in it is not captured, which ends the rollout.

## What the runs show, and their bounds

* **RunDirectoryKills** – two processes, two cycles, three sessions of which two are killed
  anywhere.  `RecordVouches`, `OneHistory`, `NeverBroken`, `FinishedIsKept`, and the
  refinement `ImplementsHistory`.  Two cycles are the least with a history; three sessions
  let a second session inherit a first one's debris and a third one build on both; two
  policies and two trees tell a redone cycle from the one it replaces.
* **RunDirectoryPower** – the same with two power losses and no kills: `SurvivorsVouch`
  (what a power loss would leave of a record is one to trust) and `FinishedIsDurable`; and
  with one file lost or half-copied between sessions, `PoolHasHistory`.  One file is enough
  for the pool and the records to disagree.
* **RunDirectoryStale**, **RunDirectoryFresh**, **RunReportStarting** – expected violations,
  see *Findings*.
* **RunReport** – one process, up to three sessions, one kill or one file lost, and a report
  interleaved with the first two sessions when nothing is lost: `ReportWasTrue`,
  `RequestPrecedesWork`; and `SessionsEnd`.  Two sessions are the least for a report to
  straddle.
* **Rollout** – every rollout of up to four attempts in three rounds by two workers, every
  grid up to 2 × 2 and none, batches of up to three: `NodeIsItsAttempt` (parent, outcome,
  inherited workspace, cost, nothing left behind), `RecordingIsLegal`, `Stops`; then the
  round log replayed: `RetraceIsExact`.  Three selections in a batch let the root repeat
  around a leaf; two workers let attempts end out of order with one still queued.
* **PolicyLoop** – every replay of every tree the loader accepts (branching anywhere, a node
  out of range of a trajectory anywhere) of up to four attempts: `RevealedInOrder`,
  `DefaultCapSpares`, `TrajectoryReadsBack`; with the policy's memory under `replay`, a hand
  that brings leftovers, and `solve` with budgets: `ClosedIsExhausted`, `SolveEndsInTime`;
  with each baseline at three betas: `BaselinesAreLegal`, `BaselinesStopForCause`,
  `SignalsAgree`.  Under any strategy trees of up to three attempts have scores of both
  signs, missing and unholdable, and those of four none; a baseline meets scores of both
  signs and missing on every tree of up to two attempts and on those of up to four that a
  rollout records.  Four attempts are the least on which two branches both have a gain and
  a failure after it.
* **SnapshotStore** – three workers, two files of two contents, five captures, three edits,
  one failed directory, copy, flush or rename.  `RefsNameTheirState` and
  `CapturesWhatWasLeft` hold through the failure, `RefsAreDurable` where there is none.
* **Dreaming** – three versions, two of three worlds, two workers, two tries per revision,
  modules of up to three statements: a binding before, between and after a class or an
  alias of one.  `CellsAreTheirReplays`,
  `NoWorseThanIncumbent`, `FailingNeverPays`, `SelectionReadsTrue`, `SpentIsRecorded`,
  `RefusalsAreEarned`, `Ends`.
* **Sandbox** – four requests (the constructor's included) and two lines the candidate
  writes itself: a late answer needs two requests to be confused, a third to show it lasts.
  `OwnAnswers`, `NothingOutlives`, and `RequestsEnd`: a child that hangs, answers late, floods
  or ends costs its request and no more, but for one that stays in the write of a large line
  to a child that lives and never again reads (`StuckInWrite`, see *Findings*).
* **Command** – a chain of two attempts, each an agent and an evaluator command, or one
  revision by a developer's command: stale files need one resumed workspace.
  `RecordIsOwn`, `OnlyCleanRunsCount`, and `AttemptsEnd`: no command holds the harness up by
  what it prints, forks or refuses to end, and an agent's does only by a pipe it leaves where
  `propose` opens a file (`OpensPipe`, see *Findings*).

Deadlock checking is off everywhere: every one of these systems ends by design (sessions
and power are bounded, a rollout stops, a policy is closed).

Type invariants: that of `RunDirectory` is part of a run; those of `RunDirectory`,
`Rollout`, `Dreaming`, `SnapshotStore` and `Sandbox` are proved; those of the other modules are stated
for the proofs planned about them.

### Fairness

`RunDirectory`: weak fairness of each process's own steps – nothing a session does waits
for another process (the lock refuses, it does not block).  Kills, power, writeback and
losses are never fair.  `Rollout`: the runner and the pool run on, and every attempt ends,
because each adapter's call has a deadline.  `Dreaming`: every replay and agent call ends,
for the same reason.  `Sandbox`: the proxy runs and time passes; nothing is asked of the
child.  `Command`: the harness runs on; nothing is asked of the command.

What `Rollout` and `Dreaming` assume is what `Command` and `Sandbox` check, with the two
exceptions those find: `Stops` and `Ends` say nothing of an attempt that waits on a pipe
(`OpensPipe`) or of a policy whose child no longer reads (`StuckInWrite`).

## Findings

1. *RunDirectoryStale* (`run.py:763`).  `_finished` stops at the first missing record and
   the ones beyond the gap are only forgotten, not removed.  A record renamed but not
   flushed (a kill at `durable.py:72-73`), built on, then lost to the power, leaves such a
   gap; a session asked for fewer cycles closes it, and the old record beyond it is trusted
   again.  The docstring of `_resume` says such records "are redone rather than trusted".
2. *RunDirectoryFresh* (`lock.py:67`).  The lock creates the run directory by a plain
   `mkdir`, so `durable.mkdir` never flushes the entry of the directory itself: a power loss
   can take a first session's finished cycles, which `durable.py`'s docstring excludes.
3. *RunReportStarting* (`run.py:1003`).  `_is_run_directory` goes by a probe already past and
   reads the manifest without the lock.  After a session killed before its first record, the
   next one rewrites the manifest in place (`run.py:705-707`); a report that probed before it
   and reads in the middle exits 2, "nothing a run leaves is there", of a directory that had
   a whole manifest or a held lock at every moment.  `run.py:132-135` reserves that status
   for a directory that "is not a run directory at all".

Divergences met while modelling and not carried as runs of their own:

* `sandbox.py:472-481`: `_send` waits until the pipe has room for something, then gives the
  whole line to one `os.write` on a pipe that blocks (`os.pipe`, `:402-403`).  A request
  larger than what is free (a large revealed tree) stays in that write, past any deadline,
  when the child lives and does not read: after a line the candidate wrote itself was taken
  for its answer, say.  `_send` promises the contrary, "without letting a child that stopped
  reading block us".  `RequestsEnd` exempts that wait (`StuckInWrite`) and no other.
* `adapters/command_agent.py:251-252`: where the parent left a `proposal.md` and the command
  puts a named pipe in its place, `_digest` answers as for a missing file, which is a change,
  and `read_text` opens the pipe and waits for a writer that was killed, with no timeout.
  The same goes for `:255-257`, where the rationale is kept, with a reader.  The developer's
  adapter guards against it ("opened without waiting for a writer", `_read_revision`).
  `AttemptsEnd` exempts the two waits (`OpensPipe`) and no other.
* `develop.py:253`: `validate_source` refuses a module that binds an alias of a class, a
  factory or an import under the name the sandbox looks for, although `_load_policy`
  (`_sandbox_child.py:273-288`) takes anything that can be called.  Its docstring speaks of
  output "that defines no policy class for the sandbox to instantiate".  `RefusalsAreEarned`
  is stated of modules with a class of that name; a refused one that would load is always of
  this kind.
* A session killed between the manifest check (`run.py:649`) and the session record
  (`run.py:660`) is remembered as never having asked; a report may then say *finished*.
* A whole session that fits between a report's second reading and its last look at the lock
  goes unseen (`run.py:1069-1071`), and the status printed need never have been true;
  `ReportWasTrue` exempts that case, which the comment at `run.py:1066-1068` rules out.
* A report made while a stale cycle is being cleared, after its record was lost, can be
  refused over a file that is half gone.
* `FinishedIsDurable` also fails with an existing directory after one kill and one power
  loss (`durable.py:72-73`): the next session builds on a name nobody flushes.
* After one kill and two power losses even `SurvivorsVouch` fails: the `rmtree` of a stale
  cycle is not flushed, and parts of it may come back beyond a gap.
* `workspace.py:124-131`: a flush that fails after the capture's own rename is taken for
  another worker's rename and swallowed; `RefsAreDurable` is stated for captures without it.
* `policy.py:236-243`: `reset` by a fresh root happens only if something had been selected or
  closed; a budget-aware policy stepped by hand whose last rollout ended by stagnation
  starts the next one stagnant.
* `develop.py:396-424`: `validate_source` does not see a `NAME` bound in a tuple or inside
  an `if` or `try`, nor a class nested in one, so it refuses modules the sandbox would load;
  those are left out of `Sources`.
* `workspace.py:161`: `checkout` copies before its `try`, so nothing removes the directory
  of one that fails half way.  `Rollout` counts only those checked out whole.
* `run.py:804`: `rmtree` of a stale cycle ignores what it cannot remove, and the cycle is run
  over what stays; `Clear` always empties it.
* `run.py:912`: a policy file torn in the middle reads without an error and is taken;
  `ResumeCycle` stops there as for one that is missing.  No run with a promise to keep gets
  to such a file: what is published was flushed whole, and losses only delete a policy.
* `orchestrator.py:437-445` says a leaf selected twice makes a fork; `_check_batch` refuses it.
* `sandbox.py:483-489`: lines the candidate writes after the answer was read are not dropped.
* `sandbox.py:252-253`: a constructor that fails at the scratch directory leaves the home.
* `sandbox.py` `_kill` does not signal the group of a child that already exited by itself.

## Proofs

`RunDirectory_proofs` proves `TypeCorrect`: `Spec => []TypeOK` for any processes, policies,
trees, cycles and bounds, from the module's assumptions only (bounds are naturals, the
markers `Absent`, `Torn`, `Some`, `Nobody` are distinct from contents).  `TypeOK` is
inductive as it stands because it ties each job's stage to the fields the stage needs; the
proof has one step per action, with lemmas for writing one name of a file map and for the
next stage of a job.

It goes on to `RecordVouches` for any number of cycles, sessions, processes and kills, under
`NoLosses`: no power loss and no file taken from outside.  (With losses it is not even true:
a file may go and leave its record.)  `RecordVouches` is not inductive: that a record may be
renamed into place depends on what every stage before it left.  The invariant `RecordInv` says

* one session at a time, by the lock;
* `Kept`: a record has one for every cycle before it, a pool beside it, and vouches;
* `Written`: bytes that were flushed, or renamed, are what the stage writes;
* `Behind`: the files the stages behind wrote are those of the cycle in hand;
* `Where`: every cycle before the one in hand has a record and, past `_resume`, none from
  it on, which is why clearing and rewriting it touches nothing a record vouches for.

The lemmas are about any map of files, so each action cites one of three: writing a name
(`WriteSound`), renaming a record (`RenameKept`), and moving to the next stage
(`AdvancedSound`).

It then gets, under the same `NoLosses`, to `OneHistory`,
`NeverBroken`, `FinishedIsKept` and to the refinement: `RunDirectory` implements
`RunHistory`, every step of a session a step of the abstract history or none.  Its
`HistoryInv` adds to `RecordInv` that the policy each cycle deploys is the one its record
names (`Chained`, `Deploys`), that the pool is the trees of the recorded cycles and no
others (`PoolWhole`), and that the cycles a session has acknowledged are a prefix of the
records (`Acknowledged`), so that acknowledging one more adds one to their number.  Both
invariants are proved to hold *until a file is lost* (`UntilLost`, `HistoryUntilLost`), with
`NoPower` alone: that is what the theorems about reports, which are made while no file is
lost, start from.

The next part is about what a power loss leaves: `FinishedIsDurable` and `SurvivorsVouch`,
with any number of power losses and files taken from outside.  `LayInv` says where bytes may be while a session works (`Housed`: a name on the device has its
directory there; `Keepers`: what may be taken back and what was flushed), `AckInv` that what
is acknowledged is on the device, `Safe` that every state the kernel may have written back
vouches for itself.  Two hypotheses are needed and both are findings: `NoStops` (no session
is killed), since a record renamed and never flushed is built on by the next session
(*RunDirectoryStale*), and, for `FinishedIsDurable`, a run directory that was there before
its first session (*RunDirectoryFresh*).

`PoolHasHistory` and mutual exclusion (`OneSession`) are proved with no hypothesis at all: any
kills, power losses and lost files, in any order.  What a directory still tells after those is
little (files, even whole cycles, may be gone or back, half or whole), but `PoolInv` says it is never
the wrong tree for a cycle.  `Coherent`: of all that can be read under a cycle's record, its
tree and its world, now or after a power loss, a record is whole and a tree beside it is the
one it reports, or torn, or not there; losses keep that by taking something away (`Faded`).
`Stocked` is what lets a session go on writing: the cycle it makes was emptied *and flushed
empty* first, so that no older record can come back beside the new tree (`Emptied`, `Made`);
the tree `_resume` puts back is the one the record reports (`PutBack`); what is renamed into
place was flushed whole (`Staged`); and it has walked over, or made, every cycle before its own
(`Walked`).

The last part is about `RunReport`, under `NoPower`, kills and lost files included (a
power loss changes the files under a session that holds the lock, and the runs have none
either).  `RequestPrecedesWork` rests on `AskedInv`: from the rename of its session record to
its end, a session's own request is the one on record, which no other session can replace
while this one has the lock and `LoseFile` never takes.  `ReportWasTrue` rests on
`ReportInv`: a record the reporter counted is still there at its next read, since a session
only clears the first cycle without one; and what it read the second time is how the
directory is *until a session takes the lock*, after which the last look finds the lock held,
or the session gone again, the case the property exempts (`overtaken`).  Then each answer is
looked at where it is given, and either was true when it was or was noted in `truths` before.

`Rollout_proofs` proves `TypeOK`, `NodeIsItsAttempt` and `RecordingIsLegal` for any policy,
pool, outcomes and budgets.  `Rows` ties each slot, however far its attempt is, to the node
it will become: which workspace it holds and what is in it, and what its attempt came to.
`Tree` is what is recorded already, and `Legal` what the batch in hand may still add: a leaf
once, and the root as often as the grid has branches left, which needs the lemmas about
`Admitted` (`Ranks`: the places kept of a batch are numbered without a gap; `RootsKept`).
`Depth` is a recursive function; that it is defined (`DepthExists`), and that attaching nodes
leaves the depths there are alone (`DepthStays`), is by induction on the set of naturals a
formula holds of (`Inductive`, from the library's well-founded minimum, which takes a set
where its induction theorems take an operator).

It ends with `Retrace`, from no hypothesis: `RetraceIsExact` for any rollout that stops, of
any size.  `LogInv` is what the recording is: the round log numbers the nodes of the tree in
the order they were made, round after round (`Reach`), and each is the child of what was
selected in its place.  `ReplayInv` is the replay after `taken` rounds: it has revealed the nodes
of those rounds and no others.  Then the batch of the next round asks for nodes that are
revealed and not used up (`AskIsHoldable`), each selection retrieves the very node it created,
since that is the child of it with as many siblings before it as were revealed (`NthIs`,
`FoundIs`), and the cap of rounds is never met, as every round reveals at least one.

`Dreaming_proofs` proves `TypeOK` and all six invariants of `Dreaming`, for any history,
limit, versions, attempts, workers, weights, replays and length of module, from
`DreamingConfig` only.  Its `Inv` has three parts beside the types.  `Grid`: the row in hand
and every row before it hold what the replays came to, each version's aggregate is that of
its row, and nothing else was replayed.  `Counts`: what was asked, counted and refused at
each point of the loop, and that a version more costs `MaxAttempts` calls at most.
`Chosen`: a selection is made once, and is the `Winner` of the versions there are.  From
these and a few facts about the operators the invariants follow: `Above` orders all that can
be an aggregate (`AboveOrders`), so any versions that were scored have an earliest best one
(`BestsAre`) and `select` takes it in either of its branches (`WinnerIs`); an aggregate is a
marker exactly when its row says so (`AggregateIs`); the ranking has one first
(`FirstIsSelected`).  `SpentIsRecorded` compares a sum of sums over the versions with one
over all replays, and `RefusalsAreEarned` two folds over a module's statements of any length
(`NamesAgree`: whatever prefix was read, a name that can be read is the one looked for, and
the classes the namespace holds under their names are the module's own).

`PolicyLoop_proofs` proves the types and all eight invariants that the run of `PolicyLoop`
checks (`RevealedInOrder`, `TrajectoryReadsBack`, `DefaultCapSpares`, `ClosedIsExhausted`,
`SolveEndsInTime`, `BaselinesAreLegal`, `BaselinesStopForCause`, `SignalsAgree`), under
`SpecLoop` and so for each driver, on any world the loader accepts and with any scores, from
`ReplayConfig` and `LoopConfig` only.  `StepIs` says what the steps of the three loops have
in common: a strategy is asked and its answer revealed or refused, it declines, or the loop
stops without asking; each part of the invariant `LoopInd` is then proved of those steps.

* `ReplayInd`: what is revealed is a tree (`OrderInd`), the curve has one point to each
  revealed attempt and the best over what was revealed by then (`CurveInd`), and the log
  counts it (`LogInd`).  It rests on what a batch retrieves (`RetrievedIs`, the lowest child
  left; `RetrievedApart`, never one twice, though a batch may repeat the root) and on
  every node of an accepted world being below the root (`LevelsAre`), which is why a path
  ends.
* `ClosedIsExhausted` is inductive once it is known what a policy remembers (`MemoryInd`): a
  node is closed when a round that selected it left its number of revealed children as it
  was, and a node with one left to reveal would have got it (`TakesOfEach`).
* `SolveInd`: a round that reveals nothing closes a node or strayed to a closed one, so a
  tree of `n` nodes sees at most `n + 1` rounds, and a world of `N` at most `N(N + 3) / 2`
  (`Stretches` is the arithmetic).
* `TrackInd`: what `BudgetAwarePolicy` has measured agrees with the tree: its best is the
  best of what it had seen, and it counts no more stagnant reveals than there were since any
  gain, whence `SinceGainIs`.  It is stated for the drivers that reset the policy; stepped by
  hand it fails (*Findings*).
* The answers of the baselines are live nodes, no leaf twice, no more than offered (`Picks`,
  from `BreadthIs`, `GreedyIs`, `BudgetIs`).

Two definitions of `Replay` and `Strategies` are written for these proofs: what a sorted list
or the next child is, is said by the number of members before it (`Nth`, `Ahead`).

`Inductions` is what these three proofs stand on.  The library's induction theorems take an
operator, which no prover here can instantiate; these take a set: of naturals
(`Inductive`), or of subsets of a finite set (`OneByOne`).  From them it has that a fold
over a finite set is defined (`FoldExists`), that it keeps what each step of it keeps
(`FoldKeeps`), and for sums that any element may come first (`SumAny`), that disjoint ones
add up (`SumJoin`), that renaming leaves them alone (`SumMoved`), and that a sum of sums is
one over pairs (`SumOfSums`); that the members of a finite set of naturals can be told apart
by how many are below them (`Ranks`), and that a function defined by recursion on an
interval exists (`Recursion`).  `SumOver` is what the community module's
`MapThenSumSet` unfolds to.

`SnapshotStore_proofs` proves `TypeOK`, `RefsNameTheirState`, `CapturesWhatWasLeft` and
`RefsAreDurable`, from no hypothesis.  `Captures` follows one worker from its copy to its
rename (`Sound`: what it holds is what it copied, and its digest is of that), `Whole` says
that a state under its digest is complete or not there, `Flushing` that a name on the device
has its bytes there.  No step of another worker disturbs any of it, except a rename onto the
same digest, which leaves the same state.

`Sandbox_proofs` proves `TypeOK`, `NothingOutlives` and `OwnAnswers` for any number of
requests and lines.  `OwnAnswers` needs the history of the pipes: `Pipes` says that whoever
may ask finds them empty and the child not working, and that whoever waits has exactly one
request in hand, in the request pipe, in the child, or answered; `Life` ties the child and
the directory to where the proxy is.

`Command_proofs` proves `RecordIsOwn` and `OnlyCleanRunsCount` for chains of any length and
any contents.  `Places` says that nothing of a command is alive unless one was started and
not yet killed, so that after `Prepare` only the evaluator's command can write a score
(`Own`); `Shows` that a mishap of a command is in the sink or its exit status while it runs
and in the outcome once it was killed, whichever of the three ways out of the loop came
first.

Left to TLC: everything under fairness (liveness and `ENABLED` are out of the prover's
reach: `SessionsEnd`, `Stops`, `AttemptsEnd`, `Ends`, `RequestsEnd`).  Every other property a
passing run checks is stated by a theorem, under hypotheses that the bounds of that run meet.

## Left for later

* Models: the sensitivity sweep of the replay score; the totals of the cost report.

## Not modelled, and why

Windows branches (job objects, `msvcrt` locks); symbolic links in workspaces; the audit hook
and resource limits of the sandbox, which appear only as a child that ends; processes that
leave their group; report text and rendering; a shared `probe` that makes a starting session
fail for a moment; the pool's subsample limit in `RunDirectory` (it is in `Dreaming`);
a command that rewrites what the adapter keeps in `.dream_rsi` (but for a pipe put there);
that a kill of a group is waited for only of its leader (`KillGroup` has it gone at once); node ids beyond `n999999`; what prompts and policy sources say; `cost.py`'s arithmetic; task loading; the installer; the
toy search and fakes, deterministic stand-ins; the example task.
