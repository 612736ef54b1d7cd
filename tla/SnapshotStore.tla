--------------------------- MODULE SnapshotStore ----------------------------
(***************************************************************************)
(* The snapshot store of one rollout (workspace.py: SnapshotStore, over    *)
(* durable.py).  Each worker checks a workspace out of a recorded state,   *)
(* lets an attempt edit it, and captures what the attempt left: the        *)
(* workspace is digested, copied aside, the copy digested, and renamed to  *)
(* snapshots/<digest>.  Workers capture at the same time, and a process an *)
(* attempt left running may edit a workspace while it is captured.         *)
(*                                                                         *)
(* A state is a function from the workspace's parts to their contents; the *)
(* digest is collision-free, so a ref IS the state it was computed from.   *)
(* Reading a tree is one step per part, in whatever order the directory    *)
(* lists them.                                                             *)
(***************************************************************************)
EXTENDS Naturals, FiniteSets

CONSTANTS
  Workers,     \* the rollout's worker threads
  Parts,       \* the paths of a workspace
  Values,      \* what a path may hold
  Gone,        \* no such directory
  MaxCaptures, \* bound: captures begun
  MaxEdits,    \* bound: edits made to workspaces
  MaxFailures  \* bound: reads and flushes that fail

ASSUME StoreConfig ==
  /\ Parts # {} /\ Values # {}
  /\ MaxCaptures \in Nat /\ MaxEdits \in Nat /\ MaxFailures \in Nat

States  == [Parts -> Values]
Partial == UNION {[some -> Values] : some \in SUBSET Parts}
Nothing == <<>>   \* no part read or copied yet
ASSUME GoneIsNoState == Gone \notin Partial

VARIABLES
  work,     \* Workers -> the workspace each attempt has checked out, or Gone
  capture,  \* Workers -> the capture in progress
  staging,  \* Workers -> the copy a capture makes beside the snapshots
  recorded, \* ref -> the snapshot of that name: its bytes, and what was flushed
  folder,   \* the snapshots directory: "absent", "made", or "synced" with its parents
  returned, \* the refs that captures returned, which the tree's nodes record
  spent     \* how much of each bound was used

vars == <<work, capture, staging, recorded, folder, returned, spent>>

Stages == {"idle", "working", "digest", "known", "mkdir", "mksync", "copy", "flush", "name",
           "publish", "sync", "return", "raised"}
\* read: the parts read so far; ref: the digest; flushed: the copy's bytes are on the
\* device; quiet: nothing changed the workspace since the capture began.
Resting == [at |-> "idle", read |-> Nothing, ref |-> Gone, flushed |-> FALSE, quiet |-> TRUE]

Init ==
  /\ work = [w \in Workers |-> Gone]
  /\ capture = [w \in Workers |-> Resting]
  /\ staging = [w \in Workers |-> Nothing]
  /\ recorded = <<>>
  /\ folder = "absent"
  /\ returned = {}
  /\ spent = [captures |-> 0, edits |-> 0, failures |-> 0]

At(w) == capture[w].at
Goto(w, stage) == capture' = [capture EXCEPT ![w].at = stage]
With(f, x, v) == [y \in DOMAIN f \cup {x} |-> IF y = x THEN v ELSE f[y]]

-----------------------------------------------------------------------------
(* checkout, and what attempts do to a workspace.                            *)

\* run_rollout captures the root workspace before any attempt.
CaptureRoot(w, state) ==
  /\ spent.captures = 0
  /\ At(w) = "idle" /\ spent.captures < MaxCaptures
  /\ work' = [work EXCEPT ![w] = state]
  /\ spent' = [spent EXCEPT !.captures = @ + 1]
  /\ Goto(w, "digest")
  /\ UNCHANGED <<staging, recorded, folder, returned>>

Checkout(w, ref) ==
  /\ At(w) = "idle"
  /\ ref \in returned /\ ref \in DOMAIN recorded
  /\ work' = [work EXCEPT ![w] = recorded[ref].bytes]
  /\ Goto(w, "working")
  /\ UNCHANGED <<staging, recorded, folder, returned, spent>>

\* The attempt, or a process it left behind, changes a part of its own workspace.
Edit(w, part, value) ==
  /\ work[w] # Gone /\ part \in DOMAIN work[w] /\ work[w][part] # value
  /\ spent.edits < MaxEdits
  /\ work' = [work EXCEPT ![w][part] = value]
  /\ capture' = [capture EXCEPT ![w].quiet = At(w) = "working"]
  /\ spent' = [spent EXCEPT !.edits = @ + 1]
  /\ UNCHANGED <<staging, recorded, folder, returned>>

BeginCapture(w) ==
  /\ At(w) = "working" /\ spent.captures < MaxCaptures
  /\ spent' = [spent EXCEPT !.captures = @ + 1]
  /\ Goto(w, "digest")
  /\ UNCHANGED <<work, staging, recorded, folder, returned>>

-----------------------------------------------------------------------------
(* capture                                                                   *)

\* _digest of the workspace, a part at a time.
ReadPart(w, part) ==
  /\ At(w) = "digest" /\ part \in DOMAIN work[w] \ DOMAIN capture[w].read
  /\ LET read == With(capture[w].read, part, work[w][part])
     IN  capture' = [capture EXCEPT ![w].read = read,
                                    ![w].at = IF read \in States THEN "known" ELSE "digest",
                                    ![w].ref = IF read \in States THEN read ELSE Gone]
  /\ UNCHANGED <<work, staging, recorded, folder, returned, spent>>

\* A state already recorded is not copied again.
LookUp(w) ==
  /\ At(w) = "known"
  /\ Goto(w, IF capture[w].ref \in DOMAIN recorded THEN "return" ELSE "mkdir")
  /\ UNCHANGED <<work, staging, recorded, folder, returned, spent>>

\* durable.mkdir(snapshots): a directory that is there costs nothing.
MakeFolder(w) ==
  /\ At(w) = "mkdir"
  /\ folder' = IF folder = "absent" THEN "made" ELSE folder
  /\ Goto(w, IF folder = "absent" THEN "mksync" ELSE "copy")
  /\ UNCHANGED <<work, staging, recorded, returned, spent>>
SyncFolder(w) ==
  /\ At(w) = "mksync"
  /\ folder' = "synced"
  /\ Goto(w, "copy")
  /\ UNCHANGED <<work, staging, recorded, returned, spent>>

\* mkdtemp gives every capture a staging directory of its own.
\* (Seeded defect: the captures of a store share one.)
StagingOfAll(w) == CHOOSE one \in Workers : TRUE
StagingOf(w) == w

\* copy_tree reads the workspace again; every file is flushed as it is written.
CopyPart(w, part) ==
  LET aside == StagingOf(w) IN
  /\ At(w) = "copy" /\ part \in DOMAIN work[w] \ DOMAIN staging[aside]
  /\ staging' = [staging EXCEPT ![aside] = With(@, part, work[w][part])]
  /\ Goto(w, IF staging'[aside] \in States THEN "flush" ELSE "copy")
  /\ UNCHANGED <<work, recorded, folder, returned, spent>>

\* _sync_directories: the entries of the copy reach the device.
FlushCopy(w) ==
  /\ At(w) = "flush"
  /\ capture' = [capture EXCEPT ![w].at = "name", ![w].flushed = TRUE]
  /\ UNCHANGED <<work, staging, recorded, folder, returned, spent>>

\* The ref is the digest of the copy.  Nothing is published over a snapshot already there.
\* (Seeded defect: it stays the digest of the workspace taken before the copy.)
NameStateEarly(w) ==
  /\ At(w) = "name"
  /\ capture' = [capture EXCEPT
       ![w].at = IF capture[w].ref \in DOMAIN recorded THEN "return" ELSE "publish"]
  /\ UNCHANGED <<work, staging, recorded, folder, returned, spent>>
NameState(w) ==
  LET ref == staging[StagingOf(w)] IN
  /\ At(w) = "name"
  /\ capture' = [capture EXCEPT
       ![w].ref = ref, ![w].at = IF ref \in DOMAIN recorded THEN "return" ELSE "publish"]
  /\ UNCHANGED <<work, staging, recorded, folder, returned, spent>>

\* os.replace: the name appears over the whole copy, or another capture's is there and
\* the call fails, which is taken for "theirs will do".
Publish(w) ==
  LET ref == capture[w].ref IN
  /\ At(w) = "publish"
  /\ IF ref \in DOMAIN recorded
     THEN Goto(w, "return") /\ UNCHANGED recorded
     ELSE /\ recorded' = With(recorded, ref, [
                              bytes   |-> staging[StagingOf(w)],
                              flushed |-> capture[w].flushed,
                              synced  |-> FALSE])
          /\ Goto(w, "sync")
  /\ UNCHANGED <<work, staging, folder, returned, spent>>

\* sync_directory(snapshots) flushes every name in it, whoever renamed it there.
\* (Seeded defect: the rename is never flushed.)
SyncNamesNever(w) ==
  /\ At(w) = "sync"
  /\ Goto(w, "return")
  /\ UNCHANGED <<work, staging, recorded, folder, returned, spent>>
SyncNames(w) ==
  /\ At(w) = "sync"
  /\ recorded' = [r \in DOMAIN recorded |-> [recorded[r] EXCEPT !.synced = TRUE]]
  /\ Goto(w, "return")
  /\ UNCHANGED <<work, staging, folder, returned, spent>>

\* A flush that fails there raises OSError into the same handler: the name is there, so
\* the capture returns its ref as if another worker had published it.
SyncFails(w) ==
  /\ At(w) = "sync" /\ spent.failures < MaxFailures
  /\ spent' = [spent EXCEPT !.failures = @ + 1]
  /\ Goto(w, "return")
  /\ UNCHANGED <<work, staging, recorded, folder, returned>>

\* A file that vanishes while it is read, or a directory, copy, flush or rename that fails,
\* raises out of the attempt (Rollout!StoreFails); the staging directory and the workspace go
\* with it.  A folder that was made and not flushed is there for the next capture.
CaptureFails(w) ==
  /\ At(w) \in {"digest", "mkdir", "mksync", "copy", "flush", "name", "publish"}
  /\ At(w) = "publish" => capture[w].ref \notin DOMAIN recorded
  /\ spent.failures < MaxFailures
  /\ spent' = [spent EXCEPT !.failures = @ + 1]
  /\ staging' = [staging EXCEPT ![StagingOf(w)] = Nothing]
  /\ work' = [work EXCEPT ![w] = Gone]
  /\ capture' = [capture EXCEPT ![w] = [Resting EXCEPT !.at = "raised"]]
  /\ UNCHANGED <<recorded, folder, returned>>

\* The staging directory is removed, the ref returned, the workspace removed on exit.
Return(w) ==
  /\ At(w) = "return"
  /\ returned' = returned \cup {capture[w].ref}
  /\ staging' = [staging EXCEPT ![StagingOf(w)] = Nothing]
  /\ work' = [work EXCEPT ![w] = Gone]
  /\ capture' = [capture EXCEPT ![w] = Resting]
  /\ UNCHANGED <<recorded, folder, spent>>

-----------------------------------------------------------------------------
Next ==
  \E w \in Workers :
    \/ \E state \in States : CaptureRoot(w, state)
    \/ \E ref \in returned : Checkout(w, ref)
    \/ \E part \in Parts, value \in Values : Edit(w, part, value)
    \/ BeginCapture(w)
    \/ \E part \in Parts : ReadPart(w, part) \/ CopyPart(w, part)
    \/ LookUp(w) \/ MakeFolder(w) \/ SyncFolder(w) \/ FlushCopy(w) \/ NameState(w)
    \/ Publish(w) \/ SyncNames(w) \/ SyncFails(w) \/ CaptureFails(w) \/ Return(w)

Spec == Init /\ [][Next]_vars

-----------------------------------------------------------------------------
(* Properties.                                                               *)

\* The type invariant.
TypeOK ==
  /\ work \in [Workers -> States \cup {Gone}]
  /\ capture \in [Workers -> [at : Stages, read : Partial, ref : States \cup {Gone},
                              flushed : BOOLEAN, quiet : BOOLEAN]]
  /\ staging \in [Workers -> Partial]
  /\ DOMAIN recorded \subseteq States
  /\ \A r \in DOMAIN recorded : recorded[r] \in [bytes : Partial, flushed : BOOLEAN, synced : BOOLEAN]
  /\ folder \in {"absent", "made", "synced"}
  /\ returned \subseteq States

\* A ref names one state, whole, forever: whatever was edited, copied and published at
\* the same time, what a checkout of any ref finds is the state the ref is the digest of,
\* and no ref is returned that nothing is recorded under (capture: "it stays a content
\* address even if the workspace was still changing while it was read").
RefsNameTheirState ==
  /\ \A r \in DOMAIN recorded : recorded[r].bytes = r
  /\ returned \subseteq DOMAIN recorded

\* A workspace that nothing touches during its capture is what its ref names, whatever the
\* other workers capture meanwhile: the state a node's children resume from is the state
\* its attempt left.
CapturesWhatWasLeft ==
  \A w \in Workers : At(w) = "return" /\ capture[w].quiet => capture[w].ref = work[w]

\* A name the kernel writes back in its own time never names bytes the device has not;
\* and once no capture is in flight, as when the tree that names them is written, every ref
\* returned survives a power loss, the ones another worker's capture stored included
\* (capture: "the copy and the ref reach the device together"); provided no flush failed.
InFlight == {w \in Workers : At(w) \notin {"idle", "working", "raised"}}
RefsAreDurable ==
  /\ \A r \in DOMAIN recorded : recorded[r].flushed
  /\ InFlight = {} /\ spent.failures = 0 =>
       \A r \in returned : folder = "synced" /\ recorded[r].synced

=============================================================================
