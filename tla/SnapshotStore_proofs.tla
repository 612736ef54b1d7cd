------------------------ MODULE SnapshotStore_proofs -------------------------
(***************************************************************************)
(* Theorems about SnapshotStore, for any number of workers, captures,      *)
(* edits and failures: TypeOK, and the three invariants its run checks.    *)
(*                                                                         *)
(* Each worker's capture, workspace and copy are one conjunct of the       *)
(* invariant (Sound), which depends on the others only through the names   *)
(* recorded and the folder, and both of those only grow.                   *)
(***************************************************************************)
EXTENDS SnapshotStore, TLAPS

Copied == {"flush", "name", "publish", "sync"}

\* The parts of a state read so far are those of another.
Agree(some, state) == \A part \in DOMAIN some : some[part] = state[part]

\* Whatever changed, nothing is known of a capture that was not quiet but the state it named.
Quiet(c, own, aside) ==
  /\ c.at = "digest" => Agree(c.read, own)
  /\ c.at \in {"copy", "flush", "name"} => Agree(aside, own)
  /\ c.at \in {"known", "publish", "sync", "return"} => c.ref = own

\* One worker: its capture, workspace and copy, with the names recorded and the folder.
Sound(c, own, aside, names, dir) ==
  /\ IF c.at \in {"idle", "raised"} THEN own = Gone ELSE own \in States
  /\ c.at \in {"idle", "working"} => c.read = Nothing /\ c.quiet = TRUE
  /\ c.at \in Stages \ (Copied \cup {"copy", "return"}) => aside = Nothing
  /\ c.at \in Copied => aside \in States
  /\ c.at \in {"known", "publish", "sync", "return"} => c.ref \in States
  /\ c.at \in {"name", "publish"} => c.flushed = TRUE
  /\ c.at \in {"publish", "sync"} => c.ref = aside
  /\ c.at \in {"sync", "return"} => c.ref \in names
  /\ c.at \in Copied \cup {"copy"} => dir # "absent"
  /\ c.quiet = TRUE => Quiet(c, own, aside)

\* What is recorded is whole and flushed under its own name.
Whole(store) == \A r \in DOMAIN store : store[r].bytes = r /\ store[r].flushed = TRUE

\* Whoever made the folder, or put a name in it, is about to flush it, unless a flush failed.
Flushing ==
  /\ DOMAIN recorded # {} => folder # "absent"
  /\ spent.failures = 0 =>
       /\ folder = "made" => \E w \in Workers : At(w) = "mksync"
       /\ \A r \in DOMAIN recorded : recorded[r].synced = TRUE \/ \E w \in Workers : At(w) = "sync"

Typed == TypeOK /\ spent \in [captures : Nat, edits : Nat, failures : Nat]

Captures ==
  \A w \in Workers : Sound(capture[w], work[w], staging[w], DOMAIN recorded, folder)

Inv == Typed /\ Captures /\ Whole(recorded) /\ returned \subseteq DOMAIN recorded /\ Flushing

-----------------------------------------------------------------------------
(* The values a workspace and a copy may have.                               *)

LEMMA NothingRead == Nothing \in Partial /\ DOMAIN Nothing = {}
<1>1. Nothing \in [{} -> Values]
  BY DEF Nothing
<1>2. {} \in SUBSET Parts
  OBVIOUS
<1>. QED
  BY <1>1, <1>2 DEF Partial

LEMMA GoneIsOutside == States \subseteq Partial /\ Gone \notin States
<1>1. Parts \in SUBSET Parts
  OBVIOUS
<1>2. States \subseteq Partial
  BY <1>1 DEF States, Partial
<1>. QED
  BY <1>2, GoneIsNoState

\* Reading one more part leaves a part of a state, and of the state it was read from.
LEMMA OneMore ==
  ASSUME NEW some \in Partial, NEW state \in States, NEW part \in Parts
  PROVE  /\ With(some, part, state[part]) \in Partial
         /\ Agree(some, state) => Agree(With(some, part, state[part]), state)
<1>. DEFINE more == With(some, part, state[part])
<1>1. PICK read \in SUBSET Parts : some \in [read -> Values]
  BY DEF Partial
<1>2. read \cup {part} \in SUBSET Parts /\ state[part] \in Values
  BY DEF States
<1>3. more \in [read \cup {part} -> Values]
  BY <1>1, <1>2 DEF With
<1>4. more \in Partial
  BY <1>2, <1>3 DEF Partial
<1>5. Agree(some, state) => Agree(more, state)
  BY <1>1 DEF Agree, With
<1>. QED
  BY <1>4, <1>5

\* What was read of a state, when it is a whole one, is that state.
LEMMA AgreeIsSame ==
  ASSUME NEW read \in States, NEW state \in States, Agree(read, state)
  PROVE  read = state
<1>1. \A part \in Parts : read[part] = state[part]
  BY DEF Agree, States
<1>. QED
  BY <1>1 DEF States

-----------------------------------------------------------------------------
(* One worker moves, the others see the names and the folder grow.           *)

LEMMA SoundGrows ==
  ASSUME NEW c, NEW own, NEW aside, NEW names, NEW more, NEW dir, NEW after,
         Sound(c, own, aside, names, dir),
         names \subseteq more, dir # "absent" => after # "absent"
  PROVE  Sound(c, own, aside, more, after)
  BY DEF Sound

LEMMA OneMoves ==
  ASSUME Typed, Captures, NEW w \in Workers, NEW c, NEW own, NEW aside,
         capture' = [capture EXCEPT ![w] = c],
         work' = [work EXCEPT ![w] = own],
         staging' = [staging EXCEPT ![w] = aside],
         DOMAIN recorded \subseteq DOMAIN recorded',
         folder # "absent" => folder' # "absent",
         Sound(c, own, aside, DOMAIN recorded', folder')
  PROVE  Captures'
<1>. SUFFICES ASSUME NEW v \in Workers
              PROVE  Sound(capture'[v], work'[v], staging'[v], DOMAIN recorded', folder')
  BY DEF Captures
<1>. USE DEF Typed, TypeOK
<1>1. CASE v = w
  <2>1. capture'[w] = c /\ work'[w] = own /\ staging'[w] = aside
    OBVIOUS
  <2>. QED
    BY <1>1, <2>1
<1>2. CASE v # w
  <2>1. capture'[v] = capture[v] /\ work'[v] = work[v] /\ staging'[v] = staging[v]
    BY <1>2
  <2>2. Sound(capture[v], work[v], staging[v], DOMAIN recorded, folder)
    BY DEF Captures
  <2>. QED
    BY <2>1, <2>2, SoundGrows
<1>. QED
  BY <1>1, <1>2

CaptureFields == [at : Stages, read : Partial, ref : States \cup {Gone},
                  flushed : BOOLEAN, quiet : BOOLEAN]
Spending == [captures : Nat, edits : Nat, failures : Nat]

\* Who stays in place may be said to move there.
LEMMA Still ==
  ASSUME Typed, NEW w \in Workers
  PROVE  /\ work = [work EXCEPT ![w] = work[w]]
         /\ capture = [capture EXCEPT ![w] = capture[w]]
         /\ staging = [staging EXCEPT ![w] = staging[w]]
         /\ capture[w] \in CaptureFields /\ work[w] \in States \cup {Gone} /\ staging[w] \in Partial
         /\ \A s : Goto(w, s) => capture' = [capture EXCEPT ![w] = [capture[w] EXCEPT !.at = s]]
  BY DEF Typed, TypeOK, CaptureFields, Goto

\* A step that leaves the store alone keeps the invariant when it keeps its worker sound;
\* one that was to flush goes on only by failing.
LEMMA Moves ==
  ASSUME Inv, NEW w \in Workers, NEW c \in CaptureFields, NEW own \in States \cup {Gone},
         NEW aside \in Partial,
         capture' = [capture EXCEPT ![w] = c],
         work' = [work EXCEPT ![w] = own],
         staging' = [staging EXCEPT ![w] = aside],
         UNCHANGED <<recorded, folder>>, returned' \subseteq DOMAIN recorded,
         spent' \in Spending, spent'.failures = 0 => spent.failures = 0,
         At(w) = "mksync" => c.at = "mksync" \/ spent'.failures # 0,
         At(w) = "sync" => c.at = "sync" \/ spent'.failures # 0,
         Sound(c, own, aside, DOMAIN recorded, folder)
  PROVE  Inv'
<1>. USE DEF Inv
<1>1. Captures'
  BY OneMoves
<1>2. Typed'
  BY DEF Typed, TypeOK, CaptureFields, Spending
<1>3. \A v \in Workers : v # w => At(v)' = At(v)
  BY DEF Typed, TypeOK, At
<1>4. At(w)' = c.at
  BY DEF Typed, TypeOK, At
<1>5. Flushing'
  <2>1. ASSUME spent'.failures = 0, folder = "made"
        PROVE  \E v \in Workers : At(v)' = "mksync"
    BY <1>3, <1>4, <2>1 DEF Flushing
  <2>2. ASSUME spent'.failures = 0, NEW r \in DOMAIN recorded
        PROVE  recorded[r].synced = TRUE \/ \E v \in Workers : At(v)' = "sync"
    BY <1>3, <1>4, <2>2 DEF Flushing
  <2>. QED
    BY <2>1, <2>2 DEF Flushing
<1>. QED
  BY <1>1, <1>2, <1>5 DEF Whole

-----------------------------------------------------------------------------
(* The steps of a workspace.                                                 *)

LEMMA CaptureRootKeeps ==
  ASSUME Inv, NEW w \in Workers, NEW state \in States, CaptureRoot(w, state)
  PROVE  Inv'
<1>. DEFINE c == [capture[w] EXCEPT !.at = "digest"]
<1>0. Typed /\ returned \subseteq DOMAIN recorded
  BY DEF Inv
<1>1. /\ capture[w] \in CaptureFields /\ staging[w] \in Partial
      /\ Sound(capture[w], work[w], staging[w], DOMAIN recorded, folder)
  BY <1>0, Still DEF Inv, Captures
<1>2. /\ c \in CaptureFields /\ c.at = "digest" /\ capture[w].at = "idle"
      /\ c.read = capture[w].read
  BY <1>1 DEF CaptureFields, CaptureRoot, At, Stages
<1>3. Sound(c, state, staging[w], DOMAIN recorded, folder)
  BY <1>1, <1>2, NothingRead DEF Sound, Quiet, Agree, Stages, Copied
<1>4. /\ capture' = [capture EXCEPT ![w] = c]
      /\ work' = [work EXCEPT ![w] = state]
      /\ staging' = [staging EXCEPT ![w] = staging[w]]
  BY <1>0, Still DEF CaptureRoot
<1>5. /\ spent' \in Spending /\ spent'.failures = spent.failures
      /\ UNCHANGED <<recorded, folder>> /\ returned' \subseteq DOMAIN recorded
      /\ At(w) = "idle"
  BY <1>0 DEF CaptureRoot, Typed, Spending
<1>. HIDE DEF c
<1>. QED
  BY <1>1, <1>2, <1>3, <1>4, <1>5, Moves

LEMMA CheckoutKeeps ==
  ASSUME Inv, NEW w \in Workers, NEW ref \in returned, Checkout(w, ref)
  PROVE  Inv'
<1>. DEFINE c == [capture[w] EXCEPT !.at = "working"]
<1>0. Typed /\ returned \subseteq DOMAIN recorded
  BY DEF Inv
<1>1. /\ capture[w] \in CaptureFields /\ staging[w] \in Partial
      /\ Sound(capture[w], work[w], staging[w], DOMAIN recorded, folder)
  BY <1>0, Still DEF Inv, Captures
<1>2. /\ c \in CaptureFields /\ c.at = "working" /\ capture[w].at = "idle"
      /\ c.read = capture[w].read /\ c.quiet = capture[w].quiet
  BY <1>1 DEF CaptureFields, Checkout, At, Stages
<1>3. recorded[ref].bytes = ref /\ ref \in States
  BY <1>0 DEF Checkout, Inv, Whole, Typed, TypeOK
<1>4. Sound(c, ref, staging[w], DOMAIN recorded, folder)
  BY <1>1, <1>2, <1>3 DEF Sound, Quiet, Stages, Copied
<1>5. /\ capture' = [capture EXCEPT ![w] = c]
      /\ work' = [work EXCEPT ![w] = ref]
      /\ staging' = [staging EXCEPT ![w] = staging[w]]
  BY <1>0, <1>3, Still DEF Checkout
<1>6. /\ spent' \in Spending /\ spent'.failures = spent.failures
      /\ UNCHANGED <<recorded, folder>> /\ returned' \subseteq DOMAIN recorded
      /\ At(w) = "idle"
  BY <1>0 DEF Checkout, Typed, Spending
<1>. HIDE DEF c
<1>. QED
  BY <1>1, <1>2, <1>3, <1>4, <1>5, <1>6, Moves

\* An edit in the middle of a capture ends what is known of it; none falls anywhere else but
\* before one.
LEMMA EditKeeps ==
  ASSUME Inv, NEW w \in Workers, NEW part \in Parts, NEW value \in Values, Edit(w, part, value)
  PROVE  Inv'
<1>. DEFINE c == [capture[w] EXCEPT !.quiet = (At(w) = "working")]
            own == [work[w] EXCEPT ![part] = value]
<1>0. Typed /\ returned \subseteq DOMAIN recorded
  BY DEF Inv
<1>1. /\ capture[w] \in CaptureFields /\ staging[w] \in Partial
      /\ Sound(capture[w], work[w], staging[w], DOMAIN recorded, folder)
  BY <1>0, Still DEF Inv, Captures
<1>2. /\ c \in CaptureFields /\ c.at = capture[w].at /\ c.read = capture[w].read
      /\ c.ref = capture[w].ref /\ c.flushed = capture[w].flushed
      /\ (c.quiet = TRUE) <=> (c.at = "working")
  BY <1>1, Zenon DEF CaptureFields, At
<1>3. capture[w].at \notin {"idle", "raised"} /\ work[w] \in States
  BY <1>1 DEF Sound, Edit
<1>4. own \in States
  BY <1>3 DEF States
<1>5. Sound(c, own, staging[w], DOMAIN recorded, folder)
  BY <1>1, <1>2, <1>3, <1>4 DEF Sound, Quiet, Stages, Copied
<1>6. /\ capture' = [capture EXCEPT ![w] = c]
      /\ work' = [work EXCEPT ![w] = own]
      /\ staging' = [staging EXCEPT ![w] = staging[w]]
  BY <1>0, Still DEF Edit, Typed, TypeOK
<1>7. /\ spent' \in Spending /\ spent'.failures = spent.failures
      /\ UNCHANGED <<recorded, folder>> /\ returned' \subseteq DOMAIN recorded
  BY <1>0 DEF Edit, Typed, Spending
<1>. HIDE DEF c, own
<1>. QED
  BY <1>1, <1>2, <1>4, <1>5, <1>6, <1>7, Moves DEF At

LEMMA BeginCaptureKeeps ==
  ASSUME Inv, NEW w \in Workers, BeginCapture(w)
  PROVE  Inv'
<1>. DEFINE c == [capture[w] EXCEPT !.at = "digest"]
<1>0. Typed /\ returned \subseteq DOMAIN recorded
  BY DEF Inv
<1>1. /\ capture[w] \in CaptureFields /\ staging[w] \in Partial /\ work[w] \in States \cup {Gone}
      /\ Sound(capture[w], work[w], staging[w], DOMAIN recorded, folder)
  BY <1>0, Still DEF Inv, Captures
<1>2. /\ c \in CaptureFields /\ c.at = "digest" /\ capture[w].at = "working"
      /\ c.read = capture[w].read
  BY <1>1 DEF CaptureFields, BeginCapture, At, Stages
<1>3. Sound(c, work[w], staging[w], DOMAIN recorded, folder)
  BY <1>1, <1>2, NothingRead DEF Sound, Quiet, Agree, Stages, Copied
<1>4. /\ capture' = [capture EXCEPT ![w] = c]
      /\ work' = [work EXCEPT ![w] = work[w]]
      /\ staging' = [staging EXCEPT ![w] = staging[w]]
  BY <1>0, Still DEF BeginCapture
<1>5. /\ spent' \in Spending /\ spent'.failures = spent.failures
      /\ UNCHANGED <<recorded, folder>> /\ returned' \subseteq DOMAIN recorded
      /\ At(w) = "working"
  BY <1>0 DEF BeginCapture, Typed, Spending
<1>. HIDE DEF c
<1>. QED
  BY <1>1, <1>2, <1>3, <1>4, <1>5, Moves

-----------------------------------------------------------------------------
(* The steps of a capture.                                                   *)

LEMMA ReadPartKeeps ==
  ASSUME Inv, NEW w \in Workers, NEW part \in Parts, ReadPart(w, part)
  PROVE  Inv'
<1>. DEFINE read == With(capture[w].read, part, work[w][part])
            c == [capture[w] EXCEPT !.read = read,
                                    !.at = IF read \in States THEN "known" ELSE "digest",
                                    !.ref = IF read \in States THEN read ELSE Gone]
<1>0. Typed /\ returned \subseteq DOMAIN recorded
  BY DEF Inv
<1>1. /\ capture[w] \in CaptureFields /\ staging[w] \in Partial
      /\ Sound(capture[w], work[w], staging[w], DOMAIN recorded, folder)
  BY <1>0, Still DEF Inv, Captures
<1>2. capture[w].at = "digest" /\ work[w] \in States
  BY <1>1 DEF ReadPart, At, Sound
<1>3. /\ read \in Partial
      /\ Agree(capture[w].read, work[w]) => Agree(read, work[w])
  BY <1>1, <1>2, OneMore DEF CaptureFields
<1>4. c \in CaptureFields
  BY <1>1, <1>3 DEF CaptureFields, Stages
<1>5. /\ c.quiet = capture[w].quiet /\ c.read = read
      /\ c.at = IF read \in States THEN "known" ELSE "digest"
      /\ c.ref = IF read \in States THEN read ELSE Gone
  BY <1>1 DEF CaptureFields
<1>6. capture' = [capture EXCEPT ![w] = c]
  BY <1>0 DEF ReadPart, Typed, TypeOK
<1>. HIDE DEF c
<1>7. Sound(c, work[w], staging[w], DOMAIN recorded, folder)
  <2>. HIDE DEF read
  <2>1. c.quiet = TRUE => Quiet(c, work[w], staging[w])
    BY <1>1, <1>2, <1>3, <1>5, AgreeIsSame DEF Sound, Quiet
  <2>. QED
    BY <1>1, <1>2, <1>5, <2>1 DEF Sound, Stages, Copied
<1>8. work' = [work EXCEPT ![w] = work[w]] /\ staging' = [staging EXCEPT ![w] = staging[w]]
  BY <1>0, Still DEF ReadPart
<1>9. /\ spent' \in Spending /\ spent'.failures = spent.failures
      /\ UNCHANGED <<recorded, folder>> /\ returned' \subseteq DOMAIN recorded
      /\ At(w) = "digest"
  BY <1>0 DEF ReadPart, Typed, Spending
<1>. QED
  BY <1>1, <1>2, <1>4, <1>6, <1>7, <1>8, <1>9, Moves

LEMMA LookUpKeeps ==
  ASSUME Inv, NEW w \in Workers, LookUp(w)
  PROVE  Inv'
<1>. DEFINE c == [capture[w] EXCEPT
                    !.at = IF capture[w].ref \in DOMAIN recorded THEN "return" ELSE "mkdir"]
<1>0. Typed /\ returned \subseteq DOMAIN recorded
  BY DEF Inv
<1>1. /\ capture[w] \in CaptureFields /\ staging[w] \in Partial /\ work[w] \in States \cup {Gone}
      /\ Sound(capture[w], work[w], staging[w], DOMAIN recorded, folder)
  BY <1>0, Still DEF Inv, Captures
<1>2. /\ c \in CaptureFields /\ capture[w].at = "known"
      /\ c.at = IF capture[w].ref \in DOMAIN recorded THEN "return" ELSE "mkdir"
      /\ c.ref = capture[w].ref /\ c.quiet = capture[w].quiet
  BY <1>1 DEF CaptureFields, LookUp, At, Stages
<1>3. Sound(c, work[w], staging[w], DOMAIN recorded, folder)
  <2>. HIDE DEF c
  <2>. QED
    BY <1>1, <1>2 DEF Sound, Quiet, Stages, Copied
<1>4. /\ capture' = [capture EXCEPT ![w] = c]
      /\ work' = [work EXCEPT ![w] = work[w]]
      /\ staging' = [staging EXCEPT ![w] = staging[w]]
  BY <1>0, Still DEF LookUp
<1>5. /\ spent' \in Spending /\ spent'.failures = spent.failures
      /\ UNCHANGED <<recorded, folder>> /\ returned' \subseteq DOMAIN recorded
      /\ At(w) = "known"
  BY <1>0 DEF LookUp, Typed, Spending
<1>. HIDE DEF c
<1>. QED
  BY <1>1, <1>2, <1>3, <1>4, <1>5, Moves

LEMMA CopyPartKeeps ==
  ASSUME Inv, NEW w \in Workers, NEW part \in Parts, CopyPart(w, part)
  PROVE  Inv'
<1>. DEFINE copy == With(staging[w], part, work[w][part])
            c == [capture[w] EXCEPT !.at = IF copy \in States THEN "flush" ELSE "copy"]
<1>0. Typed /\ returned \subseteq DOMAIN recorded
  BY DEF Inv
<1>1. /\ capture[w] \in CaptureFields /\ staging[w] \in Partial
      /\ Sound(capture[w], work[w], staging[w], DOMAIN recorded, folder)
  BY <1>0, Still DEF Inv, Captures
<1>2. capture[w].at = "copy" /\ work[w] \in States
  BY <1>1 DEF CopyPart, At, Sound
<1>3. /\ copy \in Partial
      /\ Agree(staging[w], work[w]) => Agree(copy, work[w])
  BY <1>1, <1>2, OneMore
<1>4. /\ c \in CaptureFields /\ c.quiet = capture[w].quiet
      /\ c.at = IF copy \in States THEN "flush" ELSE "copy"
  BY <1>1 DEF CaptureFields, Stages
<1>5. staging' = [staging EXCEPT ![w] = copy]
  BY <1>0 DEF CopyPart, StagingOf, Typed, TypeOK
<1>6. capture' = [capture EXCEPT ![w] = c]
  <2>1. staging'[w] = copy
    BY <1>0, <1>5 DEF Typed, TypeOK
  <2>. QED
    BY <1>0, <2>1, Still DEF CopyPart, StagingOf
<1>. HIDE DEF c
<1>7. Sound(c, work[w], copy, DOMAIN recorded, folder)
  <2>. HIDE DEF copy
  <2>. QED
    BY <1>1, <1>2, <1>3, <1>4 DEF Sound, Quiet, Stages, Copied
<1>8. work' = [work EXCEPT ![w] = work[w]]
  BY <1>0, Still DEF CopyPart
<1>9. /\ spent' \in Spending /\ spent'.failures = spent.failures
      /\ UNCHANGED <<recorded, folder>> /\ returned' \subseteq DOMAIN recorded
      /\ At(w) = "copy"
  BY <1>0 DEF CopyPart, Typed, Spending
<1>. HIDE DEF copy
<1>. QED
  BY <1>2, <1>3, <1>4, <1>5, <1>6, <1>7, <1>8, <1>9, Moves

LEMMA FlushCopyKeeps ==
  ASSUME Inv, NEW w \in Workers, FlushCopy(w)
  PROVE  Inv'
<1>. DEFINE c == [capture[w] EXCEPT !.at = "name", !.flushed = TRUE]
<1>0. Typed /\ returned \subseteq DOMAIN recorded
  BY DEF Inv
<1>1. /\ capture[w] \in CaptureFields /\ staging[w] \in Partial /\ work[w] \in States \cup {Gone}
      /\ Sound(capture[w], work[w], staging[w], DOMAIN recorded, folder)
  BY <1>0, Still DEF Inv, Captures
<1>2. /\ c \in CaptureFields /\ capture[w].at = "flush" /\ c.at = "name" /\ c.flushed = TRUE
      /\ c.quiet = capture[w].quiet
  BY <1>1 DEF CaptureFields, FlushCopy, At, Stages
<1>3. Sound(c, work[w], staging[w], DOMAIN recorded, folder)
  <2>. HIDE DEF c
  <2>. QED
    BY <1>1, <1>2 DEF Sound, Quiet, Stages, Copied
<1>4. /\ capture' = [capture EXCEPT ![w] = c]
      /\ work' = [work EXCEPT ![w] = work[w]]
      /\ staging' = [staging EXCEPT ![w] = staging[w]]
  BY <1>0, Still DEF FlushCopy, Typed, TypeOK
<1>5. /\ spent' \in Spending /\ spent'.failures = spent.failures
      /\ UNCHANGED <<recorded, folder>> /\ returned' \subseteq DOMAIN recorded
      /\ At(w) = "flush"
  BY <1>0 DEF FlushCopy, Typed, Spending
<1>. HIDE DEF c
<1>. QED
  BY <1>1, <1>2, <1>3, <1>4, <1>5, Moves

\* The ref is the digest of the copy, which is the workspace where nothing touched it.
LEMMA NameStateKeeps ==
  ASSUME Inv, NEW w \in Workers, NameState(w)
  PROVE  Inv'
<1>. DEFINE ref == staging[w]
            c == [capture[w] EXCEPT
                    !.ref = ref, !.at = IF ref \in DOMAIN recorded THEN "return" ELSE "publish"]
<1>0. Typed /\ returned \subseteq DOMAIN recorded
  BY DEF Inv
<1>1. /\ capture[w] \in CaptureFields /\ work[w] \in States \cup {Gone}
      /\ Sound(capture[w], work[w], ref, DOMAIN recorded, folder)
  BY <1>0, Still DEF Inv, Captures
<1>2. capture[w].at = "name" /\ ref \in States /\ work[w] \in States
  BY <1>1 DEF NameState, At, Sound, Copied
<1>3. /\ c \in CaptureFields /\ c.quiet = capture[w].quiet /\ c.ref = ref
      /\ c.flushed = capture[w].flushed
      /\ c.at = IF ref \in DOMAIN recorded THEN "return" ELSE "publish"
  BY <1>1, <1>2 DEF CaptureFields, Stages
<1>4. capture' = [capture EXCEPT ![w] = c]
  BY <1>0 DEF NameState, StagingOf, Typed, TypeOK
<1>. HIDE DEF c
<1>5. Sound(c, work[w], ref, DOMAIN recorded, folder)
  <2>1. capture[w].quiet = TRUE => ref = work[w]
    BY <1>1, <1>2, AgreeIsSame DEF Sound, Quiet
  <2>. QED
    BY <1>1, <1>2, <1>3, <2>1 DEF Sound, Quiet, Stages, Copied
<1>6. work' = [work EXCEPT ![w] = work[w]] /\ staging' = [staging EXCEPT ![w] = ref]
  BY <1>0, Still DEF NameState
<1>7. /\ spent' \in Spending /\ spent'.failures = spent.failures
      /\ UNCHANGED <<recorded, folder>> /\ returned' \subseteq DOMAIN recorded
      /\ At(w) = "name"
  BY <1>0 DEF NameState, Typed, Spending
<1>. QED
  BY <1>1, <1>2, <1>3, <1>4, <1>5, <1>6, <1>7, Moves, GoneIsOutside

\* A name whose flush failed stays; from then on nothing is promised of a power loss.
LEMMA SyncFailsKeeps ==
  ASSUME Inv, NEW w \in Workers, SyncFails(w)
  PROVE  Inv'
<1>. DEFINE c == [capture[w] EXCEPT !.at = "return"]
<1>0. Typed /\ returned \subseteq DOMAIN recorded
  BY DEF Inv
<1>1. /\ capture[w] \in CaptureFields /\ staging[w] \in Partial /\ work[w] \in States \cup {Gone}
      /\ Sound(capture[w], work[w], staging[w], DOMAIN recorded, folder)
  BY <1>0, Still DEF Inv, Captures
<1>2. /\ c \in CaptureFields /\ capture[w].at = "sync" /\ c.at = "return"
      /\ c.ref = capture[w].ref /\ c.quiet = capture[w].quiet
  BY <1>1 DEF CaptureFields, SyncFails, At, Stages
<1>3. Sound(c, work[w], staging[w], DOMAIN recorded, folder)
  <2>. HIDE DEF c
  <2>. QED
    BY <1>1, <1>2 DEF Sound, Quiet, Stages, Copied
<1>4. /\ capture' = [capture EXCEPT ![w] = c]
      /\ work' = [work EXCEPT ![w] = work[w]]
      /\ staging' = [staging EXCEPT ![w] = staging[w]]
  BY <1>0, Still DEF SyncFails
<1>5. /\ spent' \in Spending /\ spent'.failures # 0
      /\ UNCHANGED <<recorded, folder>> /\ returned' \subseteq DOMAIN recorded
      /\ At(w) = "sync"
  BY <1>0 DEF SyncFails, Typed, Spending
<1>. HIDE DEF c
<1>. QED
  BY <1>1, <1>2, <1>3, <1>4, <1>5, Moves

LEMMA CaptureFailsKeeps ==
  ASSUME Inv, NEW w \in Workers, CaptureFails(w)
  PROVE  Inv'
<1>. DEFINE c == [Resting EXCEPT !.at = "raised"]
<1>0. Typed /\ returned \subseteq DOMAIN recorded
  BY DEF Inv
<1>1. Nothing \in Partial /\ Gone \in States \cup {Gone}
  BY NothingRead
<1>2. c \in CaptureFields /\ c.at = "raised"
  BY <1>1 DEF CaptureFields, Resting, Stages
<1>3. Sound(c, Gone, Nothing, DOMAIN recorded, folder)
  <2>. HIDE DEF c
  <2>. QED
    BY <1>2 DEF Sound, Quiet, Copied
<1>4. /\ capture' = [capture EXCEPT ![w] = c]
      /\ work' = [work EXCEPT ![w] = Gone]
      /\ staging' = [staging EXCEPT ![w] = Nothing]
  BY DEF CaptureFails, StagingOf
<1>5. /\ spent' \in Spending /\ spent'.failures # 0
      /\ UNCHANGED <<recorded, folder>> /\ returned' \subseteq DOMAIN recorded
  BY <1>0 DEF CaptureFails, Typed, Spending
<1>. HIDE DEF c
<1>. QED
  BY <1>1, <1>2, <1>3, <1>4, <1>5, Moves

LEMMA ReturnKeeps ==
  ASSUME Inv, NEW w \in Workers, Return(w)
  PROVE  Inv'
<1>0. Typed /\ returned \subseteq DOMAIN recorded
  BY DEF Inv
<1>1. Nothing \in Partial /\ Gone \in States \cup {Gone}
  BY NothingRead
<1>2. Resting \in CaptureFields /\ Resting.at = "idle" /\ Resting.read = Nothing
      /\ Resting.quiet = TRUE
  BY <1>1 DEF CaptureFields, Resting, Stages
<1>3. Sound(Resting, Gone, Nothing, DOMAIN recorded, folder)
  BY <1>2 DEF Sound, Quiet, Copied
<1>4. /\ capture' = [capture EXCEPT ![w] = Resting]
      /\ work' = [work EXCEPT ![w] = Gone]
      /\ staging' = [staging EXCEPT ![w] = Nothing]
  BY DEF Return, StagingOf
<1>5. capture[w].ref \in DOMAIN recorded
  BY DEF Return, At, Inv, Captures, Sound
<1>6. /\ spent' \in Spending /\ spent'.failures = spent.failures
      /\ UNCHANGED <<recorded, folder>> /\ returned' \subseteq DOMAIN recorded
      /\ At(w) = "return"
  BY <1>0, <1>5 DEF Return, Typed, Spending
<1>. QED
  BY <1>1, <1>2, <1>3, <1>4, <1>6, Moves

-----------------------------------------------------------------------------
(* The steps on the store.                                                   *)

\* What of the invariant is left to show of a step that changes the store.
LEMMA StoreMoves ==
  ASSUME Inv, NEW w \in Workers, NEW c \in CaptureFields,
         capture' = [capture EXCEPT ![w] = c],
         UNCHANGED <<work, staging, returned, spent>>,
         DOMAIN recorded \subseteq DOMAIN recorded', DOMAIN recorded' \subseteq States,
         \A r \in DOMAIN recorded' :
            recorded'[r] \in [bytes : Partial, flushed : BOOLEAN, synced : BOOLEAN],
         folder' \in {"absent", "made", "synced"}, folder # "absent" => folder' # "absent",
         Whole(recorded'),
         Sound(c, work[w], staging[w], DOMAIN recorded', folder'),
         Flushing'
  PROVE  Inv'
<1>0. Typed /\ Captures
  BY DEF Inv
<1>1. work' = [work EXCEPT ![w] = work[w]] /\ staging' = [staging EXCEPT ![w] = staging[w]]
  BY <1>0, Still
<1>2. Captures'
  <2>1. PICK own, aside : own = work[w] /\ aside = staging[w]
    OBVIOUS
  <2>2. /\ work' = [work EXCEPT ![w] = own] /\ staging' = [staging EXCEPT ![w] = aside]
        /\ Sound(c, own, aside, DOMAIN recorded', folder')
    BY <1>1, <2>1
  <2>. QED
    BY <1>0, <2>2, OneMoves
<1>3. Typed'
  BY <1>0 DEF Typed, TypeOK, CaptureFields
<1>. QED
  BY <1>2, <1>3 DEF Inv, Whole

\* Where everybody stands after a step of one worker.
LEMMA Stands ==
  ASSUME Typed, NEW w \in Workers, NEW c, capture' = [capture EXCEPT ![w] = c]
  PROVE  At(w)' = c.at /\ \A v \in Workers : v # w => At(v)' = At(v)
  BY DEF Typed, TypeOK, At

LEMMA MakeFolderKeeps ==
  ASSUME Inv, NEW w \in Workers, MakeFolder(w)
  PROVE  Inv'
<1>. DEFINE c == [capture[w] EXCEPT !.at = IF folder = "absent" THEN "mksync" ELSE "copy"]
<1>0. Typed
  BY DEF Inv
<1>1. /\ capture[w] \in CaptureFields /\ work[w] \in States \cup {Gone}
      /\ Sound(capture[w], work[w], staging[w], DOMAIN recorded, folder)
  BY <1>0, Still DEF Inv, Captures
<1>2. /\ c \in CaptureFields /\ capture[w].at = "mkdir"
      /\ c.at = IF folder = "absent" THEN "mksync" ELSE "copy"
      /\ c.quiet = capture[w].quiet
  BY <1>1 DEF CaptureFields, MakeFolder, At, Stages
<1>3. capture' = [capture EXCEPT ![w] = c]
  BY <1>0, Still DEF MakeFolder
<1>. HIDE DEF c
<1>4. folder' # "absent" /\ folder' = IF folder = "absent" THEN "made" ELSE folder
  BY DEF MakeFolder
<1>5. Sound(c, work[w], staging[w], DOMAIN recorded, folder')
  <2>1. Agree(Nothing, work[w])
    BY NothingRead DEF Agree
  <2>. QED
    BY <1>1, <1>2, <1>4, <2>1 DEF Sound, Quiet, Stages, Copied
<1>6. Flushing'
  <2>1. \A v \in Workers : At(v) \in {"mksync", "sync"} => At(v)' = At(v)
    BY <1>0, <1>2, <1>3, Stands DEF At
  <2>2. folder = "absent" => At(w)' = "mksync"
    BY <1>0, <1>2, <1>3, Stands DEF At
  <2>. QED
    BY <1>4, <2>1, <2>2 DEF Inv, Flushing, MakeFolder
<1>. QED
  BY <1>0, <1>2, <1>3, <1>4, <1>5, <1>6, StoreMoves DEF MakeFolder, Inv, Typed, TypeOK

LEMMA SyncFolderKeeps ==
  ASSUME Inv, NEW w \in Workers, SyncFolder(w)
  PROVE  Inv'
<1>. DEFINE c == [capture[w] EXCEPT !.at = "copy"]
<1>0. Typed
  BY DEF Inv
<1>1. /\ capture[w] \in CaptureFields /\ work[w] \in States \cup {Gone}
      /\ Sound(capture[w], work[w], staging[w], DOMAIN recorded, folder)
  BY <1>0, Still DEF Inv, Captures
<1>2. /\ c \in CaptureFields /\ capture[w].at = "mksync" /\ c.at = "copy"
      /\ c.quiet = capture[w].quiet
  BY <1>1 DEF CaptureFields, SyncFolder, At, Stages
<1>3. capture' = [capture EXCEPT ![w] = c]
  BY <1>0, Still DEF SyncFolder
<1>. HIDE DEF c
<1>4. folder' = "synced"
  BY DEF SyncFolder
<1>5. Sound(c, work[w], staging[w], DOMAIN recorded, folder')
  <2>1. Agree(Nothing, work[w])
    BY NothingRead DEF Agree
  <2>. QED
    BY <1>1, <1>2, <1>4, <2>1 DEF Sound, Quiet, Stages, Copied
<1>6. Flushing'
  <2>1. \A v \in Workers : At(v) = "sync" => At(v)' = "sync"
    BY <1>0, <1>2, <1>3, Stands DEF At
  <2>. QED
    BY <1>4, <2>1 DEF Inv, Flushing, SyncFolder
<1>. QED
  BY <1>0, <1>2, <1>3, <1>4, <1>5, <1>6, StoreMoves DEF SyncFolder, Inv, Typed, TypeOK

\* Renaming a flushed copy to its own digest; whoever did it is about to flush the name.
LEMMA PublishKeeps ==
  ASSUME Inv, NEW w \in Workers, Publish(w)
  PROVE  Inv'
<1>. DEFINE ref == capture[w].ref
            c == [capture[w] EXCEPT !.at = IF ref \in DOMAIN recorded THEN "return" ELSE "sync"]
<1>0. Typed /\ returned \subseteq DOMAIN recorded
  BY DEF Inv
<1>1. /\ capture[w] \in CaptureFields /\ staging[w] \in Partial /\ work[w] \in States \cup {Gone}
      /\ Sound(capture[w], work[w], staging[w], DOMAIN recorded, folder)
  BY <1>0, Still DEF Inv, Captures
<1>2. /\ c \in CaptureFields /\ capture[w].at = "publish"
      /\ c.at = IF ref \in DOMAIN recorded THEN "return" ELSE "sync"
      /\ c.ref = ref /\ c.quiet = capture[w].quiet
  BY <1>1 DEF CaptureFields, Publish, At, Stages
<1>3. capture' = [capture EXCEPT ![w] = c]
  BY <1>0, Still DEF Publish
<1>4. /\ ref \in States /\ ref = staging[w] /\ capture[w].flushed = TRUE /\ folder # "absent"
      /\ staging[w] \in States
  BY <1>1, <1>2 DEF Sound, Copied
<1>. HIDE DEF c
<1>5. CASE ref \in DOMAIN recorded
  <2>1. Sound(c, work[w], staging[w], DOMAIN recorded, folder)
    BY <1>1, <1>2, <1>4, <1>5 DEF Sound, Quiet, Stages, Copied
  <2>2. work' = [work EXCEPT ![w] = work[w]] /\ staging' = [staging EXCEPT ![w] = staging[w]]
    BY <1>0, Still DEF Publish
  <2>3. /\ spent' \in Spending /\ spent'.failures = spent.failures
        /\ UNCHANGED <<recorded, folder>> /\ returned' \subseteq DOMAIN recorded
        /\ At(w) = "publish"
    BY <1>0, <1>5 DEF Publish, Typed, Spending
  <2>. QED
    BY <1>1, <1>2, <1>3, <2>1, <2>2, <2>3, Moves
<1>6. CASE ref \notin DOMAIN recorded
  <2>1. recorded' = With(recorded, ref, [bytes |-> ref, flushed |-> TRUE, synced |-> FALSE])
    BY <1>4, <1>6 DEF Publish, StagingOf
  <2>2. /\ DOMAIN recorded' = DOMAIN recorded \cup {ref}
        /\ recorded'[ref] = [bytes |-> ref, flushed |-> TRUE, synced |-> FALSE]
        /\ \A r \in DOMAIN recorded : recorded'[r] = recorded[r]
    BY <1>6, <2>1 DEF With
  <2>3. /\ DOMAIN recorded' \subseteq States
        /\ \A r \in DOMAIN recorded' :
              recorded'[r] \in [bytes : Partial, flushed : BOOLEAN, synced : BOOLEAN]
    <3>1. ref \in Partial
      BY <1>4, GoneIsOutside
    <3>2. recorded'[ref] \in [bytes : Partial, flushed : BOOLEAN, synced : BOOLEAN]
      BY <2>2, <3>1
    <3>3. \A r \in DOMAIN recorded :
            recorded'[r] \in [bytes : Partial, flushed : BOOLEAN, synced : BOOLEAN]
      BY <1>0, <2>2 DEF Typed, TypeOK
    <3>4. DOMAIN recorded \subseteq States
      BY <1>0 DEF Typed, TypeOK
    <3>. QED
      BY <1>4, <2>2, <3>2, <3>3, <3>4
  <2>4. Whole(recorded')
    BY <2>2 DEF Inv, Whole
  <2>5. Sound(c, work[w], staging[w], DOMAIN recorded', folder)
    BY <1>1, <1>2, <1>4, <1>6, <2>2 DEF Sound, Quiet, Stages, Copied
  <2>6. Flushing'
    <3>1. \A v \in Workers : At(v) \in {"mksync", "sync"} => At(v)' = At(v)
      BY <1>0, <1>2, <1>3, Stands DEF At
    <3>2. At(w)' = "sync"
      BY <1>0, <1>2, <1>3, <1>6, Stands
    <3>. QED
      BY <1>4, <2>2, <3>1, <3>2 DEF Inv, Flushing, Publish
  <2>7. UNCHANGED <<work, staging, folder, returned, spent>>
    BY DEF Publish
  <2>. QED
    BY <1>0, <1>2, <1>3, <2>2, <2>3, <2>4, <2>5, <2>6, <2>7, StoreMoves DEF Typed, TypeOK
<1>. QED
  BY <1>5, <1>6

\* One flush of the directory is enough for every name in it.
LEMMA SyncNamesKeeps ==
  ASSUME Inv, NEW w \in Workers, SyncNames(w)
  PROVE  Inv'
<1>. DEFINE c == [capture[w] EXCEPT !.at = "return"]
<1>0. Typed
  BY DEF Inv
<1>1. /\ capture[w] \in CaptureFields /\ work[w] \in States \cup {Gone}
      /\ Sound(capture[w], work[w], staging[w], DOMAIN recorded, folder)
  BY <1>0, Still DEF Inv, Captures
<1>2. /\ c \in CaptureFields /\ capture[w].at = "sync" /\ c.at = "return"
      /\ c.ref = capture[w].ref /\ c.quiet = capture[w].quiet
  BY <1>1 DEF CaptureFields, SyncNames, At, Stages
<1>3. capture' = [capture EXCEPT ![w] = c]
  BY <1>0, Still DEF SyncNames
<1>. HIDE DEF c
<1>4. /\ DOMAIN recorded' = DOMAIN recorded
      /\ \A r \in DOMAIN recorded : /\ recorded'[r] = [recorded[r] EXCEPT !.synced = TRUE]
                                    /\ recorded'[r] \in [bytes : Partial, flushed : BOOLEAN,
                                                         synced : BOOLEAN]
                                    /\ recorded'[r].bytes = recorded[r].bytes
                                    /\ recorded'[r].flushed = recorded[r].flushed
                                    /\ recorded'[r].synced = TRUE
  BY <1>0 DEF SyncNames, Typed, TypeOK
<1>5. Whole(recorded')
  BY <1>4 DEF Inv, Whole
<1>6. Sound(c, work[w], staging[w], DOMAIN recorded', folder)
  BY <1>1, <1>2, <1>4 DEF Sound, Quiet, Stages, Copied
<1>7. Flushing'
  <2>1. \A v \in Workers : At(v) = "mksync" => At(v)' = "mksync"
    BY <1>0, <1>2, <1>3, Stands DEF At
  <2>. QED
    BY <1>4, <2>1 DEF Inv, Flushing, SyncNames
<1>8. UNCHANGED <<work, staging, folder, returned, spent>>
  BY DEF SyncNames
<1>. QED
  BY <1>0, <1>2, <1>3, <1>4, <1>5, <1>6, <1>7, <1>8, StoreMoves DEF Typed, TypeOK

-----------------------------------------------------------------------------
(* The invariant.                                                            *)

LEMMA InitSound == Init => Inv
<1>. SUFFICES ASSUME Init PROVE Inv
  OBVIOUS
<1>1. Nothing \in Partial /\ recorded = <<>> /\ DOMAIN recorded = {}
  BY NothingRead DEF Init, Nothing
<1>2. Resting \in CaptureFields /\ Resting.at = "idle" /\ Resting.read = Nothing
      /\ Resting.quiet = TRUE
  BY <1>1 DEF CaptureFields, Resting, Stages
<1>3. Typed
  BY <1>1, <1>2 DEF Init, Typed, TypeOK, CaptureFields
<1>4. Captures
  <2>1. Sound(Resting, Gone, Nothing, {}, "absent")
    BY <1>2 DEF Sound, Quiet, Copied
  <2>. QED
    BY <1>1, <2>1 DEF Init, Captures
<1>5. Whole(recorded) /\ returned \subseteq DOMAIN recorded /\ Flushing
  BY <1>1 DEF Init, Whole, Flushing
<1>. QED
  BY <1>3, <1>4, <1>5 DEF Inv

LEMMA StepKeeps == Inv /\ [Next]_vars => Inv'
<1>. SUFFICES ASSUME Inv, [Next]_vars PROVE Inv'
  OBVIOUS
<1>1. CASE UNCHANGED vars
  BY <1>1 DEF vars, Inv, Typed, TypeOK, Captures, Whole, Flushing, At
<1>2. CASE Next
  <2>. SUFFICES ASSUME NEW w \in Workers,
                       \/ \E state \in States : CaptureRoot(w, state)
                       \/ \E ref \in returned : Checkout(w, ref)
                       \/ \E part \in Parts, value \in Values : Edit(w, part, value)
                       \/ BeginCapture(w)
                       \/ \E part \in Parts : ReadPart(w, part) \/ CopyPart(w, part)
                       \/ LookUp(w) \/ MakeFolder(w) \/ SyncFolder(w) \/ FlushCopy(w)
                       \/ NameState(w) \/ Publish(w) \/ SyncNames(w) \/ SyncFails(w)
                       \/ CaptureFails(w) \/ Return(w)
                PROVE  Inv'
    BY <1>2 DEF Next
  <2>. QED
    BY CaptureRootKeeps, CheckoutKeeps, EditKeeps, BeginCaptureKeeps, ReadPartKeeps,
       CopyPartKeeps, LookUpKeeps, MakeFolderKeeps, SyncFolderKeeps, FlushCopyKeeps,
       NameStateKeeps, PublishKeeps, SyncNamesKeeps, SyncFailsKeeps, CaptureFailsKeeps,
       ReturnKeeps
<1>. QED
  BY <1>1, <1>2

LEMMA Invariant == Spec => []Inv
  BY InitSound, StepKeeps, PTL DEF Spec

-----------------------------------------------------------------------------
(* The theorems.                                                             *)

\* The type invariant.
THEOREM TypeCorrect == Spec => []TypeOK
<1>1. Inv => TypeOK
  BY DEF Inv, Typed
<1>. QED
  BY <1>1, Invariant, PTL

\* However many captures run at once, over workspaces still being edited, what a ref finds is
\* the state it is the digest of, and every ref returned finds one (workspace.py capture).
THEOREM RefsAreAddresses == Spec => []RefsNameTheirState
<1>1. Inv => RefsNameTheirState
  BY DEF Inv, Whole, RefsNameTheirState
<1>. QED
  BY <1>1, Invariant, PTL

\* And a workspace left alone while it was captured is what its ref names, whether the state
\* was known, published by this capture, or by another in the meantime (capture).
THEOREM CapturesAreExact == Spec => []CapturesWhatWasLeft
<1>1. Inv => CapturesWhatWasLeft
  BY DEF Inv, Captures, Sound, Quiet, CapturesWhatWasLeft, At
<1>. QED
  BY <1>1, Invariant, PTL

\* No name a power loss leaves is one of bytes it took; and when no capture is in flight and
\* no flush failed, every ref returned is on the device, under a directory that is
\* (capture, durable.py mkdir, copy_tree, sync_directory).
THEOREM RefsSurvive == Spec => []RefsAreDurable
<1>1. Inv => RefsAreDurable
  <2>. SUFFICES ASSUME Inv PROVE RefsAreDurable
    OBVIOUS
  <2>1. \A r \in DOMAIN recorded : recorded[r].flushed
    BY DEF Inv, Whole
  <2>2. ASSUME InFlight = {}, spent.failures = 0, NEW r \in returned
        PROVE  folder = "synced" /\ recorded[r].synced
    <3>1. r \in DOMAIN recorded
      BY DEF Inv
    <3>2. \A w \in Workers : At(w) \notin {"mksync", "sync"}
      BY <2>2 DEF InFlight
    <3>3. folder \in {"absent", "made", "synced"}
      BY DEF Inv, Typed, TypeOK
    <3>4. recorded[r].synced = TRUE
      BY <2>2, <3>1, <3>2 DEF Inv, Flushing
    <3>. QED
      BY <2>2, <3>1, <3>2, <3>3, <3>4 DEF Inv, Flushing
  <2>. QED
    BY <2>1, <2>2 DEF RefsAreDurable
<1>. QED
  BY <1>1, Invariant, PTL

=============================================================================
