--------------------------- MODULE Dreaming_proofs ---------------------------
(***************************************************************************)
(* Theorems about Dreaming, for any history, versions, attempts, workers,  *)
(* weights and replays.                                                    *)
(*                                                                         *)
(* Grid says what every cell of the grid holds, Counts what was asked of   *)
(* the agent at each point of the loop, Chosen what a selection is.        *)
(***************************************************************************)
EXTENDS Dreaming, Inductions

Results == Replays \cup {Failed}
Ended   == {w \in worlds : cells[w].at = "ended"}

\* Every version has its aggregate, every cell of the grid and of the row in hand its replay.
Grid ==
  /\ \A v \in DOMAIN versions : versions[v].score = Aggregate(versions[v].row)
  /\ \A w \in Ended : cells[w].result \in Results /\ replayed[<<Current, w>>] = cells[w].result
  /\ \A v \in DOMAIN versions : \A w \in worlds : versions[v].row[w] = replayed[<<v, w>>]
  /\ DOMAIN replayed = ((DOMAIN versions) \X worlds) \cup {<<Current, w>> : w \in Ended}
  /\ pc # "score" => Ended = {}

\* A revision in hand has been asked for and not been counted, one that is replayed has.
Counts ==
  /\ asked \in Nat /\ calls \in Nat
  /\ pc = "score" => /\ asked = calls /\ calls = rejected + Len(versions)
                     /\ calls <= MaxAttempts * Len(versions) /\ Len(versions) < MaxVersions
  /\ pc \in {"revise", "raised"} =>
       /\ calls = rejected + Len(versions) - 1 /\ calls <= MaxAttempts * (Len(versions) - 1)
       /\ Len(versions) \in 1 .. MaxVersions - 1
  /\ pc = "revise" => asked = calls + tries
  /\ pc \in {"select", "done"} =>
       /\ asked = calls /\ calls = rejected + Len(versions) - 1
       /\ calls <= MaxAttempts * (MaxVersions - 1) /\ Len(versions) \in 1 .. MaxVersions

Chosen ==
  /\ pc = "done" => selected = Winner
  /\ pc # "done" => selected = 0

Inv == TypeOK /\ Grid /\ Counts /\ Chosen

-----------------------------------------------------------------------------
(* Scores.                                                                   *)

LEMMA WorldsAre ==
  ASSUME worlds \in Subsamples
  PROVE  worlds # {} /\ IsFiniteSet(worlds) /\ worlds \subseteq 1 .. History
<1>1. worlds \in SUBSET (1 .. History) /\ History \in worlds /\ History \in Nat
  BY DreamingConfig DEF Subsamples
<1>2. worlds \in SUBSET (0 .. History)
  <2>1. \A w \in 1 .. History : w \in 0 .. History
    BY <1>1
  <2>. QED
    BY <1>1, <2>1
<1>. QED
  BY <1>1, <1>2, Finitely

LEMMA ReplayScoreIs ==
  ASSUME NEW r \in Replays
  PROVE  /\ r.attainment = NoScore => ReplayScore(r) = NegInf
         /\ r.attainment # NoScore => ReplayScore(r) \in Int
<1>1. r.attainment \in Int \cup {NoScore} /\ r.revealed \in Nat /\ r.rounds \in Nat
  BY DreamingConfig
<1>2. CASE r.attainment = NoScore
  BY <1>2 DEF ReplayScore
<1>3. CASE r.attainment # NoScore
  <2>1. PICK k : k = Max({1, r.rounds})
    OBVIOUS
  <2>2. k \in Nat \ {0}
    <3>1. \E m \in {1, r.rounds} : \A n \in {1, r.rounds} : m >= n
      BY <1>1
    <3>2. k \in {1, r.rounds} /\ \A n \in {1, r.rounds} : k >= n
      BY <2>1, <3>1 DEF Max
    <3>. QED
      BY <1>1, <3>2
  <2>3. PICK a, b, c : /\ a = Scale * r.attainment /\ b = CostWeight * r.revealed * Scale
                       /\ c = BonusWeight * r.revealed * Scale
    OBVIOUS
  <2>4. a \in Int /\ b \in Int /\ c \in Int
    BY <1>1, <1>3, <2>3, DreamingConfig
  <2>5. c \div k \in Int
    BY <2>2, <2>4
  <2>6. ReplayScore(r) = a - b + c \div k
    BY <1>3, <2>1, <2>3 DEF ReplayScore
  <2>. QED
    BY <1>3, <2>4, <2>5, <2>6
<1>. QED
  BY <1>2, <1>3

LEMMA TotalIs ==
  ASSUME NEW values, Summable(values, DOMAIN values)
  PROVE  Total(values) \in Int
<1>1. Total(values) = SumOver(values, DOMAIN values)
  BY DEF Total, MapThenSumSet, MapThenFoldSet, SumOver, SumsOver, Some
<1>. QED
  BY <1>1, SumIs

\* A row fails with any of its cells, attains nothing with any that does, or has a number.
LEMMA AggregateIs ==
  ASSUME worlds \in Subsamples, NEW row \in [worlds -> Results]
  PROVE  /\ Aggregate(row) \in Int \cup {NegInf, Failed}
         /\ Aggregate(row) = Failed <=> \E w \in worlds : row[w] = Failed
         /\ Aggregate(row) = NegInf <=> /\ \A w \in worlds : row[w] # Failed
                                        /\ \E w \in worlds : row[w].attainment = NoScore
<1>. DEFINE values == [w \in worlds |-> ReplayScore(row[w])]
<1>1. CASE \E w \in worlds : row[w] = Failed
  BY <1>1, DreamingConfig DEF Aggregate
<1>2. CASE \A w \in worlds : row[w] # Failed
  <2>1. \A w \in worlds : row[w] \in Replays /\ values[w] = ReplayScore(row[w])
    BY <1>2 DEF Results
  <2>2. \A w \in worlds : /\ row[w].attainment = NoScore => values[w] = NegInf
                          /\ row[w].attainment # NoScore => values[w] \in Int
    <3>. HIDE DEF values
    <3>. QED
      BY <2>1, ReplayScoreIs
  <2>3. Aggregate(row) = IF \E w \in worlds : values[w] = NegInf THEN NegInf ELSE Total(values)
    BY <1>2 DEF Aggregate
  <2>4. CASE \E w \in worlds : row[w].attainment = NoScore
    BY <1>2, <2>2, <2>3, <2>4, DreamingConfig
  <2>5. CASE \A w \in worlds : row[w].attainment # NoScore
    <3>1. Summable(values, DOMAIN values)
      <4>1. DOMAIN values = worlds
        OBVIOUS
      <4>. HIDE DEF values
      <4>. QED
        BY <2>2, <2>5, <4>1, WorldsAre DEF Summable
    <3>2. Total(values) \in Int
      <4>. HIDE DEF values
      <4>. QED
        BY <3>1, TotalIs
    <3>3. ~\E w \in worlds : values[w] = NegInf
      <4>. HIDE DEF values
      <4>. QED
        BY <2>2, <2>5, DreamingConfig
    <3>4. Aggregate(row) \in Int
      BY <2>3, <3>2, <3>3
    <3>. QED
      BY <1>2, <2>5, <3>4, DreamingConfig
  <2>. QED
    BY <2>4, <2>5
<1>. QED
  BY <1>1, <1>2

-----------------------------------------------------------------------------
(* The invariant.                                                            *)

CellStates == [at : {"queued", "running", "ended"}, result : Replays \cup {Failed, Unknown}]

LEMMA Begins == Init => Inv
<1>. SUFFICES ASSUME Init PROVE Inv
  OBVIOUS
<1>1. /\ worlds \in Subsamples /\ versions = <<>> /\ cells = Fresh(worlds) /\ pc = "score"
      /\ tries = 0 /\ rejected = 0 /\ calls = 0 /\ asked = 0 /\ loads = TRUE
      /\ replayed = <<>> /\ selected = 0
  BY DEF Init
<1>2. Ended = {} /\ cells \in [worlds -> CellStates]
  BY <1>1 DEF Ended, Fresh, CellStates
<1>3. TypeOK
  <2>1. MaxAttempts * MaxVersions \in Nat /\ MaxAttempts \in Nat /\ MaxVersions \in Nat
    BY DreamingConfig
  <2>. QED
    BY <1>1, <1>2, <2>1 DEF TypeOK, CellStates
<1>4. Grid
  <2>1. {<<Current, w>> : w \in Ended} = {} /\ (DOMAIN versions) \X worlds = {}
    BY <1>1, <1>2
  <2>2. DOMAIN replayed = ((DOMAIN versions) \X worlds) \cup {<<Current, w>> : w \in Ended}
    BY <1>1, <2>1
  <2>. QED
    BY <1>1, <1>2, <2>2 DEF Grid
<1>5. Counts /\ Chosen
  BY <1>1, DreamingConfig DEF Counts, Chosen
<1>. QED
  BY <1>3, <1>4, <1>5 DEF Inv

\* While the rows and the grid stay, Grid does.
LEMMA GridStays ==
  ASSUME Grid, UNCHANGED <<worlds, versions, cells, replayed>>, pc' # "score" => Ended = {}
  PROVE  Grid'
<1>1. Ended' = Ended /\ Current' = Current /\ \A row : Aggregate(row)' = Aggregate(row)
  BY DEF Ended, Current, Aggregate
<1>2. {<<Current, w>> : w \in Ended}' = {<<Current, w>> : w \in Ended}
  BY <1>1
<1>. QED
  BY <1>1, <1>2 DEF Grid

LEMMA StartCellKeeps ==
  ASSUME Inv, NEW w \in worlds, StartCell(w)
  PROVE  Inv'
<1>1. /\ pc = "score" /\ cells[w].at = "queued" /\ cells' = [cells EXCEPT ![w].at = "running"]
      /\ UNCHANGED <<worlds, versions, pc, tries, loads, rejected, calls, asked, replayed, selected>>
  BY DEF StartCell, agentVars, Queued
<1>2. TypeOK /\ cells \in [worlds -> CellStates]
  BY DEF Inv, TypeOK, CellStates
<1>3. cells' \in [worlds -> CellStates] /\ cells'[w].at = "running"
      /\ \A u \in worlds : u # w => cells'[u] = cells[u]
  BY <1>1, <1>2 DEF CellStates
<1>4. TypeOK'
  BY <1>1, <1>2, <1>3 DEF TypeOK, CellStates, Rows
<1>5. Ended' = Ended
  BY <1>1, <1>3 DEF Ended
<1>6. \A u \in Ended : cells'[u] = cells[u]
  BY <1>1, <1>3 DEF Ended
<1>7. Current' = Current /\ {<<Current, u>> : u \in Ended}' = {<<Current, u>> : u \in Ended}
  BY <1>1, <1>5 DEF Current
<1>8. Grid'
  <2>1. \A row : Aggregate(row)' = Aggregate(row)
    BY <1>1 DEF Aggregate
  <2>. QED
    BY <1>1, <1>5, <1>6, <1>7, <2>1 DEF Inv, Grid
<1>9. Counts' /\ Chosen'
  BY <1>1 DEF Inv, Counts, Chosen
<1>. QED
  BY <1>4, <1>8, <1>9 DEF Inv

LEMMA EndCellKeeps ==
  ASSUME Inv, NEW w \in worlds, NEW result \in Results, EndCell(w, result)
  PROVE  Inv'
<1>1. /\ pc = "score" /\ cells[w].at = "running"
      /\ cells' = [cells EXCEPT ![w] = [at |-> "ended", result |-> result]]
      /\ replayed' = [c \in DOMAIN replayed \cup {<<Current, w>>} |->
                        IF c = <<Current, w>> THEN result ELSE replayed[c]]
      /\ UNCHANGED <<worlds, versions, pc, tries, loads, rejected, calls, asked, selected>>
  BY DEF EndCell, agentVars, InFlight
<1>2. TypeOK /\ cells \in [worlds -> CellStates]
  BY DEF Inv, TypeOK, CellStates
<1>3. /\ cells' \in [worlds -> CellStates] /\ cells'[w] = [at |-> "ended", result |-> result]
      /\ \A u \in worlds : u # w => cells'[u] = cells[u]
  BY <1>1, <1>2 DEF CellStates, Results
<1>4. TypeOK'
  BY <1>1, <1>2, <1>3 DEF TypeOK, CellStates, Rows
<1>5. Ended' = Ended \cup {w} /\ w \notin Ended
  BY <1>1, <1>3 DEF Ended
<1>6. Current' = Current /\ versions' = versions /\ Current \notin DOMAIN versions
  BY <1>1, <1>2 DEF Current, TypeOK
<1>7. /\ DOMAIN replayed' = DOMAIN replayed \cup {<<Current, w>>}
      /\ replayed'[<<Current, w>>] = result
      /\ \A c \in DOMAIN replayed : c # <<Current, w>> => replayed'[c] = replayed[c]
  BY <1>1
<1>8. DOMAIN replayed = ((DOMAIN versions) \X worlds) \cup {<<Current, u>> : u \in Ended}
  BY DEF Inv, Grid
<1>9. {<<Current, u>> : u \in Ended \cup {w}} = {<<Current, u>> : u \in Ended} \cup {<<Current, w>>}
  OBVIOUS
<1>10. DOMAIN replayed' = ((DOMAIN versions') \X worlds') \cup {<<Current, u>> : u \in Ended}'
  <2>1. {<<Current, u>> : u \in Ended}' = {<<Current, u>> : u \in Ended \cup {w}}
    BY <1>5, <1>6
  <2>. QED
    BY <1>1, <1>6, <1>7, <1>8, <1>9, <2>1
<1>11. \A v \in DOMAIN versions : \A u \in worlds : versions[v].row[u] = replayed'[<<v, u>>]
  <2>1. ASSUME NEW v \in DOMAIN versions, NEW u \in worlds
        PROVE  <<v, u>> \in DOMAIN replayed /\ <<v, u>> # <<Current, w>>
    BY <1>6, <1>8
  <2>. QED
    BY <1>7, <2>1 DEF Inv, Grid
<1>12. \A u \in Ended' : cells'[u].result \in Results /\ replayed'[<<Current, u>>] = cells'[u].result
  <2>1. ASSUME NEW u \in Ended
        PROVE  /\ <<Current, u>> \in DOMAIN replayed /\ <<Current, u>> # <<Current, w>>
               /\ cells'[u] = cells[u]
    BY <1>3, <1>5, <1>8 DEF Ended
  <2>. QED
    BY <1>3, <1>5, <1>7, <2>1 DEF Inv, Grid
<1>13. Grid'
  <2>1. \A row : Aggregate(row)' = Aggregate(row)
    BY <1>1 DEF Aggregate
  <2>. QED
    BY <1>1, <1>6, <1>10, <1>11, <1>12, <2>1 DEF Inv, Grid
<1>14. Counts' /\ Chosen'
  BY <1>1 DEF Inv, Counts, Chosen
<1>. QED
  BY <1>4, <1>13, <1>14 DEF Inv

\* The row in hand becomes the next version's.
LEMMA EndRowKeeps ==
  ASSUME Inv, EndRow
  PROVE  Inv'
<1>1. /\ pc = "score" /\ \A w \in worlds : cells[w].at = "ended"
      /\ versions' = Append(versions, [row |-> Row, score |-> Aggregate(Row)])
      /\ cells' = Fresh(worlds) /\ tries' = 0
      /\ pc' = IF Len(versions') = MaxVersions THEN "select" ELSE "revise"
      /\ UNCHANGED <<worlds, loads, rejected, calls, asked, replayed, selected>>
  BY DEF EndRow
<1>2. TypeOK /\ Grid /\ Counts /\ Chosen
  BY DEF Inv
<1>3. Ended = worlds
  BY <1>1 DEF Ended
<1>4. Row \in [worlds -> Results] /\ \A w \in worlds : Row[w] = replayed[<<Current, w>>]
  BY <1>2, <1>3 DEF Grid, Row
<1>5. Aggregate(Row) \in Int \cup {NegInf, Failed}
  BY <1>2, <1>4, AggregateIs DEF TypeOK
<1>6. /\ versions \in Seq([row : Rows, score : Int \cup {NegInf, Failed}])
      /\ Len(versions) \in Nat /\ DOMAIN versions = 1 .. Len(versions)
      /\ [row |-> Row, score |-> Aggregate(Row)] \in [row : Rows, score : Int \cup {NegInf, Failed}]
  BY <1>2, <1>4, <1>5 DEF TypeOK, Rows, Results
<1>7. /\ versions' \in Seq([row : Rows, score : Int \cup {NegInf, Failed}])
      /\ Len(versions') = Len(versions) + 1 /\ DOMAIN versions' = (DOMAIN versions) \cup {Current}
      /\ versions'[Current].row = Row /\ versions'[Current].score = Aggregate(Row)
      /\ \A v \in DOMAIN versions : versions'[v] = versions[v]
  BY <1>1, <1>6 DEF Current
<1>8. MaxVersions \in Nat /\ MaxAttempts \in Nat /\ Len(versions) < MaxVersions
  BY <1>1, <1>2, DreamingConfig DEF Counts
<1>9. Ended' = {} /\ cells' \in [worlds -> CellStates]
  BY <1>1 DEF Ended, Fresh, CellStates
<1>10. TypeOK'
  BY <1>1, <1>2, <1>6, <1>7, <1>8, <1>9 DEF TypeOK, Rows, CellStates, Counts, Chosen
<1>11. Grid'
  <2>1. {<<Current, w>> : w \in Ended}' = {}
    BY <1>9
  <2>2. ((DOMAIN versions) \cup {Current}) \X worlds
          = ((DOMAIN versions) \X worlds) \cup {<<Current, w>> : w \in worlds}
    OBVIOUS
  <2>3. DOMAIN replayed' = ((DOMAIN versions') \X worlds') \cup {<<Current, w>> : w \in Ended}'
    BY <1>1, <1>2, <1>3, <1>7, <2>1, <2>2 DEF Grid
  <2>4. \A v \in DOMAIN versions' : versions'[v].score = Aggregate(versions'[v].row)
    BY <1>2, <1>7 DEF Grid
  <2>5. \A row : Aggregate(row)' = Aggregate(row)
    BY <1>1 DEF Aggregate
  <2>6. \A v \in DOMAIN versions' : \A w \in worlds : versions'[v].row[w] = replayed[<<v, w>>]
    BY <1>2, <1>4, <1>7 DEF Grid
  <2>. QED
    BY <1>1, <1>9, <2>3, <2>4, <2>5, <2>6 DEF Grid
<1>12. Counts'
  <2>1. /\ asked = calls /\ calls = rejected + Len(versions)
        /\ calls <= MaxAttempts * Len(versions) /\ asked \in Nat /\ calls \in Nat
    BY <1>1, <1>2 DEF Counts
  <2>2. CASE Len(versions') = MaxVersions
    <3>1. Len(versions) = MaxVersions - 1
      BY <1>6, <1>7, <1>8, <2>2
    <3>2. MaxAttempts * Len(versions) = MaxAttempts * (MaxVersions - 1)
      BY <3>1
    <3>. QED
      BY <1>1, <1>6, <1>7, <1>8, <2>1, <2>2, <3>2 DEF Counts
  <2>3. CASE Len(versions') # MaxVersions
    <3>1. Len(versions') - 1 = Len(versions) /\ Len(versions') \in 1 .. MaxVersions - 1
      BY <1>6, <1>7, <1>8, <2>3
    <3>2. pc' = "revise" /\ rejected \in Nat
      BY <1>1, <1>2, <2>3, DreamingConfig DEF TypeOK
    <3>. QED
      BY <1>1, <1>6, <1>7, <2>1, <3>1, <3>2 DEF Counts
  <2>. QED
    BY <2>2, <2>3
<1>13. Chosen'
  BY <1>1, <1>2 DEF Chosen
<1>. QED
  BY <1>10, <1>11, <1>12, <1>13 DEF Inv

LEMMA LoadsTakenAre == LoadsTaken \subseteq BOOLEAN
BY DEF LoadsTaken, Loads

LEMMA RefuseKeeps ==
  ASSUME Inv, Refuse
  PROVE  Inv'
<1>1. /\ pc = "revise" /\ tries < MaxAttempts /\ asked' = asked + 1 /\ tries' = tries + 1
      /\ UNCHANGED <<worlds, versions, cells, pc, loads, rejected, calls, replayed, selected>>
  BY DEF Refuse
<1>2. TypeOK /\ Grid /\ Counts /\ Chosen /\ MaxAttempts \in Nat
  BY DreamingConfig DEF Inv
<1>3. TypeOK'
  <2>1. tries' \in 0 .. MaxAttempts
    BY <1>1, <1>2 DEF TypeOK
  <2>. QED
    BY <1>1, <1>2, <2>1 DEF TypeOK, Rows
<1>4. Grid'
  BY <1>1, <1>2, GridStays DEF Grid
<1>5. Counts'
  <2>1. tries \in Nat /\ asked \in Nat /\ calls \in Nat
    BY <1>2 DEF TypeOK, Counts
  <2>. QED
    BY <1>1, <1>2, <2>1 DEF Counts
<1>6. Chosen'
  BY <1>1, <1>2 DEF Chosen
<1>. QED
  BY <1>3, <1>4, <1>5, <1>6 DEF Inv

\* MaxAttempts more calls at most, for one version more.
LEMMA AcceptKeeps ==
  ASSUME Inv, Accept
  PROVE  Inv'
<1>1. /\ pc = "revise" /\ tries < MaxAttempts /\ asked' = asked + 1 /\ rejected' = rejected + tries
      /\ calls' = calls + tries + 1 /\ loads' \in LoadsTaken /\ pc' = "score"
      /\ UNCHANGED <<worlds, versions, cells, tries, replayed, selected>>
  BY DEF Accept
<1>2. TypeOK /\ Grid /\ Counts /\ Chosen
  BY DEF Inv
<1>3. PICK n : n = Len(versions)
  OBVIOUS
<1>4. /\ MaxAttempts \in Nat /\ MaxVersions \in Nat /\ n \in 1 .. MaxVersions - 1
      /\ tries \in Nat /\ rejected \in Nat /\ calls \in Nat /\ asked = calls + tries
      /\ calls = rejected + n - 1 /\ calls <= MaxAttempts * (n - 1)
  <2>1. MaxAttempts \in Nat /\ MaxVersions \in Nat /\ MaxAttempts * MaxVersions \in Nat
    BY DreamingConfig
  <2>. QED
    BY <1>1, <1>2, <1>3, <2>1 DEF TypeOK, Counts
<1>5. /\ MaxAttempts * (n - 1) + MaxAttempts = MaxAttempts * n
      /\ MaxAttempts * n <= MaxAttempts * MaxVersions
  BY <1>4
<1>6. calls' \in Nat /\ calls' <= MaxAttempts * n /\ asked' = calls' /\ calls' = rejected' + n
  BY <1>1, <1>4, <1>5
<1>7. rejected' \in 0 .. MaxAttempts * MaxVersions
  BY <1>1, <1>4, <1>5, <1>6
<1>8. TypeOK'
  <2>1. loads' \in BOOLEAN
    BY <1>1, LoadsTakenAre
  <2>. QED
    BY <1>1, <1>2, <1>7, <2>1 DEF TypeOK, Rows
<1>9. Grid'
  BY <1>1, <1>2, GridStays DEF Grid
<1>10. Counts'
  BY <1>1, <1>3, <1>4, <1>6 DEF Counts
<1>11. Chosen'
  BY <1>1, <1>2 DEF Chosen
<1>. QED
  BY <1>8, <1>9, <1>10, <1>11 DEF Inv

LEMMA GiveUpKeeps ==
  ASSUME Inv, GiveUp
  PROVE  Inv'
<1>1. /\ pc = "revise" /\ tries = MaxAttempts /\ rejected' = rejected + tries
      /\ calls' = calls + tries /\ pc' = "select"
      /\ UNCHANGED <<worlds, versions, cells, tries, loads, asked, replayed, selected>>
  BY DEF GiveUp
<1>2. TypeOK /\ Grid /\ Counts /\ Chosen
  BY DEF Inv
<1>3. PICK n : n = Len(versions)
  OBVIOUS
<1>4. /\ MaxAttempts \in Nat /\ MaxVersions \in Nat /\ n \in 1 .. MaxVersions - 1
      /\ tries \in Nat /\ rejected \in Nat /\ calls \in Nat /\ asked = calls + tries
      /\ calls = rejected + n - 1 /\ calls <= MaxAttempts * (n - 1)
  <2>1. MaxAttempts \in Nat /\ MaxVersions \in Nat /\ MaxAttempts * MaxVersions \in Nat
    BY DreamingConfig
  <2>. QED
    BY <1>1, <1>2, <1>3, <2>1 DEF TypeOK, Counts
<1>5. /\ MaxAttempts * (n - 1) + MaxAttempts = MaxAttempts * n
      /\ MaxAttempts * n <= MaxAttempts * (MaxVersions - 1)
      /\ MaxAttempts * (MaxVersions - 1) <= MaxAttempts * MaxVersions
  BY <1>4
<1>6. /\ calls' \in Nat /\ calls' <= MaxAttempts * (MaxVersions - 1) /\ asked' = calls'
      /\ calls' = rejected' + n - 1
  BY <1>1, <1>4, <1>5
<1>7. rejected' \in 0 .. MaxAttempts * MaxVersions
  BY <1>1, <1>4, <1>5, <1>6
<1>8. TypeOK'
  BY <1>1, <1>2, <1>7 DEF TypeOK, Rows
<1>9. Grid'
  BY <1>1, <1>2, GridStays DEF Grid
<1>10. Counts'
  BY <1>1, <1>3, <1>4, <1>6 DEF Counts
<1>11. Chosen'
  BY <1>1, <1>2 DEF Chosen
<1>. QED
  BY <1>8, <1>9, <1>10, <1>11 DEF Inv

LEMMA DeveloperRaisesKeeps ==
  ASSUME Inv, DeveloperRaises
  PROVE  Inv'
<1>1. /\ pc = "revise" /\ asked' = asked + 1 /\ pc' = "raised"
      /\ UNCHANGED <<worlds, versions, cells, tries, loads, rejected, calls, replayed, selected>>
  BY DEF DeveloperRaises
<1>2. TypeOK /\ Grid /\ Counts /\ Chosen
  BY DEF Inv
<1>3. TypeOK'
  BY <1>1, <1>2 DEF TypeOK, Rows
<1>4. Grid'
  BY <1>1, <1>2, GridStays DEF Grid
<1>5. Counts' /\ Chosen'
  BY <1>1, <1>2 DEF Counts, Chosen
<1>. QED
  BY <1>3, <1>4, <1>5 DEF Inv
-----------------------------------------------------------------------------
(* The selection.  Above orders the aggregates, and no two differ that it     *)
(* does not order.                                                           *)

Numbers == Int \cup {NegInf}

LEMMA AboveOrders ==
  ASSUME NEW a \in Numbers, NEW b \in Numbers, NEW c \in Numbers
  PROVE  /\ ~Above(a, a)
         /\ Above(a, b) => ~Above(b, a)
         /\ Above(a, b) /\ ~Above(c, b) => Above(a, c)
         /\ Above(a, b) /\ ~Above(a, c) => Above(c, b)
         /\ ~Above(a, b) /\ ~Above(b, a) => a = b
         /\ ~Above(a, b) /\ ~Above(b, c) => ~Above(a, c)
<1>1. NegInf \notin Int
  BY DreamingConfig
<1>. QED
  BY <1>1 DEF Above, Numbers

Versions == [row : Rows, score : Int \cup {NegInf, Failed}]
Graded   == versions \in Seq(Versions)

LEMMA ScoredAre ==
  ASSUME Graded
  PROVE  /\ Scored \in SUBSET (0 .. Len(versions)) /\ DOMAIN versions = 1 .. Len(versions)
         /\ Len(versions) \in Nat
         /\ \A v \in DOMAIN versions : Score(v) \in Numbers \cup {Failed}
         /\ \A v \in Scored : v \in DOMAIN versions /\ Score(v) \in Numbers
         /\ \A v \in DOMAIN versions : v \notin Scored => Score(v) = Failed
<1>1. Len(versions) \in Nat /\ DOMAIN versions = 1 .. Len(versions)
  BY DEF Graded
<1>2. \A v \in DOMAIN versions : Score(v) \in Numbers \cup {Failed}
  <2>1. \A v \in DOMAIN versions : versions[v] \in Versions
    BY DEF Graded
  <2>2. \A v \in DOMAIN versions : Score(v) \in Int \cup {NegInf, Failed}
    BY <2>1 DEF Score, Versions
  <2>. QED
    BY <2>2 DEF Numbers
<1>. QED
  BY <1>1, <1>2 DEF Scored

\* Among some that were scored there are best ones, and an earliest best one.
BestOf(S) == {v \in S : \A u \in S : ~Above(Score(u), Score(v))}

LEMMA BestsAre ==
  ASSUME Graded, NEW S \in SUBSET Scored, S # {}
  PROVE  /\ Min(BestOf(S)) \in BestOf(S)
         /\ \A v \in BestOf(S) : Min(BestOf(S)) <= v
<1>1. S \in SUBSET (0 .. Len(versions)) /\ Len(versions) \in Nat
  BY ScoredAre
<1>2. IsFiniteSet(S)
  BY <1>1, Finitely
<1>. DEFINE T == {s \in SUBSET S : s # {} => BestOf(s) # {}}
<1>3. {} \in T
  OBVIOUS
<1>4. ASSUME NEW s \in SUBSET S, NEW x \in S, s \in T PROVE s \cup {x} \in T
  <2>1. Score(x) \in Numbers /\ \A u \in s : Score(u) \in Numbers
    BY ScoredAre
  <2>2. CASE s = {}
    <3>1. x \in BestOf(s \cup {x})
      BY <2>1, <2>2, AboveOrders DEF BestOf
    <3>. QED
      BY <3>1
  <2>3. CASE s # {}
    <3>1. PICK b \in BestOf(s) : TRUE
      BY <1>4, <2>3
    <3>2. b \in s /\ \A u \in s : ~Above(Score(u), Score(b))
      BY <3>1 DEF BestOf
    <3>3. CASE Above(Score(x), Score(b))
      <4>1. \A u \in s : ~Above(Score(u), Score(x))
        BY <2>1, <3>2, <3>3, AboveOrders
      <4>2. x \in BestOf(s \cup {x})
        BY <2>1, <4>1, AboveOrders DEF BestOf
      <4>. QED
        BY <4>2
    <3>4. CASE ~Above(Score(x), Score(b))
      <4>1. b \in BestOf(s \cup {x})
        BY <3>2, <3>4 DEF BestOf
      <4>. QED
        BY <4>1
    <3>. QED
      BY <3>3, <3>4
  <2>. QED
    BY <2>2, <2>3
<1>5. S \in T
  <2>1. S \in T
    <3>. HIDE DEF T
    <3>. QED
      BY <1>2, <1>3, <1>4, OneByOne
  <2>. QED
    BY <2>1
<1>6. BestOf(S) \in SUBSET Nat /\ BestOf(S) # {}
  <2>1. BestOf(S) # {}
    BY <1>5
  <2>2. \A v \in BestOf(S) : v \in S
    BY DEF BestOf
  <2>3. \A v \in S : v \in Nat
    <3>. HIDE DEF T
    <3>1. \A v \in S : v \in 0 .. Len(versions)
      BY <1>1, Zenon
    <3>. QED
      BY <1>1, <3>1
  <2>. QED
    BY <2>1, <2>2, <2>3
<1>7. \E m \in BestOf(S) : \A v \in BestOf(S) : m <= v
  BY <1>6, Least
<1>. QED
  BY <1>7 DEF Min

\* Whichever branch select takes, it takes the earliest of the best.
LEMMA WinnerIs ==
  ASSUME Graded, versions # <<>>
  PROVE  /\ Winner \in DOMAIN versions
         /\ Scored = {} => Winner = 1
         /\ Scored # {} => Winner \in Bests /\ \A v \in Bests : Winner <= v
<1>1. 1 \in DOMAIN versions /\ \A v \in DOMAIN versions : 1 <= v
  BY DEF Graded
<1>2. CASE Scored = {}
  BY <1>1, <1>2 DEF Winner
<1>3. CASE Scored # {}
  <2>1. Bests = BestOf(Scored)
    BY DEF Bests, BestOf
  <2>2. Min(Bests) \in Bests /\ \A v \in Bests : Min(Bests) <= v
    BY <1>3, <2>1, BestsAre
  <2>3. Min(Bests) \in Scored /\ \A u \in Scored : ~Above(Score(u), Score(Min(Bests)))
    BY <2>2 DEF Bests
  <2>4. CASE 1 \in Scored /\ ~Above(Score(Min(Bests)), Score(1))
    <3>1. \A u \in Scored : ~Above(Score(u), Score(1))
      BY <2>3, <2>4, AboveOrders, ScoredAre
    <3>2. 1 \in Bests
      BY <2>4, <3>1 DEF Bests
    <3>3. \A v \in Bests : 1 <= v
      BY <1>1 DEF Bests, Scored
    <3>. QED
      BY <1>1, <1>3, <2>4, <3>2, <3>3 DEF Winner
  <2>5. CASE ~(1 \in Scored /\ ~Above(Score(Min(Bests)), Score(1)))
    <3>1. Winner = Min(Bests)
      BY <1>3, <2>5 DEF Winner
    <3>. QED
      BY <1>3, <2>2, <2>3, <3>1, ScoredAre
  <2>. QED
    BY <2>4, <2>5
<1>. QED
  BY <1>2, <1>3
LEMMA SelectKeeps ==
  ASSUME Inv, Select
  PROVE  Inv'
<1>1. /\ pc = "select" /\ selected' = Winner /\ pc' = "done"
      /\ UNCHANGED <<worlds, versions, cells, tries, loads, rejected, calls, asked, replayed>>
  BY DEF Select, agentVars
<1>2. TypeOK /\ Grid /\ Counts /\ Chosen
  BY DEF Inv
<1>3. Graded /\ Len(versions) \in 1 .. MaxVersions
  BY <1>1, <1>2 DEF TypeOK, Graded, Versions, Counts
<1>4. versions # <<>> /\ DOMAIN versions = 1 .. Len(versions)
  BY <1>3 DEF Graded
<1>5. Winner \in 1 .. Len(versions)
  BY <1>3, <1>4, WinnerIs
<1>6. TypeOK'
  <2>1. selected' \in 0 .. Len(versions)
    BY <1>1, <1>5
  <2>. QED
    BY <1>1, <1>2, <2>1 DEF TypeOK, Rows
<1>7. Grid'
  BY <1>1, <1>2, GridStays DEF Grid
<1>8. Counts'
  BY <1>1, <1>2 DEF Counts
<1>9. Chosen'
  <2>1. Winner' = Winner
    BY <1>1 DEF Winner, Scored, Bests, Score
  <2>. QED
    BY <1>1, <2>1 DEF Chosen
<1>. QED
  BY <1>6, <1>7, <1>8, <1>9 DEF Inv

LEMMA StutterKeeps ==
  ASSUME Inv, UNCHANGED vars
  PROVE  Inv'
<1>1. UNCHANGED <<worlds, versions, cells, pc, tries, loads, rejected, calls, asked, replayed, selected>>
  BY DEF vars
<1>2. TypeOK /\ Grid /\ Counts /\ Chosen
  BY DEF Inv
<1>3. TypeOK'
  BY <1>1, <1>2 DEF TypeOK, Rows
<1>4. Grid'
  BY <1>1, <1>2, GridStays DEF Grid
<1>5. Counts'
  BY <1>1, <1>2 DEF Counts
<1>6. Chosen'
  <2>1. Winner' = Winner
    BY <1>1 DEF Winner, Scored, Bests, Score
  <2>. QED
    BY <1>1, <1>2, <2>1 DEF Chosen
<1>. QED
  BY <1>3, <1>4, <1>5, <1>6 DEF Inv

LEMMA StepKeeps == Inv /\ [Step]_vars => Inv'
<1>. SUFFICES ASSUME Inv, [Step]_vars PROVE Inv'
  OBVIOUS
<1>1. ASSUME NEW w \in worlds, StartCell(w) PROVE Inv'
  BY <1>1, StartCellKeeps
<1>2. ASSUME NEW w \in worlds, NEW result \in Replays \cup {Failed}, EndCell(w, result) PROVE Inv'
  BY <1>2, EndCellKeeps DEF Results
<1>3. CASE EndRow
  BY <1>3, EndRowKeeps
<1>4. CASE Refuse
  BY <1>4, RefuseKeeps
<1>5. CASE Accept
  BY <1>5, AcceptKeeps
<1>6. CASE GiveUp
  BY <1>6, GiveUpKeeps
<1>7. CASE Select
  BY <1>7, SelectKeeps
<1>8. CASE DeveloperRaises
  BY <1>8, DeveloperRaisesKeeps
<1>9. CASE UNCHANGED vars
  BY <1>9, StutterKeeps
<1>. QED
  BY <1>1, <1>2, <1>3, <1>4, <1>5, <1>6, <1>7, <1>8, <1>9 DEF Step

THEOREM InvHolds == Spec => []Inv
BY Begins, StepKeeps, PTL DEF Spec

\* Every reachable state is well typed: what a round asks, refuses and selects stays in range.
THEOREM TypeCorrect == Spec => []TypeOK
<1>1. Inv => TypeOK
  BY DEF Inv
<1>. QED
  BY <1>1, InvHolds, PTL

-----------------------------------------------------------------------------
(* What a round's results are.                                               *)

\* However the workers interleave, each cell is what that version did on that world.
THEOREM GridIsReplayed == Spec => []CellsAreTheirReplays
<1>1. Inv => CellsAreTheirReplays
  BY DEF Inv, Grid, CellsAreTheirReplays
<1>. QED
  BY <1>1, InvHolds, PTL

\* Once a version is selected it is the winner among those there are.
LEMMA SelectedIsWinner ==
  ASSUME Inv, selected # 0
  PROVE  /\ Graded /\ versions # <<>> /\ selected = Winner
         /\ selected \in DOMAIN versions
         /\ Scored = {} => selected = 1
         /\ Scored # {} => selected \in Bests /\ \A v \in Bests : selected <= v
<1>1. TypeOK /\ Counts /\ Chosen
  BY DEF Inv
<1>2. pc = "done" /\ selected = Winner
  BY <1>1 DEF Chosen
<1>3. Graded /\ Len(versions) \in 1 .. MaxVersions
  BY <1>1, <1>2 DEF TypeOK, Graded, Versions, Counts
<1>4. versions # <<>>
  BY <1>3
<1>. QED
  BY <1>2, <1>3, <1>4, WinnerIs

\* The earliest of the best versions is deployed, the incumbent where nothing beats it.
THEOREM SelectionIsBest == Spec => []NoWorseThanIncumbent
<1>1. ASSUME Inv PROVE NoWorseThanIncumbent
  <2>. SUFFICES ASSUME selected # 0
                PROVE  /\ \A v \in Scored : selected \in Scored /\ ~Above(Score(v), Score(selected))
                       /\ selected # 1 =>
                            \A v \in Scored : v < selected => Above(Score(selected), Score(v))
    BY DEF NoWorseThanIncumbent
  <2>1. /\ Graded
        /\ Scored # {} => selected \in Bests /\ \A v \in Bests : selected <= v
    BY <1>1, SelectedIsWinner
  <2>2. ASSUME NEW v \in Scored
        PROVE  selected \in Scored /\ ~Above(Score(v), Score(selected))
    BY <2>1 DEF Bests
  <2>3. ASSUME NEW v \in Scored, v < selected
        PROVE  Above(Score(selected), Score(v))
    <3>1. v \notin Bests
      <4>1. v \in Nat /\ selected \in Nat
        <5>1. \A u \in Scored : u \in Nat
          BY <2>1, ScoredAre
        <5>. QED
          BY <2>2, <5>1
      <4>. QED
        BY <2>1, <2>3, <4>1
    <3>2. PICK u \in Scored : Above(Score(u), Score(v))
      BY <3>1 DEF Bests
    <3>3. Score(u) \in Numbers /\ Score(v) \in Numbers /\ Score(selected) \in Numbers
      BY <2>1, <2>2, ScoredAre
    <3>. QED
      BY <2>2, <3>2, <3>3, AboveOrders
  <2>. QED
    BY <2>2, <2>3
<1>. QED
  BY <1>1, InvHolds, PTL
\* What a version's aggregate says of its row.
LEMMA ScoresSay ==
  ASSUME Inv, NEW v \in DOMAIN versions
  PROVE  /\ v \in Scored <=> Ran(v) = worlds
         /\ v \in Scored => (Score(v) = NegInf <=> ~Attained(v))
<1>1. TypeOK /\ Grid
  BY DEF Inv
<1>2. PICK row : row = versions[v].row
  OBVIOUS
<1>3. Graded
  BY <1>1 DEF TypeOK, Graded, Versions
<1>4. row \in [worlds -> Results]
  <2>1. versions[v] \in Versions
    BY <1>3 DEF Graded
  <2>. QED
    BY <1>2, <2>1 DEF Versions, Rows, Results
<1>5. Score(v) = Aggregate(row)
  BY <1>1, <1>2 DEF Grid, Score
<1>6. /\ Aggregate(row) = Failed <=> \E w \in worlds : row[w] = Failed
      /\ Aggregate(row) = NegInf <=> /\ \A w \in worlds : row[w] # Failed
                                     /\ \E w \in worlds : row[w].attainment = NoScore
  BY <1>1, <1>4, AggregateIs DEF TypeOK
<1>7. v \in Scored <=> Ran(v) = worlds
  <2>1. v \in Scored <=> \A w \in worlds : row[w] # Failed
    BY <1>5, <1>6 DEF Scored
  <2>. QED
    BY <1>2, <2>1 DEF Ran
<1>8. ASSUME v \in Scored PROVE Score(v) = NegInf <=> ~Attained(v)
  <2>1. Ran(v) = worlds
    BY <1>7, <1>8
  <2>2. Attained(v) <=> \A w \in worlds : row[w].attainment # NoScore
    BY <1>2, <2>1 DEF Attained
  <2>3. \A w \in worlds : row[w] # Failed
    BY <1>2, <2>1 DEF Ran
  <2>. QED
    BY <1>5, <1>6, <2>2, <2>3
<1>. QED
  BY <1>7, <1>8

\* No version gains by raising, nor by attaining nothing.
THEOREM NoGainByFailing == Spec => []FailingNeverPays
<1>1. ASSUME Inv PROVE FailingNeverPays
  <2>. DEFINE whole == {v \in DOMAIN versions : Ran(v) = worlds /\ Attained(v)}
  <2>. SUFFICES ASSUME selected # 0
                PROVE  /\ selected # 1 => Ran(selected) = worlds
                       /\ whole # {} => selected \in whole
    BY DEF FailingNeverPays
  <2>1. /\ Graded /\ selected \in DOMAIN versions
        /\ Scored = {} => selected = 1
        /\ Scored # {} => selected \in Bests
    BY <1>1, SelectedIsWinner
  <2>2. selected # 1 => Ran(selected) = worlds
    BY <1>1, <2>1, ScoresSay DEF Bests
  <2>3. ASSUME NEW v \in whole PROVE selected \in whole
    <3>1. v \in DOMAIN versions /\ Ran(v) = worlds /\ Attained(v)
      OBVIOUS
    <3>. HIDE DEF whole
    <3>2. v \in Scored /\ Score(v) # NegInf
      BY <1>1, <3>1, ScoresSay
    <3>3. selected \in Scored /\ ~Above(Score(v), Score(selected))
      BY <2>1, <3>2 DEF Bests
    <3>4. Score(selected) # NegInf
      BY <3>2, <3>3 DEF Above
    <3>5. Ran(selected) = worlds /\ Attained(selected)
      BY <1>1, <2>1, <3>3, <3>4, ScoresSay
    <3>. QED
      BY <2>1, <3>5 DEF whole
  <2>. QED
    BY <2>2, <2>3
<1>. QED
  BY <1>1, InvHolds, PTL

\* The report ranks the winner first, and no other version.
LEMMA FirstIsSelected ==
  ASSUME Inv, selected # 0
  PROVE  selected = RankedFirst
<1>1. /\ Graded /\ selected \in DOMAIN versions
      /\ Scored = {} => selected = 1
      /\ Scored # {} => selected \in Bests /\ \A v \in Bests : selected <= v
  BY SelectedIsWinner
<1>2. \A v \in DOMAIN versions : v \in Nat /\ 1 <= v
  BY <1>1, ScoredAre
<1>3. ASSUME NEW u \in DOMAIN versions, u # selected PROVE RankedBefore(selected, u)
  <2>1. CASE Scored = {}
    <3>1. Score(selected) = Failed /\ Score(u) = Failed /\ selected < u
      BY <1>1, <1>2, <1>3, <2>1, ScoredAre
    <3>. QED
      BY <2>1, <3>1 DEF RankedBefore
  <2>2. CASE Scored # {} /\ u \notin Scored
    BY <1>1, <2>2 DEF RankedBefore, Bests
  <2>3. CASE u \in Scored
    <3>1. selected \in Scored /\ \A v \in Scored : ~Above(Score(v), Score(selected))
      BY <1>1, <2>3 DEF Bests
    <3>2. CASE Above(Score(selected), Score(u))
      BY <2>3, <3>1, <3>2 DEF RankedBefore
    <3>3. CASE ~Above(Score(selected), Score(u))
      <4>1. Score(selected) = Score(u)
        BY <1>1, <2>3, <3>1, <3>3, AboveOrders, ScoredAre
      <4>2. u \in Bests
        BY <2>3, <3>1, <4>1 DEF Bests
      <4>3. selected < u
        BY <1>1, <1>2, <1>3, <2>3, <4>2
      <4>. QED
        BY <2>3, <3>1, <4>1, <4>3 DEF RankedBefore
    <3>. QED
      BY <3>2, <3>3
  <2>. QED
    BY <2>1, <2>2, <2>3
<1>4. ASSUME NEW v \in DOMAIN versions, NEW u \in DOMAIN versions,
             RankedBefore(v, u), RankedBefore(u, v)
      PROVE  FALSE
  <2>1. v \in Nat /\ u \in Nat
    BY <1>2
  <2>2. CASE v \in Scored /\ u \in Scored
    <3>1. Score(v) \in Numbers /\ Score(u) \in Numbers
      BY <1>1, <2>2, ScoredAre
    <3>2. /\ Above(Score(v), Score(u)) \/ (Score(v) = Score(u) /\ v < u)
          /\ Above(Score(u), Score(v)) \/ (Score(u) = Score(v) /\ u < v)
      BY <1>4, <2>2 DEF RankedBefore
    <3>3. ~(v < u /\ u < v)
      BY <2>1
    <3>. QED
      BY <3>1, <3>2, <3>3, AboveOrders
  <2>3. CASE ~(v \in Scored /\ u \in Scored)
    <3>1. v < u /\ u < v
      BY <1>4, <2>3 DEF RankedBefore
    <3>. QED
      BY <2>1, <3>1
  <2>. QED
    BY <2>2, <2>3
<1>5. \A u \in (DOMAIN versions) \ {selected} : RankedBefore(selected, u)
  BY <1>3
<1>6. /\ RankedFirst \in DOMAIN versions
      /\ \A u \in (DOMAIN versions) \ {RankedFirst} : RankedBefore(RankedFirst, u)
  BY <1>1, <1>5 DEF RankedFirst
<1>. QED
  BY <1>1, <1>4, <1>5, <1>6
\* The ranking, the margin and the rationale of a selection are so.
THEOREM RecordReadsTrue == Spec => []SelectionReadsTrue
<1>1. ASSUME Inv PROVE SelectionReadsTrue
  <2>. SUFFICES ASSUME selected # 0
                PROVE  /\ Margin = 0 <=> selected = 1 /\ 1 \in Scored
                       /\ selected # 1 /\ Margin # NoScore => Margin > 0
                       /\ Rationale.says = "beats" => Above(Score(selected), Score(1))
                       /\ Rationale.says = "no floor" => 1 \notin Scored /\ selected \in Scored
                       /\ Rationale.says = "none scored" => Scored = {}
                       /\ Rationale.says = "no other scored" => Scored = {1}
                       /\ Rationale.says = "none beat it" => ~Above(Score(Rationale.of), Score(1))
                       /\ Rationale.says \in {"beats", "no floor", "none scored",
                                              "no other scored", "none beat it"}
    <3>1. selected # 0 => selected = RankedFirst
      BY <1>1, FirstIsSelected
    <3>. QED
      BY <3>1 DEF SelectionReadsTrue
  <2>1. /\ Graded /\ selected \in DOMAIN versions /\ versions # <<>>
        /\ Scored = {} => selected = 1
        /\ Scored # {} => selected \in Bests /\ \A v \in Bests : selected <= v
    BY <1>1, SelectedIsWinner
  <2>2. /\ 1 \in DOMAIN versions /\ selected \in Nat /\ 1 <= selected
        /\ Score(1) \in Numbers \cup {Failed} /\ Score(selected) \in Numbers \cup {Failed}
        /\ 1 \notin Scored <=> Score(1) = Failed
    <3>1. \A v \in DOMAIN versions : v \in Nat /\ 1 <= v
      BY <2>1, ScoredAre
    <3>2. 1 \in DOMAIN versions
      BY <2>1 DEF Graded
    <3>. QED
      BY <2>1, <3>1, <3>2, ScoredAre DEF Scored
  <2>3. selected # 1 => /\ selected \in Scored /\ Score(selected) \in Numbers
                        /\ Score(1) # Failed => Above(Score(selected), Score(1))
    <3>. SUFFICES ASSUME selected # 1
                  PROVE  /\ selected \in Scored /\ Score(selected) \in Numbers
                         /\ Score(1) # Failed => Above(Score(selected), Score(1))
      OBVIOUS
    <3>1. selected \in Scored /\ Score(selected) \in Numbers
      BY <2>1, ScoredAre DEF Bests
    <3>2. ASSUME Score(1) # Failed PROVE Above(Score(selected), Score(1))
      <4>1. 1 \in Scored /\ Score(1) \in Numbers
        BY <2>2, <3>2
      <4>2. 1 \notin Bests
        BY <2>1, <2>2, <3>1
      <4>3. PICK u \in Scored : Above(Score(u), Score(1))
        BY <4>1, <4>2 DEF Bests
      <4>4. ~Above(Score(u), Score(selected)) /\ Score(u) \in Numbers
        BY <2>1, <4>3, ScoredAre DEF Bests
      <4>. QED
        BY <3>1, <4>1, <4>3, <4>4, AboveOrders
    <3>. QED
      BY <3>1, <3>2
  <2>4. /\ Margin = 0 <=> selected = 1 /\ 1 \in Scored
        /\ selected # 1 /\ Margin # NoScore => Margin > 0
    <3>1. NoScore # 0 /\ NegInf \notin Int /\ Failed \notin Int
      BY DreamingConfig
    <3>2. CASE selected = 1
      BY <2>2, <3>1, <3>2 DEF Margin
    <3>3. CASE selected # 1 /\ {Score(1), Score(selected)} \cap {Failed, NegInf} # {}
      BY <3>1, <3>3 DEF Margin
    <3>4. CASE selected # 1 /\ {Score(1), Score(selected)} \cap {Failed, NegInf} = {}
      <4>1. Margin = Score(selected) - Score(1)
        BY <3>4 DEF Margin
      <4>2. Score(selected) \in Int /\ Score(1) \in Int /\ Above(Score(selected), Score(1))
        BY <2>2, <2>3, <3>4 DEF Numbers
      <4>3. Score(selected) > Score(1)
        BY <3>1, <4>2 DEF Above
      <4>4. Margin > 0
        BY <4>1, <4>2, <4>3
      <4>. QED
        BY <3>4, <4>4
    <3>. QED
      BY <3>2, <3>3, <3>4
  <2>5. CASE selected # 1
    <3>1. Rationale.says = IF Score(1) = Failed THEN "no floor" ELSE "beats"
      BY <2>5 DEF Rationale
    <3>. QED
      BY <2>2, <2>3, <2>4, <2>5, <3>1
  <2>6. CASE selected = 1 /\ Score(1) = Failed
    <3>1. Rationale.says = "none scored"
      BY <2>6 DEF Rationale
    <3>2. Scored = {}
      BY <2>1, <2>2, <2>6 DEF Bests
    <3>. QED
      BY <2>4, <2>6, <3>1, <3>2
  <2>7. CASE selected = 1 /\ Score(1) # Failed
    <3>. DEFINE others == Scored \ {1}
    <3>1. 1 \in Scored
      BY <2>2, <2>7
    <3>2. CASE others = {}
      <4>1. Rationale.says = "no other scored"
        BY <2>7, <3>2 DEF Rationale
      <4>. QED
        BY <2>4, <2>7, <3>1, <3>2, <4>1
    <3>3. CASE others # {}
      <4>1. /\ Rationale.says = "none beat it"
            /\ Rationale.of = Min({v \in others : \A u \in others : ~Above(Score(u), Score(v))})
        BY <2>7, <3>3 DEF Rationale
      <4>2. Rationale.of \in others
        <5>1. others \in SUBSET Scored
          OBVIOUS
        <5>2. Rationale.of = Min(BestOf(others))
          BY <4>1 DEF BestOf
        <5>. HIDE DEF others
        <5>3. Min(BestOf(others)) \in BestOf(others)
          BY <2>1, <3>3, <5>1, BestsAre
        <5>. QED
          BY <5>2, <5>3 DEF BestOf
      <4>3. ~Above(Score(Rationale.of), Score(1))
        BY <2>1, <2>7, <4>2 DEF Bests
      <4>. QED
        BY <2>4, <2>7, <4>1, <4>3
    <3>. QED
      BY <3>2, <3>3
  <2>. QED
    BY <2>5, <2>6, <2>7
<1>. QED
  BY <1>1, InvHolds, PTL
-----------------------------------------------------------------------------
(* What a round costs.                                                       *)

CellsOf   == [v \in DOMAIN versions |-> Cardinality(DOMAIN versions[v].row)]
RevealsIn == [v \in DOMAIN versions |-> [w \in Ran(v) |-> versions[v].row[w].revealed]]
RevealsOf == [v \in DOMAIN versions |-> Reveals(v)]
Revealed  == [c \in DOMAIN replayed |-> replayed[c].revealed]
RanOf     == [v \in DOMAIN versions |-> Ran(v)]
Succeeded == {c \in DOMAIN replayed : replayed[c] # Failed}

LEMMA SomeIs ==
  ASSUME NEW S
  PROVE  \A s \in SUBSET S : s # {} => Some(s) \in s /\ Some(s) \in S
BY DEF Some

\* The record's sums are sums of these.
LEMMA SumsAre ==
  /\ DreamCost.cells = SumOver(CellsOf, DOMAIN versions)
  /\ DreamCost.reveals = SumOver(RevealsOf, DOMAIN versions)
  /\ \A v \in DOMAIN versions : Reveals(v) = SumOver(RevealsIn[v], Ran(v))
  /\ MapThenSumSet(LAMBDA c : replayed[c].revealed, Succeeded) = SumOver(Revealed, Succeeded)
<1>1. DreamCost.cells = SumOver(CellsOf, DOMAIN versions)
  <2>. DEFINE S == DOMAIN versions
              A(h) == [s \in SUBSET S |->
                         IF s = {} THEN 0 ELSE Cardinality(DOMAIN versions[Some(s)].row) + h[s \ {Some(s)}]]
              B(h) == [s \in SUBSET S |->
                         IF s = {} THEN 0 ELSE CellsOf[Some(s)] + h[s \ {Some(s)}]]
  <2>1. \A h : A(h) = B(h)
    <3>1. \A s \in SUBSET S : s # {} => CellsOf[Some(s)] = Cardinality(DOMAIN versions[Some(s)].row)
      BY SomeIs DEF CellsOf
    <3>. QED
      BY <3>1
  <2>2. DreamCost.cells = (CHOOSE h : h = A(h))[S]
    BY DEF DreamCost, MapThenSumSet, MapThenFoldSet, Some
  <2>3. (CHOOSE h : h = A(h)) = (CHOOSE h : h = B(h))
    <3>1. \A h : (h = A(h)) <=> (h = B(h))
      BY <2>1, Zenon
    <3>. QED
      BY <3>1, Zenon
  <2>. QED
    BY <2>2, <2>3 DEF SumOver, SumsOver
<1>2. DreamCost.reveals = SumOver(RevealsOf, DOMAIN versions)
  <2>. DEFINE S == DOMAIN versions
              A(h) == [s \in SUBSET S |->
                         IF s = {} THEN 0 ELSE Reveals(Some(s)) + h[s \ {Some(s)}]]
              B(h) == [s \in SUBSET S |->
                         IF s = {} THEN 0 ELSE RevealsOf[Some(s)] + h[s \ {Some(s)}]]
  <2>1. \A h : A(h) = B(h)
    <3>1. \A s \in SUBSET S : s # {} => RevealsOf[Some(s)] = Reveals(Some(s))
      BY SomeIs DEF RevealsOf
    <3>. QED
      BY <3>1
  <2>2. DreamCost.reveals = (CHOOSE h : h = A(h))[S]
    BY DEF DreamCost, MapThenSumSet, MapThenFoldSet, Some
  <2>3. (CHOOSE h : h = A(h)) = (CHOOSE h : h = B(h))
    <3>1. \A h : (h = A(h)) <=> (h = B(h))
      BY <2>1, Zenon
    <3>. QED
      BY <3>1, Zenon
  <2>. QED
    BY <2>2, <2>3 DEF SumOver, SumsOver
<1>3. ASSUME NEW v \in DOMAIN versions PROVE Reveals(v) = SumOver(RevealsIn[v], Ran(v))
  <2>. DEFINE S == Ran(v)
              A(h) == [s \in SUBSET S |->
                         IF s = {} THEN 0 ELSE versions[v].row[Some(s)].revealed + h[s \ {Some(s)}]]
              B(h) == [s \in SUBSET S |->
                         IF s = {} THEN 0 ELSE RevealsIn[v][Some(s)] + h[s \ {Some(s)}]]
  <2>1. \A h : A(h) = B(h)
    <3>1. \A s \in SUBSET S : s # {} => RevealsIn[v][Some(s)] = versions[v].row[Some(s)].revealed
      BY SomeIs DEF RevealsIn
    <3>. QED
      BY <3>1
  <2>2. Reveals(v) = (CHOOSE h : h = A(h))[S]
    BY DEF Reveals, MapThenSumSet, MapThenFoldSet, Some
  <2>3. (CHOOSE h : h = A(h)) = (CHOOSE h : h = B(h))
    <3>1. \A h : (h = A(h)) <=> (h = B(h))
      BY <2>1, Zenon
    <3>. QED
      BY <3>1, Zenon
  <2>. QED
    BY <2>2, <2>3 DEF SumOver, SumsOver
<1>4. MapThenSumSet(LAMBDA c : replayed[c].revealed, Succeeded) = SumOver(Revealed, Succeeded)
  <2>. DEFINE S == Succeeded
              A(h) == [s \in SUBSET S |->
                         IF s = {} THEN 0 ELSE replayed[Some(s)].revealed + h[s \ {Some(s)}]]
              B(h) == [s \in SUBSET S |->
                         IF s = {} THEN 0 ELSE Revealed[Some(s)] + h[s \ {Some(s)}]]
  <2>1. \A h : A(h) = B(h)
    <3>1. \A s \in SUBSET S : s # {} => Revealed[Some(s)] = replayed[Some(s)].revealed
      BY SomeIs DEF Revealed, Succeeded
    <3>. QED
      BY <3>1
  <2>2. MapThenSumSet(LAMBDA c : replayed[c].revealed, S) = (CHOOSE h : h = A(h))[S]
    BY DEF MapThenSumSet, MapThenFoldSet, Some
  <2>3. (CHOOSE h : h = A(h)) = (CHOOSE h : h = B(h))
    <3>1. \A h : (h = A(h)) <=> (h = B(h))
      BY <2>1, Zenon
    <3>. QED
      BY <3>1, Zenon
  <2>. QED
    BY <2>2, <2>3 DEF SumOver, SumsOver
<1>. QED
  BY <1>1, <1>2, <1>3, <1>4

\* The grid of a finished round, cell by cell.
LEMMA FinishedGrid ==
  ASSUME Inv, pc = "done"
  PROVE  /\ DOMAIN replayed = (DOMAIN versions) \X worlds
         /\ IsFiniteSet(DOMAIN versions) /\ IsFiniteSet(worlds)
         /\ \A v \in DOMAIN versions :
              /\ DOMAIN versions[v].row = worlds
              /\ \A w \in worlds : /\ versions[v].row[w] = replayed[<<v, w>>]
                                   /\ versions[v].row[w] \in Results
<1>1. TypeOK /\ Grid
  BY DEF Inv
<1>2. Ended = {}
  BY <1>1 DEF Grid
<1>3. {<<Current, w>> : w \in Ended} = {}
  BY <1>2
<1>4. DOMAIN replayed = (DOMAIN versions) \X worlds
  BY <1>1, <1>3 DEF Grid
<1>5. Graded /\ DOMAIN versions = 1 .. Len(versions) /\ Len(versions) \in Nat
  BY <1>1 DEF TypeOK, Graded, Versions
<1>6. IsFiniteSet(DOMAIN versions)
  BY <1>5, FS_Interval
<1>7. IsFiniteSet(worlds)
  BY <1>1, WorldsAre DEF TypeOK
<1>8. ASSUME NEW v \in DOMAIN versions
      PROVE  /\ DOMAIN versions[v].row = worlds
             /\ \A w \in worlds : /\ versions[v].row[w] = replayed[<<v, w>>]
                                  /\ versions[v].row[w] \in Results
  <2>1. versions[v] \in Versions
    BY <1>5 DEF Graded
  <2>2. versions[v].row \in [worlds -> Results]
    BY <2>1 DEF Versions, Rows, Results
  <2>. QED
    BY <1>1, <2>2 DEF Grid
<1>. QED
  BY <1>4, <1>6, <1>7, <1>8

\* The calls, the cells and the reveals a finished round records are those it spent.
THEOREM RecordIsSpent == Spec => []SpentIsRecorded
<1>1. ASSUME Inv PROVE SpentIsRecorded
  <2>. DEFINE V == DOMAIN versions
  <2>. SUFFICES ASSUME pc = "done"
                PROVE  /\ calls = asked /\ asked <= MaxAttempts * (MaxVersions - 1)
                       /\ rejected = asked - (Len(versions) - 1)
                       /\ DreamCost.cells = Cardinality(DOMAIN replayed)
                       /\ DreamCost.reveals
                            = MapThenSumSet(LAMBDA c : replayed[c].revealed, Succeeded)
    BY DEF SpentIsRecorded, DreamCost, Succeeded
  <2>1. /\ DOMAIN replayed = V \X worlds /\ IsFiniteSet(V) /\ IsFiniteSet(worlds)
        /\ \A v \in V : /\ DOMAIN versions[v].row = worlds
                        /\ \A w \in worlds : /\ versions[v].row[w] = replayed[<<v, w>>]
                                             /\ versions[v].row[w] \in Results
    BY <1>1, FinishedGrid
  <2>2. /\ calls = asked /\ asked <= MaxAttempts * (MaxVersions - 1)
        /\ rejected = asked - (Len(versions) - 1)
    <3>1. TypeOK /\ Counts /\ MaxAttempts * MaxVersions \in Nat
      BY <1>1, DreamingConfig DEF Inv
    <3>2. asked = calls /\ calls = rejected + Len(versions) - 1 /\ Len(versions) \in Nat
          /\ calls <= MaxAttempts * (MaxVersions - 1) /\ rejected \in Nat /\ calls \in Nat
      BY <3>1 DEF TypeOK, Counts
    <3>. QED
      BY <3>2
  <2>3. DreamCost.cells = Cardinality(DOMAIN replayed)
    <3>1. PICK c : c = Cardinality(worlds)
      OBVIOUS
    <3>2. c \in Nat
      BY <2>1, <3>1, FS_CardinalityType
    <3>3. \A v \in V : CellsOf[v] = c
      BY <2>1, <3>1 DEF CellsOf
    <3>4. SumOver(CellsOf, V) = Cardinality(V) * c
      <4>. HIDE DEF V
      <4>. QED
        BY <2>1, <3>2, <3>3, SumEven
    <3>5. Cardinality(V \X worlds) = Cardinality(V) * Cardinality(worlds)
      <4>. HIDE DEF V
      <4>. QED
        BY <2>1, FS_Product
    <3>6. Cardinality(DOMAIN replayed) = Cardinality(V \X worlds)
      BY <2>1, Zenon
    <3>. QED
      BY <3>1, <3>4, <3>5, <3>6, SumsAre
  <2>4. DreamCost.reveals = MapThenSumSet(LAMBDA c : replayed[c].revealed, Succeeded)
    <3>1. \A v \in V : RanOf[v] = Ran(v) /\ RevealsOf[v] = Reveals(v)
      BY DEF RanOf, RevealsOf
    <3>2. \A v \in V : RevealsOf[v] = SumOver(RevealsIn[v], RanOf[v])
      BY <3>1, SumsAre
    <3>3. ASSUME NEW v \in V, NEW w \in Ran(v)
          PROVE  /\ RevealsIn[v][w] = Revealed[<<v, w>>] /\ Revealed[<<v, w>>] \in Int
      <4>1. w \in worlds /\ versions[v].row[w] # Failed
        BY DEF Ran
      <4>2. /\ versions[v].row[w] = replayed[<<v, w>>] /\ versions[v].row[w] \in Replays
            /\ <<v, w>> \in DOMAIN replayed
        BY <2>1, <4>1 DEF Results
      <4>3. replayed[<<v, w>>].revealed \in Nat
        BY <4>2, DreamingConfig
      <4>4. RevealsIn[v][w] = versions[v].row[w].revealed
        BY DEF RevealsIn
      <4>5. Revealed[<<v, w>>] = replayed[<<v, w>>].revealed
        BY <4>2 DEF Revealed
      <4>. QED
        BY <4>2, <4>3, <4>4, <4>5
    <3>4. \A v \in V : RanOf[v] \in SUBSET worlds
      BY <3>1 DEF Ran
    <3>5. Tallies(V, worlds, RanOf, RevealsIn, RevealsOf, Revealed)
      <4>. HIDE DEF V
      <4>. QED
        BY <2>1, <3>1, <3>2, <3>3, <3>4 DEF Tallies
    <3>6. SumOver(RevealsOf, V) = SumOver(Revealed, Parts(V, worlds, RanOf))
      <4>. HIDE DEF V
      <4>. QED
        BY <3>5, SumOfSums
    <3>7. Parts(V, worlds, RanOf) = Succeeded
      <4>1. \A v \in V : \A w \in worlds : w \in Ran(v) <=> replayed[<<v, w>>] # Failed
        BY <2>1 DEF Ran
      <4>2. ASSUME NEW c \in V \X worlds PROVE c[2] \in RanOf[c[1]] <=> replayed[c] # Failed
        <5>1. c = <<c[1], c[2]>> /\ c[1] \in V /\ c[2] \in worlds
          OBVIOUS
        <5>. QED
          BY <3>1, <4>1, <5>1
      <4>. QED
        BY <2>1, <4>2 DEF Parts, Succeeded
    <3>8. SumOver(Revealed, Parts(V, worlds, RanOf)) = SumOver(Revealed, Succeeded)
      <4>. HIDE DEF V
      <4>. QED
        BY <3>7, Zenon
    <3>. QED
      BY <3>6, <3>8, SumsAre
  <2>. QED
    BY <2>2, <2>3, <2>4
<1>. QED
  BY <1>1, InvHolds, PTL
-----------------------------------------------------------------------------
(* What is asked for again.                                                  *)

Modules    == BoundedSeq(Statements, MaxStatements)
Declares   == Names \cup {Unreadable}
Namespaces == [looked : Names, classes : SUBSET Names, others : SUBSET Names]

Name(name, s) == CASE s[1] = "literal"  -> s[2]
                   [] s[1] = "computed" -> Unreadable
                   [] OTHER             -> name
Execute(ns, s) ==
  CASE s[1] \in {"literal", "computed"} -> [ns EXCEPT !.looked = s[2]]
    [] s[1] = "class"    -> [ns EXCEPT !.classes = @ \cup {s[2]}, !.others = @ \ {s[2]}]
    [] s[1] = "callable" -> [ns EXCEPT !.classes = @ \ {s[2]}, !.others = @ \cup {s[2]}]
    [] s[1] = "value"    -> [ns EXCEPT !.classes = @ \ {s[2]}, !.others = @ \ {s[2]}]
    [] OTHER             -> ns
Empty == [looked |-> Default, classes |-> {}, others |-> {}]

\* The names declared, and the namespaces made, by some of a module's statements.
Namings(source) ==
  CHOOSE h : h = [s \in SUBSET (DOMAIN source) |->
                    IF s = {} THEN Default ELSE Name(h[s \ {Max(s)}], source[Max(s)])]
Executions(source) ==
  CHOOSE h : h = [s \in SUBSET (DOMAIN source) |->
                    IF s = {} THEN Empty
                    ELSE Execute(h[s \ {Max(s)}], source[Max(s)])]

LEMMA ModulesAre ==
  ASSUME NEW source \in Modules
  PROVE  /\ IsFiniteSet(DOMAIN source)
         /\ \A s \in SUBSET (DOMAIN source) : s # {} => Max(s) \in s
         /\ \A i \in DOMAIN source : source[i] \in Statements
<1>1. PICK m \in Nat : source \in [1 .. m -> Statements]
  BY DreamingConfig DEF Modules, BoundedSeq, SeqOf
<1>2. DOMAIN source = 1 .. m /\ DOMAIN source \in SUBSET (0 .. m)
  BY <1>1
<1>3. IsFiniteSet(DOMAIN source)
  BY <1>2, Finitely
<1>4. ASSUME NEW s \in SUBSET (DOMAIN source), s # {} PROVE Max(s) \in s
  <2>1. s \in SUBSET (0 .. m)
    BY <1>2
  <2>2. \E x \in s : \A n \in s : n <= x
    BY <1>4, <2>1, Greatest
  <2>3. \A x, n \in s : n <= x <=> x >= n
    BY <2>1
  <2>4. \E x \in s : \A n \in s : x >= n
    BY <2>2, <2>3
  <2>. QED
    BY <2>4 DEF Max
<1>. QED
  BY <1>1, <1>3, <1>4

LEMMA StatementsAre ==
  ASSUME NEW s \in Statements
  PROVE  /\ s[1] \in {"class", "callable", "value", "literal", "computed", "annotation"}
         /\ s[2] \in Names
         /\ s = <<s[1], s[2]>>
BY DEF Statements, Names

LEMMA DeclaredIs ==
  ASSUME NEW source \in Modules
  PROVE  /\ Declared(source) = Namings(source)[DOMAIN source]
         /\ \A s \in SUBSET (DOMAIN source) :
              Namings(source)[s] = IF s = {} THEN Default
                                   ELSE Name(Namings(source)[s \ {Max(s)}], source[Max(s)])
<1>. DEFINE D == DOMAIN source
            ch == [s \in SUBSET D |-> Max(s)]
            G == [p \in D \X Declares |-> Name(p[2], source[p[1]])]
<1>1. \A s \in SUBSET D : s # {} => ch[s] = Max(s) /\ Max(s) \in s
  BY ModulesAre
<1>2. G \in [D \X Declares -> Declares]
  <2>1. \A p \in D \X Declares : Name(p[2], source[p[1]]) \in Declares
    BY ModulesAre, StatementsAre DEF Name, Declares
  <2>. QED
    BY <2>1
<1>3. \E h : h \in [SUBSET D -> Declares] /\ Folds(h, D, Default, ch, G)
  <2>1. Foldable(D, Declares, Default, ch, G)
    <3>1. IsFiniteSet(D) /\ Default \in Declares
      BY ModulesAre DEF Declares, Names
    <3>. HIDE DEF ch, G, D
    <3>. QED
      BY <1>1, <1>2, <3>1 DEF Foldable
  <2>. HIDE DEF ch, G, D
  <2>. QED
    BY <2>1, FoldExists
<1>4. PICK h : h \in [SUBSET D -> Declares] /\ Folds(h, D, Default, ch, G)
  BY <1>3
<1>5. ASSUME NEW s \in SUBSET D
      PROVE  h[s] = IF s = {} THEN Default ELSE Name(h[s \ {Max(s)}], source[Max(s)])
  <2>1. h[s] = IF s = {} THEN Default ELSE G[<<ch[s], h[s \ {ch[s]}]>>]
    BY <1>4 DEF Folds
  <2>2. CASE s = {}
    BY <2>1, <2>2
  <2>3. CASE s # {}
    <3>1. ch[s] = Max(s) /\ Max(s) \in D /\ s \ {Max(s)} \in SUBSET D
      BY <1>1, <2>3
    <3>2. <<Max(s), h[s \ {Max(s)}]>> \in D \X Declares
      BY <1>4, <3>1
    <3>3. G[<<Max(s), h[s \ {Max(s)}]>>] = Name(h[s \ {Max(s)}], source[Max(s)])
      BY <3>2
    <3>4. h[s] = G[<<Max(s), h[s \ {Max(s)}]>>]
      <4>. HIDE DEF ch, G
      <4>. QED
        BY <2>1, <2>3, <3>1
    <3>. QED
      BY <2>3, <3>3, <3>4
  <2>. QED
    BY <2>2, <2>3
<1>6. h = [s \in SUBSET D |-> IF s = {} THEN Default ELSE Name(h[s \ {Max(s)}], source[Max(s)])]
  <2>1. h = [s \in SUBSET D |-> h[s]]
    BY <1>4
  <2>. QED
    BY <1>5, <2>1
<1>7. Namings(source) = [s \in SUBSET D |->
        IF s = {} THEN Default ELSE Name(Namings(source)[s \ {Max(s)}], source[Max(s)])]
  BY <1>6 DEF Namings
<1>8. Declared(source) = Namings(source)[DOMAIN source]
  BY DEF Declared, Namings, Name, FoldLeft, MapThenFoldSet
<1>. QED
  BY <1>7, <1>8
LEMMA ExecutedIs ==
  ASSUME NEW source \in Modules
  PROVE  /\ Executed(source) = Executions(source)[DOMAIN source]
         /\ \A s \in SUBSET (DOMAIN source) :
              /\ Executions(source)[s] \in Namespaces
              /\ Executions(source)[s] = IF s = {} THEN Empty
                                         ELSE Execute(Executions(source)[s \ {Max(s)}], source[Max(s)])
<1>. DEFINE D == DOMAIN source
            ch == [s \in SUBSET D |-> Max(s)]
            G == [p \in D \X Namespaces |-> Execute(p[2], source[p[1]])]
            Base == Empty
<1>1. \A s \in SUBSET D : s # {} => ch[s] = Max(s) /\ Max(s) \in s
  BY ModulesAre
<1>2. G \in [D \X Namespaces -> Namespaces]
  <2>1. ASSUME NEW p \in D \X Namespaces PROVE Execute(p[2], source[p[1]]) \in Namespaces
    <3>1. PICK ns : ns = p[2]
      OBVIOUS
    <3>2. PICK s : s = source[p[1]]
      OBVIOUS
    <3>3. ns \in Namespaces /\ s \in Statements
      BY <3>1, <3>2, ModulesAre
    <3>4. Execute(ns, s) \in Namespaces
      BY <3>3, StatementsAre DEF Execute, Namespaces
    <3>. QED
      BY <3>1, <3>2, <3>4
  <2>. QED
    BY <2>1
<1>3. \E h : h \in [SUBSET D -> Namespaces] /\ Folds(h, D, Base, ch, G)
  <2>1. Foldable(D, Namespaces, Base, ch, G)
    <3>1. IsFiniteSet(D) /\ Base \in Namespaces
      BY ModulesAre DEF Namespaces, Names, Empty
    <3>. HIDE DEF ch, G, D, Base
    <3>. QED
      BY <1>1, <1>2, <3>1 DEF Foldable
  <2>. HIDE DEF ch, G, D, Base
  <2>. QED
    BY <2>1, FoldExists
<1>4. PICK h : h \in [SUBSET D -> Namespaces] /\ Folds(h, D, Base, ch, G)
  BY <1>3
<1>5. ASSUME NEW s \in SUBSET D
      PROVE  h[s] = IF s = {} THEN Base ELSE Execute(h[s \ {Max(s)}], source[Max(s)])
  <2>1. h[s] = IF s = {} THEN Base ELSE G[<<ch[s], h[s \ {ch[s]}]>>]
    BY <1>4 DEF Folds
  <2>2. CASE s = {}
    BY <2>1, <2>2
  <2>3. CASE s # {}
    <3>1. ch[s] = Max(s) /\ Max(s) \in D /\ s \ {Max(s)} \in SUBSET D
      BY <1>1, <2>3
    <3>2. <<Max(s), h[s \ {Max(s)}]>> \in D \X Namespaces
      BY <1>4, <3>1
    <3>3. G[<<Max(s), h[s \ {Max(s)}]>>] = Execute(h[s \ {Max(s)}], source[Max(s)])
      BY <3>2
    <3>4. h[s] = G[<<Max(s), h[s \ {Max(s)}]>>]
      <4>. HIDE DEF ch, G
      <4>. QED
        BY <2>1, <2>3, <3>1
    <3>. QED
      BY <2>3, <3>3, <3>4
  <2>. QED
    BY <2>2, <2>3
<1>6. h = [s \in SUBSET D |-> IF s = {} THEN Base ELSE Execute(h[s \ {Max(s)}], source[Max(s)])]
  <2>1. h = [s \in SUBSET D |-> h[s]]
    BY <1>4
  <2>. QED
    BY <1>5, <2>1
<1>7. Executions(source) = [s \in SUBSET D |->
        IF s = {} THEN Base ELSE Execute(Executions(source)[s \ {Max(s)}], source[Max(s)])]
  BY <1>6 DEF Executions
<1>8. Executed(source) = Executions(source)[DOMAIN source]
  BY DEF Executed, Executions, Execute, Empty, FoldLeft, MapThenFoldSet
<1>9. ASSUME NEW s \in SUBSET D
      PROVE  Executions(source)[s] = IF s = {} THEN Base
                                     ELSE Execute(Executions(source)[s \ {Max(s)}], source[Max(s)])
  BY <1>7
<1>. DEFINE K == {s \in SUBSET D : Executions(source)[s] \in Namespaces}
<1>10. {} \in K
  <2>1. Base \in Namespaces /\ {} \in SUBSET D
    BY DEF Namespaces, Names, Empty
  <2>2. Executions(source)[{}] = Base
    BY <1>9, <2>1
  <2>. QED
    BY <2>1, <2>2
<1>11. ASSUME NEW s \in SUBSET D, s # {}, s \ {ch[s]} \in K PROVE s \in K
  <2>1. Max(s) \in D /\ ch[s] = Max(s)
    BY <1>1, <1>11
  <2>2. PICK ns : ns = Executions(source)[s \ {Max(s)}]
    OBVIOUS
  <2>3. ns \in Namespaces
    BY <1>11, <2>1, <2>2
  <2>4. G[<<Max(s), ns>>] = Execute(ns, source[Max(s)]) /\ G[<<Max(s), ns>>] \in Namespaces
    BY <1>2, <2>1, <2>3
  <2>5. Executions(source)[s] = Execute(ns, source[Max(s)])
    BY <1>9, <1>11, <2>2
  <2>. QED
    BY <2>4, <2>5
<1>12. \A s \in SUBSET D : s \in K
  <2>1. \A s \in SUBSET D : s # {} => ch[s] \in s
    BY <1>1
  <2>2. IsFiniteSet(D)
    BY ModulesAre
  <2>. HIDE DEF K, ch, D
  <2>. QED
    BY <1>10, <1>11, <2>1, <2>2, FoldKeeps
<1>. QED
  BY <1>8, <1>9, <1>12
\* A module's readable name is the one its namespace looks for, and its classes are its own.
LEMMA NamesAgree ==
  ASSUME NEW source \in Modules
  PROVE  /\ Declared(source) # Unreadable => Executed(source).looked = Declared(source)
         /\ \A n \in Executed(source).classes : <<"class", n>> \in ToSet(source)
<1>. DEFINE D == DOMAIN source
            ch == [s \in SUBSET D |-> Max(s)]
            N == Namings(source)
            E == Executions(source)
            K == {s \in SUBSET D : /\ N[s] # Unreadable => E[s].looked = N[s]
                                   /\ \A n \in E[s].classes : <<"class", n>> \in ToSet(source)}
<1>1. \A s \in SUBSET D : s # {} => ch[s] = Max(s) /\ Max(s) \in s
  BY ModulesAre
<1>2. \A s \in SUBSET D :
        /\ N[s] = IF s = {} THEN Default ELSE Name(N[s \ {Max(s)}], source[Max(s)])
        /\ E[s] \in Namespaces
        /\ E[s] = IF s = {} THEN Empty
                  ELSE Execute(E[s \ {Max(s)}], source[Max(s)])
  BY DeclaredIs, ExecutedIs
<1>. HIDE DEF N, E
<1>3. {} \in K
  <2>1. {} \in SUBSET D
    OBVIOUS
  <2>2. N[{}] = Default /\ E[{}] = Empty
    BY <1>2, <2>1
  <2>. QED
    BY <2>1, <2>2 DEF Empty
<1>4. ASSUME NEW s \in SUBSET D, s # {}, s \ {ch[s]} \in K PROVE s \in K
  <2>1. ch[s] = Max(s) /\ Max(s) \in D /\ s \ {Max(s)} \in SUBSET D
    BY <1>1, <1>4
  <2>2. PICK st : st = source[Max(s)]
    OBVIOUS
  <2>3. PICK name : name = N[s \ {Max(s)}]
    OBVIOUS
  <2>4. PICK ns : ns = E[s \ {Max(s)}]
    OBVIOUS
  <2>5. N[s] = Name(name, st) /\ E[s] = Execute(ns, st) /\ ns \in Namespaces
    BY <1>2, <1>4, <2>1, <2>2, <2>3, <2>4
  <2>6. /\ name # Unreadable => ns.looked = name
        /\ \A n \in ns.classes : <<"class", n>> \in ToSet(source)
    BY <1>4, <2>1, <2>3, <2>4
  <2>7. /\ st[1] \in {"class", "callable", "value", "literal", "computed", "annotation"}
        /\ st[2] \in Names /\ st = <<st[1], st[2]>> /\ st \in ToSet(source)
    <3>1. st \in Statements
      BY <2>1, <2>2, ModulesAre
    <3>2. st \in ToSet(source)
      BY <2>1, <2>2 DEF ToSet
    <3>. QED
      BY <3>1, <3>2, StatementsAre
  <2>8. /\ Name(name, st) # Unreadable => Execute(ns, st).looked = Name(name, st)
        /\ \A n \in Execute(ns, st).classes : <<"class", n>> \in ToSet(source)
    <3>1. CASE st[1] = "class"
      <4>1. /\ Name(name, st) = name
            /\ Execute(ns, st) = [ns EXCEPT !.classes = @ \cup {st[2]}, !.others = @ \ {st[2]}]
        BY <3>1 DEF Name, Execute
      <4>2. /\ Execute(ns, st).looked = ns.looked
            /\ Execute(ns, st).classes = ns.classes \cup {st[2]}
        BY <2>5, <4>1 DEF Namespaces
      <4>3. <<"class", st[2]>> \in ToSet(source)
        BY <2>7, <3>1
      <4>. QED
        BY <2>6, <4>1, <4>2, <4>3
    <3>2. CASE st[1] \in {"callable", "value"}
      <4>1. Name(name, st) = name
        BY <3>2 DEF Name
      <4>2. CASE st[1] = "callable"
        <5>1. Execute(ns, st) = [ns EXCEPT !.classes = @ \ {st[2]}, !.others = @ \cup {st[2]}]
          BY <4>2 DEF Execute
        <5>2. /\ Execute(ns, st).looked = ns.looked
              /\ Execute(ns, st).classes = ns.classes \ {st[2]}
          BY <2>5, <5>1 DEF Namespaces
        <5>. QED
          BY <2>6, <4>1, <5>2
      <4>3. CASE st[1] = "value"
        <5>1. Execute(ns, st) = [ns EXCEPT !.classes = @ \ {st[2]}, !.others = @ \ {st[2]}]
          BY <4>3 DEF Execute
        <5>2. /\ Execute(ns, st).looked = ns.looked
              /\ Execute(ns, st).classes = ns.classes \ {st[2]}
          BY <2>5, <5>1 DEF Namespaces
        <5>. QED
          BY <2>6, <4>1, <5>2
      <4>. QED
        BY <3>2, <4>2, <4>3
    <3>3. CASE st[1] = "literal"
      <4>1. Name(name, st) = st[2] /\ Execute(ns, st) = [ns EXCEPT !.looked = st[2]]
        BY <3>3 DEF Name, Execute
      <4>2. Execute(ns, st).looked = st[2] /\ Execute(ns, st).classes = ns.classes
        BY <2>5, <4>1 DEF Namespaces
      <4>. QED
        BY <2>6, <4>1, <4>2
    <3>4. CASE st[1] = "computed"
      <4>1. Name(name, st) = Unreadable /\ Execute(ns, st) = [ns EXCEPT !.looked = st[2]]
        BY <3>4 DEF Name, Execute
      <4>2. Execute(ns, st).classes = ns.classes
        BY <2>5, <4>1 DEF Namespaces
      <4>. QED
        BY <2>6, <4>1, <4>2
    <3>5. CASE st[1] = "annotation"
      <4>1. Name(name, st) = name /\ Execute(ns, st) = ns
        BY <3>5 DEF Name, Execute
      <4>. QED
        BY <2>6, <4>1
    <3>. QED
      BY <2>7, <3>1, <3>2, <3>3, <3>4, <3>5
  <2>. QED
    BY <2>5, <2>8
<1>5. \A s \in SUBSET D : s \in K
  <2>1. \A s \in SUBSET D : s # {} => ch[s] \in s
    BY <1>1
  <2>2. IsFiniteSet(D)
    BY ModulesAre
  <2>. HIDE DEF K, ch, D
  <2>. QED
    BY <1>3, <1>4, <2>1, <2>2, FoldKeeps
<1>6. Declared(source) = N[D] /\ Executed(source) = E[D]
  BY DeclaredIs, ExecutedIs DEF N, E
<1>. QED
  BY <1>5, <1>6

\* Of modules of any length, a refused one the sandbox would load holds something other than
\* a class of the name looked for, and none is taken without a class of the name it declares.
THEOREM RefusalsAreSound == Spec => []RefusalsAreEarned
<1>1. Unjustly = {} /\ Blindly = {}
  <2>1. ASSUME NEW source \in Sources, source # NotPython
        PROVE  source \in Modules
    BY <2>1 DEF Sources, Modules
  <2>2. Unjustly = {}
    <3>. SUFFICES ASSUME NEW source \in Sources, Refused(source), Loads(source),
                         Executed(source).looked \notin Executed(source).others
                  PROVE  FALSE
      BY DEF Unjustly
    <3>1. source # NotPython /\ Executed(source).looked \in Executed(source).classes
      BY DEF Loads
    <3>2. Declared(source) # Unreadable /\ <<"class", Declared(source)>> \notin ToSet(source)
      BY <3>1 DEF Refused
    <3>. QED
      BY <2>1, <3>1, <3>2, NamesAgree
  <2>3. Blindly = {}
    <3>. SUFFICES ASSUME NEW source \in Sources, ~Refused(source), Declared(source) # Unreadable,
                         <<"class", Executed(source).looked>> \notin ToSet(source)
                  PROVE  FALSE
      BY DEF Blindly
    <3>1. source # NotPython /\ <<"class", Declared(source)>> \in ToSet(source)
      BY DEF Refused
    <3>. QED
      BY <2>1, <3>1, NamesAgree
  <2>. QED
    BY <2>2, <2>3
<1>2. RefusalsAreEarned
  BY <1>1 DEF RefusalsAreEarned
<1>. QED
  BY <1>2, PTL
=============================================================================
