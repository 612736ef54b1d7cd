------------------------------- MODULE Rollout -------------------------------
(***************************************************************************)
(* One online rollout (orchestrator.py: run_rollout): decision rounds in   *)
(* which a policy names a batch of nodes, a pool of W workers runs one     *)
(* attempt per admitted selection, each in a workspace of its own, and the *)
(* round's children are attached in the order their parents were selected. *)
(*                                                                         *)
(* The policy may answer with any sequence of ids.  An attempt's outcome   *)
(* is open; NoProposal is the outcome of an agent that raised, which is    *)
(* recorded as a node without reaching the evaluator.                      *)
(***************************************************************************)
EXTENDS DiscoveryTree, Functions

CONSTANTS
  Workers,      \* config.workers: W
  MaxRounds,    \* config.max_rounds
  MaxNodes,     \* config.max_nodes
  MaxBranches,  \* config.max_branches: the widest grid a policy may plan
  MaxRefinements, \* config.max_refinements: the deepest
  Outcomes,     \* what an evaluated attempt may come to
  NoProposal,   \* what an attempt whose agent raised comes to
  Unknown,      \* what an attempt has come to before it ends
  MaxBatch      \* bound: selections in one batch

ASSUME RolloutConfig ==
  /\ Workers \in Nat \ {0} /\ MaxRounds \in Nat /\ MaxNodes \in Nat /\ MaxBatch \in Nat
  /\ MaxBranches \in Nat \ {0} /\ MaxRefinements \in Nat
  /\ NoProposal \notin Outcomes /\ Unknown \notin Outcomes \cup {NoProposal}

VARIABLES
  plan,         \* the grid the policy planned, or NoPlan
  parent,       \* the tree: the parent of each node, in creation order
  outcome,      \* what each node records
  rounds,       \* the round log
  evaluations,  \* attempts that reached the evaluator
  pc,           \* "plan", "select", "expand", a stop reason, or "raised"
  batch,        \* how many selections the policy made this round
  scheduled,    \* the admitted ones, in order
  slots,        \* the round's attempts: where each is, what it came to and what it captured
  workspaces,   \* the checkouts there are: the attempts whose work is in each, in order
  snapshot,     \* the same of the state each node records
  ran           \* what each attempt came to, by its number in the rollout

vars == <<plan, parent, outcome, rounds, evaluations, pc, batch, scheduled, slots,
          workspaces, snapshot, ran>>
treeVars == <<plan, parent, outcome, rounds, evaluations, snapshot>>

Attempts   == Len(parent)
AllOutcomes == Outcomes \cup {NoProposal}
StopReasons == {"empty_batch", "max_rounds", "max_nodes", "wall_clock"}
\* An attempt waits for a worker, runs in its checkout, has an outcome, and is captured;
\* a store that fails raises out of it instead.
SlotStates == {"queued", "running", "attempted", "captured", "raised"}

\* _plan: a policy without the hook plans no grid, and a grid within the caps is taken.
NoPlan  == [branches |-> 0, refinements |-> 0]
Grids   == [branches : 1 .. MaxBranches, refinements : 0 .. MaxRefinements]
Planned == plan # NoPlan

Init ==
  /\ plan = NoPlan
  /\ parent = <<>> /\ outcome = <<>> /\ rounds = <<>>
  /\ evaluations = 0
  /\ pc = "plan"
  /\ batch = 0 /\ scheduled = <<>> /\ slots = <<>> /\ workspaces = <<>> /\ snapshot = <<>>
  /\ ran = <<>>

-----------------------------------------------------------------------------
(* Choosing a round.                                                         *)

\* _eligible: A(T), narrowed to what the planned grid has room for.
Opened == Cardinality(Children(parent, Root))
Offered ==
  {v \in Eligible(parent) :
     Planned => IF v = Root THEN Opened < plan.branches ELSE Depth(parent, v) <= plan.refinements}

\* _admitted: the root's repeats beyond the branches still to open are dropped.
\* (Seeded defect: nothing is dropped.)
AdmittedAll(s) == s
RootsUpTo(s, i) == Cardinality({j \in 1 .. i : s[j] = Root})
Admitted(s) ==
  LET kept == {i \in DOMAIN s : Planned /\ s[i] = Root => RootsUpTo(s, i) <= plan.branches - Opened}
      rank(i) == Cardinality({j \in kept : j <= i})
  IN  [r \in 1 .. Cardinality(kept) |-> s[CHOOSE i \in kept : rank(i) = r]]

Shortest(a, b) == IF a < b THEN a ELSE b
Truncated(s) == SubSeq(s, 1, Shortest(Len(s), MaxNodes - Attempts))

\* The batches a policy may answer with: any ids, one that no node has included.
Answers == UNION {[1 .. k -> 0 .. Attempts + 1] : k \in 0 .. MaxBatch}

Stop(reason) ==
  /\ pc' = reason
  /\ UNCHANGED <<treeVars, batch, scheduled, slots, workspaces, ran>>

PlanGrid(grid) ==
  /\ pc = "plan" /\ grid \in Grids \cup {NoPlan}
  /\ plan' = grid
  /\ pc' = "select"
  /\ UNCHANGED <<parent, outcome, rounds, evaluations, snapshot, batch, scheduled, slots,
                 workspaces, ran>>
RefuseGrid == pc = "plan" /\ Stop("raised")

StopAtRounds   == pc = "select" /\ Len(rounds) = MaxRounds /\ Stop("max_rounds")
StopAtDeadline == pc = "select" /\ Len(rounds) < MaxRounds /\ Stop("wall_clock")
StopAtNodes    == pc = "select" /\ Len(rounds) < MaxRounds /\ Attempts >= MaxNodes
                    /\ Stop("max_nodes")

MaySelect == pc = "select" /\ Len(rounds) < MaxRounds /\ Attempts < MaxNodes

RefuseBatch(s) == MaySelect /\ ~IsAction(s, Offered) /\ Stop("raised")
StopOnEmpty    == MaySelect /\ Stop("empty_batch")

Select(s) ==
  /\ MaySelect
  /\ s # <<>> /\ IsAction(s, Offered)
  /\ batch' = Len(s)
  /\ scheduled' = Truncated(Admitted(s))
  /\ slots' = [i \in DOMAIN scheduled' |-> [at |-> "queued", outcome |-> Unknown, left |-> <<>>]]
  /\ pc' = "expand"
  /\ UNCHANGED <<treeVars, workspaces, ran>>

-----------------------------------------------------------------------------
(* Running it: _run_attempt on each slot, W at a time, in the pool's order.  *)

InFlight == {i \in DOMAIN slots : slots[i].at \in {"running", "attempted"}}
Queued   == {i \in DOMAIN slots : slots[i].at = "queued"}
Number(i) == Attempts + i    \* the attempt a slot is, and the node it will become

\* A workspace is named for its attempt, and is made from what the parent recorded.
Base(i) == IF scheduled[i] = Root THEN <<>> ELSE snapshot[scheduled[i]]

Without(name)     == [n \in DOMAIN workspaces \ {name} |-> workspaces[n]]
Holding(name, ws) == [n \in DOMAIN workspaces \cup {name} |-> IF n = name THEN ws ELSE workspaces[n]]

\* A worker takes the first attempt still queued, and checks its workspace out.
Start(i) ==
  /\ pc = "expand"
  /\ i \in Queued /\ \A j \in Queued : i <= j
  /\ Cardinality(InFlight) < Workers
  /\ slots' = [slots EXCEPT ![i].at = "running"]
  /\ workspaces' = Holding(Number(i), Base(i))
  /\ UNCHANGED <<treeVars, pc, batch, scheduled, ran>>

\* _attempt: the agent proposes and the evaluator scores, or the agent raises; whatever
\* comes back, it has worked in its workspace.
Attempt(i, result) ==
  /\ pc = "expand" /\ slots[i].at = "running"
  /\ slots' = [slots EXCEPT ![i].at = "attempted", ![i].outcome = result]
  /\ workspaces' = Holding(Number(i), Append(workspaces[Number(i)], Number(i)))
  /\ ran' = [n \in DOMAIN ran \cup {Number(i)} |-> IF n = Number(i) THEN result ELSE ran[n]]
  /\ UNCHANGED <<treeVars, pc, batch, scheduled>>

\* The state it left is captured, whatever it came to, and its workspace removed.
Capture(i) ==
  /\ pc = "expand" /\ slots[i].at = "attempted"
  /\ slots' = [slots EXCEPT ![i].at = "captured", ![i].left = workspaces[Number(i)]]
  /\ workspaces' = Without(Number(i))
  /\ UNCHANGED <<treeVars, pc, batch, scheduled, ran>>

\* A store that cannot check out or capture raises out of the attempt.  (workspaces holds
\* the checkouts made whole: what one that fails half way has copied is not removed, and
\* stays under a name this rollout gives no other attempt.)
StoreFails(i) ==
  /\ pc = "expand" /\ slots[i].at \in {"running", "attempted"}
  /\ slots' = [slots EXCEPT ![i].at = "raised"]
  /\ workspaces' = Without(Number(i))
  /\ UNCHANGED <<treeVars, pc, batch, scheduled, ran>>

\* pool.map yields results in submission order, so the first error met that way is the
\* one that leaves; the executor waits for what is in flight and cancels what is queued.
\* (Seeded defect: only the first result's error leaves.)
RaiseOutFirst ==
  /\ pc = "expand" /\ InFlight = {}
  /\ slots[1].at = "raised"
  /\ Stop("raised")
RaiseOut ==
  /\ pc = "expand" /\ InFlight = {}
  /\ \E i \in DOMAIN slots : /\ slots[i].at = "raised"
                             /\ \A j \in 1 .. i - 1 : slots[j].at = "captured"
  /\ Stop("raised")

\* Every result is in: the children are attached in the order of the selections.
Produced == [i \in DOMAIN scheduled |-> Number(i)]
\* (Seeded defect: results are taken as attempts end.)
AttachAsEnded ==
  /\ pc = "expand" /\ \A i \in DOMAIN slots : slots[i].at = "captured"
  /\ UNCHANGED plan
  /\ parent' = parent \o scheduled
  /\ \E ended \in Bijection(DOMAIN slots, DOMAIN slots) :
       outcome' = outcome \o [i \in DOMAIN slots |-> slots[ended[i]].outcome]
  /\ evaluations' = evaluations
       + Cardinality({i \in DOMAIN slots : slots[i].outcome # NoProposal})
  /\ rounds' = Append(rounds, [k |-> batch, selected |-> scheduled, produced |-> Produced])
  /\ pc' = "select"
  /\ snapshot' = snapshot \o [i \in DOMAIN slots |-> slots[i].left]
  /\ batch' = 0 /\ scheduled' = <<>> /\ slots' = <<>>
  /\ UNCHANGED <<workspaces, ran>>
Attach ==
  /\ pc = "expand" /\ \A i \in DOMAIN slots : slots[i].at = "captured"
  /\ UNCHANGED plan
  /\ parent' = parent \o scheduled
  /\ outcome' = outcome \o [i \in DOMAIN slots |-> slots[i].outcome]
  /\ evaluations' = evaluations
       + Cardinality({i \in DOMAIN slots : slots[i].outcome # NoProposal})
  /\ rounds' = Append(rounds, [k |-> batch, selected |-> scheduled, produced |-> Produced])
  /\ pc' = "select"
  /\ snapshot' = snapshot \o [i \in DOMAIN slots |-> slots[i].left]
  /\ batch' = 0 /\ scheduled' = <<>> /\ slots' = <<>>
  /\ UNCHANGED <<workspaces, ran>>

\* Rollout.cost: a call for each attempt recorded, whatever came back from it.
OnlineCost == [agent_calls |-> Attempts, evaluations |-> evaluations]

-----------------------------------------------------------------------------
Worker ==
  \E i \in DOMAIN slots :
    \/ Start(i) \/ Capture(i) \/ StoreFails(i)
    \/ \E result \in AllOutcomes : Attempt(i, result)

Runner ==
  \/ RefuseGrid \/ \E grid \in Grids \cup {NoPlan} : PlanGrid(grid)
  \/ StopAtRounds \/ StopAtDeadline \/ StopAtNodes \/ StopOnEmpty
  \/ \E s \in Answers : RefuseBatch(s) \/ Select(s)
  \/ RaiseOut \/ Attach

Next == Runner \/ Worker

Spec == Init /\ [][Next]_vars

\* The loop runs on, and every attempt ends: an adapter's call has a deadline of its own.
\* The two that may not end in spite of it are left to Command (OpensPipe) and Sandbox.
FairSpec == Spec /\ WF_vars(Runner) /\ WF_vars(Worker)

-----------------------------------------------------------------------------
(* Properties.                                                               *)

Ended == pc \in StopReasons \cup {"raised"}

\* The type invariant.
TypeOK ==
  /\ plan \in Grids \cup {NoPlan}
  /\ IsTree(parent)
  /\ outcome \in Seq(AllOutcomes) /\ Len(outcome) = Len(parent)
  /\ evaluations \in 0 .. Attempts
  /\ pc \in {"plan", "select", "expand", "raised"} \cup StopReasons
  /\ batch \in 0 .. MaxBatch
  /\ scheduled \in Seq(Nodes(parent)) /\ Len(slots) = Len(scheduled)
  /\ slots \in Seq([at : SlotStates, outcome : AllOutcomes \cup {Unknown}, left : Seq(Nat)])
  /\ Len(snapshot) = Len(parent) /\ \A n \in DOMAIN snapshot : snapshot[n] \in Seq(1 .. n)
  /\ \A n \in DOMAIN workspaces : workspaces[n] \in Seq(Nat)
  /\ \A n \in DOMAIN ran : ran[n] \in AllOutcomes
  /\ \A r \in DOMAIN rounds : Len(rounds[r].selected) = Len(rounds[r].produced)

\* However the workers interleave, node n records what attempt n came to, under the
\* parent selected for it ("attached in the order the policy selected their parents"), and
\* the state of that parent with its own work and nobody else's; and a rollout that returns
\* its tree charges every attempt that ran once, and an evaluation for each whose agent
\* did not raise (cost.py OnlineCost).
NodeIsItsAttempt ==
  /\ \A n \in DOMAIN parent :
       /\ n \in DOMAIN ran /\ outcome[n] = ran[n]
       /\ snapshot[n] = Append(IF parent[n] = Root THEN <<>> ELSE snapshot[parent[n]], n)
  /\ \A r \in DOMAIN rounds : \A i \in DOMAIN rounds[r].selected :
       parent[rounds[r].produced[i]] = rounds[r].selected[i]
  /\ pc \in StopReasons => workspaces = <<>> /\
       OnlineCost = [agent_calls |-> Cardinality(DOMAIN ran),
                     evaluations |-> Cardinality({n \in DOMAIN ran : ran[n] # NoProposal})]

\* What is recorded can be replayed and is within bounds, whatever the policy asks for: no
\* node but the root ever gets a second child (_check_batch: issue #31); and counting the
\* round in hand there are never more attempts than MaxNodes, never more branches than
\* planned, and none deeper than its first attempt and the planned refinements.
RecordingIsLegal ==
  /\ OnlyRootBranches(parent)
  /\ Attempts + Len(scheduled) <= MaxNodes
  /\ Planned => /\ Opened + Cardinality({i \in DOMAIN scheduled : scheduled[i] = Root})
                     <= plan.branches
                /\ \A n \in DOMAIN parent : Depth(parent, n) <= plan.refinements + 1

\* A rollout always comes to a stop reason, or raises.
Stops == <>Ended

=============================================================================
