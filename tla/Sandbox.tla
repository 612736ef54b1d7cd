------------------------------- MODULE Sandbox -------------------------------
(***************************************************************************)
(* One candidate policy taken in a child process (sandbox.py               *)
(* SandboxedPolicy, _sandbox_child.py): the proxy in the harness writes a  *)
(* request on one pipe and waits for the first line on another, under one  *)
(* deadline for both; the child answers one line per request.  The child   *)
(* holds code a model wrote: it may answer late or never, end at any       *)
(* moment, stop reading, or write on the response pipe itself.             *)
(*                                                                         *)
(* A line is known by the request it answers, 0 for one the candidate      *)
(* wrote itself, and by what the proxy can make of it.                     *)
(***************************************************************************)
EXTENDS Integers, Sequences

CONSTANTS
  MaxRequests,  \* bound: requests asked of one policy, the constructor's included
  MaxNoise      \* bound: lines the candidate writes on the response pipe itself

ASSUME SandboxBounds == MaxRequests \in Nat \ {0} /\ MaxNoise \in Nat

VARIABLES
  pc,         \* the proxy: "new", "made", "start", "idle", "sending" (about to write),
              \* "writing" (in the write), "receiving", "raised" (its constructor did), "closed"
  op,         \* the operation asked for last
  asked,      \* requests so far: the number of the one in hand
  large,      \* the request does not fit what is free of the pipe
  late,       \* the deadline of the request has passed
  dead,       \* _dead is set
  plans,      \* _plans
  home,       \* its directory: "none", "bare" (without scratch), "whole"
  child,      \* "none", "waiting" for a request, "working", or "gone"
  taken,      \* the request the child read last
  requests,   \* requests in the request pipe
  responses,  \* lines in the response pipe
  noise,      \* lines the candidate wrote itself
  got         \* what was returned: the request asked, and the one the line answered

vars == <<pc, op, asked, large, late, dead, plans, home, child, taken,
          requests, responses, noise, got>>
childVars == <<child, taken, requests, responses, noise>>
asking    == <<op, asked, large, late>>

-----------------------------------------------------------------------------
(* What crosses the pipes.                                                   *)

Ops   == {"init", "reset", "select", "plan_grid"}
Kinds == {"bare", "plans", "batch", "plan", "error", "unreadable"}
Lines == [of : 0 .. MaxRequests, kind : Kinds]
Requests == [number : 0 .. MaxRequests, op : Ops]

\* _Session.handle: what the child's own loop writes for an operation.
Handled(o) ==
  {"error"} \cup CASE o = "init"      -> {"bare", "plans"}
                   [] o = "reset"     -> {"bare"}
                   [] o = "select"    -> {"batch"}
                   [] o = "plan_grid" -> {"plan"}

\* What _request, select and _plan_grid accept of an answer.
Usable(o, kind) ==
  /\ kind \notin {"error", "unreadable"}
  /\ o = "select" => kind = "batch"
  /\ o = "plan_grid" => kind = "plan"

-----------------------------------------------------------------------------
(* The constructor.                                                          *)

Init ==
  /\ pc = "new" /\ op = "init" /\ asked = 0 /\ large = FALSE /\ late = FALSE
  /\ dead = FALSE /\ plans = FALSE /\ home = "none"
  /\ child = "none" /\ taken = [number |-> 0, op |-> "init"] /\ requests = <<>> /\ responses = <<>> /\ noise = 0
  /\ got = {}

MakeHome ==
  /\ pc = "new"
  /\ home' = "bare" /\ pc' = "made"
  /\ UNCHANGED <<asking, dead, plans, childVars, got>>

MakeScratch ==
  /\ pc = "made"
  /\ home' = "whole" /\ pc' = "start"
  /\ UNCHANGED <<asking, dead, plans, childVars, got>>

\* Before the try block: nothing removes the directory that was made.
ScratchFails ==
  /\ pc = "made"
  /\ pc' = "raised"
  /\ UNCHANGED <<asking, dead, plans, home, childVars, got>>

\* _start and the finalizer, then the init request.
Spawn ==
  /\ pc = "start"
  /\ child' = "waiting"
  /\ asked' = 1 /\ pc' = "sending"
  /\ large' \in BOOLEAN
  /\ UNCHANGED <<op, late, dead, plans, home, taken, requests, responses, noise, got>>

\* close without a finalizer.
SpawnFails ==
  /\ pc = "start"
  /\ dead' = TRUE /\ home' = "none" /\ pc' = "raised"
  /\ UNCHANGED <<asking, plans, childVars, got>>

-----------------------------------------------------------------------------
(* A request.                                                                *)

\* plan_grid is offered only for a candidate that wrote one (__getattr__).  A dead policy
\* raises at once and asks nothing.
Ask(o) ==
  /\ pc = "idle" /\ ~dead /\ asked < MaxRequests
  /\ o \in Ops \ {"init"} /\ (o = "plan_grid" => plans)
  /\ op' = o /\ asked' = asked + 1 /\ late' = FALSE
  /\ large' \in BOOLEAN
  /\ pc' = "sending"
  /\ UNCHANGED <<dead, plans, home, childVars, got>>

InHand == pc \in {"sending", "writing", "receiving"}

Deadline ==
  /\ InHand /\ ~late
  /\ late' = TRUE
  /\ UNCHANGED <<pc, op, asked, large, dead, plans, home, childVars, got>>

\* (Seeded defect: a failed request raises and leaves the child running.)
DieUnreaped ==
  /\ dead' = TRUE
  /\ pc' = IF op = "init" THEN "raised" ELSE "idle"
  /\ UNCHANGED <<asking, plans, home, childVars, got>>
\* _die; and in the constructor, close as well.
Die ==
  /\ dead' = TRUE
  /\ child' = "gone"
  /\ pc' = IF op = "init" THEN "raised" ELSE "idle"
  /\ home' = IF op = "init" THEN "none" ELSE home
  /\ UNCHANGED <<asking, plans, taken, requests, responses, noise, got>>

\* (Seeded defect: the deadline is the sending's only.)
TimeOutSending == pc = "sending" /\ late /\ Die
\* (Seeded defect: a late answer fails its request, and the policy is used again.)
TimeOutAndGoOn ==
  /\ pc \in {"sending", "receiving"} /\ late
  /\ pc' = IF op = "init" THEN "raised" ELSE "idle"
  /\ UNCHANGED <<asking, dead, plans, home, childVars, got>>
\* _wait: one deadline, looked at before each write and each read, and never in one.
TimeOut == pc \in {"sending", "receiving"} /\ late /\ Die

\* _send: once the pipe has room for anything, the whole line is given to one os.write.
Write ==
  /\ requests' = Append(requests, [number |-> asked, op |-> op])
  /\ pc' = "receiving"
  /\ UNCHANGED <<asking, dead, plans, home, child, taken, responses, noise, got>>

Send == pc = "sending" /\ ~late /\ ~large /\ child # "gone" /\ Write

\* The pipe blocks: a line that does not fit is in the write, whatever time it is, until the
\* child has come to read it.
BeginWrite ==
  /\ pc = "sending" /\ ~late /\ large /\ child # "gone"
  /\ pc' = "writing"
  /\ UNCHANGED <<asking, dead, plans, home, childVars, got>>

Reading  == child = "waiting" /\ requests = <<>>
EndWrite == pc = "writing" /\ Reading /\ Write

SendFails ==
  /\ child = "gone"
  /\ \/ pc = "sending" /\ ~late
     \/ pc = "writing"
  /\ Die

\* _receive: the first line of what was read counts; the others read with it are dropped,
\* and those not read yet stay in the pipe.
ReadLine(k) ==
  /\ pc = "receiving" /\ ~late /\ k \in 1 .. Len(responses)
  /\ Usable(op, responses[1].kind)
  /\ got' = got \cup {[to |-> asked, of |-> responses[1].of]}
  /\ plans' = IF op = "init" THEN responses[1].kind = "plans" ELSE plans
  /\ responses' = SubSeq(responses, k + 1, Len(responses))
  /\ pc' = "idle"
  /\ UNCHANGED <<asking, dead, home, child, taken, requests, noise>>

ReadUnusable ==
  /\ pc = "receiving" /\ ~late /\ responses # <<>>
  /\ ~Usable(op, responses[1].kind)
  /\ Die

ReadEnd == pc = "receiving" /\ ~late /\ responses = <<>> /\ child = "gone" /\ Die

\* close and _reap.
Close ==
  /\ pc = "idle"
  /\ dead' = TRUE /\ child' = "gone" /\ home' = "none" /\ pc' = "closed"
  /\ UNCHANGED <<asking, plans, taken, requests, responses, noise, got>>

Proxy ==
  \/ MakeHome \/ MakeScratch \/ ScratchFails \/ Spawn \/ SpawnFails
  \/ TimeOut \/ Send \/ BeginWrite \/ EndWrite \/ SendFails \/ ReadUnusable \/ ReadEnd
  \/ \E k \in 1 .. Len(responses) : ReadLine(k)

-----------------------------------------------------------------------------
(* The child.                                                                *)

Running == child \in {"waiting", "working"}

\* main: the next request.
Take ==
  /\ child = "waiting" /\ requests # <<>>
  /\ taken' = Head(requests) /\ requests' = Tail(requests)
  /\ child' = "working"
  /\ UNCHANGED <<pc, asking, dead, plans, home, responses, noise, got>>

\* main: what handle returned, or the exception it raised.
Respond(kind) ==
  /\ child = "working" /\ kind \in Handled(taken.op)
  /\ responses' = Append(responses, [of |-> taken.number, kind |-> kind])
  /\ child' = "waiting"
  /\ UNCHANGED <<pc, asking, dead, plans, home, taken, requests, noise, got>>

\* The candidate writes a line on the descriptor itself.
Babble(kind) ==
  /\ child = "working" /\ noise < MaxNoise
  /\ responses' = Append(responses, [of |-> 0, kind |-> kind])
  /\ noise' = noise + 1
  /\ UNCHANGED <<pc, asking, dead, plans, home, child, taken, requests, got>>

\* The candidate exits, or one of its limits kills it.
ChildEnds ==
  /\ Running
  /\ child' = "gone"
  /\ UNCHANGED <<pc, asking, dead, plans, home, taken, requests, responses, noise, got>>

Next ==
  \/ MakeHome \/ MakeScratch \/ ScratchFails \/ Spawn \/ SpawnFails
  \/ \E o \in Ops : Ask(o)
  \/ Deadline \/ TimeOut \/ Send \/ BeginWrite \/ EndWrite \/ SendFails
  \/ \E k \in 1 .. Len(responses) : ReadLine(k)
  \/ ReadUnusable \/ ReadEnd \/ Close
  \/ Take \/ ChildEnds
  \/ \E kind \in Kinds : Respond(kind) \/ Babble(kind)

Spec == Init /\ [][Next]_vars

\* The proxy runs and time passes; nothing is assumed of the child.
FairSpec == Spec /\ WF_vars(Proxy) /\ WF_vars(Deadline)

-----------------------------------------------------------------------------
(* Properties.                                                               *)

\* The type invariant.
TypeOK ==
  /\ pc \in {"new", "made", "start", "idle", "sending", "writing", "receiving",
            "raised", "closed"}
  /\ op \in Ops /\ asked \in 0 .. MaxRequests
  /\ large \in BOOLEAN /\ late \in BOOLEAN /\ dead \in BOOLEAN /\ plans \in BOOLEAN
  /\ home \in {"none", "bare", "whole"}
  /\ child \in {"none", "waiting", "working", "gone"}
  /\ taken \in Requests
  /\ requests \in Seq(Requests)
  /\ responses \in Seq(Lines)
  /\ noise \in 0 .. MaxNoise
  /\ got \subseteq [to : 1 .. MaxRequests, of : 0 .. MaxRequests]

\* Unless the candidate writes on the response pipe itself, every answer is the answer to
\* the request it is returned for: none that came too late, or after a failure, is ever
\* taken for the answer to a later request (_request, _die).
OwnAnswers == noise = 0 => \A a \in got : a.of = a.to

\* No child outlives the policy that failed or was closed, and a constructor that raised
\* or a policy that was closed leaves no scratch directory (__init__, _die, close).
NothingOutlives ==
  /\ dead => ~Running
  /\ pc \in {"raised", "closed"} => ~Running /\ home # "whole"

\* Every request ends, whatever the child does (hang, answer late, flood the pipe or exit),
\* by its deadline if by nothing else (_wait: "the hard wall-clock timeout"), unless it stays
\* in the write of a large line to a child that lives and never again reads: the one wait
\* the deadline does not reach, against what _send promises ("without letting a child that
\* stopped reading block us").
StuckInWrite == pc = "writing" /\ Running /\ ~Reading
RequestsEnd == InHand ~> (~InHand \/ []StuckInWrite)

=============================================================================
