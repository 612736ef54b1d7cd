---------------------------- MODULE Sandbox_proofs ----------------------------
(***************************************************************************)
(* Proofs about Sandbox, for any number of requests asked of a policy and  *)
(* of lines its candidate writes.                                          *)
(***************************************************************************)
EXTENDS Sandbox, SequenceTheorems, TLAPS

-----------------------------------------------------------------------------
(* The inductive invariant.                                                  *)

\* Once the child was started, a request was asked.
Asked == pc \in {"sending", "writing", "receiving", "idle"} => asked \in 1 .. MaxRequests

\* Where the child and the directory are at each point of the proxy.
Life ==
  /\ dead => child \in {"none", "gone"}
  /\ pc \in {"raised", "closed"} => child \in {"none", "gone"} /\ home # "whole"
  /\ pc \in {"new", "made", "start"} => child = "none" /\ ~dead /\ op = "init"
  /\ pc = "new" => home = "none"
  /\ pc = "made" => home = "bare"
  /\ pc \in {"sending", "writing", "receiving"} => ~dead

\* Nothing is in the pipes and nothing is being worked on.
Quiet == requests = <<>> /\ responses = <<>> /\ child # "working"

\* At most the request in hand is anywhere between the proxy and the child.
InRequest  == /\ requests = <<[number |-> asked, op |-> op]>>
              /\ responses = <<>> /\ child # "working"
InChild    == /\ requests = <<>> /\ responses = <<>>
              /\ child = "working" /\ taken.number = asked
InResponse == /\ requests = <<>> /\ child # "working"
              /\ \E line \in Lines : line.of = asked /\ responses = <<line>>
OneAsked   == Quiet \/ InRequest \/ InChild \/ InResponse

\* Whoever may ask finds the pipes quiet, and whoever waits has one request out.
Pipes ==
  noise = 0 =>
    /\ pc \in {"new", "made", "start", "sending", "writing"} => Quiet
    /\ pc = "idle" /\ ~dead => Quiet
    /\ pc = "receiving" => OneAsked

IInv == TypeOK /\ Asked /\ Life /\ Pipes /\ OwnAnswers

-----------------------------------------------------------------------------
(* Types.                                                                    *)

\* Every step keeps the types: what is sent, read and answered is of its kind.
LEMMA TypeStep ==
  ASSUME TypeOK, Asked, [Next]_vars
  PROVE  TypeOK'

<1>1. CASE MakeHome
  BY <1>1, SandboxBounds DEF TypeOK, MakeHome, asking, childVars
<1>2. CASE MakeScratch
  BY <1>2, SandboxBounds DEF TypeOK, MakeScratch, asking, childVars
<1>3. CASE ScratchFails
  BY <1>3, SandboxBounds DEF TypeOK, ScratchFails, asking, childVars
<1>4. CASE Spawn
  BY <1>4, SandboxBounds DEF TypeOK, Spawn, asking, childVars
<1>5. CASE SpawnFails
  BY <1>5, SandboxBounds DEF TypeOK, SpawnFails, asking, childVars
<1>6. ASSUME NEW o \in Ops, Ask(o) PROVE TypeOK'
  <2>1. op' \in Ops /\ asked' \in 0 .. MaxRequests /\ pc' = "sending"
    BY <1>6, SandboxBounds DEF TypeOK, Ask
  <2>2. large' \in BOOLEAN /\ late' \in BOOLEAN
    BY <1>6 DEF Ask
  <2>3. UNCHANGED <<dead, plans, home, childVars, got>>
    BY <1>6 DEF Ask
  <2>. QED
    BY <2>1, <2>2, <2>3 DEF TypeOK, childVars
<1>7. CASE Deadline
  BY <1>7, SandboxBounds DEF TypeOK, Deadline, asking, childVars
<1>8. CASE TimeOut
  BY <1>8, SandboxBounds DEF TypeOK, TimeOut, Die, asking, childVars
<1>9. CASE Send \/ EndWrite
  <2>1. Write
    BY <1>9 DEF Send, EndWrite
  <2>2. [number |-> asked, op |-> op] \in Requests
    BY DEF TypeOK, Requests
  <2>3. requests' \in Seq(Requests) /\ pc' = "receiving"
    BY <2>1, <2>2, AppendProperties DEF TypeOK, Write
  <2>4. UNCHANGED <<asking, dead, plans, home, child, taken, responses, noise, got>>
    BY <2>1 DEF Write
  <2>. QED
    BY <2>3, <2>4 DEF TypeOK, asking
<1>20. CASE BeginWrite
  BY <1>20, SandboxBounds DEF TypeOK, BeginWrite, asking, childVars
<1>10. CASE SendFails
  BY <1>10, SandboxBounds DEF TypeOK, SendFails, Die, asking, childVars
<1>11. ASSUME NEW k \in 1 .. Len(responses), ReadLine(k) PROVE TypeOK'
  <2>1. responses' \in Seq(Lines)
    <3>1. \A i \in k + 1 .. Len(responses) : responses[i] \in Lines
      BY <1>11, ElementOfSeq DEF TypeOK
    <3>2. Len(responses) \in Nat
      BY LenProperties DEF TypeOK
    <3>. QED
      BY <1>11, <3>1, <3>2, SubSeqProperties DEF ReadLine
  <2>2. got' \subseteq [to : 1 .. MaxRequests, of : 0 .. MaxRequests]
    <3>1. responses[1] \in Lines
      BY <1>11, ElementOfSeq, LenProperties DEF TypeOK
    <3>2. asked \in 1 .. MaxRequests
      BY <1>11 DEF ReadLine, Asked
    <3>. QED
      BY <1>11, <3>1, <3>2 DEF ReadLine, TypeOK, Lines
  <2>3. plans' \in BOOLEAN
    BY <1>11 DEF ReadLine, TypeOK
  <2>. QED
    BY <1>11, <2>1, <2>2, <2>3 DEF TypeOK, ReadLine, asking
<1>12. CASE ReadUnusable
  BY <1>12, SandboxBounds DEF TypeOK, ReadUnusable, Die, asking, childVars
<1>13. CASE ReadEnd
  BY <1>13, SandboxBounds DEF TypeOK, ReadEnd, Die, asking, childVars
<1>14. CASE Close
  BY <1>14, SandboxBounds DEF TypeOK, Close, asking, childVars
<1>15. CASE Take
  <2>1. Head(requests) \in Requests /\ Tail(requests) \in Seq(Requests)
    BY <1>15, HeadTailProperties DEF Take, TypeOK
  <2>. QED
    BY <1>15, <2>1 DEF TypeOK, Take, asking
<1>16. CASE ChildEnds
  BY <1>16, SandboxBounds DEF TypeOK, ChildEnds, asking, childVars
<1>17. ASSUME NEW kind \in Kinds, Respond(kind) PROVE TypeOK'
  BY <1>17, SandboxBounds DEF TypeOK, Respond, asking, childVars, Lines, Requests
<1>18. ASSUME NEW kind \in Kinds, Babble(kind) PROVE TypeOK'
  BY <1>18, SandboxBounds DEF TypeOK, Babble, asking, childVars, Lines, Requests
<1>19. CASE UNCHANGED vars
  BY <1>19 DEF TypeOK, vars
<1>. QED
  BY <1>1, <1>2, <1>3, <1>4, <1>5, <1>6, <1>7, <1>8, <1>9, <1>10, <1>11, <1>12, <1>13, <1>14, <1>15, <1>16, <1>17, <1>18, <1>19, <1>20 DEF Next

-----------------------------------------------------------------------------
(* The child and the directory.                                              *)

\* The number in hand is one of a request.
LEMMA AskedStep ==
  ASSUME TypeOK, Asked, Life, [Next]_vars
  PROVE  Asked'
<1>1. CASE MakeHome
  BY <1>1 DEF Asked, TypeOK, MakeHome, asking, childVars
<1>2. CASE MakeScratch
  BY <1>2 DEF Asked, TypeOK, MakeScratch, asking, childVars
<1>3. CASE ScratchFails
  BY <1>3 DEF Asked, TypeOK, ScratchFails, asking, childVars
<1>4. CASE Spawn
  BY <1>4, SandboxBounds DEF Asked, TypeOK, Spawn
<1>5. CASE SpawnFails
  BY <1>5 DEF Asked, TypeOK, SpawnFails, asking, childVars
<1>6. ASSUME NEW o \in Ops, Ask(o) PROVE Asked'
  BY <1>6, SandboxBounds DEF Asked, TypeOK, Ask
<1>7. CASE Deadline
  BY <1>7 DEF Asked, TypeOK, Deadline, asking, childVars
<1>8. CASE TimeOut
  BY <1>8 DEF Asked, TypeOK, TimeOut, Die, asking, childVars
<1>9. CASE Send \/ EndWrite
  BY <1>9 DEF Asked, TypeOK, Send, EndWrite, Write, asking, childVars
<1>20. CASE BeginWrite
  BY <1>20 DEF Asked, TypeOK, BeginWrite, asking, childVars
<1>10. CASE SendFails
  BY <1>10 DEF Asked, TypeOK, SendFails, Die, asking, childVars
<1>11. ASSUME NEW k \in 1 .. Len(responses), ReadLine(k) PROVE Asked'
  BY <1>11 DEF Asked, TypeOK, ReadLine, asking, childVars
<1>12. CASE ReadUnusable
  BY <1>12 DEF Asked, TypeOK, ReadUnusable, Die, asking, childVars
<1>13. CASE ReadEnd
  BY <1>13 DEF Asked, TypeOK, ReadEnd, Die, asking, childVars
<1>14. CASE Close
  BY <1>14 DEF Asked, TypeOK, Close, asking, childVars
<1>15. CASE Take
  BY <1>15 DEF Asked, TypeOK, Take, asking, childVars
<1>16. CASE ChildEnds
  BY <1>16 DEF Asked, TypeOK, ChildEnds, asking, childVars
<1>17. ASSUME NEW kind \in Kinds, Respond(kind) PROVE Asked'
  BY <1>17 DEF Asked, TypeOK, Respond, asking, childVars
<1>18. ASSUME NEW kind \in Kinds, Babble(kind) PROVE Asked'
  BY <1>18 DEF Asked, TypeOK, Babble, asking, childVars
<1>19. CASE UNCHANGED vars
  BY <1>19 DEF Asked, TypeOK, vars
<1>. QED
  BY <1>1, <1>2, <1>3, <1>4, <1>5, <1>6, <1>7, <1>8, <1>9, <1>10, <1>11, <1>12, <1>13, <1>14, <1>15, <1>16, <1>17, <1>18, <1>19, <1>20 DEF Next

\* No step gives a dead policy a child, or a closed one its directory back.
LEMMA LifeStep ==
  ASSUME TypeOK, Life, [Next]_vars
  PROVE  Life'
<1>1. CASE MakeHome
  BY <1>1 DEF Life, TypeOK, Running, MakeHome, asking, childVars
<1>2. CASE MakeScratch
  BY <1>2 DEF Life, TypeOK, Running, MakeScratch, asking, childVars
<1>3. CASE ScratchFails
  BY <1>3 DEF Life, TypeOK, Running, ScratchFails, asking, childVars
<1>4. CASE Spawn
  BY <1>4 DEF Life, TypeOK, Running, Spawn, asking, childVars
<1>5. CASE SpawnFails
  BY <1>5 DEF Life, TypeOK, Running, SpawnFails, asking, childVars
<1>6. ASSUME NEW o \in Ops, Ask(o) PROVE Life'
  BY <1>6 DEF Life, TypeOK, Running, Ask, asking, childVars
<1>7. CASE Deadline
  BY <1>7 DEF Life, TypeOK, Running, Deadline, asking, childVars
<1>8. CASE TimeOut
  BY <1>8 DEF Life, TypeOK, Running, TimeOut, Die, asking, childVars
<1>9. CASE Send \/ EndWrite
  BY <1>9 DEF Life, TypeOK, Running, Send, EndWrite, Write, asking, childVars
<1>20. CASE BeginWrite
  BY <1>20 DEF Life, TypeOK, Running, BeginWrite, asking, childVars
<1>10. CASE SendFails
  BY <1>10 DEF Life, TypeOK, Running, SendFails, Die, asking, childVars
<1>11. ASSUME NEW k \in 1 .. Len(responses), ReadLine(k) PROVE Life'
  BY <1>11 DEF Life, TypeOK, Running, ReadLine, asking, childVars
<1>12. CASE ReadUnusable
  BY <1>12 DEF Life, TypeOK, Running, ReadUnusable, Die, asking, childVars
<1>13. CASE ReadEnd
  BY <1>13 DEF Life, TypeOK, Running, ReadEnd, Die, asking, childVars
<1>14. CASE Close
  BY <1>14 DEF Life, TypeOK, Running, Close, asking, childVars
<1>15. CASE Take
  BY <1>15 DEF Life, TypeOK, Running, Take, asking, childVars
<1>16. CASE ChildEnds
  BY <1>16 DEF Life, TypeOK, Running, ChildEnds, asking, childVars
<1>17. ASSUME NEW kind \in Kinds, Respond(kind) PROVE Life'
  BY <1>17 DEF Life, TypeOK, Running, Respond, asking, childVars
<1>18. ASSUME NEW kind \in Kinds, Babble(kind) PROVE Life'
  BY <1>18 DEF Life, TypeOK, Running, Babble, asking, childVars
<1>19. CASE UNCHANGED vars
  BY <1>19 DEF Life, TypeOK, Running, vars
<1>. QED
  BY <1>1, <1>2, <1>3, <1>4, <1>5, <1>6, <1>7, <1>8, <1>9, <1>10, <1>11, <1>12, <1>13, <1>14, <1>15, <1>16, <1>17, <1>18, <1>19, <1>20 DEF Next

-----------------------------------------------------------------------------
(* What is between the proxy and the child.                                  *)

\* Between the proxy and the child there is at most the request in hand.
LEMMA PipesStep ==
  ASSUME TypeOK, Life, Pipes, [Next]_vars
  PROVE  Pipes'
<1>1. CASE MakeHome
  BY <1>1 DEF Pipes, TypeOK, Life, Quiet, MakeHome, asking, childVars
<1>2. CASE MakeScratch
  BY <1>2 DEF Pipes, TypeOK, Life, Quiet, MakeScratch, asking, childVars
<1>3. CASE ScratchFails
  BY <1>3 DEF Pipes, TypeOK, Life, Quiet, ScratchFails, asking, childVars
<1>4. CASE Spawn
  BY <1>4 DEF Pipes, TypeOK, Life, Quiet, Spawn, asking, childVars
<1>5. CASE SpawnFails
  BY <1>5 DEF Pipes, TypeOK, Life, Quiet, SpawnFails, asking, childVars
<1>6. ASSUME NEW o \in Ops, Ask(o) PROVE Pipes'
  BY <1>6 DEF Pipes, TypeOK, Life, Quiet, Ask, asking, childVars
<1>7. CASE Deadline
  BY <1>7 DEF Pipes, Deadline, Running, Quiet, OneAsked, InRequest, InChild, InResponse, asking, childVars
<1>8. CASE TimeOut
  BY <1>8 DEF Pipes, TypeOK, Life, Quiet, TimeOut, Die, asking, childVars
<1>9. CASE Send \/ EndWrite
  <2>1. Write /\ (noise = 0 => Quiet)
    BY <1>9 DEF Pipes, Send, EndWrite
  <2>2. noise = 0 => requests' = <<[number |-> asked, op |-> op]>>
    BY <2>1 DEF Quiet, Write
  <2>. QED
    BY <2>1, <2>2 DEF Pipes, Write, asking, Quiet, OneAsked, InRequest
<1>20. CASE BeginWrite
  BY <1>20 DEF Pipes, Quiet, BeginWrite, asking, childVars
<1>10. CASE SendFails
  BY <1>10 DEF Pipes, TypeOK, Life, Quiet, SendFails, Die, asking, childVars
<1>11. ASSUME NEW k \in 1 .. Len(responses), ReadLine(k) PROVE Pipes'
  <2>1. Len(responses) \in Nat
    BY LenProperties DEF TypeOK
  <2>2. responses # <<>>
    BY <1>11, <2>1
  <2>3. noise = 0 => requests = <<>> /\ child # "working" /\ Len(responses) = 1
    BY <1>11, <2>2 DEF Pipes, ReadLine, OneAsked, Quiet, InRequest, InChild, InResponse
  <2>4. noise = 0 => responses' = <<>>
    <3>1. ASSUME noise = 0 PROVE SubSeq(responses, k + 1, Len(responses)) = <<>>
      <4>1. Len(responses) = 1
        BY <3>1, <2>3
      <4>2. k \in 1 .. 1
        BY <1>11, <4>1
      <4>3. k + 1 = 2
        BY <4>2
      <4>4. SubSeq(responses, 2, 1) = <<>>
        BY SubSeqEmpty
      <4>. QED
        BY <4>1, <4>3, <4>4
    <3>. QED
      BY <1>11, <3>1 DEF ReadLine
  <2>. QED
    BY <1>11, <2>3, <2>4 DEF Pipes, ReadLine, Quiet
<1>12. CASE ReadUnusable
  BY <1>12 DEF Pipes, TypeOK, Life, Quiet, ReadUnusable, Die, asking, childVars
<1>13. CASE ReadEnd
  BY <1>13 DEF Pipes, TypeOK, Life, Quiet, ReadEnd, Die, asking, childVars
<1>14. CASE Close
  BY <1>14 DEF Pipes, TypeOK, Life, Quiet, Close, asking, childVars
<1>15. CASE Take
  <2>1. noise = 0 /\ pc = "receiving" => InRequest
    BY <1>15 DEF Pipes, Take, OneAsked, Quiet, InChild, InResponse
  <2>2. noise = 0 /\ pc = "receiving" => InChild'
    BY <1>15, <2>1 DEF InRequest, InChild, Take, asking
  <2>3. requests # <<>>
    BY <1>15 DEF Take
  <2>. QED
    BY <1>15, <2>2, <2>3 DEF Pipes, Take, Quiet, OneAsked
<1>16. CASE ChildEnds
  BY <1>16 DEF Pipes, ChildEnds, Running, Quiet, OneAsked, InRequest, InChild, InResponse, asking, childVars
<1>17. ASSUME NEW kind \in Kinds, Respond(kind) PROVE Pipes'
  <2>1. noise = 0 /\ pc = "receiving" => InChild
    BY <1>17 DEF Pipes, Respond, OneAsked, Quiet, InRequest, InResponse
  <2>. DEFINE line == [of |-> taken.number, kind |-> kind]
  <2>2. line \in Lines
    BY DEF TypeOK, Requests, Lines
  <2>3. noise = 0 /\ pc = "receiving" => InResponse'
    BY <1>17, <2>1, <2>2 DEF InChild, InResponse, Respond, asking
  <2>. QED
    BY <1>17, <2>3 DEF Pipes, Respond, Quiet, OneAsked
<1>18. ASSUME NEW kind \in Kinds, Babble(kind) PROVE Pipes'
  <2>1. noise \in Nat /\ noise' = noise + 1
    BY <1>18, SandboxBounds DEF Babble, TypeOK
  <2>. QED
    BY <2>1 DEF Pipes
<1>19. CASE UNCHANGED vars
  BY <1>19 DEF Pipes, Quiet, OneAsked, InRequest, InChild, InResponse, vars
<1>. QED
  BY <1>1, <1>2, <1>3, <1>4, <1>5, <1>6, <1>7, <1>8, <1>9, <1>10, <1>11, <1>12, <1>13, <1>14, <1>15, <1>16, <1>17, <1>18, <1>19, <1>20 DEF Next

\* The line that is read answers the request in hand.
LEMMA OwnStep ==
  ASSUME TypeOK, Pipes, OwnAnswers, [Next]_vars
  PROVE  OwnAnswers'
<1>1. ASSUME NEW k \in 1 .. Len(responses), ReadLine(k) PROVE OwnAnswers'
  <2>1. responses # <<>>
    BY LenProperties DEF TypeOK
  <2>2. noise = 0 => InResponse
    BY <1>1, <2>1 DEF Pipes, ReadLine, OneAsked, Quiet, InRequest, InChild
  <2>3. noise = 0 => responses[1].of = asked
    BY <2>2 DEF InResponse
  <2>. QED
    BY <1>1, <2>3 DEF OwnAnswers, ReadLine
<1>2. CASE noise' = noise /\ got' = got
  BY <1>2 DEF OwnAnswers
<1>3. ASSUME NEW kind \in Kinds, Babble(kind) PROVE OwnAnswers'
  BY <1>3 DEF OwnAnswers, Babble, TypeOK
<1>4. CASE UNCHANGED vars
  BY <1>4, <1>2 DEF vars
<1>5. CASE MakeHome \/ MakeScratch \/ ScratchFails \/ Spawn \/ SpawnFails
  BY <1>5, <1>2 DEF MakeHome, MakeScratch, ScratchFails, Spawn, SpawnFails, childVars
<1>6. ASSUME NEW o \in Ops, Ask(o) PROVE OwnAnswers'
  BY <1>6, <1>2 DEF Ask, childVars
<1>7. CASE Deadline \/ TimeOut \/ SendFails \/ ReadUnusable \/ ReadEnd \/ Close
  BY <1>7, <1>2
  DEF Deadline, TimeOut, SendFails, ReadUnusable, ReadEnd, Close, Die, childVars
<1>10. CASE Send \/ BeginWrite \/ EndWrite
  BY <1>10, <1>2 DEF Send, BeginWrite, EndWrite, Write, childVars
<1>8. CASE Take \/ ChildEnds
  BY <1>8, <1>2 DEF Take, ChildEnds
<1>9. ASSUME NEW kind \in Kinds, Respond(kind) PROVE OwnAnswers'
  BY <1>9, <1>2 DEF Respond
<1>. QED
  BY <1>1, <1>3, <1>4, <1>5, <1>6, <1>7, <1>8, <1>9, <1>10 DEF Next

-----------------------------------------------------------------------------
(* The theorems.                                                             *)

\* The inductive invariant holds in every reachable state.
LEMMA Invariant == Spec => []IInv
<1>1. Init => IInv
  <2>1. Init => TypeOK
    <3>1. [number |-> 0, op |-> "init"] \in Requests
      BY SandboxBounds DEF Requests, Ops
    <3>2. <<>> \in Seq(Requests) /\ <<>> \in Seq(Lines)
      BY EmptySeq
    <3>. QED
      <4>1. Init => large \in BOOLEAN /\ late \in BOOLEAN /\ dead \in BOOLEAN
                     /\ plans \in BOOLEAN
        BY DEF Init
      <4>2. Init => pc = "new" /\ op \in Ops /\ asked = 0 /\ noise = 0 /\ got = {}
        BY DEF Init, Ops
      <4>3. Init => home = "none" /\ child = "none" /\ taken \in Requests
                     /\ requests \in Seq(Requests) /\ responses \in Seq(Lines)
        BY <3>1, <3>2 DEF Init
      <4>. QED
        BY SandboxBounds, <4>1, <4>2, <4>3 DEF TypeOK
  <2>2. Init => Asked /\ Life /\ Pipes /\ OwnAnswers
    BY DEF Init, Asked, Life, Pipes, Quiet, OwnAnswers
  <2>. QED
    BY <2>1, <2>2 DEF IInv
<1>2. IInv /\ [Next]_vars => IInv'
  BY TypeStep, AskedStep, LifeStep, PipesStep, OwnStep DEF IInv
<1>. QED
  BY <1>1, <1>2, PTL DEF Spec

\* The variables keep their types, however many requests and lines there are in the pipes.
THEOREM TypeCorrect == Spec => []TypeOK
<1>1. IInv => TypeOK
  BY DEF IInv
<1>. QED
  BY <1>1, Invariant, PTL

\* No child outlives its policy, and no scratch directory a policy that was closed or a
\* constructor that raised (__init__, _die, close).
THEOREM NoneOutlives == Spec => []NothingOutlives
<1>1. IInv => NothingOutlives
  BY DEF IInv, Life, NothingOutlives, Running
<1>. QED
  BY <1>1, Invariant, PTL

\* Unless the candidate writes on the response pipe itself, no answer that was late or came
\* after a failure is returned for another request (_request, _die).
THEOREM AnswersAreOwn == Spec => []OwnAnswers
<1>1. IInv => OwnAnswers
  BY DEF IInv
<1>. QED
  BY <1>1, Invariant, PTL

===============================================================================
