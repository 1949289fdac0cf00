------------------------ MODULE CommandRunnerProofs ------------------------
(***************************************************************************)
(* Proofs about CommandRunner, for every family of processes, pipe         *)
(* capacity and length of output: the call answers as CommandCall promises *)
(* its caller, and what the promise rests on.                              *)
(***************************************************************************)
EXTENDS CommandRunner, TLAPS

USE RunnerAssumption DEF RunnerAssumption

Finished == {"ended", "gaveup", "cut"}

----------------------------------------------------------------------------
(***************************************************************************)
(* The inductive invariant.  CompleteOutput and NothingLeftBehind speak of *)
(* the state after the return; they hold because of what the goroutines    *)
(* knew when they reported (DrainsKnow, WaitKnows), because nothing a      *)
(* process does later can undo it (NoneHolds, KillLasts), and because a    *)
(* call that never launched the helper has no family at all (Unlaunched).  *)
(***************************************************************************)
Unlaunched ==
  /\ status[Leader] = "none" =>
       /\ pc # "loop" /\ noticed = "none" /\ ~waited /\ ~closed
       /\ drained = {} /\ exit = "none"
       /\ \A w \in Family : status[w] = "none"
       /\ \A s \in Streams :
            drain[s] = "off" /\ written[s] = 0 /\ delivered[s] = 0 /\ ~long[s]
  /\ status[Leader] # "none" =>
       /\ pc \in {"loop", "returned"}
       /\ \A s \in Streams : drain[s] # "off"

Roles ==
  /\ status[Leader] # "escaped"
  /\ status[Leader] = "helper" => holds[Leader] = Streams
  /\ \A k \in Kin : status[k] \notin {"helper", "zombie"}

NoneHolds ==
  \A w \in Family : status[w] \in {"none", "zombie", "dead"} => holds[w] = {}

DrainsKnow ==
  /\ \A s \in drained : drain[s] \in Finished
  /\ \A s \in Streams :
       drain[s] = "ended" =>
         /\ delivered[s] = written[s] /\ ~long[s]
         /\ \A w \in Family : s \notin holds[w]

WaitKnows == waited => status[Leader] = "dead"

KillLasts ==
  noticed # "none" =>
    closed /\ \A w \in Family : status[w] \notin {"helper", "group"}

AnswerKnows ==
  /\ pc = "begin" => cause # "timeout"
  /\ answer = "none" <=> pc # "returned"
  /\ (pc = "returned" /\ status[Leader] # "none") =>
       waited /\ drained = Streams /\ closed
  /\ answer = "ok" =>
       status[Leader] # "none" /\ \A s \in Streams : drain[s] = "ended"
  /\ answer \in {"timeout", "canceled"} =>
       status[Leader] = "none" \/ noticed # "none"

IndInv ==
  /\ TypeOK /\ Unlaunched /\ Roles /\ NoneHolds
  /\ DrainsKnow /\ WaitKnows /\ KillLasts /\ AnswerKnows

----------------------------------------------------------------------------
\* The steps of the runner, then those of the family, one lemma for each.
LEMMA BeginInv ==
  ASSUME IndInv, Begin
  PROVE  IndInv'
<1>1. TypeOK'
  BY DEF IndInv, TypeOK, Begin, Give, family, output
<1>2. Unlaunched'
  BY DEF IndInv, Unlaunched, Begin, Give, family, output
<1>3. AnswerKnows'
  BY DEF IndInv, TypeOK, Unlaunched, AnswerKnows, Begin, Give, family
<1>4. (Roles /\ NoneHolds /\ DrainsKnow /\ WaitKnows /\ KillLasts)'
  BY DEF IndInv, Roles, NoneHolds, DrainsKnow, WaitKnows, KillLasts, Begin,
     family, output
<1> QED
  BY <1>1, <1>2, <1>3, <1>4 DEF IndInv

LEMMA WritePayloadInv ==
  ASSUME IndInv, WritePayload
  PROVE  IndInv'
<1>1. TypeOK'
  BY DEF IndInv, TypeOK, WritePayload, family, output
<1>2. Unlaunched'
  BY DEF IndInv, Unlaunched, WritePayload, family, output
<1>3. AnswerKnows'
  BY DEF IndInv, AnswerKnows, WritePayload
<1>4. (Roles /\ NoneHolds /\ DrainsKnow /\ WaitKnows /\ KillLasts)'
  BY DEF IndInv, Roles, NoneHolds, DrainsKnow, WaitKnows, KillLasts,
     WritePayload, family, output
<1> QED
  BY <1>1, <1>2, <1>3, <1>4 DEF IndInv

LEMMA StartInv ==
  ASSUME IndInv, Start
  PROVE  IndInv'
<1>1. TypeOK'
  BY DEF IndInv, TypeOK, Live, Start, Give, output
<1>2. Unlaunched'
  BY DEF IndInv, TypeOK, Unlaunched, Start, Give, Family, output
<1>3. Roles'
  BY DEF IndInv, TypeOK, Roles, Start, Family
<1>4. NoneHolds'
  BY DEF IndInv, TypeOK, NoneHolds, Start
<1>5. DrainsKnow'
  BY DEF IndInv, Unlaunched, DrainsKnow, Start
<1>6. WaitKnows'
  BY DEF IndInv, Unlaunched, WaitKnows, Start
<1>7. KillLasts'
  BY DEF IndInv, Unlaunched, KillLasts, Start
<1>8. AnswerKnows'
  BY DEF IndInv, Unlaunched, AnswerKnows, Start, Give
<1> QED
  BY <1>1, <1>2, <1>3, <1>4, <1>5, <1>6, <1>7, <1>8 DEF IndInv

LEMMA TakeWaitInv ==
  ASSUME IndInv, TakeWait
  PROVE  IndInv'
<1>1. TypeOK'
  BY DEF IndInv, TypeOK, TakeWait, family, output
<1>2. Unlaunched'
  BY DEF IndInv, Unlaunched, TakeWait, family
<1>3. WaitKnows'
  BY DEF WaitKnows, TakeWait, family
<1>4. AnswerKnows'
  BY DEF IndInv, AnswerKnows, TakeWait
<1>5. (Roles /\ NoneHolds /\ DrainsKnow /\ KillLasts)'
  BY DEF IndInv, Roles, NoneHolds, DrainsKnow, KillLasts, TakeWait, family,
     output
<1> QED
  BY <1>1, <1>2, <1>3, <1>4, <1>5 DEF IndInv

LEMMA TakeDrainInv ==
  ASSUME IndInv, NEW s \in Streams, TakeDrain(s)
  PROVE  IndInv'
<1>1. TypeOK'
  BY DEF IndInv, TypeOK, TakeDrain, family, output
<1>2. Unlaunched'
  BY DEF IndInv, Unlaunched, TakeDrain, family
<1>3. DrainsKnow'
  BY DEF IndInv, DrainsKnow, TakeDrain, Finished, family, output
<1>4. AnswerKnows'
  BY DEF IndInv, AnswerKnows, TakeDrain
<1>5. (Roles /\ NoneHolds /\ WaitKnows /\ KillLasts)'
  BY DEF IndInv, Roles, NoneHolds, WaitKnows, KillLasts, TakeDrain, family
<1> QED
  BY <1>1, <1>2, <1>3, <1>4, <1>5 DEF IndInv

\* The kill reaches the whole group at once, and closes what it wrote to.
LEMMA TakeCtxInv ==
  ASSUME IndInv, TakeCtx
  PROVE  IndInv'
<1>1. TypeOK'
  BY DEF IndInv, TypeOK, TakeCtx, KillGroup, ClosePipes, output
<1>2. Unlaunched'
  BY DEF IndInv, Unlaunched, TakeCtx, KillGroup, Family
<1>3. Roles'
  BY DEF IndInv, Roles, TakeCtx, KillGroup, Family
<1>4. NoneHolds'
  BY DEF IndInv, NoneHolds, TakeCtx, KillGroup
<1>5. DrainsKnow'
  BY DEF IndInv, DrainsKnow, TakeCtx, KillGroup, output
<1>6. WaitKnows'
  BY DEF IndInv, WaitKnows, TakeCtx, KillGroup, Group, InGroup, Family
<1>7. KillLasts'
  BY DEF KillLasts, TakeCtx, KillGroup, ClosePipes, Group, InGroup
<1>8. AnswerKnows'
  BY DEF IndInv, AnswerKnows, TakeCtx
<1> QED
  BY <1>1, <1>2, <1>3, <1>4, <1>5, <1>6, <1>7, <1>8 DEF IndInv

LEMMA ReturnInv ==
  ASSUME IndInv, Return
  PROVE  IndInv'
<1>1. TypeOK'
  BY DEF IndInv, TypeOK, Return, Give, Answer, family, output
<1>2. Unlaunched'
  BY DEF IndInv, Unlaunched, Return, Give, family
<1>3. KillLasts'
  BY DEF IndInv, KillLasts, Return, family
<1>4. AnswerKnows'
  BY DEF IndInv, TypeOK, DrainsKnow, WaitKnows, AnswerKnows, Return, Give,
     Answer, DrainFailed, Collected, Finished, family
<1>5. (Roles /\ NoneHolds /\ DrainsKnow /\ WaitKnows)'
  BY DEF IndInv, Roles, NoneHolds, DrainsKnow, WaitKnows, Return, family,
     output
<1> QED
  BY <1>1, <1>2, <1>3, <1>4, <1>5 DEF IndInv

LEMMA HelperExecInv ==
  ASSUME IndInv, HelperExec
  PROVE  IndInv'
<1>1. TypeOK'
  BY DEF IndInv, TypeOK, Live, HelperExec, Family, runner, output
<1>2. Unlaunched'
  BY DEF IndInv, Unlaunched, HelperExec, runner
<1>3. Roles'
  BY DEF IndInv, Roles, HelperExec
<1>4. NoneHolds'
  BY DEF IndInv, NoneHolds, HelperExec
<1>5. WaitKnows'
  BY DEF IndInv, WaitKnows, HelperExec, runner
<1>6. KillLasts'
  BY DEF IndInv, KillLasts, HelperExec, runner
<1>7. AnswerKnows'
  BY DEF IndInv, AnswerKnows, HelperExec, runner
<1>8. DrainsKnow'
  BY DEF IndInv, DrainsKnow, HelperExec, runner, output
<1> QED
  BY <1>1, <1>2, <1>3, <1>4, <1>5, <1>6, <1>7, <1>8 DEF IndInv

LEMMA HelperFailsInv ==
  ASSUME IndInv, HelperFails
  PROVE  IndInv'
<1>1. TypeOK'
  BY DEF IndInv, TypeOK, HelperFails, Die, Streams, Family, runner
<1>2. Unlaunched'
  BY DEF IndInv, Unlaunched, HelperFails, Die, runner
<1>3. Roles'
  BY DEF IndInv, TypeOK, Roles, HelperFails, Die
<1>4. NoneHolds'
  BY DEF IndInv, TypeOK, NoneHolds, HelperFails, Die
<1>5. DrainsKnow'
  BY DEF IndInv, Roles, DrainsKnow, HelperFails, Family, runner
<1>6. WaitKnows'
  BY DEF IndInv, WaitKnows, HelperFails, runner
<1>7. KillLasts'
  BY DEF IndInv, KillLasts, HelperFails, Family, runner
<1>8. AnswerKnows'
  BY DEF IndInv, AnswerKnows, HelperFails, HasRoom, runner
<1> QED
  BY <1>1, <1>2, <1>3, <1>4, <1>5, <1>6, <1>7, <1>8 DEF IndInv

LEMMA WriteInv ==
  ASSUME IndInv, NEW w \in Family, NEW s \in Streams, Write(w, s)
  PROVE  IndInv'
<1>1. TypeOK'
  <2>1. CASE written' = [written EXCEPT ![s] = @ + 1] /\ UNCHANGED long
    BY <2>1 DEF IndInv, TypeOK, Write, runner, family
  <2>2. CASE long' = [long EXCEPT ![s] = TRUE] /\ UNCHANGED written
    BY <2>2 DEF IndInv, TypeOK, Write, runner, family
  <2> QED
    BY <2>1, <2>2 DEF Write
<1>2. Unlaunched'
  BY DEF IndInv, Unlaunched, Write, Writer, runner, family
<1>3. DrainsKnow'
  BY DEF IndInv, TypeOK, DrainsKnow, Write, Writer, runner, family
<1>4. (Roles /\ NoneHolds /\ WaitKnows /\ KillLasts /\ AnswerKnows)'
  BY DEF IndInv, Roles, NoneHolds, WaitKnows, KillLasts, AnswerKnows, Write,
     runner, family
<1> QED
  BY <1>1, <1>2, <1>3, <1>4 DEF IndInv

LEMMA WriteBrokenInv ==
  ASSUME IndInv, NEW w \in Family, NEW s \in Streams, WriteBroken(w, s)
  PROVE  IndInv'
<1>1. TypeOK'
  BY DEF IndInv, TypeOK, WriteBroken, Die, runner, output
<1>2. Unlaunched'
  BY DEF IndInv, Unlaunched, WriteBroken, Die, runner
<1>3. Roles'
  BY DEF IndInv, Roles, WriteBroken, Writer, Die
<1>4. NoneHolds'
  BY DEF IndInv, TypeOK, NoneHolds, WriteBroken, Die
<1>5. DrainsKnow'
  BY DEF IndInv, DrainsKnow, WriteBroken, Die, runner, output
<1>6. WaitKnows'
  BY DEF IndInv, WaitKnows, WriteBroken, Writer, Die, runner
<1>7. KillLasts'
  BY DEF IndInv, KillLasts, WriteBroken, Die, runner
<1>8. AnswerKnows'
  BY DEF IndInv, AnswerKnows, WriteBroken, Writer, Die, runner
<1> QED
  BY <1>1, <1>2, <1>3, <1>4, <1>5, <1>6, <1>7, <1>8 DEF IndInv

LEMMA CloseEndInv ==
  ASSUME IndInv, NEW w \in Family, NEW s \in Streams, CloseEnd(w, s)
  PROVE  IndInv'
<1>1. TypeOK'
  BY DEF IndInv, TypeOK, CloseEnd, runner, output
<1>2. Roles'
  BY DEF IndInv, Roles, CloseEnd, Writer
<1>3. NoneHolds'
  BY DEF IndInv, NoneHolds, CloseEnd
<1>4. DrainsKnow'
  BY DEF IndInv, DrainsKnow, CloseEnd, runner, output
<1>5. (Unlaunched /\ WaitKnows /\ KillLasts /\ AnswerKnows)'
  BY DEF IndInv, Unlaunched, WaitKnows, KillLasts, AnswerKnows, CloseEnd,
     runner, output
<1> QED
  BY <1>1, <1>2, <1>3, <1>4, <1>5 DEF IndInv

\* A child of a process that has left the group is not of the group either.
LEMMA ForkInv ==
  ASSUME IndInv, NEW w \in Family, NEW k \in Kin, Fork(w, k)
  PROVE  IndInv'
<1>1. TypeOK'
  BY DEF IndInv, TypeOK, Fork, Family, runner, output
<1>2. Unlaunched'
  BY DEF IndInv, Unlaunched, Fork, runner
<1>3. Roles'
  BY DEF IndInv, Roles, Fork
<1>4. NoneHolds'
  BY DEF IndInv, TypeOK, NoneHolds, Fork
<1>5. DrainsKnow'
  BY DEF IndInv, DrainsKnow, Fork, runner, output
<1>6. WaitKnows'
  BY DEF IndInv, WaitKnows, Fork, runner
<1>7. KillLasts'
  BY DEF IndInv, KillLasts, Fork, runner
<1>8. AnswerKnows'
  BY DEF IndInv, AnswerKnows, Fork, runner
<1> QED
  BY <1>1, <1>2, <1>3, <1>4, <1>5, <1>6, <1>7, <1>8 DEF IndInv

LEMMA EscapeInv ==
  ASSUME IndInv, NEW k \in Kin, Escape(k)
  PROVE  IndInv'
<1>1. TypeOK'
  BY DEF IndInv, TypeOK, Live, Escape, Family, runner, output
<1>2. Unlaunched'
  BY DEF IndInv, Unlaunched, Escape, runner, output
<1>3. Roles'
  BY DEF IndInv, Roles, Escape
<1>4. NoneHolds'
  BY DEF IndInv, NoneHolds, Escape
<1>5. WaitKnows'
  BY DEF IndInv, WaitKnows, Escape, runner
<1>6. KillLasts'
  BY DEF IndInv, KillLasts, Escape, runner
<1>7. AnswerKnows'
  BY DEF IndInv, AnswerKnows, Escape, runner
<1>8. DrainsKnow'
  BY DEF IndInv, DrainsKnow, Escape, runner, output
<1> QED
  BY <1>1, <1>2, <1>3, <1>4, <1>5, <1>6, <1>7, <1>8 DEF IndInv

LEMMA ExitInv ==
  ASSUME IndInv, NEW w \in Family, Exit(w)
  PROVE  IndInv'
<1>1. TypeOK'
  BY DEF IndInv, TypeOK, Exit, Die, runner, output
<1>2. Unlaunched'
  BY DEF IndInv, Unlaunched, Exit, Die, runner
<1>3. Roles'
  BY DEF IndInv, Roles, Exit, Die
<1>4. NoneHolds'
  BY DEF IndInv, TypeOK, NoneHolds, Exit, Die
<1>5. DrainsKnow'
  BY DEF IndInv, DrainsKnow, Exit, Die, runner, output
<1>6. WaitKnows'
  BY DEF IndInv, WaitKnows, Exit, Die, runner
<1>7. KillLasts'
  BY DEF IndInv, KillLasts, Exit, Die, runner
<1>8. AnswerKnows'
  BY DEF IndInv, AnswerKnows, Exit, Die, runner
<1> QED
  BY <1>1, <1>2, <1>3, <1>4, <1>5, <1>6, <1>7, <1>8 DEF IndInv

LEMMA ReapInv ==
  ASSUME IndInv, Reap
  PROVE  IndInv'
<1>1. TypeOK'
  BY DEF IndInv, TypeOK, Reap, Family, runner, output
<1>2. Unlaunched'
  BY DEF IndInv, Unlaunched, Reap, runner
<1>3. Roles'
  BY DEF IndInv, Roles, Reap
<1>4. NoneHolds'
  BY DEF IndInv, NoneHolds, Reap
<1>5. WaitKnows'
  BY DEF IndInv, WaitKnows, Reap, runner
<1>6. KillLasts'
  BY DEF IndInv, KillLasts, Reap, runner
<1>7. AnswerKnows'
  BY DEF IndInv, AnswerKnows, Reap, runner
<1>8. DrainsKnow'
  BY DEF IndInv, DrainsKnow, Reap, runner, output
<1> QED
  BY <1>1, <1>2, <1>3, <1>4, <1>5, <1>6, <1>7, <1>8 DEF IndInv

LEMMA ContextEndsInv ==
  ASSUME IndInv, ContextEnds
  PROVE  IndInv'
<1>1. TypeOK'
  BY DEF IndInv, TypeOK, ContextEnds, runner, family, output
<1>2. AnswerKnows'
  BY DEF IndInv, AnswerKnows, ContextEnds, runner
<1>3. (Unlaunched /\ Roles /\ NoneHolds /\ DrainsKnow /\ WaitKnows
       /\ KillLasts)'
  BY DEF IndInv, Unlaunched, Roles, NoneHolds, DrainsKnow, WaitKnows,
     KillLasts, ContextEnds, runner, family, output
<1> QED
  BY <1>1, <1>2, <1>3 DEF IndInv

LEMMA DeliverInv ==
  ASSUME IndInv, NEW s \in Streams, Deliver(s)
  PROVE  IndInv'
<1>1. TypeOK'
  BY DEF IndInv, TypeOK, Deliver, LineReady, runner, family, output
<1>2. Unlaunched'
  BY DEF IndInv, Unlaunched, Deliver, runner, family
<1>3. DrainsKnow'
  BY DEF IndInv, DrainsKnow, Deliver, runner, family, output
<1>4. (Roles /\ NoneHolds /\ WaitKnows /\ KillLasts /\ AnswerKnows)'
  BY DEF IndInv, Roles, NoneHolds, WaitKnows, KillLasts, AnswerKnows,
     Deliver, runner, family
<1> QED
  BY <1>1, <1>2, <1>3, <1>4 DEF IndInv

\* A drain that has seen the end of its stream knows that nobody can write to
\* it.
LEMMA DrainEndsInv ==
  ASSUME IndInv, NEW s \in Streams, DrainEnds(s)
  PROVE  IndInv'
<1>1. TypeOK'
  BY DEF IndInv, TypeOK, DrainEnds, runner, family, output
<1>2. Unlaunched'
  BY DEF IndInv, Unlaunched, DrainEnds, runner, family
<1>3. DrainsKnow'
  BY DEF IndInv, DrainsKnow, DrainEnds, StopsReading, AtEOF, Finished,
     runner, family, output
<1>4. AnswerKnows'
  BY DEF IndInv, AnswerKnows, DrainEnds, runner, family
<1>5. (Roles /\ NoneHolds /\ WaitKnows /\ KillLasts)'
  BY DEF IndInv, Roles, NoneHolds, WaitKnows, KillLasts, DrainEnds, runner,
     family
<1> QED
  BY <1>1, <1>2, <1>3, <1>4, <1>5 DEF IndInv
----------------------------------------------------------------------------
\* Stuttering changes nothing.
LEMMA StutterInv ==
  ASSUME IndInv, UNCHANGED vars
  PROVE  IndInv'
BY DEF vars, runner, family, output, IndInv, TypeOK, Unlaunched, Roles,
   NoneHolds, DrainsKnow, WaitKnows, KillLasts, AnswerKnows

\* Before the call nobody has been started.
LEMMA InitInv ==
  ASSUME Init
  PROVE  IndInv
<1>1. TypeOK
  <2>1. /\ status \in [Family -> Live \cup {"none", "zombie", "dead"}]
        /\ holds \in [Family -> SUBSET Streams]
    BY DEF Init
  <2>2. /\ drain \in [Streams -> {"off", "reading", "ended", "gaveup", "cut"}]
        /\ written \in [Streams -> Nat] /\ long \in [Streams -> BOOLEAN]
        /\ delivered \in [Streams -> Nat]
        /\ \A s \in Streams : delivered[s] <= written[s]
    BY DEF Init
  <2> QED
    BY <2>1, <2>2 DEF Init, TypeOK
<1>2. Unlaunched /\ Roles /\ NoneHolds
  BY DEF Init, Unlaunched, Roles, NoneHolds, Family
<1>3. DrainsKnow /\ WaitKnows /\ KillLasts /\ AnswerKnows
  BY DEF Init, DrainsKnow, WaitKnows, KillLasts, AnswerKnows
<1> QED
  BY <1>1, <1>2, <1>3 DEF IndInv

\* No step breaks the inductive invariant.
LEMMA NextInv ==
  ASSUME IndInv, [Next]_vars
  PROVE  IndInv'
<1>1. CASE RunnerStep
  BY <1>1, BeginInv, WritePayloadInv, StartInv, TakeWaitInv, TakeDrainInv,
     TakeCtxInv, ReturnInv DEF RunnerStep, LoopStep
<1>2. CASE FamilyStep
  BY <1>2, HelperExecInv, HelperFailsInv, WriteInv, WriteBrokenInv,
     CloseEndInv, ForkInv, EscapeInv, ExitInv DEF FamilyStep
<1>3. CASE Reap
  BY <1>3, ReapInv
<1>4. CASE ContextEnds
  BY <1>4, ContextEndsInv
<1>5. CASE \E s \in Streams : GoroutineStep(s)
  BY <1>5, DeliverInv, DrainEndsInv DEF GoroutineStep
<1>6. CASE UNCHANGED vars
  BY <1>6, StutterInv
<1> QED
  BY <1>1, <1>2, <1>3, <1>4, <1>5, <1>6 DEF Next

\* The invariant holds in every state of the call.
LEMMA Inductive == Spec => []IndInv
<1>1. Init => IndInv
  BY InitInv
<1>2. IndInv /\ [Next]_vars => IndInv'
  BY NextInv
<1> QED
  BY <1>1, <1>2, PTL DEF Spec

\* Every variable keeps its type, and no line is handed over that was not
\* written.
THEOREM TypeCorrect == Spec => []TypeOK
<1>1. IndInv => TypeOK
  BY DEF IndInv
<1> QED
  BY <1>1, Inductive, PTL

\* A call that returns no error has handed over every line of both streams,
\* and nobody is left who could write another: RunCommand returns nil only
\* when both drains have reported the end of their streams.
THEOREM OutputComplete == Spec => []CompleteOutput
<1>1. IndInv => CompleteOutput
  BY DEF IndInv, AnswerKnows, DrainsKnow, CompleteOutput
<1> QED
  BY <1>1, Inductive, PTL

\* A call that was cut short by its context leaves no process of the group:
\* the command has been waited for, and whoever was forked before the kill was
\* in the group the kill reached.
THEOREM NothingLeft == Spec => []NothingLeftBehind
<1>1. IndInv => NothingLeftBehind
  BY DEF IndInv, AnswerKnows, Unlaunched, WaitKnows, KillLasts,
     NothingLeftBehind, Family
<1> QED
  BY <1>1, Inductive, PTL
----------------------------------------------------------------------------
(***************************************************************************)
(* The call implements CommandCall, one step at a time.                    *)
(***************************************************************************)
InGroupAlive == \E w \in Family : status[w] \in {"helper", "group"}
Unread == \E s \in Streams : delivered[s] < written[s] \/ long[s]

\* The phases of the contract are these parts of the program.
LEMMA Phases ==
  ASSUME IndInv
  PROVE  /\ phase = "ready" <=> pc \in {"begin", "payload", "start"}
         /\ phase = "running" <=> pc = "loop"
         /\ phase = "returned" <=> pc = "returned"
BY DEF IndInv, TypeOK, phase

\* Before the launch there is no family, so only the runner and the context
\* can take a step.
LEMMA ReadySteps ==
  ASSUME IndInv, Next, phase = "ready"
  PROVE  Begin \/ WritePayload \/ Start \/ ContextEnds
<1>1. /\ pc \in {"begin", "payload", "start"}
      /\ \A w \in Family : status[w] = "none"
      /\ \A s \in Streams : drain[s] = "off"
  BY Phases DEF IndInv, Unlaunched
<1>2. ~FamilyStep /\ ~Reap
  BY <1>1
  DEF FamilyStep, HelperExec, HelperFails, Write, WriteBroken, CloseEnd,
     Fork, Escape, Exit, Writer, Reap, Family
<1>3. ~LoopStep /\ \A s \in Streams : ~GoroutineStep(s)
  BY <1>1
  DEF LoopStep, TakeWait, TakeCtx, Return, TakeDrain, GoroutineStep,
     Deliver, DrainEnds
<1> QED
  BY <1>2, <1>3 DEF Next, RunnerStep

\* A step before the start is one of the contract or none.
LEMMA ReadyStep ==
  ASSUME IndInv, IndInv', Next, phase = "ready"
  PROVE  [Call!Next]_(Call!vars)
<1>1. /\ pc \in {"begin", "payload", "start"} /\ answer = "none"
      /\ ~Unread /\ ~InGroupAlive
  BY Phases DEF IndInv, Unlaunched, AnswerKnows, Unread, InGroupAlive
<1>2. CASE Begin /\ pc' = "returned"
  <2>1. answer' \in {"setup", "canceled"}
    BY <1>2 DEF Begin, Give, IndInv, TypeOK, AnswerKnows
  <2>2. phase' = "returned"
    BY <1>2 DEF phase
  <2>3. UNCHANGED <<delivered, Unread, InGroupAlive>>
    BY <1>2 DEF Begin, Unread, InGroupAlive, family, output
  <2>4. Call!Refuse(answer')
    BY <2>1, <2>2, <2>3 DEF Call!Refuse, Unread, InGroupAlive
  <2>5. answer' \in Call!Answers
    BY <2>1 DEF Call!Answers
  <2> QED
    BY <2>4, <2>5 DEF Call!Next
<1>3. CASE Start /\ pc' = "returned"
  <2>1. answer' = "setup"
    BY <1>3 DEF Start, Give
  <2>2. phase' = "returned"
    BY <1>3 DEF phase
  <2>3. UNCHANGED <<delivered, Unread, InGroupAlive>>
    BY <1>3 DEF Start, Unread, InGroupAlive, output
  <2>4. Call!Refuse(answer')
    BY <2>1, <2>2, <2>3 DEF Call!Refuse, Unread, InGroupAlive
  <2>5. answer' \in Call!Answers
    BY <2>1 DEF Call!Answers
  <2> QED
    BY <2>4, <2>5 DEF Call!Next
<1>4. CASE Start /\ pc' = "loop"
  <2>1. /\ phase' = "running"
        /\ UNCHANGED <<answer, delivered, Unread>>
    BY <1>4 DEF Start, Give, phase, Unread, output
  <2>2. status'[Leader] = "helper"
    BY <1>4 DEF Start, Give, IndInv, TypeOK, Family
  <2>3. InGroupAlive' = TRUE
    BY <2>2 DEF InGroupAlive, Family
  <2> QED
    BY <2>1, <2>3 DEF Call!Next, Call!Launch, Unread, InGroupAlive
<1>5. CASE phase' = "ready"
  <2>1. UNCHANGED <<phase, answer, delivered, Unread, InGroupAlive>>
    <3>1. pc' \notin {"loop", "returned"}
      BY <1>5 DEF phase
    <3>2. UNCHANGED <<answer, delivered, family, output>>
      BY <3>1, ReadySteps
      DEF Begin, Give, WritePayload, Start, ContextEnds, runner
    <3> QED
      BY <1>5, <3>2 DEF Unread, InGroupAlive, family, output
  <2> QED
    BY <2>1 DEF Call!vars, Unread, InGroupAlive
<1>6. pc' \in {"begin", "payload", "start", "loop", "returned"}
  BY DEF IndInv, TypeOK
<1> QED
  BY <1>1, <1>2, <1>3, <1>4, <1>5, <1>6, ReadySteps
  DEF phase, Begin, Give, WritePayload, ContextEnds, runner

\* While the loop runs, anything may happen but the answer: a line is handed
\* over, or the family does what it likes.
LEMMA RunningSteps ==
  ASSUME IndInv, Next, pc = "loop", ~Return
  PROVE  /\ UNCHANGED <<pc, answer>>
         /\ \E s \in Streams :
              delivered' \in {delivered, [delivered EXCEPT ![s] = @ + 1]}
<1>1. CASE \E s \in Streams : Deliver(s)
  BY <1>1 DEF Deliver, runner
<1>2. CASE UNCHANGED delivered
  <2>1. "stdout" \in Streams
    BY DEF Streams
  <2>2. UNCHANGED <<pc, answer>>
    BY DEF Next, RunnerStep, Begin, WritePayload, Start, LoopStep, TakeWait,
       TakeCtx, TakeDrain, FamilyStep, HelperExec, HelperFails, Write,
       WriteBroken, CloseEnd, Fork, Escape, Exit, Reap, ContextEnds,
       GoroutineStep, Deliver, DrainEnds, runner
  <2> QED
    BY <1>2, <2>1, <2>2
<1> QED
  BY <1>1, <1>2
  DEF Next, RunnerStep, Begin, WritePayload, Start, LoopStep, TakeWait,
     TakeCtx, TakeDrain, FamilyStep, HelperExec, HelperFails, Write,
     WriteBroken, CloseEnd, Fork, Escape, Exit, Reap, ContextEnds,
     GoroutineStep, DrainEnds

\* A step while the command runs is one of the contract or none.
LEMMA RunningStep ==
  ASSUME IndInv, IndInv', Next, phase = "running"
  PROVE  [Call!Next]_(Call!vars)
<1>1. pc = "loop" /\ answer = "none"
  BY Phases DEF IndInv, AnswerKnows
<1>2. CASE Return
  <2>1. /\ phase' = "returned" /\ answer' = Answer
        /\ UNCHANGED <<delivered, Unread, InGroupAlive>>
    BY <1>2 DEF Return, Give, phase, Unread, InGroupAlive, family, output
  <2>2. answer' \in Call!Answers
    BY <1>2 DEF Return, Give, Answer, IndInv, TypeOK, Call!Answers
  <2>3. answer' = "ok" => ~Unread
    <3>1. answer' = "ok" => \A s \in Streams : drain[s] = "ended"
      BY <1>2 DEF Return, IndInv, AnswerKnows
    <3>2. \A s \in Streams :
            drain[s] = "ended" => delivered[s] = written[s] /\ ~long[s]
      BY DEF IndInv, DrainsKnow
    <3>3. \A s \in Streams : written[s] \in Nat
      BY DEF IndInv, TypeOK
    <3> QED
      BY <3>1, <3>2, <3>3 DEF Unread
  <2>4. answer' \in {"timeout", "canceled"} => ~InGroupAlive
    BY <2>1 DEF IndInv, AnswerKnows, Unlaunched, KillLasts, InGroupAlive
  <2>5. Call!Return(answer')
    BY <1>1, <2>1, <2>2, <2>3, <2>4
    DEF Call!Return, phase, Unread, InGroupAlive
  <2> QED
    BY <2>2, <2>5 DEF Call!Next
<1>3. CASE ~Return
  <2>1. /\ UNCHANGED <<pc, answer>>
        /\ \E s \in Streams :
             delivered' \in {delivered, [delivered EXCEPT ![s] = @ + 1]}
    BY <1>1, <1>3, RunningSteps
  <2>2. UNCHANGED phase
    BY <2>1 DEF phase
  <2>3. Unread' \in BOOLEAN /\ InGroupAlive' \in BOOLEAN
    BY DEF Unread, InGroupAlive
  <2> QED
    BY <2>1, <2>2 DEF Call!Next, Call!Work
<1> QED
  BY <1>2, <1>3

\* Once the call has returned, the goroutines have ended and the pipes are
\* closed: nothing is written and nothing handed over.
LEMMA ReturnedSteps ==
  ASSUME IndInv, Next, pc = "returned"
  PROVE  UNCHANGED <<pc, answer, noticed, delivered, written, long>>
<1>1. \A s \in Streams : drain[s] # "reading"
  BY DEF IndInv, Unlaunched, AnswerKnows, DrainsKnow, Finished
<1>2. status[Leader] # "helper"
  BY DEF IndInv, AnswerKnows, WaitKnows
<1>3. closed \/ \A w \in Family : status[w] = "none"
  BY DEF IndInv, Unlaunched, AnswerKnows
<1>4. ~RunnerStep /\ ~HelperFails /\ ~ContextEnds
  BY <1>2
  DEF RunnerStep, Begin, WritePayload, Start, LoopStep, TakeWait,
     TakeCtx, TakeDrain, Return, HelperFails, ContextEnds
<1>5. \A w \in Family, s \in Streams : ~Write(w, s)
  BY <1>3 DEF Write, Writer, HasRoom
<1>6. \A s \in Streams : ~GoroutineStep(s)
  BY <1>1 DEF GoroutineStep, Deliver, DrainEnds
<1> QED
  BY <1>4, <1>5, <1>6
  DEF Next, FamilyStep, HelperExec, WriteBroken, CloseEnd, Fork, Escape,
     Exit, Reap, runner, output

\* After the return nothing happens that the contract does not allow.
LEMMA ReturnedStep ==
  ASSUME IndInv, IndInv', Next, phase = "returned"
  PROVE  [Call!Next]_(Call!vars)
<1>1. pc = "returned"
  BY Phases
<1>2. UNCHANGED <<pc, answer, delivered, written, long>>
  BY <1>1, ReturnedSteps
<1>3. UNCHANGED <<phase, Unread>>
  BY <1>2 DEF phase, Unread
<1>4. InGroupAlive' \in BOOLEAN
  BY DEF InGroupAlive
<1>5. answer \in {"timeout", "canceled"} => ~InGroupAlive'
  BY <1>2 DEF IndInv, AnswerKnows, Unlaunched, KillLasts, InGroupAlive
<1>6. Call!Afterwards
  BY <1>2, <1>3, <1>5 DEF Call!Afterwards, InGroupAlive
<1> QED
  BY <1>6 DEF Call!Next

\* What RunCommand's caller relies on: no line after the answer, one answer,
\* success only with the whole output, nothing of the group left after a cut.
THEOREM ContractKept == Spec => Contract
<1>1. Init => Call!Init
  <2>1. Init => ~Unread /\ ~InGroupAlive /\ phase = "ready"
    BY DEF Init, Unread, InGroupAlive, phase
  <2> QED
    BY <2>1 DEF Init, Call!Init
<1>2. IndInv /\ IndInv' /\ [Next]_vars => [Call!Next]_(Call!vars)
  <2> SUFFICES ASSUME IndInv, IndInv', [Next]_vars
               PROVE  [Call!Next]_(Call!vars)
    OBVIOUS
  <2>1. CASE Next
    BY <2>1, ReadyStep, RunningStep, ReturnedStep, Phases DEF IndInv, TypeOK
  <2>2. CASE UNCHANGED vars
    BY <2>2 DEF vars, runner, family, output, Call!vars, phase
  <2> QED
    BY <2>1, <2>2
<1> QED
  BY <1>1, <1>2, Inductive, PTL DEF Spec, Contract, Call!Spec
============================================================================
