--------------------------- MODULE CommandRunner ---------------------------
(***************************************************************************)
(* One call of RunCommand (src/internal/cleaner/executor/command.go): the  *)
(* command is started through a helper process in a group of its own, two  *)
(* goroutines drain its pipes line by line, one waits for it, and a loop   *)
(* collects their results or, when the context ends first, kills the group *)
(* and closes the read ends of the pipes.                                  *)
(*                                                                         *)
(* Abstractions.  A line is a unit of output; one that bufio.Scanner       *)
(* cannot hold (64 KB) is "long" and is the last that fits in the pipe.    *)
(* The payload for the helper either fits in a pipe or exceeds it.  The    *)
(* command and its descendants do what they like with the write ends they  *)
(* inherit.  Process numbers are not reused.                               *)
(***************************************************************************)
EXTENDS Naturals, FiniteSets

CONSTANTS
  Leader,      \* the process beav starts: helper, then the command
  Kin,         \* its descendants
  Payloads,    \* sizes of the helper's payload: "fits", "exceeds" a pipe
  PipeCap,     \* lines a pipe holds
  MaxLines     \* bound: lines written to a stream

Streams == {"stdout", "stderr"}
Family == {Leader} \cup Kin

ASSUME RunnerAssumption ==
  /\ Leader \notin Kin
  /\ Payloads \subseteq {"fits", "exceeds"} /\ Payloads # {}
  /\ PipeCap \in Nat \ {0} /\ MaxLines \in Nat

VARIABLES
  pc,         \* RunCommand: "begin", "payload", "start", "loop", "returned"
  payload,    \* size of the helper's payload
  cause,      \* why the context ended: "none", "timeout", "canceled"
  noticed,    \* the cause as read by the loop
  waited,     \* the result of Wait has been received
  drained,    \* streams whose drain result has been received
  drain,      \* drain[s]: "off", "reading", "ended", "gaveup", "cut"
  closed,     \* the read ends have been closed
  answer,     \* what the call returned
  status,     \* status[w]: "none", "helper", "group", "escaped", "zombie", "dead"
  exit,       \* exit status of the leader: "none", "ok", "bad"
  holds,      \* holds[w]: streams of which w has a write end
  written,    \* written[s]: lines written to stream s
  long,       \* long[s]: they are followed by a long line
  delivered   \* delivered[s]: lines handed to the callback

runner == <<pc, payload, noticed, waited, drained, answer>>
family == <<status, exit, holds>>
output == <<written, long>>
vars == <<runner, cause, drain, closed, family, output, delivered>>

Live == {"helper", "group", "escaped"}
Alive(w) == status[w] \in Live
InGroup(w) == status[w] \in {"helper", "group", "zombie"}

Init ==
  /\ pc = "begin" /\ payload \in Payloads
  /\ cause = "none" /\ noticed = "none"
  /\ waited = FALSE /\ drained = {}
  /\ drain = [s \in Streams |-> "off"]
  /\ closed = FALSE /\ answer = "none"
  /\ status = [w \in Family |-> "none"] /\ exit = "none"
  /\ holds = [w \in Family |-> {}]
  /\ written = [s \in Streams |-> 0]
  /\ long = [s \in Streams |-> FALSE]
  /\ delivered = [s \in Streams |-> 0]

----------------------------------------------------------------------------
(***************************************************************************)
(* RunCommand up to the start of the helper.                               *)
(***************************************************************************)
Give(a) == pc' = "returned" /\ answer' = a

\* The context is looked at once before anything is set up; argv cannot be
\* resolved, or a pipe, the payload or the helper cannot be made.
Begin ==
  /\ pc = "begin"
  /\ IF cause # "none"
     THEN Give(cause)
     ELSE Give("setup") \/ (pc' = "payload" /\ UNCHANGED answer)
  /\ UNCHANGED <<payload, cause, noticed, waited, drained, drain, closed,
                 family, output, delivered>>

\* The payload is written to a pipe nobody reads yet: what does not fit blocks.
WritePayload ==
  /\ pc = "payload" /\ payload = "fits"
  /\ pc' = "start"
  /\ UNCHANGED <<payload, cause, noticed, waited, drained, answer, drain,
                 closed, family, output, delivered>>

\* Start fails, or the helper runs and the goroutines are started.
Start ==
  /\ pc = "start"
  /\ \/ Give("setup") /\ UNCHANGED <<status, holds, drain>>
     \/ /\ pc' = "loop" /\ UNCHANGED answer
        /\ status' = [status EXCEPT ![Leader] = "helper"]
        /\ holds' = [holds EXCEPT ![Leader] = Streams]
        /\ drain' = [s \in Streams |-> "reading"]
  /\ UNCHANGED <<payload, cause, noticed, waited, drained, closed, exit,
                 output, delivered>>

----------------------------------------------------------------------------
(***************************************************************************)
(* The helper, the command and its descendants.                            *)
(***************************************************************************)
Die(w) ==
  /\ status' = [status EXCEPT ![w] = IF w = Leader THEN "zombie" ELSE "dead"]
  /\ holds' = [holds EXCEPT ![w] = {}]

\* runCommandHelper drops privileges and becomes the command.
HelperExec ==
  /\ status[Leader] = "helper"
  /\ status' = [status EXCEPT ![Leader] = "group"]
  /\ UNCHANGED <<runner, cause, drain, closed, exit, holds, output, delivered>>

HasRoom(s) ==
  ~closed /\ ~long[s] /\ written[s] - delivered[s] < PipeCap

\* The helper reports why it could not and exits 127.
HelperFails ==
  /\ status[Leader] = "helper"
  /\ HasRoom("stderr") /\ written["stderr"] < MaxLines
  /\ written' = [written EXCEPT !["stderr"] = @ + 1]
  /\ Die(Leader) /\ exit' = "bad"
  /\ UNCHANGED <<runner, cause, drain, closed, long, delivered>>

Writer(w, s) == status[w] \in {"group", "escaped"} /\ s \in holds[w]

Write(w, s) ==
  /\ Writer(w, s) /\ HasRoom(s) /\ written[s] < MaxLines
  /\ \/ written' = [written EXCEPT ![s] = @ + 1] /\ UNCHANGED long
     \/ long' = [long EXCEPT ![s] = TRUE] /\ UNCHANGED written
  /\ UNCHANGED <<runner, cause, drain, closed, family, delivered>>

\* Writing to a pipe whose read end is closed kills the writer.
WriteBroken(w, s) ==
  /\ Writer(w, s) /\ closed
  /\ Die(w)
  /\ exit' = IF w = Leader THEN "bad" ELSE exit
  /\ UNCHANGED <<runner, cause, drain, closed, output, delivered>>

CloseEnd(w, s) ==
  /\ Writer(w, s)
  /\ holds' = [holds EXCEPT ![w] = @ \ {s}]
  /\ UNCHANGED <<runner, cause, drain, closed, status, exit, output, delivered>>

\* A child inherits the group and the write ends.
Fork(w, k) ==
  /\ status[w] \in {"group", "escaped"} /\ status[k] = "none"
  /\ status' = [status EXCEPT ![k] = status[w]]
  /\ holds' = [holds EXCEPT ![k] = holds[w]]
  /\ UNCHANGED <<runner, cause, drain, closed, exit, output, delivered>>

\* A descendant makes a session of its own and leaves the group.
Escape(k) ==
  /\ status[k] = "group"
  /\ status' = [status EXCEPT ![k] = "escaped"]
  /\ UNCHANGED <<runner, cause, drain, closed, exit, holds, output, delivered>>

Exit(w) ==
  /\ status[w] \in {"group", "escaped"}
  /\ Die(w)
  /\ exit' \in IF w = Leader THEN {"ok", "bad"} ELSE {exit}
  /\ UNCHANGED <<runner, cause, drain, closed, output, delivered>>

----------------------------------------------------------------------------
(***************************************************************************)
(* The goroutines: drain(stdout), drain(stderr) and Wait.                  *)
(***************************************************************************)
\* Mutant: an empty line is handed over at the end of the output.
LineReadyAtEnd(s) == delivered[s] <= written[s]
LineReady(s) == delivered[s] < written[s]

\* A line is handed over; lines already buffered are, even after a close.
Deliver(s) ==
  /\ drain[s] = "reading" /\ LineReady(s)
  /\ delivered' = [delivered EXCEPT ![s] = @ + 1]
  /\ UNCHANGED <<runner, cause, drain, closed, family, output>>

AtEOF(s) ==
  /\ ~closed /\ delivered[s] = written[s] /\ ~long[s]
  /\ \A w \in Family : s \notin holds[w]

StopsReading(s, how) ==
  \/ how = "ended" /\ AtEOF(s)
  \/ how = "gaveup" /\ long[s] /\ delivered[s] = written[s]
  \/ how = "cut" /\ closed

DrainEnds(s) ==
  /\ drain[s] = "reading"
  /\ \E how \in {"ended", "gaveup", "cut"} :
       StopsReading(s, how) /\ drain' = [drain EXCEPT ![s] = how]
  /\ UNCHANGED <<runner, cause, closed, family, output, delivered>>

Reap ==
  /\ status[Leader] = "zombie"
  /\ status' = [status EXCEPT ![Leader] = "dead"]
  /\ UNCHANGED <<runner, cause, drain, closed, exit, holds, output, delivered>>

----------------------------------------------------------------------------
(***************************************************************************)
(* The loop: one select case per action, all of them repeatable until      *)
(* Wait and both drains have reported.                                     *)
(***************************************************************************)
\* Mutant: the loop is left after the first drain.
CollectedOneDrain == waited /\ drained # {}
Collected == waited /\ drained = Streams

TakeWait ==
  /\ pc = "loop" /\ ~Collected
  /\ ~waited /\ status[Leader] = "dead"
  /\ waited' = TRUE
  /\ UNCHANGED <<pc, payload, noticed, drained, answer, cause, drain, closed,
                 family, output, delivered>>

TakeDrain(s) ==
  /\ pc = "loop" /\ ~Collected
  /\ s \notin drained /\ drain[s] \in {"ended", "gaveup", "cut"}
  /\ drained' = drained \cup {s}
  /\ UNCHANGED <<pc, payload, noticed, waited, answer, cause, drain, closed,
                 family, output, delivered>>

\* Mutant: only the leader is killed.
GroupOnlyLeader == {w \in {Leader} : InGroup(w)}
Group == {w \in Family : InGroup(w)}

\* killProcessGroup reaches every member of the group at once.
KillGroup ==
  /\ status' = [w \in Family |->
                  IF w \notin Group THEN status[w]
                  ELSE IF w = Leader THEN "zombie" ELSE "dead"]
  /\ holds' = [w \in Family |-> IF w \in Group THEN {} ELSE holds[w]]
  /\ exit' = IF Alive(Leader) THEN "bad" ELSE exit

\* Mutant: the read ends stay open until the loop is left.
ClosePipesLater == UNCHANGED closed
ClosePipes == closed' = TRUE

TakeCtx ==
  /\ pc = "loop" /\ ~Collected
  /\ cause # "none" /\ noticed = "none"
  /\ noticed' = cause
  /\ KillGroup
  /\ ClosePipes
  /\ UNCHANGED <<pc, payload, waited, drained, answer, cause, drain, output,
                 delivered>>

\* Mutant: an error of a drain is not reported.
DrainFailedNever(d) == d = "off"
DrainFailed(d) == d \in {"gaveup", "cut"}

Answer ==
  CASE noticed # "none" -> noticed
    [] noticed = "none" /\ exit # "ok" -> "exit"
    [] noticed = "none" /\ exit = "ok" ->
         IF \E s \in Streams : DrainFailed(drain[s]) THEN "drain" ELSE "ok"

Return ==
  /\ pc = "loop" /\ Collected
  /\ Give(Answer)
  /\ closed' = TRUE
  /\ UNCHANGED <<payload, noticed, waited, drained, cause, drain, family,
                 output, delivered>>

----------------------------------------------------------------------------
\* The timeout of the call passes, or the process is interrupted.
ContextEnds ==
  /\ cause = "none" /\ pc # "returned"
  /\ \/ cause' = "timeout" /\ pc # "begin"
     \/ cause' = "canceled"
  /\ UNCHANGED <<runner, drain, closed, family, output, delivered>>

LoopStep ==
  \/ TakeWait \/ TakeCtx \/ Return
  \/ \E s \in Streams : TakeDrain(s)

RunnerStep == Begin \/ WritePayload \/ Start \/ LoopStep

GoroutineStep(s) == Deliver(s) \/ DrainEnds(s)

FamilyStep ==
  \/ HelperExec \/ HelperFails
  \/ \E w \in Family, s \in Streams :
       Write(w, s) \/ WriteBroken(w, s) \/ CloseEnd(w, s)
  \/ \E w \in Family, k \in Kin : Fork(w, k)
  \/ \E k \in Kin : Escape(k)
  \/ \E w \in Family : Exit(w)

Next ==
  \/ RunnerStep \/ FamilyStep \/ Reap \/ ContextEnds
  \/ \E s \in Streams : GoroutineStep(s)

Spec == Init /\ [][Next]_vars

(***************************************************************************)
(* Fairness: goroutines are scheduled, the clock advances and a zombie is  *)
(* reaped.  The command owes nobody anything.                              *)
(***************************************************************************)
Fairness ==
  /\ WF_vars(RunnerStep) /\ WF_vars(Reap) /\ WF_vars(ContextEnds)
  /\ \A s \in Streams : WF_vars(GoroutineStep(s))

FairSpec == Spec /\ Fairness

----------------------------------------------------------------------------
\* Every variable keeps its type, and no line is handed over that was not
\* written.
TypeOK ==
  /\ pc \in {"begin", "payload", "start", "loop", "returned"}
  /\ payload \in {"fits", "exceeds"}
  /\ cause \in {"none", "timeout", "canceled"}
  /\ noticed \in {"none", "timeout", "canceled"}
  /\ waited \in BOOLEAN /\ closed \in BOOLEAN
  /\ drained \subseteq Streams
  /\ drain \in [Streams -> {"off", "reading", "ended", "gaveup", "cut"}]
  /\ answer \in {"none", "ok", "exit", "drain", "timeout", "canceled", "setup"}
  /\ status \in [Family -> Live \cup {"none", "zombie", "dead"}]
  /\ exit \in {"none", "ok", "bad"}
  /\ holds \in [Family -> SUBSET Streams]
  /\ written \in [Streams -> Nat]
  /\ long \in [Streams -> BOOLEAN]
  /\ delivered \in [Streams -> Nat]
  /\ \A s \in Streams : delivered[s] <= written[s]

\* A call that returns no error has handed every line of both streams to its
\* callbacks, those of background descendants included, and no line of them
\* can follow: nobody holds a write end any more.
CompleteOutput ==
  answer = "ok" =>
    \A s \in Streams :
      /\ delivered[s] = written[s] /\ ~long[s]
      /\ \A w \in Family : s \notin holds[w]

\* When the loop has cut the command short and returned, the command has been
\* reaped and no process of its group is alive, descendants forked at the last
\* moment included.  Only what has left the group survives.
NothingLeftBehind ==
  (pc = "returned" /\ noticed # "none") =>
    /\ status[Leader] = "dead"
    /\ \A k \in Kin : status[k] # "group"

\* CommandRun.Timeout: the maximum duration for the command to run.  A call
\* returns, whatever the command and its descendants do with its pipes.
Returns == (pc = "payload") ~> (pc = "returned")

(***************************************************************************)
(* The call as its caller sees it.                                         *)
(***************************************************************************)
phase ==
  CASE pc \in {"begin", "payload", "start"} -> "ready"
    [] pc = "loop" -> "running"
    [] pc = "returned" -> "returned"

Call == INSTANCE CommandCall WITH
  lines <- delivered,
  unread <- \E s \in Streams : delivered[s] < written[s] \/ long[s],
  group <- \E w \in Family : status[w] \in {"helper", "group"}

\* A caller that only knows CommandCall is never surprised: no callback after
\* the call has returned, one answer, success only with the whole output, and
\* no process of the group left after a cut.
Contract == Call!Spec
============================================================================
