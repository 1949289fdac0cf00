------------------------------- MODULE Engine -------------------------------
(***************************************************************************)
(* One run of `beav clean`: main and runClean, which load the registry,    *)
(* around Engine.Run (src/internal/cleaner/engine/engine.go), the          *)
(* executors it calls one after the other, the commands they run and the   *)
(* signal that may come at any time.                                       *)
(*                                                                         *)
(* An executor is modelled by its envelope: which events it emits, when it *)
(* looks at the context, how it finishes and what it returns.  A command   *)
(* is a call of CommandCall, whose lines are emitted by two goroutines     *)
(* while the executor waits.                                               *)
(*                                                                         *)
(* Abstractions.  A cleaner of kind "paths", "debris" or "units" (managed  *)
(* cache, rustup) handles up to MaxSteps entries, one of kind "commands"   *)
(* (container, package cache, journal) up to MaxSteps commands; one of     *)
(* kind "tool" runs a probe and a command.  runClean registers an executor *)
(* for every type a cleaner may have, so none is missing.                  *)
(***************************************************************************)
EXTENDS Registry

CONSTANTS
  N,           \* bound: documents, and so cleaners in the merged registry
  Options,     \* command lines: records of selectors and flags
  Files,       \* documents and configuration found: records of Registry
  MaxSteps,    \* bound: entries or commands of one cleaner
  MaxLines     \* bound: lines a command writes to a stream

Cleaners == 1..N
Streams == {"stdout", "stderr"}

ASSUME EngineAssumption ==
  /\ N \in Nat /\ MaxSteps \in Nat \ {0} /\ MaxLines \in Nat
  /\ \A f \in Files : /\ f.builtin \in Seq(Documents) /\ f.user \in Seq(Documents)
                      /\ Len(f.builtin) + Len(f.user) <= N

VARIABLES
  opt,        \* the command line
  files,      \* what the program finds on its start
  registry,   \* the cleaners in the order of the loop, <<>> before
  at,         \* cleaner the loop has reached
  pc,         \* "load", "next", "begin", "work", "command", "after", "done"
  left,       \* entries or commands the executor has still to handle
  errs,       \* error events of the current cleaner
  ret,        \* what the executor returned: "nil", "canceled", "timeout", "other"
  run,        \* res.CleanersRun
  skipped,    \* res.CleanersSkipped
  errored,    \* res.CleanersErrored
  exit,       \* exit code of the process, -1 before
  sig,        \* SIGINT or SIGTERM has arrived
  \* the event stream
  open, verdict, faulty, worked, totals,
  \* the command under way
  phase, answer, lines, unread, group,
  cut         \* history: cleaners that gave up work because of the signal

engineVars == <<opt, files, registry, at, run, skipped, errored, exit>>
streamVars == <<open, verdict, faulty, worked, totals>>
callVars == <<phase, answer, lines, unread, group>>
vars == <<engineVars, pc, left, errs, ret, sig, streamVars, callVars, cut>>

Stream == INSTANCE EventStream
Call == INSTANCE CommandCall

----------------------------------------------------------------------------
(***************************************************************************)
(* Selection.  prefixes are the selectors s with s- a prefix of the id.    *)
(***************************************************************************)
NamedBy(c, selectors) == ({c.id} \cup Range(c.tags)) \cap selectors # {}

MatchesAny(c, selectors) ==
  NamedBy(c, selectors) \/ c.prefixes \cap selectors # {}

Selected(c) ==
  /\ c.enabled # {FALSE}
  /\ opt.scope \in {"all", c.scope}
  /\ opt.only = {} \/ MatchesAny(c, opt.only)
  /\ ~MatchesAny(c, opt.skip)

\* A prefix selects but does not authorise.
HeavyAuthorized(c) == ~Heavy(c) \/ opt.heavy \/ NamedBy(c, opt.only)

Size == Len(registry)

----------------------------------------------------------------------------
Init ==
  /\ opt \in Options /\ files \in Files
  /\ registry = <<>>
  /\ at = 1 /\ pc = "load"
  /\ left = 0 /\ errs = 0 /\ ret = "nil"
  /\ run = 0 /\ skipped = 0 /\ errored = 0
  /\ exit = -1 /\ sig = FALSE
  /\ Stream!Init /\ Call!Init
  /\ cut = {}

\* The context is cancelled; nothing else of the program reacts by itself.
Signal ==
  /\ ~sig /\ pc # "done"
  /\ sig' = TRUE
  /\ UNCHANGED <<engineVars, pc, left, errs, ret, streamVars, callVars, cut>>

----------------------------------------------------------------------------
(***************************************************************************)
(* Events.  Nothing but the program's control keeps them in order.         *)
(***************************************************************************)
EmitStart(c) ==
  open' = open \cup {c} /\ UNCHANGED <<verdict, faulty, worked, totals>>

\* deleted, skipped, command_output
EmitWork(c) ==
  worked' = worked \cup {c} /\ UNCHANGED <<open, verdict, faulty, totals>>

EmitError(c) ==
  faulty' = faulty \cup {c} /\ UNCHANGED <<open, verdict, worked, totals>>

\* The finish event of c, after n error events.
EmitFinish(c, status, n) ==
  /\ open' = open \ {c}
  /\ verdict' = [verdict EXCEPT ![c] = status]
  /\ faulty' = IF n > 0 THEN faulty \cup {c} ELSE faulty
  /\ UNCHANGED <<worked, totals>>

----------------------------------------------------------------------------
(***************************************************************************)
(* runClean before, and Engine.Run.                                        *)
(***************************************************************************)
\* runClean and main turn an error of Run into the exit code.
Abort(code) ==
  /\ exit' = code /\ pc' = "done"
  /\ UNCHANGED <<opt, files, registry, at, run, skipped, errored>>

\* validateCleanersForRun: only the paths of selected cleaners are looked at.
Runnable(list) ==
  \A i \in DOMAIN list :
    Valid(list[i]) /\ (Selected(list[i]) => PathsAllowed(list[i]))

Loadable ==
  /\ BuiltinLoads(files.builtin) /\ UserLoads(files.user)
  /\ Merges(files.builtin, files.user)

\* The signal is not looked at.
Load ==
  /\ pc = "load"
  /\ LET list == Effective(MergeByID(files.builtin, files.user), files.config, opt)
     IN IF Loadable /\ Runnable(list)
        THEN /\ registry' = list /\ pc' = "next"
             /\ UNCHANGED <<opt, files, at, run, skipped, errored, exit>>
        ELSE Abort(2)
  /\ UNCHANGED <<left, errs, ret, sig, streamVars, callVars, cut>>

\* The scope cannot be determined (1); the configuration, a document or the age
\* on the command line cannot be read (2).
LoadFails ==
  /\ pc = "load"
  /\ Abort(1) \/ Abort(2)
  /\ UNCHANGED <<left, errs, ret, sig, streamVars, callVars, cut>>

Advance == at' = at + 1 /\ pc' = "next"

StopAtTop ==
  /\ pc = "next" /\ at <= Size /\ sig
  /\ Abort(4)
  /\ UNCHANGED <<left, errs, ret, sig, streamVars, callVars, cut>>

Wanted == pc = "next" /\ at <= Size /\ ~sig

PassOver ==
  /\ Wanted /\ ~Selected(registry[at])
  /\ Advance
  /\ UNCHANGED <<opt, files, registry, run, skipped, errored, exit, left, errs, ret, sig,
                 streamVars, callVars, cut>>

DeclineHeavy ==
  /\ Wanted /\ Selected(registry[at]) /\ ~HeavyAuthorized(registry[at])
  /\ EmitFinish(at, "skipped", 0)
  /\ skipped' = skipped + 1
  /\ Advance
  /\ UNCHANGED <<opt, files, registry, run, errored, exit, left, errs, ret, sig,
                 callVars, cut>>

Execute ==
  /\ Wanted /\ Selected(registry[at]) /\ HeavyAuthorized(registry[at])
  /\ EmitStart(at)
  /\ pc' = "begin" /\ errs' = 0
  /\ UNCHANGED <<engineVars, left, ret, sig, callVars, cut>>

\* Mutant: an executor that was cut short is counted like any other.
CutShortIgnored == FALSE
CutShort == sig

\* Mutant: a finish with errors counts as a run as well.
AggregateTwice ==
  /\ run' = IF verdict[at] # "skipped" THEN run + 1 ELSE run
  /\ skipped' = IF verdict[at] = "skipped" THEN skipped + 1 ELSE skipped
  /\ errored' = IF verdict[at] = "error" THEN errored + 1 ELSE errored

Aggregate ==
  /\ run' = IF verdict[at] = "ok" THEN run + 1 ELSE run
  /\ skipped' = IF verdict[at] = "skipped" THEN skipped + 1 ELSE skipped
  /\ errored' = IF verdict[at] = "error" THEN errored + 1 ELSE errored

\* An executor has returned: its context errors end the run, then the run's
\* own context is looked at, then its finish event is counted.
AfterExecutor ==
  /\ pc = "after"
  /\ IF ret \in {"canceled", "timeout"} THEN Abort(IF ret = "canceled" THEN 4 ELSE 3)
     ELSE IF CutShort THEN Abort(4)
     ELSE Aggregate /\ Advance /\ UNCHANGED <<opt, files, registry, exit>>
  /\ UNCHANGED <<left, errs, ret, sig, streamVars, callVars, cut>>

\* Mutant: only an error of Run makes the process fail.
ExitCodeIgnoringEvents == 0
ExitCode == IF errored > 0 THEN 3 ELSE 0

Summary ==
  /\ pc = "next" /\ at > Size
  /\ totals' = {<<"ok", run>>, <<"skipped", skipped>>, <<"error", errored>>}
  /\ UNCHANGED <<open, verdict, faulty, worked>>
  /\ Abort(ExitCode)
  /\ UNCHANGED <<left, errs, ret, sig, callVars, cut>>

----------------------------------------------------------------------------
(***************************************************************************)
(* Executors.                                                              *)
(***************************************************************************)
Kind == registry[at].kind

\* Mutant: the status is taken before the last error is counted.
StatusOfIgnoring(n) == IF n > 1 THEN "error" ELSE "ok"
StatusOf(n) == IF n > 0 THEN "error" ELSE "ok"

\* The finish event, after n more error events, and the return.
Conclude(status, n, value) ==
  /\ EmitFinish(at, status, n)
  /\ pc' = "after" /\ ret' = value /\ errs' = errs + n

\* A precondition is not met: nothing has been done.
SkipCleaner ==
  /\ pc = "begin"
  /\ Conclude("skipped", 0, "nil")
  /\ UNCHANGED <<engineVars, left, sig, callVars, cut>>

\* The profile or its configuration is missing; tool and debris also return it.
RejectCleaner ==
  /\ pc = "begin" /\ Kind # "paths"
  /\ Conclude("error", 1, IF Kind \in {"tool", "debris"} THEN "other" ELSE "nil")
  /\ UNCHANGED <<engineVars, left, sig, callVars, cut>>

\* The preconditions are met: there may be nothing to do.
Proceed ==
  /\ pc = "begin"
  /\ pc' = "work"
  /\ left' \in IF Kind = "tool" THEN {2} ELSE 0..MaxSteps
  /\ UNCHANGED <<engineVars, errs, ret, sig, streamVars, callVars, cut>>

Sweeping == pc = "work" /\ Kind \in {"paths", "debris", "units"}

\* One entry: deleted, skipped or an error.
Entry ==
  /\ Sweeping /\ left > 0 /\ ~sig
  /\ left' = left - 1
  /\ \/ EmitWork(at) /\ UNCHANGED errs
     \/ EmitError(at) /\ errs' = errs + 1
  /\ UNCHANGED <<engineVars, pc, ret, sig, callVars, cut>>

\* The context is found cancelled before an entry (paths reports that) or
\* between two roots (it does not); units return without a finish event.
GiveUp ==
  /\ Sweeping /\ left > 0 /\ sig
  /\ CASE Kind = "units" ->
            /\ pc' = "after" /\ ret' = "canceled"
            /\ UNCHANGED <<errs, streamVars>>
       [] Kind = "paths" ->
            \/ Conclude("error", 1, "nil")
            \/ Conclude(StatusOf(errs), 0, "nil")
       [] Kind = "debris" -> Conclude("error", 1, "nil")
  /\ cut' = cut \cup {at}
  /\ UNCHANGED <<engineVars, left, sig, callVars>>

\* debris looks at the context once more.
EndOfSweep ==
  /\ Sweeping /\ left = 0
  /\ IF Kind = "debris" /\ sig
     THEN Conclude("error", 1, "nil")
     ELSE Conclude(StatusOf(errs), 0, "nil")
  /\ UNCHANGED <<engineVars, left, sig, callVars, cut>>

----------------------------------------------------------------------------
(***************************************************************************)
(* Executors that run commands.                                            *)
(***************************************************************************)
Running == pc = "work" /\ Kind \in {"commands", "tool"}
Probing == Kind = "tool" /\ left = 2

\* A command is only shown in a dry run, unless the tool has a dry run itself.
ShowCommands ==
  /\ Running /\ Kind = "commands" /\ opt.dry /\ left > 0
  /\ EmitWork(at)
  /\ left' = 0
  /\ UNCHANGED <<engineVars, pc, errs, ret, sig, callVars, cut>>

\* RunCommand is called and either refuses or starts the command.
CallCommand ==
  /\ Running /\ phase = "ready" /\ left > 0
  /\ Kind = "tool" \/ ~opt.dry
  /\ pc' = "command"
  /\ IF sig THEN Call!Refuse("canceled")
     ELSE Call!Launch \/ Call!Refuse("setup")
  /\ UNCHANGED <<engineVars, left, errs, ret, sig, streamVars, cut>>

\* The command works; the drains emit its lines, but not those of a probe.
CommandWorks ==
  /\ Call!Work
  /\ \A s \in Streams : lines'[s] <= MaxLines
  /\ IF lines' # lines /\ ~Probing
     THEN EmitWork(at) ELSE UNCHANGED streamVars
  /\ UNCHANGED <<engineVars, pc, left, errs, ret, sig, cut>>

CommandReturns ==
  /\ pc = "command"
  /\ \E a \in Call!Answers : Call!Return(a) /\ (a = "canceled" => sig)
  /\ UNCHANGED <<engineVars, pc, left, errs, ret, sig, streamVars, cut>>

NewCall ==
  /\ phase' = "ready" /\ answer' = "none"
  /\ lines' = [s \in Streams |-> 0]
  /\ unread' = FALSE /\ group' = FALSE

GaveUp == cut' = IF answer = "canceled" THEN cut \cup {at} ELSE cut

\* tool: a failed probe only skips the cleaner, whatever its error.
ProbeDone ==
  /\ pc = "command" /\ phase = "returned" /\ Probing
  /\ NewCall /\ GaveUp
  /\ \/ answer # "ok" /\ Conclude("skipped", 0, "nil") /\ UNCHANGED left
     \/ answer = "ok" /\ Conclude("skipped", 0, "nil") /\ UNCHANGED left
     \/ answer = "ok" /\ pc' = "work" /\ left' = 1
        /\ UNCHANGED <<errs, ret, streamVars>>
  /\ UNCHANGED <<engineVars, sig>>

ReturnOf(a) == IF a \in {"canceled", "timeout"} THEN a
               ELSE IF a = "ok" THEN "nil" ELSE "other"

\* tool: the error of the command is reported and returned.
ToolDone ==
  /\ pc = "command" /\ phase = "returned" /\ Kind = "tool" /\ ~Probing
  /\ NewCall /\ GaveUp
  /\ LET n == IF answer = "ok" THEN 0 ELSE 1
     IN Conclude(StatusOf(errs + n), n, ReturnOf(answer))
  /\ UNCHANGED <<engineVars, left, sig>>

\* commands: the error is reported, the next command is run all the same.
CommandDone ==
  /\ pc = "command" /\ phase = "returned" /\ Kind = "commands"
  /\ NewCall /\ GaveUp
  /\ left' = left - 1 /\ pc' = "work"
  /\ IF answer = "ok" THEN UNCHANGED <<errs, streamVars>>
     ELSE EmitError(at) /\ errs' = errs + 1
  /\ UNCHANGED <<engineVars, ret, sig>>

EndOfCommands ==
  /\ Running /\ Kind = "commands" /\ left = 0
  /\ Conclude(StatusOf(errs), 0, "nil")
  /\ UNCHANGED <<engineVars, left, sig, callVars, cut>>

----------------------------------------------------------------------------
EngineStep ==
  \/ Load \/ LoadFails \/ StopAtTop \/ PassOver \/ DeclineHeavy
  \/ Execute \/ AfterExecutor \/ Summary

ExecutorStep ==
  \/ SkipCleaner \/ RejectCleaner \/ Proceed \/ Entry \/ GiveUp \/ EndOfSweep
  \/ ShowCommands \/ CallCommand \/ CommandReturns \/ ProbeDone \/ ToolDone
  \/ CommandDone \/ EndOfCommands

Next == Signal \/ EngineStep \/ ExecutorStep \/ CommandWorks

Spec == Init /\ [][Next]_vars

----------------------------------------------------------------------------
\* Every variable keeps its type, and a cleaner is counted at most once.
TypeOK ==
  /\ opt \in Options /\ files \in Files
  /\ Size <= N /\ \A c \in 1..Size : Valid(registry[c])
  /\ at \in 1..Size + 1
  /\ pc \in {"load", "next", "begin", "work", "command", "after", "done"}
  /\ left \in 0..MaxSteps + 2 /\ errs \in Nat
  /\ ret \in {"nil", "canceled", "timeout", "other"}
  /\ run \in Nat /\ skipped \in Nat /\ errored \in Nat
  /\ run + skipped + errored < at
  /\ exit \in {-1, 0, 1, 2, 3, 4} /\ sig \in BOOLEAN
  /\ open \subseteq Cleaners
  /\ verdict \in [Cleaners -> {"none", "ok", "skipped", "error"}]
  /\ faulty \subseteq Cleaners /\ worked \subseteq Cleaners
  /\ cut \subseteq Cleaners
  /\ phase \in {"ready", "running", "returned"}
  /\ answer \in Call!Answers \cup {"none"}
  /\ lines \in [Streams -> 0..MaxLines]
  /\ unread \in BOOLEAN /\ group \in BOOLEAN

\* README, exit codes: 0 only if every selected cleaner has finished and none
\* emitted an error event, 1 and 2 only before any event, 3 only if a cleaner emitted
\* an error event, 4 only after a signal.
ExitCodes ==
  /\ exit = 0 =>
       /\ faulty = {}
       /\ \A c \in 1..Size : Selected(registry[c]) => verdict[c] \in {"ok", "skipped"}
  /\ exit \in {1, 2} => totals = {} /\ \A c \in Cleaners : verdict[c] = "none" /\ c \notin open
  /\ exit = 3 => faulty # {}
  /\ exit = 4 => sig

\* Once a cleaner has given up work because of the signal, although some of
\* them then finish as "ok" or "skipped" and return no error, the run is not
\* summarised, no later cleaner is started and the process exits with 4.
Interrupted ==
  \A c \in cut :
    /\ totals = {} /\ exit \in {-1, 4}
    /\ \A d \in Cleaners : d > c => verdict[d] = "none" /\ d \notin open

\* The executor of the cleaner has been called.
Called(c) == c \in open \cup worked \cup faulty \/ verdict[c] \in {"ok", "error"}

\* The document that decides on the kind and the impact of a cleaner: the last
\* built-in one of its id or, without any, the user's first.
BaseDoc(id) ==
  IF IndexOf(files.builtin, id) # {} THEN files.builtin[Max(IndexOf(files.builtin, id))]
  ELSE files.user[Min(IndexOf(files.user, id))]

\* README, "Heavy cleaners require --include-heavy, or an exact cleaner ID or tag
\* in --only": whatever overlays, prefixes and configuration add up to, no
\* executor is called for a cleaner whose document declares or whose profile
\* makes it heavy, unless --include-heavy is there or --only has its id or a tag
\* that one of its documents gives it.
Consent ==
  \A c \in 1..Size :
    LET id == registry[c].id
        docs == Range(files.builtin) \cup Range(files.user)
    IN (Called(c) /\ Heavy(BaseDoc(id))) =>
         opt.heavy \/ \E d \in docs : d.id = id /\ NamedBy(d, opt.only)

\* A called executor deletes only where its scope allows it, and nothing that
\* the age given on the command line protects: without --force-no-age no document
\* takes the age filter away, and --min-age is replaced by a tag's age only.
Guarded ==
  \A c \in 1..Size :
    Called(c) =>
      /\ PathsAllowed(registry[c])
      /\ registry[c].noAge => opt.force
      /\ (opt.age # {} /\ ~registry[c].noAge) =>
           registry[c].age \subseteq opt.age \cup Range(opt.tagAge)

\* The events a reader of the JSONL output sees are in order: every event of a
\* cleaner, the lines its command's two drains emit included, lies between its
\* start and its finish, whose status tells whether there was an error event,
\* and the summary is last and agrees with the finish events.
EventOrder == Stream!Spec

\* Design, exit code 3: the other cleaners have still completed.  Without a
\* signal a run that has begun does not end before its last cleaner and its summary.
OthersComplete == (exit \notin {-1, 1, 2} /\ ~sig) => totals # {}
============================================================================
