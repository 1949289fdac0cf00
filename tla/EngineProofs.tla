---------------------------- MODULE EngineProofs ----------------------------
(***************************************************************************)
(* Proofs about Engine, for every registry, command line, number of        *)
(* entries and length of output: the event stream is what EventStream      *)
(* promises a reader of the JSONL, and the exit code says what happened.   *)
(***************************************************************************)
EXTENDS Engine, SequenceTheorems, FiniteSetTheorems, TLAPS

\* The numbers of cleaners, of steps and of lines are numbers.
LEMMA Bounds == N \in Nat /\ MaxSteps \in Nat \ {0} /\ MaxLines \in Nat
BY EngineAssumption

USE Bounds

Executing == {"begin", "work", "command", "after"}

----------------------------------------------------------------------------
(***************************************************************************)
(* The inductive invariant, in parts.  What the properties say of the end  *)
(* of a run is known because cleaners behind the loop are settled and      *)
(* those ahead of it untouched (Settled, Untouched), because the counters  *)
(* count what is settled (Counted), and because a cleaner that gave up     *)
(* work is the one the loop stands at (CutHere).                           *)
(***************************************************************************)
Allowed(c) ==
  /\ PathsAllowed(c)
  /\ c.noAge => opt.force
  /\ (opt.age # {} /\ ~c.noAge)
       => c.age \subseteq opt.age \cup Range(opt.tagAge)

RegistryKnown ==
  /\ Size \in Nat /\ (pc = "load" => Size = 0)
  /\ \A c \in 1..Size : Selected(registry[c]) => Allowed(registry[c])

\* Where the loop stands, and the command under way.
Position ==
  /\ pc \in Executing =>
       at <= Size /\ Selected(registry[at]) /\ HeavyAuthorized(registry[at])
  /\ pc = "command" <=> phase # "ready"
  /\ pc = "command" => left > 0 /\ Kind \in {"commands", "tool"}
  /\ pc \in {"work", "command"} /\ Kind = "tool" => left \in {1, 2}
  /\ pc = "done" <=> exit # -1

Untouched(c) ==
  verdict[c] = "none" /\ c \notin open /\ c \notin faulty /\ c \notin worked

Settled(c) ==
  /\ c \notin open /\ (verdict[c] = "error" <=> c \in faulty)
  /\ Selected(registry[c]) => verdict[c] # "none"

\* The cleaner the loop stands at.
Current ==
  /\ pc \in {"load", "next"} => open = {} /\ (at \in Cleaners => Untouched(at))
  /\ pc = "begin" =>
       /\ open = {at} /\ verdict[at] = "none"
       /\ at \notin faulty /\ at \notin worked /\ errs = 0
  /\ pc \in {"work", "command"} =>
       /\ open = {at} /\ verdict[at] = "none" /\ (errs > 0 <=> at \in faulty)
       /\ Probing => at \notin faulty /\ at \notin worked
  /\ pc = "after" =>
       \/ /\ open = {} /\ verdict[at] # "none"
          /\ verdict[at] = "error" <=> at \in faulty
       \/ open = {at} /\ verdict[at] = "none" /\ ret = "canceled"

Ordered ==
  /\ \A c \in Cleaners : c > at => Untouched(c)
  /\ \A c \in Cleaners : c < at => Settled(c)

Done(v) == {c \in 1..(at - 1) : verdict[c] = v}

Counted ==
  /\ run = Cardinality(Done("ok"))
  /\ skipped = Cardinality(Done("skipped"))
  /\ errored = Cardinality(Done("error"))

Ended ==
  /\ totals # {} => pc = "done" /\ exit \in {0, 3}
  /\ answer = "canceled" => sig
  /\ pc = "after" /\ ret = "canceled" => sig
  /\ pc = "after" /\ ret = "timeout" => at \in faulty /\ cut = {}

CutHere ==
  cut # {} =>
    /\ sig /\ cut = {at}
    /\ pc \in {"work", "command", "after"} \/ (pc = "done" /\ exit = 4)
    /\ pc \in {"work", "command"} => Kind # "tool"

CalledKnown ==
  \A c \in Cleaners :
    Called(c) => c <= Size /\ Selected(registry[c])
                 /\ HeavyAuthorized(registry[c])

IndInv ==
  /\ TypeOK /\ RegistryKnown /\ Position /\ Current /\ Ordered
  /\ Counted /\ Ended /\ CutHere /\ CalledKnown /\ ExitCodes
----------------------------------------------------------------------------
\* What a cleaner is selected and authorised for does not change in a run.
LEMMA Frame ==
  ASSUME UNCHANGED <<opt, files, registry>>
  PROVE  /\ Size' = Size
         /\ \A c : Selected(registry[c])' <=> Selected(registry[c])
         /\ \A c : HeavyAuthorized(registry[c])'
              <=> HeavyAuthorized(registry[c])
         /\ \A c : Allowed(registry[c])' <=> Allowed(registry[c])
BY DEF Size, Selected, HeavyAuthorized, Allowed

\* While the loop runs it is at one of the cleaners.
LEMMA AtCleaner ==
  ASSUME IndInv, at <= Size
  PROVE  at \in Cleaners /\ at \in Nat /\ Size \in Nat
BY DEF IndInv, TypeOK, RegistryKnown, Cleaners

\* The cleaner the loop leaves behind is counted under its verdict.
LEMMA DoneCount ==
  ASSUME at \in Nat \ {0}, at' = at + 1, NEW v,
         \A c \in 1..(at - 1) : verdict'[c] = verdict[c]
  PROVE  /\ Cardinality(Done(v)) \in Nat
         /\ Cardinality(Done(v)') =
              Cardinality(Done(v)) + (IF verdict'[at] = v THEN 1 ELSE 0)
<1>1. IsFiniteSet(Done(v))
  <2>1. IsFiniteSet(1..(at - 1))
    BY FS_Interval
  <2> QED
    BY <2>1, FS_Subset DEF Done
<1>2. at \notin Done(v)
  BY DEF Done
<1>3. Done(v)' = IF verdict'[at] = v THEN Done(v) \cup {at} ELSE Done(v)
  BY DEF Done
<1> QED
  BY <1>1, <1>2, <1>3, FS_AddElement, FS_CardinalityType

\* A count is zero when no cleaner the loop has left has that verdict.
LEMMA EmptyCount ==
  ASSUME at \in Nat \ {0}, NEW v
  PROVE  Cardinality(Done(v)) = 0 <=> \A c \in 1..(at - 1) : verdict[c] # v
<1>1. IsFiniteSet(Done(v))
  <2>1. IsFiniteSet(1..(at - 1))
    BY FS_Interval
  <2> QED
    BY <2>1, FS_Subset DEF Done
<1>2. Cardinality(Done(v)) = 0 <=> Done(v) = {}
  BY <1>1, FS_EmptySet
<1> QED
  BY <1>2 DEF Done

----------------------------------------------------------------------------
\* The steps of the engine, one lemma for each.
LEMMA SignalInv ==
  ASSUME IndInv, Signal
  PROVE  IndInv'
<1>1. TypeOK'
  BY Frame, AtCleaner
  DEF IndInv, TypeOK, Signal, engineVars, callVars, streamVars,
     Call!Answers
<1>2. Ended'
  BY Frame, AtCleaner
  DEF IndInv, Ended, Signal, engineVars, callVars, streamVars
<1>3. CutHere'
  BY Frame, AtCleaner
  DEF IndInv, CutHere, Signal, engineVars, callVars, streamVars
<1>4. ExitCodes'
  BY Frame, AtCleaner
  DEF IndInv, ExitCodes, Signal, engineVars, callVars, streamVars
<1>5. (RegistryKnown /\ Position /\ Current /\ Ordered /\ Counted
       /\ CalledKnown)'
  BY Frame, AtCleaner
  DEF IndInv, RegistryKnown, Position, Current, Ordered, Counted,
     CalledKnown, Untouched, Settled, Called, Kind, Probing, Done, Signal,
     engineVars, callVars, streamVars
<1> QED
  BY <1>1, <1>2, <1>3, <1>4, <1>5 DEF IndInv

LEMMA LoadFailsInv ==
  ASSUME IndInv, LoadFails
  PROVE  IndInv'
<1>1. TypeOK'
  BY Frame, AtCleaner
  DEF IndInv, TypeOK, RegistryKnown, Position, CalledKnown, LoadFails,
     Abort, engineVars, callVars, streamVars, Call!Answers
<1>2. Position'
  BY Frame, AtCleaner
  DEF IndInv, Position, Executing, LoadFails, Abort, engineVars,
     callVars, streamVars
<1>3. Current'
  BY Frame, AtCleaner
  DEF Current, LoadFails, Abort, engineVars, callVars, streamVars
<1>4. Ended'
  BY Frame, AtCleaner
  DEF IndInv, Ended, LoadFails, Abort, engineVars, callVars, streamVars
<1>5. CutHere'
  BY Frame, AtCleaner
  DEF IndInv, CutHere, LoadFails, Abort, engineVars, callVars, streamVars
<1>6. ExitCodes'
  <2>1. exit' \in {1, 2} /\ UNCHANGED <<totals, open, verdict>>
    BY DEF LoadFails, Abort, streamVars
  <2>2. pc = "load" /\ at = 1 /\ exit = -1
    BY DEF IndInv, TypeOK, RegistryKnown, Position, LoadFails
  <2>3. totals = {} /\ open = {} /\ \A c \in Cleaners : Untouched(c)
    BY <2>2 DEF IndInv, Current, Ordered, Ended, Cleaners
  <2> QED
    BY <2>1, <2>3 DEF ExitCodes, Untouched
<1>7. (RegistryKnown /\ Ordered /\ Counted /\ CalledKnown)'
  BY Frame, AtCleaner
  DEF IndInv, RegistryKnown, Ordered, Counted, CalledKnown, Untouched,
     Settled, Executing, Cleaners, Called, Size, Kind, Probing, Done,
     LoadFails, Abort, engineVars, callVars, streamVars
<1> QED
  BY <1>1, <1>2, <1>3, <1>4, <1>5, <1>6, <1>7 DEF IndInv

LEMMA StopAtTopInv ==
  ASSUME IndInv, StopAtTop
  PROVE  IndInv'
<1>1. TypeOK'
  BY Frame, AtCleaner
  DEF IndInv, TypeOK, Ordered, Ended, StopAtTop, Abort, engineVars,
     callVars, streamVars, Call!Answers
<1>2. Position'
  BY Frame, AtCleaner
  DEF IndInv, Position, Executing, StopAtTop, Abort, engineVars,
     callVars, streamVars
<1>3. Current'
  BY Frame, AtCleaner
  DEF Current, StopAtTop, Abort, engineVars, callVars, streamVars
<1>4. Ended'
  BY Frame, AtCleaner
  DEF IndInv, Ended, StopAtTop, Abort, engineVars, callVars, streamVars
<1>5. CutHere'
  BY Frame, AtCleaner
  DEF IndInv, CutHere, StopAtTop, Abort, engineVars, callVars, streamVars
<1>6. ExitCodes'
  BY Frame, AtCleaner
  DEF ExitCodes, StopAtTop, Abort, engineVars, callVars, streamVars
<1>7. (RegistryKnown /\ Ordered /\ Counted /\ CalledKnown)'
  BY Frame, AtCleaner
  DEF IndInv, RegistryKnown, Ordered, Counted, CalledKnown, Untouched,
     Settled, Called, Done, StopAtTop, Abort, streamVars
<1> QED
  BY <1>1, <1>2, <1>3, <1>4, <1>5, <1>6, <1>7 DEF IndInv

LEMMA PassOverInv ==
  ASSUME IndInv, PassOver
  PROVE  IndInv'
<1>1. TypeOK'
  BY Frame, AtCleaner
  DEF IndInv, TypeOK, PassOver, Wanted, Advance, engineVars, callVars,
     streamVars, Call!Answers
<1>2. Position'
  BY Frame, AtCleaner
  DEF IndInv, Position, PassOver, Wanted, Advance, engineVars, callVars,
     streamVars
<1>3. Current'
  BY Frame, AtCleaner
  DEF IndInv, Current, Ordered, Untouched, PassOver, Wanted, Advance,
     engineVars, callVars, streamVars
<1>4. Ordered'
  BY Frame, AtCleaner
  DEF IndInv, Ordered, Ended, CalledKnown, Untouched, Settled, Cleaners,
     Called, PassOver, Wanted, Advance, engineVars, callVars, streamVars
<1>5. Counted'
  <2>1. /\ at \in Nat \ {0} /\ at' = at + 1
        /\ \A c \in 1..(at - 1) : verdict'[c] = verdict[c]
    BY DEF PassOver, Advance, IndInv, TypeOK, streamVars
  <2>2. /\ run' = run + (IF verdict'[at] = "ok" THEN 1 ELSE 0)
        /\ skipped' = skipped + (IF verdict'[at] = "skipped" THEN 1 ELSE 0)
        /\ errored' = errored + (IF verdict'[at] = "error" THEN 1 ELSE 0)
    BY AtCleaner
    DEF PassOver, Wanted, IndInv, TypeOK, Current, Untouched,
       streamVars
  <2> QED
    BY <2>1, <2>2, DoneCount DEF IndInv, Counted

<1>6. Ended'
  BY Frame, AtCleaner
  DEF IndInv, Ended, PassOver, Wanted, Advance, engineVars, callVars,
     streamVars
<1>7. CutHere'
  BY Frame, AtCleaner
  DEF IndInv, CutHere, PassOver, Wanted, Advance, engineVars, callVars,
     streamVars
<1>8. (RegistryKnown /\ CalledKnown /\ ExitCodes)'
  BY Frame, AtCleaner
  DEF IndInv, RegistryKnown, CalledKnown, ExitCodes, Called, PassOver,
     Advance, streamVars
<1> QED
  BY <1>1, <1>2, <1>3, <1>4, <1>5, <1>6, <1>7, <1>8 DEF IndInv

LEMMA DeclineHeavyInv ==
  ASSUME IndInv, DeclineHeavy
  PROVE  IndInv'
<1>1. TypeOK'
  BY Frame, AtCleaner
  DEF IndInv, TypeOK, Position, DeclineHeavy, Wanted, Advance,
     EmitFinish, engineVars, callVars, streamVars, Call!Answers
<1>2. Position'
  BY Frame, AtCleaner
  DEF IndInv, Position, DeclineHeavy, Wanted, Advance, EmitFinish,
     engineVars, callVars, streamVars
<1>3. Current'
  BY Frame, AtCleaner
  DEF IndInv, Current, Ordered, Untouched, DeclineHeavy, Wanted, Advance,
     EmitFinish, engineVars, callVars, streamVars
<1>4. Ordered'
  BY Frame, AtCleaner
  DEF IndInv, TypeOK, Ordered, CalledKnown, Untouched, Settled, Cleaners,
     Called, DeclineHeavy, Wanted, Advance, EmitFinish, engineVars,
     callVars, streamVars
<1>5. Counted'
  <2>1. /\ at \in Nat \ {0} /\ at' = at + 1
        /\ \A c \in 1..(at - 1) : verdict'[c] = verdict[c]
    BY DEF DeclineHeavy, Advance, EmitFinish, IndInv, TypeOK
  <2>2. /\ run' = run + (IF verdict'[at] = "ok" THEN 1 ELSE 0)
        /\ skipped' = skipped + (IF verdict'[at] = "skipped" THEN 1 ELSE 0)
        /\ errored' = errored + (IF verdict'[at] = "error" THEN 1 ELSE 0)
    BY AtCleaner DEF DeclineHeavy, Wanted, EmitFinish, IndInv, TypeOK
  <2> QED
    BY <2>1, <2>2, DoneCount DEF IndInv, Counted

<1>6. Ended'
  BY Frame, AtCleaner
  DEF IndInv, Ended, DeclineHeavy, Wanted, Advance, EmitFinish,
     engineVars, callVars, streamVars
<1>7. CutHere'
  BY Frame, AtCleaner
  DEF IndInv, CutHere, DeclineHeavy, Wanted, Advance, EmitFinish,
     engineVars, callVars, streamVars
<1>8. CalledKnown'
  BY Frame, AtCleaner
  DEF IndInv, CalledKnown, Called, DeclineHeavy, Wanted, Advance,
     EmitFinish, engineVars, callVars, streamVars
<1>9. ExitCodes'
  BY Frame, AtCleaner
  DEF IndInv, Position, ExitCodes, DeclineHeavy, Wanted, Advance,
     EmitFinish, engineVars, callVars, streamVars
<1>10. RegistryKnown'
  BY Frame, AtCleaner DEF IndInv, RegistryKnown, DeclineHeavy, Advance
<1> QED
  BY <1>1, <1>2, <1>3, <1>4, <1>5, <1>6, <1>7, <1>8, <1>9, <1>10 DEF IndInv

LEMMA ExecuteInv ==
  ASSUME IndInv, Execute
  PROVE  IndInv'
<1>1. TypeOK'
  BY Frame, AtCleaner
  DEF IndInv, TypeOK, RegistryKnown, Position, Current, Ordered, Ended,
     CutHere, CalledKnown, ExitCodes, Untouched, Settled, Executing,
     Cleaners, Called, Size, Kind, Probing, Execute, Wanted, EmitStart,
     engineVars, callVars, streamVars, Call!Answers
<1>2. Position'
  BY Frame, AtCleaner
  DEF IndInv, Position, Execute, Wanted, EmitStart, engineVars, callVars,
     streamVars
<1>3. Current'
  BY Frame, AtCleaner
  DEF IndInv, TypeOK, RegistryKnown, Position, Current, Ordered, Ended,
     CutHere, CalledKnown, ExitCodes, Untouched, Settled, Executing,
     Cleaners, Called, Size, Kind, Probing, Execute, Wanted, EmitStart,
     engineVars, callVars, streamVars
<1>4. Ordered'
  BY Frame, AtCleaner
  DEF IndInv, Ordered, Untouched, Settled, Execute, Wanted, EmitStart,
     engineVars, callVars, streamVars
<1>5. Ended'
  BY Frame, AtCleaner
  DEF IndInv, Ended, Execute, Wanted, EmitStart, engineVars, callVars,
     streamVars
<1>6. CutHere'
  BY Frame, AtCleaner
  DEF IndInv, CutHere, Execute, Wanted, EmitStart, engineVars, callVars,
     streamVars
<1>7. CalledKnown'
  BY Frame, AtCleaner
  DEF IndInv, CalledKnown, Called, Execute, Wanted, EmitStart,
     engineVars, callVars, streamVars
<1>8. ExitCodes'
  BY Frame, AtCleaner
  DEF IndInv, Position, ExitCodes, Execute, Wanted, EmitStart,
     engineVars, callVars, streamVars
<1>9. (RegistryKnown /\ Counted)'
  BY Frame, AtCleaner
  DEF IndInv, RegistryKnown, Counted, Done, Execute, EmitStart,
     engineVars
<1> QED
  BY <1>1, <1>2, <1>3, <1>4, <1>5, <1>6, <1>7, <1>8, <1>9 DEF IndInv

LEMMA AfterExecutorInv ==
  ASSUME IndInv, AfterExecutor
  PROVE  IndInv'
<1>1. TypeOK'
  <2>1. CASE pc' = "done"
    BY <2>1, Frame
    DEF AfterExecutor, Abort, Advance, IndInv, TypeOK, streamVars,
       callVars
  <2>2. CASE pc' = "next"
    <3>1. /\ verdict[at] \in {"none", "ok", "skipped", "error"}
          /\ at' = at + 1 /\ at <= Size
      BY <2>2, AtCleaner
      DEF AfterExecutor, Abort, Advance, IndInv, TypeOK, Position,
         Executing
    <3>2. /\ run' \in Nat /\ skipped' \in Nat /\ errored' \in Nat
          /\ run' + skipped' + errored' < at'
      BY <3>1 DEF AfterExecutor, Abort, Aggregate, IndInv, TypeOK
    <3>3. /\ UNCHANGED <<opt, files, registry, exit, streamVars, callVars>>
          /\ UNCHANGED <<left, errs, ret, sig, cut>>
      BY <2>2 DEF AfterExecutor, Abort
    <3>4. at' \in 1..Size' + 1
      BY <3>1, <3>3, Frame DEF IndInv, TypeOK, RegistryKnown
    <3>5. Size' = Size
      BY <3>3, Frame
    <3>6. (Size <= N /\ \A c \in 1..Size : Valid(registry[c]))'
      BY <3>3, <3>5 DEF IndInv, TypeOK
    <3>7. TypeOK
      BY DEF IndInv
    <3>8. (/\ opt \in Options /\ files \in Files
           /\ left \in 0..MaxSteps + 2 /\ errs \in Nat
           /\ ret \in {"nil", "canceled", "timeout", "other"}
           /\ exit \in {-1, 0, 1, 2, 3, 4} /\ sig \in BOOLEAN
           /\ cut \subseteq Cleaners)'
      BY <3>3, <3>7 DEF TypeOK
    <3>9. (/\ open \subseteq Cleaners
           /\ verdict \in [Cleaners -> {"none", "ok", "skipped", "error"}]
           /\ faulty \subseteq Cleaners /\ worked \subseteq Cleaners)'
      BY <3>3, <3>7 DEF TypeOK, streamVars
    <3>10. (/\ phase \in {"ready", "running", "returned"}
            /\ answer \in Call!Answers \cup {"none"}
            /\ lines \in [Streams -> 0..MaxLines]
            /\ unread \in BOOLEAN /\ group \in BOOLEAN)'
      BY <3>3, <3>7 DEF TypeOK, callVars
    <3> QED
      BY <2>2, <3>2, <3>4, <3>6, <3>8, <3>9, <3>10 DEF TypeOK
  <2> QED
    BY <2>1, <2>2 DEF AfterExecutor, Abort, Advance

<1>2. Position'
  BY Frame, AtCleaner
  DEF IndInv, Position, Executing, AfterExecutor, Abort, CutShort,
     Aggregate, Advance, engineVars, callVars, streamVars
<1>3. Current'
  BY Frame, AtCleaner
  DEF IndInv, Position, Current, Ordered, Untouched, Executing,
     AfterExecutor, Abort, CutShort, Aggregate, Advance, engineVars,
     callVars, streamVars
<1>4. Ordered'
  BY Frame, AtCleaner
  DEF IndInv, Position, Current, Ordered, Untouched, Settled, Executing,
     Cleaners, AfterExecutor, Abort, CutShort, Aggregate, Advance,
     engineVars, callVars, streamVars
<1>5. Counted'
  <2>1. CASE pc' = "done"
    BY <2>1
    DEF AfterExecutor, Abort, Advance, IndInv, Counted, Done,
       streamVars
  <2>2. CASE pc' = "next"
    <3>1. /\ at \in Nat \ {0} /\ at' = at + 1
          /\ \A c \in 1..(at - 1) : verdict'[c] = verdict[c]
      BY <2>2 DEF AfterExecutor, Abort, Advance, IndInv, TypeOK, streamVars
    <3>2. /\ run' = run + (IF verdict'[at] = "ok" THEN 1 ELSE 0)
          /\ skipped' = skipped + (IF verdict'[at] = "skipped" THEN 1 ELSE 0)
          /\ errored' = errored + (IF verdict'[at] = "error" THEN 1 ELSE 0)
      BY <2>2
      DEF AfterExecutor, Abort, Aggregate, IndInv, TypeOK, streamVars
    <3> QED
      BY <3>1, <3>2, DoneCount DEF IndInv, Counted
  <2> QED
    BY <2>1, <2>2 DEF AfterExecutor, Abort, Advance

<1>6. Ended'
  BY Frame, AtCleaner
  DEF IndInv, Ended, AfterExecutor, Abort, CutShort, Aggregate, Advance,
     engineVars, callVars, streamVars
<1>7. CutHere'
  BY Frame, AtCleaner
  DEF IndInv, Ended, CutHere, AfterExecutor, Abort, CutShort, Aggregate,
     Advance, engineVars, callVars, streamVars
<1>8. ExitCodes'
  BY Frame, AtCleaner
  DEF IndInv, Ended, ExitCodes, AfterExecutor, Abort, CutShort,
     Aggregate, Advance, engineVars, callVars, streamVars
<1>9. (RegistryKnown /\ CalledKnown)'
  BY Frame, AtCleaner
  DEF IndInv, RegistryKnown, CalledKnown, Called, AfterExecutor, Abort,
     Advance, streamVars
<1> QED
  BY <1>1, <1>2, <1>3, <1>4, <1>5, <1>6, <1>7, <1>8, <1>9 DEF IndInv

LEMMA SummaryInv ==
  ASSUME IndInv, Summary
  PROVE  IndInv'
<1>1. TypeOK'
  BY Frame, AtCleaner
  DEF IndInv, TypeOK, Position, Summary, Abort, ExitCode, engineVars,
     callVars, streamVars, Call!Answers
<1>2. Position'
  BY Frame, AtCleaner
  DEF IndInv, Position, Executing, Summary, Abort, ExitCode, engineVars,
     callVars, streamVars
<1>3. Current'
  BY Frame, AtCleaner
  DEF Current, Summary, Abort, ExitCode, engineVars, callVars, streamVars
<1>4. Ended'
  BY Frame, AtCleaner
  DEF IndInv, Ended, Summary, Abort, ExitCode, engineVars, callVars,
     streamVars
<1>5. CutHere'
  BY Frame, AtCleaner
  DEF IndInv, CutHere, Summary, Abort, ExitCode, engineVars, callVars,
     streamVars
<1>6. ExitCodes'
  <2>1. /\ at \in Nat \ {0} /\ at = Size + 1
        /\ exit' = IF errored > 0 THEN 3 ELSE 0
    BY DEF Summary, Abort, ExitCode, IndInv, TypeOK, RegistryKnown
  <2>2. errored > 0 <=> \E c \in 1..(at - 1) : verdict[c] = "error"
    BY EmptyCount DEF IndInv, TypeOK, Counted
  <2>3. \A c \in faulty : c \in 1..(at - 1)
    BY DEF Summary, IndInv, TypeOK, Current, Ordered, Untouched, Cleaners
  <2>4. \A c \in 1..(at - 1) :
          /\ c \in Cleaners /\ (verdict[c] = "error" <=> c \in faulty)
          /\ Selected(registry[c]) => verdict[c] # "none"
    BY DEF IndInv, TypeOK, RegistryKnown, Ordered, Settled, Cleaners
  <2>5. UNCHANGED <<opt, files, registry, faulty, verdict, open>>
    BY DEF Summary, Abort
  <2> QED
    BY <2>1, <2>2, <2>3, <2>4, <2>5, Frame
    DEF IndInv, TypeOK, RegistryKnown, ExitCodes

<1>7. (RegistryKnown /\ Ordered /\ Counted /\ CalledKnown)'
  BY Frame, AtCleaner
  DEF IndInv, RegistryKnown, Ordered, Counted, CalledKnown, Untouched,
     Settled, Called, Done, Summary, Abort, streamVars
<1> QED
  BY <1>1, <1>2, <1>3, <1>4, <1>5, <1>6, <1>7 DEF IndInv

LEMMA ProceedInv ==
  ASSUME IndInv, Proceed
  PROVE  IndInv'
<1>1. TypeOK'
  BY Frame, AtCleaner
  DEF IndInv, TypeOK, RegistryKnown, Position, Current, Ended, Proceed,
     engineVars, callVars, streamVars, Call!Answers
<1>2. Position'
  BY Frame, AtCleaner
  DEF IndInv, Position, Executing, Kind, Proceed, engineVars, callVars,
     streamVars
<1>3. Current'
  BY Frame, AtCleaner
  DEF IndInv, Current, Proceed, engineVars, callVars, streamVars
<1>4. Ended'
  BY Frame, AtCleaner
  DEF IndInv, Ended, Proceed, engineVars, callVars, streamVars
<1>5. CutHere'
  BY Frame, AtCleaner
  DEF IndInv, CutHere, Proceed, engineVars, callVars, streamVars
<1>6. (RegistryKnown /\ Ordered /\ Counted /\ CalledKnown /\ ExitCodes)'
  BY Frame, AtCleaner
  DEF IndInv, RegistryKnown, Ordered, Counted, CalledKnown, ExitCodes,
     Untouched, Settled, Called, Done, Proceed, engineVars, streamVars
<1> QED
  BY <1>1, <1>2, <1>3, <1>4, <1>5, <1>6 DEF IndInv

LEMMA EntryInv ==
  ASSUME IndInv, Entry
  PROVE  IndInv'
<1>1. TypeOK'
  <2>1. left' \in 0..MaxSteps + 2
    BY DEF Entry, IndInv, TypeOK
  <2>2. errs' \in Nat /\ faulty' \subseteq Cleaners
        /\ worked' \subseteq Cleaners
    BY AtCleaner
    DEF Entry, Sweeping, EmitWork, EmitError, IndInv, TypeOK, Position,
       Executing
  <2> QED
    BY <2>2, Frame
    DEF Entry, EmitWork, EmitError, IndInv, TypeOK, engineVars,
       callVars

<1>2. Position'
  BY Frame, AtCleaner
  DEF IndInv, Position, Kind, Entry, Sweeping, EmitWork, EmitError,
     engineVars, callVars, streamVars
<1>3. Current'
  BY Frame, AtCleaner
  DEF IndInv, TypeOK, Current, Kind, Probing, Entry, Sweeping, EmitWork,
     EmitError, engineVars, callVars, streamVars
<1>4. Ordered'
  BY Frame, AtCleaner
  DEF IndInv, TypeOK, RegistryKnown, Position, Current, Ordered, Ended,
     CutHere, CalledKnown, ExitCodes, Untouched, Settled, Executing,
     Cleaners, Called, Size, Kind, Probing, Entry, Sweeping, EmitWork,
     EmitError, engineVars, callVars, streamVars
<1>5. Ended'
  BY Frame, AtCleaner
  DEF IndInv, Ended, Entry, Sweeping, EmitWork, EmitError, engineVars,
     callVars, streamVars
<1>6. CalledKnown'
  BY Frame, AtCleaner
  DEF IndInv, Current, CalledKnown, Called, Entry, Sweeping, EmitWork,
     EmitError, engineVars, callVars, streamVars
<1>7. ExitCodes'
  BY Frame, AtCleaner
  DEF IndInv, Position, ExitCodes, Entry, Sweeping, EmitWork, EmitError,
     engineVars, callVars, streamVars
<1>8. (RegistryKnown /\ Counted /\ CutHere)'
  BY Frame, AtCleaner
  DEF IndInv, RegistryKnown, Counted, CutHere, Untouched, Settled,
     Executing, Cleaners, Called, Size, Kind, Probing, Done, Entry,
     Sweeping, EmitWork, EmitError, engineVars, callVars, streamVars
<1> QED
  BY <1>1, <1>2, <1>3, <1>4, <1>5, <1>6, <1>7, <1>8 DEF IndInv

LEMMA ShowCommandsInv ==
  ASSUME IndInv, ShowCommands
  PROVE  IndInv'
<1>1. TypeOK'
  BY Frame, AtCleaner
  DEF IndInv, TypeOK, Current, Ordered, CutHere, ShowCommands, Running,
     EmitWork, engineVars, callVars, streamVars, Call!Answers
<1>2. Position'
  BY Frame, AtCleaner
  DEF IndInv, Position, Kind, ShowCommands, Running, EmitWork,
     engineVars, callVars, streamVars
<1>3. Current'
  BY Frame, AtCleaner
  DEF IndInv, Current, Probing, ShowCommands, Running, EmitWork,
     engineVars, callVars, streamVars
<1>4. Ordered'
  BY Frame, AtCleaner
  DEF IndInv, Ordered, Untouched, Settled, Cleaners, ShowCommands,
     Running, EmitWork, engineVars, callVars, streamVars
<1>5. CalledKnown'
  BY Frame, AtCleaner
  DEF IndInv, Current, CalledKnown, Called, ShowCommands, Running,
     EmitWork, engineVars, callVars, streamVars
<1>6. (RegistryKnown /\ Counted /\ Ended /\ CutHere /\ ExitCodes)'
  BY Frame, AtCleaner
  DEF IndInv, RegistryKnown, Counted, Ended, CutHere, ExitCodes, Kind,
     Done, ShowCommands, EmitWork, engineVars, callVars, streamVars
<1> QED
  BY <1>1, <1>2, <1>3, <1>4, <1>5, <1>6 DEF IndInv

LEMMA CallCommandInv ==
  ASSUME IndInv, CallCommand
  PROVE  IndInv'
<1>1. TypeOK'
  <2>1. TypeOK
    BY DEF IndInv
  <2>2. /\ UNCHANGED <<opt, files, registry, at, run, skipped, errored, exit>>
        /\ UNCHANGED <<open, verdict, faulty, worked>>
        /\ UNCHANGED <<left, errs, ret, sig, cut>> /\ pc' = "command"
    BY DEF CallCommand, engineVars, streamVars
  <2>3. (/\ phase \in {"ready", "running", "returned"}
         /\ answer \in Call!Answers \cup {"none"}
         /\ lines \in [Streams -> 0..MaxLines]
         /\ unread \in BOOLEAN /\ group \in BOOLEAN)'
    BY <2>1
    DEF TypeOK, CallCommand, Call!Refuse, Call!Launch, Call!Answers, callVars
  <2>4. Size' = Size
    BY <2>2 DEF Size
  <2> QED
    BY <2>1, <2>2, <2>3, <2>4 DEF TypeOK
<1>2. Position'
  BY Frame, AtCleaner
  DEF IndInv, Position, Executing, Kind, CallCommand, Running,
     Call!Refuse, Call!Launch, Call!Answers, engineVars, callVars,
     streamVars
<1>3. Current'
  BY Frame, AtCleaner
  DEF IndInv, Current, Kind, Probing, CallCommand, Running, Call!Refuse,
     Call!Launch, Call!Answers, engineVars, callVars, streamVars
<1>4. Ended'
  BY Frame, AtCleaner
  DEF IndInv, Ended, CallCommand, Running, Call!Refuse, Call!Launch,
     Call!Answers, engineVars, callVars, streamVars
<1>5. CutHere'
  BY Frame, AtCleaner
  DEF IndInv, CutHere, Kind, CallCommand, Running, Call!Refuse,
     Call!Launch, Call!Answers, engineVars, callVars, streamVars
<1>6. (RegistryKnown /\ Ordered /\ Counted /\ CalledKnown /\ ExitCodes)'
  BY Frame, AtCleaner
  DEF IndInv, RegistryKnown, Ordered, Counted, CalledKnown, ExitCodes,
     Untouched, Settled, Called, Done, CallCommand, Call!Answers,
     engineVars, callVars, streamVars
<1> QED
  BY <1>1, <1>2, <1>3, <1>4, <1>5, <1>6 DEF IndInv

LEMMA CommandWorksInv ==
  ASSUME IndInv, CommandWorks
  PROVE  IndInv'
<1>1. TypeOK'
  <2>1. pc = "command" /\ at \in Cleaners
    BY AtCleaner DEF CommandWorks, Call!Work, IndInv, Position, Executing
  <2>2. lines' \in [Streams -> 0..MaxLines]
    BY DEF CommandWorks, Call!Work, IndInv, TypeOK
  <2>3. UNCHANGED <<open, verdict, faulty, totals>>
        /\ worked' \subseteq Cleaners
    BY <2>1 DEF CommandWorks, EmitWork, IndInv, TypeOK, streamVars
  <2> QED
    BY <2>3, Frame DEF CommandWorks, Call!Work, IndInv, TypeOK, engineVars

<1>2. Current'
  BY Frame, AtCleaner
  DEF IndInv, Position, Current, Kind, Probing, CommandWorks, Call!Work,
     EmitWork, engineVars, callVars, streamVars
<1>3. Ordered'
  <2>1. worked' \subseteq worked \cup {at}
        /\ UNCHANGED <<open, verdict, faulty>>
    BY DEF CommandWorks, EmitWork, streamVars
  <2>2. UNCHANGED <<opt, files, registry, at>>
    BY DEF CommandWorks, engineVars
  <2>3. \A c \in Cleaners : c > at => Untouched(c)'
    BY <2>1 DEF IndInv, Ordered, Untouched, Cleaners
  <2>4. \A c \in Cleaners : c < at => Settled(c)'
    BY <2>1, <2>2, Frame DEF IndInv, Ordered, Settled
  <2> QED
    BY <2>2, <2>3, <2>4 DEF Ordered

<1>4. CalledKnown'
  <2>1. UNCHANGED <<opt, files, registry>>
    BY DEF CommandWorks, engineVars
  <2>2. \A c \in Cleaners : Called(c)' => Called(c) \/ c = at
    BY DEF CommandWorks, EmitWork, Called, streamVars
  <2>3. pc = "command"
    BY DEF CommandWorks, Call!Work, IndInv, Position
  <2>4. at <= Size /\ Selected(registry[at]) /\ HeavyAuthorized(registry[at])
    BY <2>3 DEF IndInv, Position, Executing
  <2>5. /\ Size' = Size
        /\ \A c : Selected(registry[c])' <=> Selected(registry[c])
        /\ \A c : HeavyAuthorized(registry[c])'
               <=> HeavyAuthorized(registry[c])
    BY <2>1, Frame
  <2>6. ASSUME NEW c \in Cleaners, Called(c)'
        PROVE  /\ c <= Size /\ Selected(registry[c])
               /\ HeavyAuthorized(registry[c])
    <3>1. CASE c = at
      BY <2>4, <3>1
    <3>2. CASE Called(c)
      BY <3>2 DEF IndInv, CalledKnown
    <3> QED
      BY <2>2, <2>6, <3>1, <3>2
  <2>7. ASSUME NEW c \in Cleaners, Called(c)'
        PROVE  (c <= Size /\ Selected(registry[c])
               /\ HeavyAuthorized(registry[c]))'
    BY <2>5, <2>6, <2>7
  <2>8. Cleaners' = Cleaners
    BY DEF Cleaners
  <2> QED
    BY <2>7, <2>8 DEF CalledKnown
<1>5. (RegistryKnown /\ Position /\ Counted /\ Ended /\ CutHere /\ ExitCodes)'
  BY Frame, AtCleaner
  DEF IndInv, RegistryKnown, Position, Counted, Ended, CutHere,
     ExitCodes, Untouched, Settled, Executing, Cleaners, Called, Size, Kind,
     Probing, Done, CommandWorks, Call!Work, EmitWork, engineVars, callVars,
     streamVars
<1> QED
  BY <1>1, <1>2, <1>3, <1>4, <1>5 DEF IndInv

LEMMA CommandReturnsInv ==
  ASSUME IndInv, CommandReturns
  PROVE  IndInv'
<1>1. TypeOK'
  BY Frame, AtCleaner
  DEF IndInv, TypeOK, Current, Ordered, CommandReturns, Call!Return,
     Call!Answers, engineVars, callVars, streamVars
<1>2. Position'
  BY Frame, AtCleaner
  DEF IndInv, Position, Kind, CommandReturns, Call!Return, Call!Answers,
     engineVars, callVars, streamVars
<1>3. Ended'
  BY Frame, AtCleaner
  DEF IndInv, Ended, CommandReturns, Call!Return, Call!Answers,
     engineVars, callVars, streamVars
<1>4. (RegistryKnown /\ Current /\ Ordered /\ Counted /\ CutHere /\ CalledKnown
       /\ ExitCodes)'
  BY Frame, AtCleaner
  DEF IndInv, RegistryKnown, Current, Ordered, Counted, CutHere,
     CalledKnown, ExitCodes, Untouched, Settled, Called, Kind, Probing,
     Done, CommandReturns, Call!Answers, engineVars, callVars, streamVars
<1> QED
  BY <1>1, <1>2, <1>3, <1>4 DEF IndInv

LEMMA CommandDoneInv ==
  ASSUME IndInv, CommandDone
  PROVE  IndInv'
<1>1. TypeOK'
  <2>1. at \in Cleaners /\ left' \in 0..MaxSteps + 2 /\ cut' \subseteq Cleaners
    BY AtCleaner
    DEF CommandDone, GaveUp, IndInv, TypeOK, Position, Executing
  <2>2. errs' \in Nat /\ faulty' \subseteq Cleaners
    <3>1. errs \in Nat /\ faulty \subseteq Cleaners
      BY DEF IndInv, TypeOK
    <3>2. \/ errs' = errs /\ faulty' = faulty
          \/ errs' = errs + 1 /\ faulty' = faulty \cup {at}
      BY DEF CommandDone, EmitError, streamVars
    <3> QED
      BY <2>1, <3>1, <3>2
  <2>4. UNCHANGED <<open, verdict, worked, totals>>
    BY DEF CommandDone, EmitError, streamVars
  <2>3. lines' \in [Streams -> 0..MaxLines]
    BY DEF CommandDone, NewCall
  <2> QED
    BY <2>1, <2>2, <2>3, <2>4, Frame
    DEF CommandDone, NewCall, IndInv, TypeOK, engineVars

<1>2. Position'
  BY Frame, AtCleaner
  DEF IndInv, Position, Executing, Kind, CommandDone, NewCall, GaveUp,
     EmitError, engineVars, callVars, streamVars
<1>3. Current'
  BY Frame, AtCleaner
  DEF IndInv, TypeOK, Current, Kind, Probing, CommandDone, NewCall,
     GaveUp, EmitError, engineVars, callVars, streamVars
<1>4. Ordered'
  BY Frame, AtCleaner
  DEF IndInv, Ordered, Untouched, Settled, Cleaners, CommandDone,
     NewCall, GaveUp, EmitError, engineVars, callVars, streamVars
<1>5. Ended'
  BY Frame, AtCleaner
  DEF IndInv, Ended, CommandDone, NewCall, GaveUp, EmitError, engineVars,
     callVars, streamVars
<1>6. CutHere'
  BY Frame, AtCleaner
  DEF IndInv, Ended, CutHere, Kind, CommandDone, NewCall, GaveUp,
     EmitError, engineVars, callVars, streamVars
<1>7. CalledKnown'
  BY Frame, AtCleaner
  DEF IndInv, Current, CalledKnown, Called, CommandDone, NewCall, GaveUp,
     EmitError, engineVars, callVars, streamVars
<1>8. ExitCodes'
  BY Frame, AtCleaner
  DEF IndInv, Position, ExitCodes, CommandDone, NewCall, GaveUp,
     EmitError, engineVars, callVars, streamVars
<1>9. (RegistryKnown /\ Counted)'
  BY Frame, AtCleaner
  DEF IndInv, RegistryKnown, Counted, Untouched, Settled, Executing,
     Cleaners, Called, Size, Kind, Probing, Done, CommandDone, NewCall,
     GaveUp, EmitError, engineVars, callVars, streamVars
<1> QED
  BY <1>1, <1>2, <1>3, <1>4, <1>5, <1>6, <1>7, <1>8, <1>9 DEF IndInv
----------------------------------------------------------------------------
(***************************************************************************)
(* An executor concludes: the finish event of the current cleaner, whose   *)
(* status agrees with its error events, and the return.                    *)
(***************************************************************************)
Concludes(status, n, value) ==
  /\ pc \in {"begin", "work", "command"}
  /\ Conclude(status, n, value)
  /\ status = "error" <=> (n > 0 \/ at \in faulty)
  /\ UNCHANGED <<engineVars, sig>> /\ left' \in 0..MaxSteps + 2
  /\ phase' = "ready" /\ answer' \in Call!Answers \cup {"none"}
  /\ lines' \in [Streams -> 0..MaxLines]
  /\ unread' \in BOOLEAN /\ group' \in BOOLEAN
  /\ answer' = "canceled" => sig
  /\ value = "canceled" => sig
  /\ value = "timeout" => n > 0 /\ cut' = {}
  /\ cut' = cut \/ (sig /\ cut' = cut \cup {at})

Returned == {"nil", "canceled", "timeout", "other"}

\* An executor concludes: its finish event, the count of its errors and its
\* answer agree.
LEMMA ConcludeInv ==
  ASSUME IndInv, NEW status \in {"ok", "skipped", "error"}, NEW n \in Nat,
         NEW value \in Returned, Concludes(status, n, value)
  PROVE  IndInv'
<1> USE DEF Concludes, Conclude, EmitFinish
<1>1. /\ at \in Cleaners /\ at <= Size /\ Size \in Nat
      /\ Selected(registry[at]) /\ HeavyAuthorized(registry[at])
      /\ open = {at} /\ verdict[at] = "none" /\ exit = -1 /\ totals = {}
  BY AtCleaner DEF IndInv, Position, Executing, Current, Ended
<1>2. /\ pc' = "after" /\ ret' = value /\ open' = {}
      /\ verdict' = [verdict EXCEPT ![at] = status]
      /\ faulty' = IF n > 0 THEN faulty \cup {at} ELSE faulty
      /\ UNCHANGED <<worked, totals, opt, files, registry, at, run, skipped,
                     errored, exit, sig>>
  BY <1>1 DEF engineVars
<1>3. TypeOK'
  <2>1. errs' \in Nat
    BY DEF IndInv, TypeOK
  <2>2. cut' \subseteq Cleaners /\ faulty' \subseteq Cleaners
    BY <1>1, <1>2 DEF IndInv, TypeOK
  <2>3. verdict' \in [Cleaners -> {"none", "ok", "skipped", "error"}]
    BY <1>2 DEF IndInv, TypeOK
  <2> QED
    BY <1>2, <2>3, Frame DEF IndInv, TypeOK, Returned
<1>4. RegistryKnown' /\ Position'
  BY <1>1, <1>2, Frame DEF IndInv, RegistryKnown, Position
<1>5. Current'
  BY <1>2 DEF IndInv, TypeOK, Current
<1>6. Ordered'
  <2>1. \A c \in Cleaners : c > at => Untouched(c)'
    BY <1>1 DEF IndInv, Ordered, Untouched
  <2>2. \A c \in Cleaners : c < at => Settled(c)'
    BY <1>1, <1>2, Frame DEF IndInv, Ordered, Settled
  <2> QED
    BY <1>2, <2>1, <2>2 DEF Ordered
<1>7. Counted'
  <2>1. \A c \in 1..(at - 1) : verdict'[c] = verdict[c]
    BY <1>2
  <2>2. \A v : Done(v)' = Done(v)
    BY <1>2 DEF Done
  <2> QED
    BY <1>2, <2>2 DEF IndInv, Counted
<1>8. Ended'
  BY <1>1, <1>2 DEF Ended
<1>9. CutHere'
  BY <1>2 DEF IndInv, CutHere
<1>10. CalledKnown'
  BY <1>1, <1>2, Frame DEF IndInv, CalledKnown, Called
<1>11. ExitCodes'
  BY <1>1, <1>2 DEF ExitCodes
<1> QED
  BY <1>3, <1>4, <1>5, <1>6, <1>7, <1>8, <1>9, <1>10, <1>11 DEF IndInv

\* An executor that has counted an error finishes with "error".
LEMMA StatusFact ==
  ASSUME NEW n \in Nat
  PROVE  /\ StatusOf(n) \in {"ok", "skipped", "error"}
         /\ StatusOf(n) = "error" <=> n > 0
         /\ StatusOf(n) # "skipped"
BY DEF StatusOf

----------------------------------------------------------------------------
\* The steps that conclude, each with the status it concludes with.
LEMMA SkipCleanerInv ==
  ASSUME IndInv, SkipCleaner
  PROVE  Concludes("skipped", 0, "nil")
BY DEF SkipCleaner, Concludes, IndInv, TypeOK, Position, Current, Ended,
   callVars

LEMMA RejectCleanerInv ==
  ASSUME IndInv, RejectCleaner
  PROVE  \E value \in {"other", "nil"} : Concludes("error", 1, value)
BY DEF RejectCleaner, Concludes, IndInv, TypeOK, Position, Ended, callVars

LEMMA GiveUpInv ==
  ASSUME IndInv, GiveUp
  PROVE  \/ \E status \in {"ok", "error"}, n \in {0, 1} :
              Concludes(status, n, "nil")
         \/ /\ pc = "work" /\ pc' = "after" /\ ret' = "canceled" /\ sig
            /\ cut' = cut \cup {at}
            /\ UNCHANGED <<engineVars, left, sig, callVars, errs, streamVars>>
<1>1. /\ pc = "work" /\ sig /\ phase = "ready" /\ cut' = cut \cup {at}
      /\ errs \in Nat /\ (errs > 0 <=> at \in faulty)
      /\ UNCHANGED <<engineVars, left, sig, callVars>>
  BY DEF GiveUp, Sweeping, IndInv, TypeOK, Position, Current
<1>2. \A status, n :
        Conclude(status, n, "nil")
        /\ (status = "error" <=> (n > 0 \/ at \in faulty))
         => Concludes(status, n, "nil")
  BY <1>1 DEF Concludes, IndInv, TypeOK, callVars
<1>3. Kind \in {"paths", "debris", "units"}
  BY DEF GiveUp, Sweeping
<1>4. CASE Kind = "units"
  BY <1>1, <1>4 DEF GiveUp
<1>5. CASE Kind = "paths"
  BY <1>1, <1>2, <1>5, StatusFact DEF GiveUp
<1>6. CASE Kind = "debris"
  BY <1>2, <1>6 DEF GiveUp
<1> QED
  BY <1>3, <1>4, <1>5, <1>6

LEMMA EndOfSweepInv ==
  ASSUME IndInv, EndOfSweep
  PROVE  \E status \in {"ok", "error"}, n \in {0, 1} :
           Concludes(status, n, "nil")
BY StatusFact
DEF EndOfSweep, Sweeping, Concludes, IndInv, TypeOK, Position, Current,
   Ended, callVars

LEMMA EndOfCommandsInv ==
  ASSUME IndInv, EndOfCommands
  PROVE  \E status \in {"ok", "error"} : Concludes(status, 0, "nil")
BY StatusFact
DEF EndOfCommands, Running, Concludes, IndInv, TypeOK, Position, Current,
   Ended, callVars

\* A call of the command runner starts afresh.
LEMMA NewCallFact ==
  ASSUME NewCall
  PROVE  /\ phase' = "ready" /\ answer' = "none"
         /\ lines' \in [Streams -> 0..MaxLines]
         /\ unread' \in BOOLEAN /\ group' \in BOOLEAN
<1>1. [s \in Streams |-> 0] \in [Streams -> 0..MaxLines]
  OBVIOUS
<1> QED
  BY <1>1 DEF NewCall

\* A probe either ends the cleaner or lets its command run.
LEMMA ProbeDoneInv ==
  ASSUME IndInv, ProbeDone
  PROVE  \/ Concludes("skipped", 0, "nil")
         \/ /\ pc = "command" /\ Probing /\ answer = "ok" /\ NewCall
            /\ pc' = "work" /\ left' = 1
            /\ UNCHANGED <<engineVars, errs, ret, sig, streamVars, cut>>
BY NewCallFact
DEF ProbeDone, GaveUp, Concludes, IndInv, TypeOK, Current, Ended

\* An executor of tools concludes with what its commands have answered.
LEMMA ToolDoneInv ==
  ASSUME IndInv, ToolDone
  PROVE  \E status \in {"ok", "error"}, n \in {0, 1}, value \in Returned :
            Concludes(status, n, value)
<1>1. PICK n \in {0, 1} : /\ n = 0 <=> answer = "ok"
                          /\ Conclude(StatusOf(errs + n), n, ReturnOf(answer))
  BY DEF ToolDone
<1>2. ReturnOf(answer) \in Returned /\ StatusOf(errs + n) \in {"ok", "error"}
  BY DEF ReturnOf, Returned, StatusOf
<1>3. /\ ReturnOf(answer) = "canceled" => sig
      /\ ReturnOf(answer) = "timeout" => n > 0 /\ cut' = {}
  BY <1>1 DEF ToolDone, GaveUp, ReturnOf, IndInv, CutHere, Ended
<1>4. Concludes(StatusOf(errs + n), n, ReturnOf(answer))
  BY <1>1, <1>3, NewCallFact, StatusFact
  DEF ToolDone, GaveUp, Concludes, IndInv, TypeOK, Current, Ended
<1> QED
  BY <1>2, <1>4

\* Units that were cut short return without a finish event.
LEMMA UnitsGiveUpInv ==
  ASSUME IndInv, sig, pc = "work", pc' = "after", ret' = "canceled",
         cut' = cut \cup {at},
         UNCHANGED <<engineVars, left, sig, callVars, errs, streamVars>>
  PROVE  IndInv'
<1>1. /\ at \in Cleaners /\ open = {at} /\ verdict[at] = "none" /\ exit = -1
  BY AtCleaner DEF IndInv, Position, Executing, Current
<1>2. TypeOK'
  BY <1>1, Frame DEF IndInv, TypeOK, engineVars, callVars, streamVars
<1>3. RegistryKnown' /\ Position'
  BY Frame
  DEF IndInv, RegistryKnown, Position, Executing, engineVars, callVars
<1>4. Current' /\ Ordered'
  BY Frame
  DEF IndInv, Current, Ordered, Untouched, Settled, engineVars,
     streamVars
<1>5. Counted'
  BY DEF IndInv, Counted, Done, engineVars, streamVars
<1>6. Ended' /\ CutHere' /\ ExitCodes' /\ CalledKnown'
  BY Frame
  DEF IndInv, Ended, CutHere, ExitCodes, CalledKnown, Called, engineVars,
     streamVars
<1> QED
  BY <1>2, <1>3, <1>4, <1>5, <1>6 DEF IndInv

\* After a probe that was answered the command itself is called.
LEMMA ProbeGoesOnInv ==
  ASSUME IndInv, pc = "command", Probing, answer = "ok", NewCall, pc' = "work",
         left' = 1, UNCHANGED <<engineVars, errs, ret, sig, streamVars, cut>>
  PROVE  IndInv'
<1>1. TypeOK'
  BY NewCallFact, Frame DEF IndInv, TypeOK, engineVars, streamVars
<1>2. RegistryKnown' /\ Position'
  BY NewCallFact, Frame
  DEF IndInv, RegistryKnown, Position, Executing, engineVars
<1>3. Current' /\ Ordered'
  BY Frame
  DEF IndInv, Current, Ordered, Untouched, Settled, engineVars,
     streamVars
<1>4. Counted'
  BY DEF IndInv, Counted, Done, engineVars, streamVars
<1>5. Ended' /\ CutHere' /\ ExitCodes' /\ CalledKnown'
  BY NewCallFact, Frame
  DEF IndInv, Ended, CutHere, ExitCodes, CalledKnown, Called, Kind,
     engineVars, streamVars
<1> QED
  BY <1>1, <1>2, <1>3, <1>4, <1>5 DEF IndInv
----------------------------------------------------------------------------
(***************************************************************************)
(* Induction over data.  The theorems of the library take the property as  *)
(* an operator; here it is the set of what has the property, which the     *)
(* provers can find.  All that is needed is that a set of numbers that is  *)
(* not empty has a smallest member.                                        *)
(***************************************************************************)
\* A set of numbers that is not empty has a smallest member.
LEMMA Smallest ==
  ASSUME NEW S \in SUBSET Nat, S # {}
  PROVE  \E i \in S : \A j \in S : i <= j
<1>1. PICK i \in S : \A j \in S : ~(<<j, i>> \in OpToRel(<, Nat))
  BY NatLessThanWellFounded, WFMin
<1>2. \A j \in S : ~(j < i)
  BY <1>1 DEF OpToRel
<1> QED
  BY <1>2

\* Induction over 0..n, with the property given as the set of those that have
\* it: the smallest that has it not would have a predecessor that has.
LEMMA UpTo ==
  ASSUME NEW n \in Nat, NEW S, 0 \in S, \A k \in 1..n : k - 1 \in S => k \in S
  PROVE  0..n \subseteq S
<1> SUFFICES ASSUME (0..n) \ S # {} PROVE FALSE
  OBVIOUS
<1>1. PICK k \in (0..n) \ S : \A j \in (0..n) \ S : k <= j
  <2>1. (0..n) \ S \in SUBSET Nat
    OBVIOUS
  <2> QED
    BY <2>1, Smallest
<1>2. k \in 1..n
  BY <1>1
<1>3. k - 1 \in S
  <2>1. k - 1 \in 0..n /\ ~(k <= k - 1)
    BY <1>2
  <2> QED
    BY <1>1, <2>1
<1> QED
  BY <1>1, <1>2, <1>3

\* The last number of a set of numbers up to k that k belongs to is k.
LEMMA LastOf ==
  ASSUME NEW k \in Nat, NEW S \in SUBSET (1..k), k \in S
  PROVE  Max(S) = k
<1>1. \A j \in S : k >= j
  OBVIOUS
<1>2. \A i \in S : (\A j \in S : i >= j) => i = k
  OBVIOUS
<1>3. Max(S) \in S /\ \A j \in S : Max(S) >= j
  BY <1>1 DEF Max
<1> QED
  BY <1>2, <1>3

\* A non-empty set of positions of a sequence has a last one: what Max
\* chooses in the lookup of an id.
LEMMA SomeLast ==
  ASSUME NEW k \in Nat, NEW S \in SUBSET (1..k), S # {}
  PROVE  Max(S) \in S /\ \A i \in S : i <= Max(S)
<1> DEFINE T == {k - i : i \in S}
<1>1. PICK m \in T : \A j \in T : m <= j
  <2>1. \A i \in S : k - i \in Nat
    OBVIOUS
  <2>2. T \in SUBSET Nat /\ T # {}
    BY <2>1
  <2> QED
    BY <2>2, Smallest
<1>2. PICK i \in S : m = k - i
  BY <1>1
<1>3. \A j \in S : i >= j
  <2> TAKE j \in S
  <2>1. k - i <= k - j
    BY <1>1, <1>2
  <2> QED
    BY <2>1
<1>4. Max(S) \in S /\ \A j \in S : Max(S) >= j
  BY <1>2, <1>3 DEF Max
<1> QED
  BY <1>4

\* g is what MapThenFoldSet iterates in a fold over seq up to n whose steps are
\* those of a function.
FoldsTo(g, X, step, base, seq, n) ==
  /\ g \in [SUBSET (1..n) -> X]
  /\ \A s \in SUBSET (1..n) :
       g[s] = IF s = {} THEN base
              ELSE step[<<g[s \ {Max(s)}], seq[Max(s)]>>]

\* There is such a function.
LEMMA FoldExists ==
  ASSUME NEW X, NEW Y, NEW step \in [X \X Y -> X], NEW base \in X,
         NEW n \in Nat, NEW seq \in [1..n -> Y]
  PROVE  \E g : FoldsTo(g, X, step, base, seq, n)
<1> DEFINE S == {k \in 0..n : \E g : FoldsTo(g, X, step, base, seq, k)}
<1>1. 0 \in S
  <2> DEFINE g == [s \in SUBSET (1..0) |-> base]
  <2>1. SUBSET (1..0) = {{}}
    OBVIOUS
  <2>2. FoldsTo(g, X, step, base, seq, 0)
    BY <2>1 DEF FoldsTo
  <2> QED
    BY <2>2
<1>2. ASSUME NEW k \in 1..n, k - 1 \in S
      PROVE  k \in S
  <2>1. PICK g : FoldsTo(g, X, step, base, seq, k - 1)
    BY <1>2
  <2> DEFINE h == [s \in SUBSET (1..k) |->
                     IF k \in s THEN step[<<g[s \ {k}], seq[k]>>] ELSE g[s]]
  <2>2. \A s \in SUBSET (1..k) : k \notin s => s \in SUBSET (1..(k - 1))
    OBVIOUS
  <2>3. \A s \in SUBSET (1..k) : s \ {k} \in SUBSET (1..(k - 1))
    OBVIOUS
  <2>4. h \in [SUBSET (1..k) -> X]
    BY <2>1, <2>2, <2>3 DEF FoldsTo
  <2>5. ASSUME NEW s \in SUBSET (1..k)
        PROVE  h[s] = IF s = {} THEN base
                      ELSE step[<<h[s \ {Max(s)}], seq[Max(s)]>>]
    <3>1. CASE k \in s
      <4>1. Max(s) = k
        BY <3>1, LastOf
      <4>2. h[s \ {k}] = g[s \ {k}]
        BY <2>3
      <4> QED
        BY <3>1, <4>1, <4>2
    <3>2. CASE k \notin s /\ s # {}
      <4>1. Max(s) \in s
        BY <3>2, SomeLast, k \in Nat
      <4>2. h[s \ {Max(s)}] = g[s \ {Max(s)}]
        BY <3>2, <4>1
      <4> QED
        BY <2>1, <2>2, <3>2, <4>2 DEF FoldsTo
    <3>3. CASE s = {}
      BY <2>1, <3>3 DEF FoldsTo
    <3> QED
      BY <3>1, <3>2, <3>3
  <2> HIDE DEF h
  <2>6. FoldsTo(h, X, step, base, seq, k)
    BY <2>4, <2>5 DEF FoldsTo
  <2> QED
    BY <2>6
<1>3. n \in S
  <2> HIDE DEF S
  <2>1. 0..n \subseteq S
    BY <1>1, <1>2, UpTo
  <2> QED
    BY <2>1
<1> QED
  BY <1>3

----------------------------------------------------------------------------
(***************************************************************************)
(* MergeByID, for all documents.                                           *)
(***************************************************************************)
\* A list that a document has been put into is one of documents, at most one
\* longer; every id it had it still has, and that of the document.
LEMMA PutBuiltinType ==
  ASSUME NEW list \in Seq(Documents), NEW doc \in Documents
  PROVE  /\ PutBuiltin(list, doc) \in Seq(Documents)
         /\ Len(PutBuiltin(list, doc)) <= Len(list) + 1
         /\ Len(list) <= Len(PutBuiltin(list, doc))
<1>1. /\ Len(list) \in Nat /\ DOMAIN list = 1..Len(list)
      /\ list \in [1..Len(list) -> Documents]
  BY LenProperties
<1>2. CASE IndexOf(list, doc.id) = {}
  BY <1>1, <1>2 DEF PutBuiltin
<1>3. CASE IndexOf(list, doc.id) # {}
  <2> DEFINE new == [i \in 1..Len(list) |->
                       IF list[i].id = doc.id THEN doc ELSE list[i]]
  <2>1. new \in [1..Len(list) -> Documents]
    BY <1>1
  <2>2. new \in Seq(Documents) /\ Len(new) = Len(list)
    BY <1>1, <2>1
  <2> QED
    BY <1>1, <1>3, <2>2 DEF PutBuiltin
<1> QED
  BY <1>2, <1>3

\* What a user's document laid over another yields is a document.
LEMMA OverlaidType ==
  ASSUME NEW base \in Documents, NEW doc \in Documents
  PROVE  Overlaid(base, doc) \in Documents
<1>1. base.tags \o doc.tags \in Seq(STRING)
  BY ConcatProperties DEF Documents
<1>2. Latest(base.enabled, doc.enabled) \in SUBSET BOOLEAN
  BY DEF Latest, Documents
<1>3. Latest(base.age, doc.age) \in SUBSET Int
  BY DEF Latest, Documents
<1>4. base.noAge \/ doc.noAge \in BOOLEAN
  BY DEF Documents
<1> QED
  BY <1>1, <1>2, <1>3, <1>4 DEF Overlaid, Documents

\* Putting one user document keeps a list of documents, and adds at most one.
LEMMA PutUserType ==
  ASSUME NEW list \in Seq(Documents), NEW doc \in Documents
  PROVE  /\ PutUser(list, doc) \in Seq(Documents)
         /\ Len(PutUser(list, doc)) <= Len(list) + 1
         /\ Len(list) <= Len(PutUser(list, doc))
<1>1. /\ Len(list) \in Nat /\ DOMAIN list = 1..Len(list)
      /\ list \in [1..Len(list) -> Documents]
  BY LenProperties
<1>2. CASE IndexOf(list, doc.id) = {}
  BY <1>1, <1>2 DEF PutUser
<1>3. CASE IndexOf(list, doc.id) # {}
  <2> DEFINE new == [i \in 1..Len(list) |->
                       IF list[i].id = doc.id THEN Overlaid(list[i], doc)
                       ELSE list[i]]
  <2>1. new \in [1..Len(list) -> Documents]
    BY <1>1, OverlaidType
  <2>2. new \in Seq(Documents) /\ Len(new) = Len(list)
    BY <1>1, <2>1
  <2> QED
    BY <1>1, <1>3, <2>2 DEF PutUser
<1> QED
  BY <1>2, <1>3

\* A fold is taken one document after the other.
LEMMA BuiltinFold ==
  ASSUME NEW seq \in Seq(Documents)
  PROVE  \E h : /\ h[0] = <<>>
                /\ h[Len(seq)] = FoldLeft(PutBuiltin, <<>>, seq)
                /\ \A k \in 1..Len(seq) : h[k] = PutBuiltin(h[k - 1], seq[k])
<1> DEFINE D == Documents
           n == Len(seq)
           step == [p \in Seq(D) \X D |-> PutBuiltin(p[1], p[2])]
           Iterated(g) == [s \in SUBSET DOMAIN seq |->
                             IF s = {} THEN <<>>
                             ELSE PutBuiltin(g[s \ {Max(s)}], seq[Max(s)])]
           iter == CHOOSE g : g = Iterated(g)
<1>1. FoldLeft(PutBuiltin, <<>>, seq) = iter[DOMAIN seq]
  BY DEF FoldLeft, MapThenFoldSet
<1>2. /\ n \in Nat /\ DOMAIN seq = 1..n /\ seq \in [1..n -> D]
      /\ <<>> \in Seq(D)
  BY LenProperties, EmptySeq
<1>3. step \in [Seq(D) \X D -> Seq(D)]
  BY PutBuiltinType
<1> HIDE DEF D, n, step
<1>4. PICK g : FoldsTo(g, Seq(D), step, <<>>, seq, n)
  BY <1>2, <1>3, FoldExists
<1>5. \A s \in SUBSET (1..n) : s # {} =>
         /\ s \ {Max(s)} \in SUBSET (1..n) /\ Max(s) \in 1..n
         /\ g[s] = PutBuiltin(g[s \ {Max(s)}], seq[Max(s)])
  <2> TAKE s \in SUBSET (1..n)
  <2> HAVE s # {}
  <2>1. Max(s) \in 1..n
    BY <1>2, SomeLast
  <2>2. g[s \ {Max(s)}] \in Seq(D) /\ seq[Max(s)] \in D
    BY <1>2, <1>4, <2>1 DEF FoldsTo
  <2> QED
    BY <1>4, <2>1, <2>2 DEF FoldsTo, step
<1>6. g = Iterated(g)
  BY <1>2, <1>4, <1>5 DEF FoldsTo
<1>7. iter = Iterated(iter)
  BY <1>6
<1> HIDE DEF iter
<1>8. iter[{}] = <<>>
  BY <1>7
<1>9. \A k \in 1..n : iter[1..k] = PutBuiltin(iter[1..(k - 1)], seq[k])
  <2> TAKE k \in 1..n
  <2>1. k \in Nat /\ 1..k \in SUBSET (1..k) /\ k \in 1..k
    BY <1>2
  <2>2. Max(1..k) = k
    BY <2>1, LastOf
  <2>3. (1..k) \ {k} = 1..(k - 1)
    BY <2>1
  <2>4. \A i \in 1..k : i \in 1..n
    BY <1>2, <2>1
  <2> QED
    BY <1>2, <1>7, <2>1, <2>2, <2>3, <2>4
<1> DEFINE h == [k \in 0..n |-> iter[1..k]]
<1>10. h[0] = <<>> /\ h[n] = iter[DOMAIN seq]
  <2>1. 1..0 = {} /\ 0 \in 0..n /\ n \in 0..n
    BY <1>2
  <2> QED
    BY <1>2, <1>8, <2>1
<1>11. \A k \in 1..n : h[k] = PutBuiltin(h[k - 1], seq[k])
  <2>1. \A k \in 1..n : k \in 0..n /\ k - 1 \in 0..n
    BY <1>2
  <2> QED
    BY <1>9, <2>1
<1> HIDE DEF h
<1> QED
  BY <1>1, <1>10, <1>11 DEF n

\* The same for the documents of the user.
LEMMA UserFold ==
  ASSUME NEW seq \in Seq(Documents), NEW base \in Seq(Documents)
  PROVE  \E h : /\ h[0] = base
                /\ h[Len(seq)] = FoldLeft(PutUser, base, seq)
                /\ \A k \in 1..Len(seq) : h[k] = PutUser(h[k - 1], seq[k])
<1> DEFINE D == Documents
           n == Len(seq)
           step == [p \in Seq(D) \X D |-> PutUser(p[1], p[2])]
           Iterated(g) == [s \in SUBSET DOMAIN seq |->
                             IF s = {} THEN base
                             ELSE PutUser(g[s \ {Max(s)}], seq[Max(s)])]
           iter == CHOOSE g : g = Iterated(g)
<1>1. FoldLeft(PutUser, base, seq) = iter[DOMAIN seq]
  BY DEF FoldLeft, MapThenFoldSet
<1>2. /\ n \in Nat /\ DOMAIN seq = 1..n /\ seq \in [1..n -> D]
      /\ base \in Seq(D)
  BY LenProperties, EmptySeq
<1>3. step \in [Seq(D) \X D -> Seq(D)]
  BY PutUserType
<1> HIDE DEF D, n, step
<1>4. PICK g : FoldsTo(g, Seq(D), step, base, seq, n)
  BY <1>2, <1>3, FoldExists
<1>5. \A s \in SUBSET (1..n) : s # {} =>
         /\ s \ {Max(s)} \in SUBSET (1..n) /\ Max(s) \in 1..n
         /\ g[s] = PutUser(g[s \ {Max(s)}], seq[Max(s)])
  <2> TAKE s \in SUBSET (1..n)
  <2> HAVE s # {}
  <2>1. Max(s) \in 1..n
    BY <1>2, SomeLast
  <2>2. g[s \ {Max(s)}] \in Seq(D) /\ seq[Max(s)] \in D
    BY <1>2, <1>4, <2>1 DEF FoldsTo
  <2> QED
    BY <1>4, <2>1, <2>2 DEF FoldsTo, step
<1>6. g = Iterated(g)
  BY <1>2, <1>4, <1>5 DEF FoldsTo
<1>7. iter = Iterated(iter)
  BY <1>6
<1> HIDE DEF iter
<1>8. iter[{}] = base
  BY <1>7
<1>9. \A k \in 1..n : iter[1..k] = PutUser(iter[1..(k - 1)], seq[k])
  <2> TAKE k \in 1..n
  <2>1. k \in Nat /\ 1..k \in SUBSET (1..k) /\ k \in 1..k
    BY <1>2
  <2>2. Max(1..k) = k
    BY <2>1, LastOf
  <2>3. (1..k) \ {k} = 1..(k - 1)
    BY <2>1
  <2>4. \A i \in 1..k : i \in 1..n
    BY <1>2, <2>1
  <2> QED
    BY <1>2, <1>7, <2>1, <2>2, <2>3, <2>4
<1> DEFINE h == [k \in 0..n |-> iter[1..k]]
<1>10. h[0] = base /\ h[n] = iter[DOMAIN seq]
  <2>1. 1..0 = {} /\ 0 \in 0..n /\ n \in 0..n
    BY <1>2
  <2> QED
    BY <1>2, <1>8, <2>1
<1>11. \A k \in 1..n : h[k] = PutUser(h[k - 1], seq[k])
  <2>1. \A k \in 1..n : k \in 0..n /\ k - 1 \in 0..n
    BY <1>2
  <2> QED
    BY <1>9, <2>1
<1> HIDE DEF h
<1> QED
  BY <1>1, <1>10, <1>11 DEF n

\* The decision on kind and impact is the same for both.
SameKind(c, doc) ==
  /\ c.id = doc.id /\ c.kind = doc.kind
  /\ c.impact = doc.impact /\ c.profile = doc.profile

\* Every document up to k has its cleaner in the list.
Complete(list, docs, k) ==
  \A j \in 1..k : \E i \in DOMAIN list : list[i].id = docs[j].id

\* doc is the last of the first k with its id, or the first one.
LastAt(docs, j, k) == \A l \in (j + 1)..k : docs[l].id # docs[j].id
FirstAt(docs, j) == \A l \in 1..(j - 1) : docs[l].id # docs[j].id

\* A list of built-in cleaners is made of the last document of every id.
OfBuiltin(c, docs, k) == \E j \in 1..k : c = docs[j] /\ LastAt(docs, j, k)

MergedBuiltin(list, docs, k) ==
  /\ list \in Seq(Documents) /\ Len(list) <= k
  /\ Complete(list, docs, k)
  /\ \A i \in DOMAIN list : OfBuiltin(list[i], docs, k)

\* One built-in document put into the merge of those before it.
LEMMA MergedBuiltinStep ==
  ASSUME NEW docs \in Seq(Documents), NEW k \in 1..Len(docs), NEW list,
         MergedBuiltin(list, docs, k - 1)
  PROVE  MergedBuiltin(PutBuiltin(list, docs[k]), docs, k)
<1> DEFINE doc == docs[k]
           new == PutBuiltin(list, doc)
<1>1. /\ doc \in Documents /\ k \in Nat /\ k \in 1..k
      /\ list \in Seq(Documents) /\ Len(list) <= k - 1
  BY LenProperties, ElementOfSeq DEF MergedBuiltin
<1>2. new \in Seq(Documents) /\ Len(new) <= k
  <2>1. new \in Seq(Documents) /\ Len(new) <= Len(list) + 1
    BY <1>1, PutBuiltinType
  <2>2. Len(list) \in Nat /\ Len(new) \in Nat
    BY <1>1, <2>1, LenProperties
  <2> QED
    BY <1>1, <2>1, <2>2
<1>3. DOMAIN list = 1..Len(list) /\ Len(list) \in Nat
  BY <1>1, LenProperties
<1>4. \A j \in 1..k : j = k \/ j \in 1..(k - 1)
  BY <1>1
<1>5. \A c : (c.id # doc.id /\ OfBuiltin(c, docs, k - 1))
        => OfBuiltin(c, docs, k)
  <2> TAKE c
  <2> HAVE c.id # doc.id /\ OfBuiltin(c, docs, k - 1)
  <2>1. PICK j \in 1..(k - 1) : c = docs[j] /\ LastAt(docs, j, k - 1)
    BY DEF OfBuiltin
  <2>2. \A l \in (j + 1)..k : l = k \/ l \in (j + 1)..(k - 1)
    BY <1>1
  <2> QED
    BY <1>1, <2>1, <2>2 DEF OfBuiltin, LastAt
<1>6. OfBuiltin(doc, docs, k)
  BY <1>1 DEF OfBuiltin, LastAt
<1>7. CASE IndexOf(list, doc.id) = {}
  <2>1. new = Append(list, doc)
    BY <1>7 DEF PutBuiltin
  <2>2. /\ DOMAIN new = 1..(Len(list) + 1) /\ new[Len(list) + 1] = doc
        /\ \A i \in DOMAIN list : i \in DOMAIN new /\ new[i] = list[i]
    BY <1>1, <1>3, <2>1
  <2>3. \A i \in DOMAIN new : i = Len(list) + 1 \/ i \in DOMAIN list
    BY <1>3, <2>2
  <2>4. \A i \in DOMAIN list : list[i].id # doc.id
    BY <1>7 DEF IndexOf
  <2>5. \A i \in DOMAIN new : OfBuiltin(new[i], docs, k)
    BY <1>5, <1>6, <2>2, <2>3, <2>4 DEF MergedBuiltin
  <2>6. Len(list) + 1 \in DOMAIN new
    BY <1>3, <2>2
  <2>7. Complete(new, docs, k)
    BY <1>4, <2>2, <2>6 DEF MergedBuiltin, Complete
  <2> QED
    BY <1>2, <2>5, <2>7 DEF MergedBuiltin
<1>8. CASE IndexOf(list, doc.id) # {}
  <2>1. new = [i \in DOMAIN list |->
                 IF list[i].id = doc.id THEN doc ELSE list[i]]
    BY <1>8 DEF PutBuiltin
  <2>2. /\ DOMAIN new = DOMAIN list
        /\ \A i \in DOMAIN list : /\ new[i].id = list[i].id
                                  /\ list[i].id = doc.id => new[i] = doc
                                  /\ list[i].id # doc.id => new[i] = list[i]
    BY <2>1
  <2>3. \A i \in DOMAIN new : OfBuiltin(new[i], docs, k)
    BY <1>5, <1>6, <2>2 DEF MergedBuiltin
  <2>4. \E i \in DOMAIN list : list[i].id = doc.id
    BY <1>8 DEF IndexOf
  <2>5. Complete(new, docs, k)
    <3>1. \A j \in 1..(k - 1) : \E i \in DOMAIN new : new[i].id = docs[j].id
      BY <2>2 DEF MergedBuiltin, Complete
    <3>2. \E i \in DOMAIN new : new[i].id = docs[k].id
      BY <2>2, <2>4
    <3> QED
      BY <1>4, <3>1, <3>2 DEF Complete
  <2> QED
    BY <1>2, <2>3, <2>5 DEF MergedBuiltin
<1> QED
  BY <1>7, <1>8

\* The merge of every built-in document, by the smallest one that breaks it.
LEMMA BuiltinMerged ==
  ASSUME NEW docs \in Seq(Documents)
  PROVE  MergedBuiltin(FoldLeft(PutBuiltin, <<>>, docs), docs, Len(docs))
<1>1. PICK h : /\ h[0] = <<>>
               /\ h[Len(docs)] = FoldLeft(PutBuiltin, <<>>, docs)
               /\ \A k \in 1..Len(docs) : h[k] = PutBuiltin(h[k - 1], docs[k])
  BY BuiltinFold
<1> DEFINE n == Len(docs)
           S == {k \in 0..n : MergedBuiltin(h[k], docs, k)}
<1>2. n \in Nat
  BY LenProperties
<1>3. 0 \in S
  <2>1. <<>> \in Seq(Documents) /\ Len(<<>>) = 0 /\ DOMAIN <<>> = {}
    BY EmptySeq
  <2>2. MergedBuiltin(<<>>, docs, 0)
    BY <2>1 DEF MergedBuiltin, Complete
  <2> QED
    BY <1>1, <1>2, <2>2
<1>4. \A k \in 1..n : k - 1 \in S => k \in S
  BY <1>1, <1>2, MergedBuiltinStep
<1>5. n \in S
  <2> HIDE DEF S
  <2>1. 0..n \subseteq S
    BY <1>2, <1>3, <1>4, UpTo
  <2> QED
    BY <1>2, <2>1
<1> QED
  BY <1>1, <1>5

\* A cleaner of the merged list takes its kind and impact from the last built-in
\* document of its id or, without any, from the first of the user's, and its tags
\* from those of its id.
Based(c, builtin, docs, k) ==
  \/ \E j \in DOMAIN builtin :
       SameKind(c, builtin[j]) /\ LastAt(builtin, j, Len(builtin))
  \/ /\ \A j \in DOMAIN builtin : builtin[j].id # c.id
     /\ \E j \in 1..k : SameKind(c, docs[j]) /\ FirstAt(docs, j)

Tagged(c, builtin, docs, k) ==
  \A t \in Range(c.tags) :
    \/ \E j \in DOMAIN builtin :
         builtin[j].id = c.id /\ t \in Range(builtin[j].tags)
    \/ \E j \in 1..k : docs[j].id = c.id /\ t \in Range(docs[j].tags)

Merged(list, builtin, docs, k) ==
  /\ list \in Seq(Documents) /\ Len(list) <= Len(builtin) + k
  /\ Complete(list, builtin, Len(builtin)) /\ Complete(list, docs, k)
  /\ \A i \in DOMAIN list :
       Based(list[i], builtin, docs, k) /\ Tagged(list[i], builtin, docs, k)

\* What two sequences hold, one after the other, is what either holds.
LEMMA RangeOfConcat ==
  ASSUME NEW S, NEW s \in Seq(S), NEW t \in Seq(S)
  PROVE  Range(s \o t) \subseteq Range(s) \cup Range(t)
<1> DEFINE st == s \o t
<1>1. /\ st \in Seq(S) /\ Len(st) = Len(s) + Len(t)
      /\ \A i \in 1..(Len(s) + Len(t)) :
           st[i] = IF i <= Len(s) THEN s[i] ELSE t[i - Len(s)]
  BY ConcatProperties
<1>2. /\ Len(s) \in Nat /\ DOMAIN s = 1..Len(s)
      /\ Len(t) \in Nat /\ DOMAIN t = 1..Len(t)
  BY LenProperties
<1> HIDE DEF st
<1>3. DOMAIN st = 1..(Len(s) + Len(t))
  BY <1>1, LenProperties
<1>4. ASSUME NEW i \in DOMAIN st
      PROVE  st[i] \in Range(s) \cup Range(t)
  <2>1. i \in 1..(Len(s) + Len(t))
    BY <1>3
  <2>2. CASE i <= Len(s)
    <3>1. st[i] = s[i] /\ i \in DOMAIN s
      BY <1>1, <1>2, <2>1, <2>2
    <3> QED
      BY <3>1 DEF Range
  <2>3. CASE ~(i <= Len(s))
    <3>1. st[i] = t[i - Len(s)]
      BY <1>1, <2>1, <2>3
    <3>2. i - Len(s) \in DOMAIN t
      BY <1>2, <2>1, <2>3
    <3> QED
      BY <3>1, <3>2 DEF Range
  <2> QED
    BY <2>2, <2>3
<1> QED
  BY <1>4 DEF Range, st

\* Laying a document over another keeps the kind and only adds tags.
LEMMA OverlaidFrom ==
  ASSUME NEW base \in Documents, NEW doc \in Documents
  PROVE  /\ SameKind(Overlaid(base, doc), base)
         /\ Range(Overlaid(base, doc).tags)
              \subseteq Range(base.tags) \cup Range(doc.tags)
<1>1. /\ SameKind(Overlaid(base, doc), base)
      /\ Overlaid(base, doc).tags = base.tags \o doc.tags
  BY DEF Overlaid, SameKind, Documents
<1>2. base.tags \in Seq(STRING) /\ doc.tags \in Seq(STRING)
  BY DEF Documents
<1> QED
  BY <1>1, <1>2, RangeOfConcat

\* One user document put into the merge of those before it: the entry it
\* overrides keeps its base, a new one is based on the document itself.
LEMMA MergedStep ==
  ASSUME NEW builtin \in Seq(Documents), NEW docs \in Seq(Documents),
         NEW k \in 1..Len(docs), NEW list, Merged(list, builtin, docs, k - 1)
  PROVE  Merged(PutUser(list, docs[k]), builtin, docs, k)
<1> DEFINE doc == docs[k]
           new == PutUser(list, doc)
           n == Len(builtin)
           Sound(c, m) == Based(c, builtin, docs, m)
                          /\ Tagged(c, builtin, docs, m)
<1>1. /\ doc \in Documents /\ k \in Nat /\ k \in 1..k
      /\ list \in Seq(Documents) /\ Len(list) <= n + (k - 1)
      /\ n \in Nat /\ DOMAIN builtin = 1..n
  BY LenProperties, ElementOfSeq DEF Merged
<1>2. new \in Seq(Documents) /\ Len(new) <= n + k
  <2>1. new \in Seq(Documents) /\ Len(new) <= Len(list) + 1
    BY <1>1, PutUserType
  <2>2. Len(list) \in Nat /\ Len(new) \in Nat
    BY <1>1, <2>1, LenProperties
  <2> QED
    BY <1>1, <2>1, <2>2
<1>3. /\ DOMAIN list = 1..Len(list) /\ Len(list) \in Nat
      /\ \A i \in DOMAIN list : list[i] \in Documents
  BY <1>1, LenProperties, ElementOfSeq
<1>4. \A j \in 1..k : j = k \/ j \in 1..(k - 1)
  BY <1>1
<1>5. \A j \in 1..(k - 1) : j \in 1..k
  BY <1>1
<1>6. \A c : Sound(c, k - 1) => Sound(c, k)
  BY <1>5 DEF Based, Tagged
<1>7. CASE IndexOf(list, doc.id) = {}
  <2>1. new = Append(list, doc)
    BY <1>7 DEF PutUser
  <2>2. /\ DOMAIN new = 1..(Len(list) + 1) /\ new[Len(list) + 1] = doc
        /\ \A i \in DOMAIN list : i \in DOMAIN new /\ new[i] = list[i]
    BY <1>1, <1>3, <2>1
  <2>3. \A i \in DOMAIN new : i = Len(list) + 1 \/ i \in DOMAIN list
    BY <1>3, <2>2
  <2>4. \A i \in DOMAIN list : list[i].id # doc.id
    BY <1>7 DEF IndexOf
  <2>5. \A j \in DOMAIN builtin : builtin[j].id # doc.id
    BY <1>1, <2>4 DEF Merged, Complete
  <2>6. FirstAt(docs, k)
    BY <2>4 DEF Merged, Complete, FirstAt
  <2>7. Sound(doc, k)
    BY <1>1, <2>5, <2>6 DEF Based, Tagged, SameKind
  <2>8. \A i \in DOMAIN new : Sound(new[i], k)
    <3>1. \A i \in DOMAIN list : Sound(list[i], k)
      BY <1>6 DEF Merged
    <3> HIDE DEF Sound
    <3> QED
      BY <2>2, <2>3, <2>7, <3>1
  <2>9. Len(list) + 1 \in DOMAIN new
    BY <1>3, <2>2
  <2>10. Complete(new, docs, k) /\ Complete(new, builtin, n)
    BY <1>4, <2>2, <2>9 DEF Merged, Complete
  <2> QED
    BY <1>2, <2>8, <2>10 DEF Merged
<1>8. CASE IndexOf(list, doc.id) # {}
  <2>1. new = [i \in DOMAIN list |->
                 IF list[i].id = doc.id
                 THEN Overlaid(list[i], doc) ELSE list[i]]
    BY <1>8 DEF PutUser
  <2>2. /\ DOMAIN new = DOMAIN list
        /\ \A i \in DOMAIN list :
             /\ list[i].id = doc.id => new[i] = Overlaid(list[i], doc)
             /\ list[i].id # doc.id => new[i] = list[i]
    BY <2>1
  <2>3. \A i \in DOMAIN list :
          list[i].id = doc.id =>
            /\ SameKind(new[i], list[i])
            /\ Range(new[i].tags) \subseteq Range(list[i].tags)
               \cup Range(doc.tags)
    BY <1>1, <1>3, <2>2, OverlaidFrom
  <2>4. ASSUME NEW i \in DOMAIN list
        PROVE  Sound(new[i], k) /\ new[i].id = list[i].id
    <3>1. Sound(list[i], k)
      BY <1>6 DEF Merged
    <3>2. CASE list[i].id # doc.id
      BY <2>2, <3>1, <3>2
    <3>3. CASE list[i].id = doc.id
      <4>1. new[i].id = list[i].id
        BY <2>3, <3>3 DEF SameKind
      <4>2. Based(new[i], builtin, docs, k)
        BY <2>3, <3>1, <3>3 DEF Based, SameKind
      <4>3. Tagged(new[i], builtin, docs, k)
        BY <1>1, <2>3, <3>1, <3>3, <4>1 DEF Tagged
      <4> QED
        BY <4>1, <4>2, <4>3
    <3> QED
      BY <3>2, <3>3
  <2>5. \E i \in DOMAIN list : list[i].id = doc.id
    BY <1>8 DEF IndexOf
  <2>6. Complete(new, docs, k)
    <3>1. \A j \in 1..(k - 1) : \E i \in DOMAIN new : new[i].id = docs[j].id
      BY <2>2, <2>4 DEF Merged, Complete
    <3>2. \E i \in DOMAIN new : new[i].id = docs[k].id
      BY <2>2, <2>4, <2>5
    <3> QED
      BY <1>4, <3>1, <3>2 DEF Complete
  <2>7. Complete(new, builtin, n)
    BY <2>2, <2>4 DEF Merged, Complete
  <2>8. \A i \in DOMAIN new :
          Based(new[i], builtin, docs, k) /\ Tagged(new[i], builtin, docs, k)
    BY <2>2, <2>4
  <2> QED
    BY <1>2, <2>6, <2>7, <2>8 DEF Merged
<1> QED
  BY <1>7, <1>8

\* MergeByID, for all lists of documents: every entry has a base document and
\* carries the tags of no document but those with its id.
LEMMA MergeByIDFact ==
  ASSUME NEW builtin \in Seq(Documents), NEW user \in Seq(Documents)
  PROVE  Merged(MergeByID(builtin, user), builtin, user, Len(user))
<1> DEFINE base == FoldLeft(PutBuiltin, <<>>, builtin)
           n == Len(user)
<1>1. MergedBuiltin(base, builtin, Len(builtin))
  BY BuiltinMerged
<1> HIDE DEF base
<1>2. base \in Seq(Documents) /\ n \in Nat /\ Len(builtin) \in Nat
      /\ DOMAIN builtin = 1..Len(builtin)
  BY <1>1, LenProperties DEF MergedBuiltin
<1>3. Merged(base, builtin, user, 0)
  <2>1. \A i \in DOMAIN base :
          Based(base[i], builtin, user, 0) /\ Tagged(base[i], builtin, user, 0)
    BY <1>1, <1>2 DEF MergedBuiltin, OfBuiltin, Based, Tagged, SameKind
  <2>2. Complete(base, user, 0)
    BY DEF Complete
  <2>3. Len(base) <= Len(builtin) + 0
    BY <1>1, <1>2, LenProperties DEF MergedBuiltin
  <2> QED
    BY <1>1, <1>2, <2>1, <2>2, <2>3 DEF MergedBuiltin, Merged
<1>4. PICK h : /\ h[0] = base
               /\ h[n] = FoldLeft(PutUser, base, user)
               /\ \A k \in 1..n : h[k] = PutUser(h[k - 1], user[k])
  BY <1>2, UserFold
<1> DEFINE S == {k \in 0..n : Merged(h[k], builtin, user, k)}
<1>5. 0 \in S
  BY <1>2, <1>3, <1>4
<1>6. \A k \in 1..n : k - 1 \in S => k \in S
  BY <1>2, <1>4, MergedStep
<1>7. n \in S
  <2> HIDE DEF S
  <2>1. 0..n \subseteq S
    BY <1>2, <1>5, <1>6, UpTo
  <2> QED
    BY <1>2, <2>1
<1>8. MergeByID(builtin, user) = h[n]
  BY <1>4 DEF MergeByID, base
<1> QED
  BY <1>7, <1>8

\* As many cleaners as documents at most.
LEMMA MergedSize ==
  ASSUME NEW builtin \in Seq(Documents), NEW user \in Seq(Documents),
         Len(builtin) + Len(user) <= N
  PROVE  \E n \in 0..N : MergeByID(builtin, user) \in [1..n -> Documents]
<1> DEFINE merged == MergeByID(builtin, user)
           n == Len(merged)
           a == Len(builtin)
           b == Len(user)
<1>1. merged \in Seq(Documents) /\ n <= a + b
  BY MergeByIDFact DEF Merged
<1>2. n \in Nat /\ a \in Nat /\ b \in Nat /\ merged \in [1..n -> Documents]
  BY <1>1, LenProperties
<1>3. a + b <= N
  OBVIOUS
<1> HIDE DEF n, a, b
<1>4. n \in 0..N
  BY <1>1, <1>2, <1>3
<1> QED
  BY <1>2, <1>4
----------------------------------------------------------------------------
(***************************************************************************)
(* What runClean hands to the engine.                                      *)
(***************************************************************************)
\* An age by tag is one the command line gives.
LEMMA TagAgeGiven ==
  ASSUME NEW m \in Documents
  PROVE  TagAge(m, opt) \subseteq Range(opt.tagAge)
<1> DEFINE selectors == <<m.id>> \o m.tags
           named == {i \in DOMAIN selectors :
             selectors[i] \in DOMAIN opt.tagAge}
<1>1. CASE named = {}
  BY <1>1 DEF TagAge
<1>2. CASE named # {}
  <2>1. named \in SUBSET Nat
    BY DEF Documents
  <2>2. \E i \in named : \A j \in named : i <= j
    BY <1>2, <2>1, Smallest
  <2>3. (CHOOSE i \in named : \A j \in named : i <= j) \in named
    BY <2>2
  <2> DEFINE first == CHOOSE i \in named : \A j \in named : i <= j
  <2>4. selectors[first] \in DOMAIN opt.tagAge
    BY <2>3
  <2>5. TagAge(m, opt) = {opt.tagAge[selectors[first]]}
    BY <1>2 DEF TagAge
  <2> QED
    BY <2>4, <2>5 DEF Range
<1> QED
  BY <1>1, <1>2

\* An age that is in effect is the general one or one given for a tag.
LEMMA EffectiveAgeGiven ==
  ASSUME NEW m \in Documents, opt.age # {}
  PROVE  EffectiveAge(m, files.config, opt) \subseteq opt.age
         \cup Range(opt.tagAge)
<1> DEFINE sources == <<TagAge(m, opt), opt.age,
                        Given(OverrideOf(files.config.age, m.id)),
                        Given(m.age), {files.config.default}>>
           used == {i \in DOMAIN sources : sources[i] # {}}
           first == CHOOSE i \in used : \A j \in used : i <= j
<1>1. DOMAIN sources = 1..5 /\ sources[1] = TagAge(m, opt)
      /\ sources[2] = opt.age
  OBVIOUS
<1>2. used \in SUBSET (1..5) /\ 2 \in used
  BY <1>1
<1>3. \E i \in used : \A j \in used : i <= j
  <2>1. used \in SUBSET Nat
    BY <1>2
  <2> QED
    BY Smallest
<1> HIDE DEF used, first
<1>4. first \in used /\ first <= 2
  BY <1>2, <1>3 DEF first
<1>5. first \in {1, 2}
  <2>1. first \in 1..5
    BY <1>2, <1>4
  <2> QED
    BY <1>4, <2>1
<1>6. EffectiveAge(m, files.config, opt) = sources[first]
  BY DEF EffectiveAge, used, first
<1> QED
  BY <1>5, <1>6, TagAgeGiven

\* A cleaner that is selected although its document switches the age filter off
\* has the consent of --force-no-age; otherwise an age of the command line
\* counts.
LEMMA ConfiguredAllowed ==
  ASSUME NEW m \in Documents, NEW c, c = Configured(m, files.config, opt),
         Selected(c), PathsAllowed(c)
  PROVE  Allowed(c)
<1>1. c.enabled # {FALSE}
  BY DEF Selected
<1>2. c.noAge = m.noAge /\ (m.noAge => NoAgeAllowed(opt))
  BY <1>1 DEF Configured, Documents
<1>3. ~m.noAge => c.age = EffectiveAge(m, files.config, opt)
  BY DEF Configured
<1> QED
  BY <1>2, <1>3, EffectiveAgeGiven DEF Allowed, NoAgeAllowed

\* Loading refuses the documents no executor may be called for.
LEMMA LoadInv ==
  ASSUME IndInv, Load
  PROVE  IndInv'
<1> DEFINE merged == MergeByID(files.builtin, files.user)
           list == Effective(merged, files.config, opt)
<1>1. CASE pc' = "done"
  <2>1. LoadFails
    BY <1>1 DEF Load, LoadFails
  <2> QED
    BY <2>1, LoadFailsInv
<1>2. CASE pc' = "next"
  <2>1. registry' = list /\ Runnable(list)
    BY <1>2 DEF Load, Abort
  <2>2. PICK n \in 0..N : merged \in [1..n -> Documents]
    BY EngineAssumption, MergedSize DEF IndInv, TypeOK
  <2>3. /\ list = [i \in 1..n |-> Configured(merged[i], files.config, opt)]
        /\ Len(list) = n
    BY <2>2 DEF Effective
  <2>4. UNCHANGED <<opt, files, at, run, skipped, errored, exit, left, errs,
                    ret, sig,
                    streamVars, callVars, cut>>
    BY <1>2 DEF Load, Abort
  <2>5. /\ at = 1 /\ Size = 0 /\ pc = "load" /\ exit = -1 /\ phase = "ready"
        /\ cut = {}
        /\ totals = {} /\ open = {}
        /\ \A c \in Cleaners : Untouched(c)
    BY DEF Load, IndInv, TypeOK, RegistryKnown, Position, Current, Ordered,
       CutHere, Ended, Cleaners
  <2>6. \A c \in 1..n :
          Valid(list[c]) /\ (Selected(list[c]) => PathsAllowed(list[c]))
    BY <2>1, <2>3 DEF Runnable
  <2>7. \A c \in 1..n : Selected(list[c]) => Allowed(list[c])
    BY <2>2, <2>3, <2>6, ConfiguredAllowed
  <2>8. /\ Size' = n /\ n \in Nat
        /\ \A c \in 1..n : registry'[c] = list[c]
    BY <2>1, <2>3 DEF Size
  <2>9. \A c \in 1..n :
          Valid(registry[c])'
          /\ (Selected(registry[c]) => Allowed(registry[c]))'
    BY <2>4, <2>6, <2>7, <2>8
    DEF Valid, Selected, Allowed, MatchesAny, NamedBy
  <2>10. TypeOK'
    <3>1. /\ Size' <= N /\ at' \in 1..Size' + 1
          /\ \A c \in 1..Size' : Valid(registry[c])'
      BY <2>2, <2>4, <2>5, <2>8, <2>9
    <3>2. (run + skipped + errored < at)' /\ at' \in Nat
      BY <2>4, <2>5 DEF IndInv, TypeOK
    <3>3. (open \subseteq Cleaners
           /\ phase \in {"ready", "running", "returned"})'
      BY <2>4 DEF IndInv, TypeOK, streamVars, callVars
    <3> QED
      BY <1>2, <2>4, <3>1, <3>2, <3>3 DEF IndInv, TypeOK, streamVars, callVars
  <2>11. RegistryKnown' /\ Position' /\ Current' /\ Ordered'
    BY <1>2, <2>4, <2>5, <2>8, <2>9
    DEF RegistryKnown, Position, Current, Ordered, Untouched,
       Executing, Cleaners, streamVars, callVars
  <2>12. Counted'
    BY <2>4, <2>5 DEF IndInv, Counted, Done
  <2>13. Ended' /\ CutHere' /\ ExitCodes' /\ CalledKnown'
    BY <1>2, <2>4, <2>5
    DEF IndInv, Ended, CutHere, ExitCodes, CalledKnown, Called,
       Untouched, streamVars, callVars
  <2> QED
    BY <2>10, <2>11, <2>12, <2>13 DEF IndInv
<1> QED
  BY <1>1, <1>2 DEF Load, Abort
----------------------------------------------------------------------------
\* Before the documents are loaded nothing has been done.
LEMMA InitInv ==
  ASSUME Init
  PROVE  IndInv
<1>1. Size = 0 /\ at = 1 /\ \A v : Done(v) = {}
  BY DEF Init, Size, Done
<1>2. Cardinality({}) = 0
  BY FS_EmptySet
<1>3. TypeOK
  <2>1. lines \in [Streams -> 0..MaxLines]
    BY DEF Init, Call!Init
  <2>2. verdict \in [Cleaners -> {"none", "ok", "skipped", "error"}]
    BY DEF Init, Stream!Init
  <2>3. /\ Size <= N /\ at \in 1..Size + 1 /\ left \in 0..MaxSteps + 2
        /\ errs \in Nat /\ run \in Nat /\ skipped \in Nat /\ errored \in Nat
        /\ run + skipped + errored < at
    BY <1>1 DEF Init
  <2>4. \A c \in 1..Size : Valid(registry[c])
    BY <1>1
  <2>5. /\ open \subseteq Cleaners /\ faulty \subseteq Cleaners
        /\ worked \subseteq Cleaners /\ cut \subseteq Cleaners
    BY DEF Init, Stream!Init
  <2>6. /\ phase \in {"ready", "running", "returned"}
        /\ answer \in Call!Answers \cup {"none"}
        /\ unread \in BOOLEAN /\ group \in BOOLEAN
    BY DEF Init, Call!Init
  <2> QED
    BY <2>1, <2>2, <2>3, <2>4, <2>5, <2>6 DEF Init, TypeOK
<1>4. RegistryKnown /\ Position /\ Current /\ Ordered
  BY <1>1
  DEF Init, Stream!Init, Call!Init, RegistryKnown, Position, Current,
     Ordered, Untouched, Executing
<1>5. Counted
  BY <1>1, <1>2 DEF Init, Counted
<1>6. Ended /\ CutHere /\ CalledKnown /\ ExitCodes
  BY DEF Init, Stream!Init, Call!Init, Ended, CutHere, CalledKnown, Called,
     ExitCodes
<1> QED
  BY <1>3, <1>4, <1>5, <1>6 DEF IndInv

\* Stuttering changes nothing.
LEMMA StutterInv ==
  ASSUME IndInv, UNCHANGED vars
  PROVE  IndInv'
<1> USE DEF vars, engineVars, streamVars, callVars
<1>1. TypeOK'
  BY Frame DEF IndInv, TypeOK
<1>2. RegistryKnown' /\ Position'
  BY Frame DEF IndInv, RegistryKnown, Position, Kind
<1>3. Current' /\ Ordered'
  BY Frame DEF IndInv, Current, Ordered, Untouched, Settled, Probing, Kind
<1>4. Counted'
  BY DEF IndInv, Counted, Done
<1>5. Ended' /\ CutHere' /\ CalledKnown' /\ ExitCodes'
  BY Frame DEF IndInv, Ended, CutHere, CalledKnown, Called, ExitCodes, Kind
<1> QED
  BY <1>1, <1>2, <1>3, <1>4, <1>5 DEF IndInv

\* No step of an executor breaks the inductive invariant, ...
LEMMA ExecutorInv ==
  ASSUME IndInv, ExecutorStep
  PROVE  IndInv'
<1> USE DEF Returned
<1>1. CASE SkipCleaner
  BY <1>1, SkipCleanerInv, ConcludeInv
<1>2. CASE RejectCleaner
  BY <1>2, RejectCleanerInv, ConcludeInv
<1>3. CASE GiveUp
  BY <1>3, GiveUpInv, ConcludeInv, UnitsGiveUpInv
<1>4. CASE EndOfSweep
  BY <1>4, EndOfSweepInv, ConcludeInv
<1>5. CASE EndOfCommands
  BY <1>5, EndOfCommandsInv, ConcludeInv
<1>6. CASE ProbeDone
  BY <1>6, ProbeDoneInv, ConcludeInv, ProbeGoesOnInv
<1>7. CASE ToolDone
  BY <1>7, ToolDoneInv, ConcludeInv
<1>8. CASE Proceed \/ Entry \/ ShowCommands \/ CallCommand \/ CommandReturns
           \/ CommandDone
  BY <1>8, ProceedInv, EntryInv, ShowCommandsInv, CallCommandInv,
     CommandReturnsInv, CommandDoneInv
<1> QED
  BY <1>1, <1>2, <1>3, <1>4, <1>5, <1>6, <1>7, <1>8 DEF ExecutorStep

\* ... and no step at all.
LEMMA NextInv ==
  ASSUME IndInv, [Next]_vars
  PROVE  IndInv'
<1>1. CASE EngineStep
  BY <1>1, LoadInv, LoadFailsInv, StopAtTopInv, PassOverInv,
     DeclineHeavyInv, ExecuteInv, AfterExecutorInv, SummaryInv
  DEF EngineStep
<1>2. CASE ExecutorStep
  BY <1>2, ExecutorInv
<1>3. CASE Signal \/ CommandWorks
  BY <1>3, SignalInv, CommandWorksInv
<1>4. CASE UNCHANGED vars
  BY <1>4, StutterInv
<1> QED
  BY <1>1, <1>2, <1>3, <1>4 DEF Next

\* The inductive invariant holds in every state of the run.
LEMMA Inductive == Spec => []IndInv
<1>1. Init => IndInv
  BY InitInv
<1>2. IndInv /\ [Next]_vars => IndInv'
  BY NextInv
<1> QED
  BY <1>1, <1>2, PTL DEF Spec

\* Every variable keeps its type, and a cleaner is counted at most once.
THEOREM TypeCorrect == Spec => []TypeOK
<1>1. IndInv => TypeOK
  BY DEF IndInv
<1> QED
  BY <1>1, Inductive, PTL

\* The exit code of main says what happened: 0 only after every selected cleaner
\* has finished without an error event, 1 and 2 only before any event, 3 only
\* after an error event, 4 only after a signal.
THEOREM ExitCodesTell == Spec => []ExitCodes
<1>1. IndInv => ExitCodes
  BY DEF IndInv
<1> QED
  BY <1>1, Inductive, PTL

\* A cleaner that gives up work because of the signal is the last: whatever its
\* executor returns, Engine.Run ends with the cancellation.
THEOREM InterruptedEnds == Spec => []Interrupted
<1>1. IndInv => Interrupted
  BY DEF IndInv, Position, Ordered, Untouched, Ended, CutHere, Interrupted
<1> QED
  BY <1>1, Inductive, PTL

\* No executor is called for a cleaner whose paths, missing age filter or age
\* the command line does not allow: applyEffectiveConfig and
\* validateCleanersForRun stand between the documents and Engine.Run.
THEOREM CalledAreGuarded == Spec => []Guarded
<1>1. IndInv => Guarded
  BY DEF IndInv, TypeOK, RegistryKnown, CalledKnown, Cleaners, Allowed,
     Guarded
<1> QED
  BY <1>1, Inductive, PTL
----------------------------------------------------------------------------
(***************************************************************************)
(* Consent: the documents behind the registry.                             *)
(***************************************************************************)
\* The document BaseDoc finds decides on a merged cleaner.
LEMMA BaseDocDecides ==
  ASSUME files.builtin \in Seq(Documents), files.user \in Seq(Documents),
         NEW c, Based(c, files.builtin, files.user, Len(files.user))
  PROVE  /\ SameKind(c, BaseDoc(c.id))
         /\ BaseDoc(c.id) \in Range(files.builtin) \cup Range(files.user)
<1> DEFINE b == files.builtin
           u == files.user
<1>1. /\ Len(b) \in Nat /\ DOMAIN b = 1..Len(b)
      /\ Len(u) \in Nat /\ DOMAIN u = 1..Len(u)
  BY LenProperties
<1>2. CASE \E j \in DOMAIN b : SameKind(c, b[j]) /\ LastAt(b, j, Len(b))
  <2>1. PICK j \in DOMAIN b : SameKind(c, b[j]) /\ LastAt(b, j, Len(b))
    BY <1>2
  <2>2. j \in IndexOf(b, c.id)
    BY <2>1 DEF IndexOf, SameKind
  <2>3. \A i \in IndexOf(b, c.id) : i \in Nat /\ j \in Nat /\ j >= i
    <3> TAKE i \in IndexOf(b, c.id)
    <3>1. i \in 1..Len(b) /\ j \in 1..Len(b) /\ b[i].id = b[j].id
      BY <1>1, <2>1 DEF IndexOf, SameKind
    <3>2. i \notin (j + 1)..Len(b)
      BY <2>1, <3>1 DEF LastAt
    <3> QED
      BY <1>1, <3>1, <3>2
  <2>4. Max(IndexOf(b, c.id)) = j
    <3>1. Max(IndexOf(b, c.id)) \in IndexOf(b, c.id)
          /\ \A i \in IndexOf(b, c.id) : Max(IndexOf(b, c.id)) >= i
      BY <2>2, <2>3 DEF Max
    <3> QED
      BY <2>2, <2>3, <3>1
  <2>5. BaseDoc(c.id) = b[j]
    BY <2>2, <2>4 DEF BaseDoc
  <2> QED
    BY <2>1, <2>5 DEF Range
<1>3. CASE /\ \A j \in DOMAIN b : b[j].id # c.id
           /\ \E j \in 1..Len(u) : SameKind(c, u[j]) /\ FirstAt(u, j)
  <2>1. PICK j \in 1..Len(u) : SameKind(c, u[j]) /\ FirstAt(u, j)
    BY <1>3
  <2>2. j \in IndexOf(u, c.id) /\ IndexOf(b, c.id) = {}
    BY <1>1, <1>3, <2>1 DEF IndexOf, SameKind
  <2>3. \A i \in IndexOf(u, c.id) : i \in Nat /\ j \in Nat /\ j <= i
    <3> TAKE i \in IndexOf(u, c.id)
    <3>1. i \in 1..Len(u) /\ j \in 1..Len(u) /\ u[i].id = u[j].id
      BY <1>1, <2>1 DEF IndexOf, SameKind
    <3>2. i \notin 1..(j - 1)
      BY <2>1, <3>1 DEF FirstAt
    <3> QED
      BY <1>1, <3>1, <3>2
  <2>4. Min(IndexOf(u, c.id)) = j
    <3>1. Min(IndexOf(u, c.id)) \in IndexOf(u, c.id)
          /\ \A i \in IndexOf(u, c.id) : Min(IndexOf(u, c.id)) <= i
      BY <2>2, <2>3 DEF Min
    <3>2. /\ Min(IndexOf(u, c.id)) <= j /\ j <= Min(IndexOf(u, c.id))
          /\ Min(IndexOf(u, c.id)) \in Nat /\ j \in Nat
      BY <2>2, <2>3, <3>1
    <3> QED
      BY <3>2
  <2>5. BaseDoc(c.id) = u[j]
    BY <2>2, <2>4 DEF BaseDoc
  <2> QED
    BY <1>1, <2>1, <2>5 DEF Range
<1> QED
  BY <1>2, <1>3 DEF Based

\* The documents stand behind every cleaner of the registry.
Documented ==
  \A c \in 1..Size :
    /\ Based(registry[c], files.builtin, files.user, Len(files.user))
    /\ Tagged(registry[c], files.builtin, files.user, Len(files.user))

\* Loading establishes that the registry is documented by the two files.
LEMMA DocumentedLoad ==
  ASSUME files \in Files, Load, pc' = "next"
  PROVE  Documented'
<1> DEFINE merged == MergeByID(files.builtin, files.user)
<1>1. registry' = Effective(merged, files.config, opt)
      /\ UNCHANGED <<opt, files>>
  BY DEF Load, Abort
<1>2. Merged(merged, files.builtin, files.user, Len(files.user))
  BY EngineAssumption, MergeByIDFact
<1> HIDE DEF merged
<1>3. /\ registry' = [c \in 1..Len(merged) |->
                       Configured(merged[c], files.config, opt)]
      /\ Len(merged) \in Nat /\ DOMAIN merged = 1..Len(merged)
  BY <1>1, <1>2, LenProperties DEF Effective, Merged
<1>4. Size' = Len(merged)
  BY <1>3 DEF Size
<1>5. ASSUME NEW c \in 1..Len(merged)
      PROVE  /\ SameKind(registry'[c], merged[c])
             /\ registry'[c].tags = merged[c].tags
  <2>1. merged[c] \in Documents
    BY <1>2, ElementOfSeq DEF Merged
  <2>2. registry'[c] = Configured(merged[c], files.config, opt)
    BY <1>3
  <2> QED
    BY <2>1, <2>2 DEF Configured, SameKind, Documents
<1>6. \A c \in 1..Len(merged) :
        /\ Based(merged[c], files.builtin, files.user, Len(files.user))
        /\ Tagged(merged[c], files.builtin, files.user, Len(files.user))
  BY <1>2, <1>3 DEF Merged
<1>7. \A c \in 1..Len(merged) :
        /\ Based(registry'[c], files.builtin, files.user, Len(files.user))
        /\ Tagged(registry'[c], files.builtin, files.user, Len(files.user))
  <2> TAKE c \in 1..Len(merged)
  <2> DEFINE m == merged[c]
             r == registry'[c]
  <2>1. SameKind(r, m) /\ r.tags = m.tags
    BY <1>5
  <2>2. /\ Based(m, files.builtin, files.user, Len(files.user))
        /\ Tagged(m, files.builtin, files.user, Len(files.user))
    BY <1>6
  <2> HIDE DEF m, r
  <2>3. Based(r, files.builtin, files.user, Len(files.user))
    BY <2>1, <2>2 DEF Based, SameKind
  <2>4. Tagged(r, files.builtin, files.user, Len(files.user))
    BY <2>1, <2>2 DEF Tagged, SameKind
  <2> QED
    BY <2>3, <2>4 DEF r
<1> QED
  BY <1>1, <1>4, <1>7 DEF Documented

\* Only loading changes what the registry is made of.
LEMMA RegistryStays ==
  ASSUME [Next]_vars, ~(Load /\ pc' = "next")
  PROVE  UNCHANGED <<opt, files, registry>>
<1> USE DEF engineVars
<1>1. CASE EngineStep
  BY <1>1 DEF EngineStep, Load, LoadFails, StopAtTop, PassOver, DeclineHeavy,
     Execute, AfterExecutor, Summary, Abort, Advance, Aggregate
<1>2. CASE ExecutorStep
  BY <1>2
  DEF ExecutorStep, Returned, SkipCleaner, RejectCleaner, GiveUp, EndOfSweep,
     EndOfCommands, ProbeDone, ToolDone, Proceed, Entry, ShowCommands,
     CallCommand, CommandReturns, CommandDone, Conclude
<1>3. CASE Signal \/ CommandWorks \/ UNCHANGED vars
  BY <1>3 DEF Signal, CommandWorks, vars
<1> QED
  BY <1>1, <1>2, <1>3 DEF Next

\* The executors that were called are those of cleaners with consent: the
\* cleaner's kind, impact and tags come from documents of its id.
THEOREM CalledByConsent == Spec => []Consent
<1>1. Init => Documented
  BY DEF Init, Documented, Size
<1>2. IndInv /\ Documented /\ [Next]_vars => Documented'
  <2> SUFFICES ASSUME IndInv, Documented, [Next]_vars
               PROVE  Documented'
    OBVIOUS
  <2>1. CASE Load /\ pc' = "next"
    BY <2>1, DocumentedLoad DEF IndInv, TypeOK
  <2>2. CASE ~(Load /\ pc' = "next")
    BY <2>2, RegistryStays DEF Documented, Size
  <2> QED
    BY <2>1, <2>2
<1>3. IndInv /\ Documented => Consent
  <2> SUFFICES ASSUME IndInv, Documented, NEW c \in 1..Size, Called(c),
                      Heavy(BaseDoc(registry[c].id)), ~opt.heavy
               PROVE  \E d \in Range(files.builtin) \cup Range(files.user) :
                        d.id = registry[c].id /\ NamedBy(d, opt.only)
    BY DEF Consent
  <2> DEFINE r == registry[c]
             b == files.builtin
             u == files.user
  <2>1. b \in Seq(Documents) /\ u \in Seq(Documents)
    BY EngineAssumption DEF IndInv, TypeOK
  <2>2. Based(r, b, u, Len(u)) /\ Tagged(r, b, u, Len(u))
    BY DEF Documented
  <2>3. SameKind(r, BaseDoc(r.id)) /\ BaseDoc(r.id) \in Range(b) \cup Range(u)
    BY <2>1, <2>2, BaseDocDecides
  <2>4. HeavyAuthorized(r)
    BY DEF IndInv, TypeOK, CalledKnown, Cleaners, RegistryKnown
  <2>5. NamedBy(r, opt.only)
    BY <2>3, <2>4 DEF HeavyAuthorized, Heavy, SameKind
  <2>6. CASE r.id \in opt.only
    BY <2>3, <2>6 DEF NamedBy, SameKind
  <2>7. CASE \E t \in Range(r.tags) : t \in opt.only
    <3>1. PICK t \in Range(r.tags) : t \in opt.only
      BY <2>7
    <3>2. DOMAIN u = 1..Len(u)
      BY <2>1, LenProperties
    <3>3. \/ \E j \in DOMAIN b : b[j].id = r.id /\ t \in Range(b[j].tags)
          \/ \E j \in DOMAIN u : u[j].id = r.id /\ t \in Range(u[j].tags)
      BY <2>2, <3>1, <3>2 DEF Tagged
    <3>4. /\ \A j \in DOMAIN b : b[j] \in Range(b)
          /\ \A j \in DOMAIN u : u[j] \in Range(u)
      BY DEF Range
    <3>5. \E d \in Range(b) \cup Range(u) : d.id = r.id /\ t \in Range(d.tags)
      BY <3>3, <3>4
    <3> QED
      BY <3>1, <3>5 DEF NamedBy
  <2> QED
    BY <2>5, <2>6, <2>7 DEF NamedBy
<1> QED
  BY <1>1, <1>2, <1>3, Inductive, PTL DEF Spec
----------------------------------------------------------------------------
(***************************************************************************)
(* The events are those of EventStream, one step at a time.                *)
(***************************************************************************)
LEMMA ConcludeEvents ==
  ASSUME IndInv, NEW status \in {"ok", "skipped", "error"}, NEW n \in Nat,
         NEW value,
         Concludes(status, n, value), status = "skipped" => at \notin worked
  PROVE  Stream!Next
<1>1. at \in Cleaners /\ open = {at}
  BY AtCleaner DEF Concludes, IndInv, Position, Executing, Current
<1>2. Stream!Finish(at, status)
  BY <1>1 DEF Stream!Finish, Concludes, Conclude, EmitFinish
<1> QED
  BY <1>1, <1>2 DEF Stream!Next, Stream!Verdicts

\* At the end the finish events in the stream are as many as the engine counted.
LEMMA CountedAtEnd ==
  ASSUME IndInv, at > Size, open = {}, NEW v \in {"ok", "skipped", "error"},
         pc = "next"
  PROVE  Stream!Tally(v) = Cardinality(Done(v))
<1>1. at = Size + 1 /\ Size <= N /\ Size \in Nat
  BY DEF IndInv, TypeOK, RegistryKnown
<1>2. \A c \in Cleaners : c >= at => verdict[c] = "none"
  BY <1>1 DEF IndInv, Current, Ordered, Untouched, Cleaners
<1>3. {c \in Cleaners : verdict[c] = v} = Done(v)
  BY <1>1, <1>2 DEF Done, Cleaners
<1> QED
  BY <1>3 DEF Stream!Tally, Stream!Cardinality, Cardinality

\* What the engine reports the stream allows, ...
LEMMA EngineEvents ==
  ASSUME IndInv, EngineStep
  PROVE  Stream!Next \/ UNCHANGED streamVars
<1>1. CASE Load \/ LoadFails \/ StopAtTop \/ PassOver \/ AfterExecutor
  BY <1>1 DEF Load, LoadFails, StopAtTop, PassOver, AfterExecutor
<1>2. CASE DeclineHeavy
  <2>1. at \in Cleaners /\ totals = {} /\ open = {} /\ verdict[at] = "none"
    BY <1>2, AtCleaner
    DEF DeclineHeavy, Wanted, IndInv, Current, Untouched, Ended
  <2>2. Stream!Decline(at)
    BY <1>2, <2>1 DEF DeclineHeavy, EmitFinish, Stream!Decline
  <2> QED
    BY <2>1, <2>2 DEF Stream!Next
<1>3. CASE Execute
  <2>1. at \in Cleaners /\ totals = {} /\ open = {} /\ verdict[at] = "none"
    BY <1>3, AtCleaner
    DEF Execute, Wanted, IndInv, Current, Untouched, Ended
  <2>2. Stream!Begin(at)
    BY <1>3, <2>1 DEF Execute, EmitStart, Stream!Begin
  <2> QED
    BY <2>1, <2>2 DEF Stream!Next
<1>4. CASE Summary
  <2>1. totals = {} /\ open = {} /\ at > Size /\ pc = "next"
    BY <1>4 DEF Summary, IndInv, Current, Ended
  <2>2. /\ run = Stream!Tally("ok") /\ skipped = Stream!Tally("skipped")
        /\ errored = Stream!Tally("error")
    BY <2>1, CountedAtEnd DEF IndInv, Counted
  <2>3. totals' = {<<v, Stream!Tally(v)>> : v \in Stream!Verdicts}
    BY <1>4, <2>2 DEF Summary, Stream!Verdicts
  <2>4. Stream!Summarise
    BY <1>4, <2>1, <2>3 DEF Summary, Stream!Summarise
  <2> QED
    BY <2>4 DEF Stream!Next
<1> QED
  BY <1>1, <1>2, <1>3, <1>4 DEF EngineStep

\* Whatever an executor reports, it reports of the cleaner it was called for.
LEMMA ReportEvents ==
  ASSUME IndInv, pc \in {"work", "command"},
         \/ EmitWork(at) \/ EmitError(at) \/ UNCHANGED streamVars
  PROVE  Stream!Next \/ UNCHANGED streamVars
<1>1. at \in Cleaners /\ at \in open
  BY AtCleaner DEF IndInv, Position, Executing, Current
<1> QED
  BY <1>1 DEF Stream!Next, Stream!Report, Stream!Fail, EmitWork, EmitError

\* ... and what an executor reports, ...
LEMMA ExecutorEvents ==
  ASSUME IndInv, ExecutorStep
  PROVE  Stream!Next \/ UNCHANGED streamVars
<1>1. CASE SkipCleaner
  BY <1>1, SkipCleanerInv, ConcludeEvents DEF SkipCleaner, IndInv, Current
<1>2. CASE RejectCleaner
  BY <1>2, RejectCleanerInv, ConcludeEvents
<1>3. CASE GiveUp
  BY <1>3, GiveUpInv, ConcludeEvents
<1>4. CASE EndOfSweep
  BY <1>4, EndOfSweepInv, ConcludeEvents
<1>5. CASE EndOfCommands
  BY <1>5, EndOfCommandsInv, ConcludeEvents
<1>6. CASE ProbeDone
  <2>1. pc = "command" /\ at \notin worked
    BY <1>6 DEF ProbeDone, IndInv, Current
  <2> QED
    BY <1>6, <2>1, ProbeDoneInv, ConcludeEvents
<1>7. CASE ToolDone
  BY <1>7, ToolDoneInv, ConcludeEvents
<1>8. CASE Entry \/ ShowCommands \/ CommandDone
  <2>1. pc \in {"work", "command"}
    BY <1>8 DEF Entry, Sweeping, ShowCommands, Running, CommandDone
  <2>2. EmitWork(at) \/ EmitError(at) \/ UNCHANGED streamVars
    BY <1>8 DEF Entry, ShowCommands, CommandDone
  <2> QED
    BY <2>1, <2>2, ReportEvents
<1>9. CASE Proceed \/ CallCommand \/ CommandReturns
  BY <1>9 DEF Proceed, CallCommand, CommandReturns
<1> QED
  BY <1>1, <1>2, <1>3, <1>4, <1>5, <1>6, <1>7, <1>8, <1>9 DEF ExecutorStep

\* ... and the lines a command prints.
LEMMA CommandEvents ==
  ASSUME IndInv, CommandWorks
  PROVE  Stream!Next \/ UNCHANGED streamVars
<1>1. pc = "command"
  BY DEF CommandWorks, Call!Work, IndInv, Position
<1>2. EmitWork(at) \/ UNCHANGED streamVars
  BY DEF CommandWorks
<1> QED
  BY <1>1, <1>2, ReportEvents

\* A reader of the JSONL sees, between the start and the finish event of a
\* cleaner, that cleaner's events only, a finish status that agrees with them,
\* and last a summary that agrees with the finish events.
THEOREM EventsInOrder == Spec => EventOrder
<1>1. Init => Stream!Init
  BY DEF Init
<1>2. IndInv /\ [Next]_vars => [Stream!Next]_(Stream!vars)
  <2> SUFFICES ASSUME IndInv, [Next]_vars
               PROVE  Stream!Next \/ UNCHANGED streamVars
    BY DEF Stream!vars, streamVars
  <2>1. CASE EngineStep
    BY <2>1, EngineEvents
  <2>2. CASE ExecutorStep
    BY <2>2, ExecutorEvents
  <2>3. CASE CommandWorks
    BY <2>3, CommandEvents
  <2>4. CASE Signal \/ UNCHANGED vars
    BY <2>4 DEF Signal, vars
  <2> QED
    BY <2>1, <2>2, <2>3, <2>4 DEF Next
<1> QED
  BY <1>1, <1>2, Inductive, PTL DEF Spec, EventOrder, Stream!Spec
=============================================================================
