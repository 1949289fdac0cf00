------------------------- MODULE ManagedCacheProofs -------------------------
(***************************************************************************)
(* Proofs about ManagedCache, for every value of its constants.            *)
(*                                                                         *)
(* TypeOK, Exclusive and UseBlocks hold whoever can inspect whom and       *)
(* whatever an interrupted append leaves behind (HeldInv).  WriteAhead,    *)
(* NoFreshLoss and the promise of UnitLifecycle are proved for processes   *)
(* that all inspect each other and appends that are not torn (IndInv):     *)
(* without the one or the other TLC finds them violated.                   *)
(***************************************************************************)
EXTENDS ManagedCacheInv, TLAPS

USE ConstantsAssumption DEF ConstantsAssumption

----------------------------------------------------------------------------
(***************************************************************************)
(* Type correctness.                                                       *)
(***************************************************************************)
LEMMA PointsFact ==
  Points = {"rename", "verify", "delete", "unlink", "complete", "scan",
            "append", "restat", "recapture", "rescan", "idle", "resume",
            "select", "open"}
BY DEF Points, Holding, Cleared

\* The parts of TypeOK a process step may disturb through Release, Goto, ...
ProcType ==
  /\ pc \in [Procs -> Points]
  /\ unit \in [Procs -> Units]
  /\ unscanned \in [Procs -> SUBSET Actors]
  /\ watch \in [Procs -> SUBSET Users]

LEMMA ReleaseType ==
  ASSUME TypeOK, NEW p \in Procs, Release(p)
  PROVE  ProcType'
<1>1. NoUnit \in Units
  BY DEF NoUnit, Units, Ages
<1> QED
  BY <1>1, PointsFact DEF TypeOK, ProcType, Release, Goto

LEMMA ConsiderType ==
  ASSUME TypeOK, NEW p \in Procs, NEW l \in Leaves,
         NEW t \in Tombs \cup {None}, NEW i \in Inodes \cup {None},
         NEW renamed \in BOOLEAN, NEW resumed \in BOOLEAN,
         Consider(p, l, t, i, renamed, resumed)
  PROVE  pc' \in [Procs -> Points] /\ unit' \in [Procs -> Units]
<1>1. [leaf |-> l, tomb |-> t, ino |-> i, renamed |-> renamed,
       resumed |-> resumed, seen |-> "old"] \in Units
  BY DEF Units, Ages
<1> QED
  BY <1>1, PointsFact DEF TypeOK, Consider, Candidate, Goto

\* What a failed or a successful append does to the journal.
LEMMA AppendType ==
  ASSUME TypeOK, NEW r \in Records, AppendLine(r) \/ AppendFails(r)
  PROVE  /\ journal' \subseteq Records
         /\ tail' \in {"clean", "torn", "corrupt"}
BY DEF TypeOK, AppendLine, AppendFails, TearTail, journalVars

LEMMA FaultType ==
  ASSUME TypeOK, NoFault \/ Fault
  PROVE  faults' \in Nat
BY DEF TypeOK, NoFault, Fault

LEMMA StartTypeOK ==
  ASSUME TypeOK, NEW p \in Procs, Start(p)
  PROVE  TypeOK'
<1>1. Pending(journal) \subseteq Records
  BY DEF TypeOK, Pending
<1>2. \A R \in SUBSET Records : Deferred(R) \in SUBSET Leaves
  BY DEF Deferred, Records
<1>3. /\ recs' \in [Procs -> SUBSET Records]
      /\ handled' \in [Procs -> SUBSET Leaves]
  BY <1>1, <1>2 DEF TypeOK, Start
<1> QED
  BY <1>3, PointsFact
  DEF TypeOK, Start, Goto, NoFault, cacheVars, journalVars, envVars

LEMMA ResumeTypeOK ==
  ASSUME TypeOK, NEW p \in Procs, Resume(p)
  PROVE  TypeOK'
<1>1. PICK r \in recs[p] : Resume(p)!2!(r)
  BY DEF Resume
<1>2. r.leaf \in Leaves /\ r.tomb \in Tombs /\ r.ino \in Inodes
  BY <1>1 DEF TypeOK, Records
<1>3. pc' \in [Procs -> Points] /\ unit' \in [Procs -> Units]
  BY <1>1, <1>2, ConsiderType DEF TypeOK
<1>4. recs' \in [Procs -> SUBSET Records]
  BY <1>1 DEF TypeOK
<1> QED
  BY <1>3, <1>4
  DEF TypeOK, Resume, NoFault, cacheVars, journalVars, envVars

LEMMA SelectTypeOK ==
  ASSUME TypeOK, NEW p \in Procs, Select(p)
  PROVE  TypeOK'
<1>1. PICK l \in todo[p] : Select(p)!2!(l)
  BY DEF Select
<1>2. l \in Leaves /\ names[l] \in Inodes \cup {None}
  BY <1>1 DEF TypeOK, Names
<1>3. pc' \in [Procs -> Points] /\ unit' \in [Procs -> Units]
  BY <1>1, <1>2, ConsiderType DEF TypeOK
<1>4. todo' \in [Procs -> SUBSET Leaves]
  BY <1>1 DEF TypeOK
<1> QED
  BY <1>3, <1>4
  DEF TypeOK, Select, NoFault, cacheVars, journalVars, envVars

LEMMA OpenUnitTypeOK ==
  ASSUME TypeOK, UnitShape, NEW p \in Procs, OpenUnit(p)
  PROVE  TypeOK'
<1>1. ProcType'
  <2>1. CASE Release(p)
    BY <2>1, ReleaseType
  <2>2. CASE ~Release(p)
    <3>1. unit[p].ino \in Inodes
      BY DEF UnitShape, Shape, OpenUnit, Working
    <3>2. age[unit[p].ino] \in Ages /\ unit[p] \in Units
      BY <3>1 DEF TypeOK
    <3>3. [unit[p] EXCEPT !.seen = age[unit[p].ino]] \in Units
      BY <3>2 DEF Units
    <3>4. unit' = [unit EXCEPT ![p] =
                     [unit[p] EXCEPT !.seen = age[unit[p].ino]]]
      BY <2>2 DEF OpenUnit
    <3>5. unit' \in [Procs -> Units]
      BY <3>3, <3>4 DEF TypeOK
    <3>6. pc' \in [Procs -> Points]
      BY <2>2, PointsFact DEF TypeOK, OpenUnit, StartScan, Goto
    <3>7. unscanned' \in [Procs -> SUBSET Actors]
      <4>1. Visible(p) \in SUBSET Actors
        BY DEF Visible
      <4>2. unscanned' = [unscanned EXCEPT ![p] = Visible(p)]
        BY <2>2 DEF OpenUnit, StartScan
      <4> QED
        BY <4>1, <4>2 DEF TypeOK
    <3>8. watch' \in [Procs -> SUBSET Users]
      <4>1. watch' = [watch EXCEPT ![p] =
                        {u \in Users : uopen[u] = unit[p].ino}]
        BY <2>2 DEF OpenUnit
      <4> QED
        BY <4>1 DEF TypeOK
    <3> QED
      BY <3>5, <3>6, <3>7, <3>8 DEF ProcType
  <2> QED
    BY <2>1, <2>2
<1> QED
  BY <1>1
  DEF TypeOK, ProcType, OpenUnit, NoFault, cacheVars, journalVars, envVars,
      loopVars

\* The steps that only move their process.
LEMMA MoveTypeOK ==
  ASSUME TypeOK, NEW p \in Procs,
         \/ Inspect(p) \/ ScanDone(p) \/ Restat(p) \/ Recapture(p)
         \/ Verify(p) \/ CheckTombstone(p) \/ Refuse(p)
  PROVE  TypeOK'
<1>1. ProcType'
  <2>1. CASE Release(p)
    BY <2>1, ReleaseType
  <2>2. CASE ~Release(p)
    BY <2>2, PointsFact
    DEF TypeOK, ProcType, Inspect, ScanDone, Restat, Recapture, Verify,
        CheckTombstone, Refuse, StartScan, Goto, AfterScan, Visible
  <2> QED
    BY <2>1, <2>2
<1>2. /\ NoFault \/ Fault
      /\ UNCHANGED <<cacheVars, journalVars, envVars, loopVars>>
  BY DEF Inspect, ScanDone, Restat, Recapture, Verify, CheckTombstone, Refuse
<1> QED
  BY <1>1, <1>2, FaultType
  DEF TypeOK, ProcType, cacheVars, journalVars, envVars, loopVars

LEMMA AppendTypeOK ==
  ASSUME TypeOK, UnitShape, NEW p \in Procs,
         AppendPending(p) \/ AppendComplete(p)
  PROVE  TypeOK'
<1>1. \A t \in Tombs, c \in BOOLEAN : RecordOf(p, t, c) \in Records
  BY DEF UnitShape, Shape, AppendPending, AppendComplete, RecordOf, Records, Working,
         Holding, Cleared
<1>2. CASE AppendPending(p)
  <2>1. /\ journal' \subseteq Records
        /\ tail' \in {"clean", "torn", "corrupt"}
        /\ NoFault \/ Fault
    BY <1>1, <1>2, AppendType
    DEF AppendPending, AppendFails, TypeOK, journalVars
  <2>2. ProcType'
    <3>1. CASE Release(p)
      BY <3>1, ReleaseType
    <3>2. CASE ~Release(p)
      <4>1. PICK t \in Tombs : /\ unit' = [unit EXCEPT ![p].tomb = t]
                                /\ Goto(p, "restat")
                                /\ UNCHANGED <<unscanned, watch>>
        BY <1>2, <3>2 DEF AppendPending
      <4>2. [unit[p] EXCEPT !.tomb = t] \in Units
        <5>1. unit[p] \in Units
          BY DEF TypeOK
        <5> QED
          BY <5>1 DEF Units
      <4>3. unit' = [unit EXCEPT ![p] = [unit[p] EXCEPT !.tomb = t]]
        BY <4>1
      <4>4. unit' \in [Procs -> Units]
        BY <4>2, <4>3 DEF TypeOK
      <4>5. pc' \in [Procs -> Points]
        BY <4>1, PointsFact DEF TypeOK, Goto
      <4> QED
        BY <4>1, <4>4, <4>5 DEF TypeOK, ProcType
    <3> QED
      BY <3>1, <3>2
  <2> QED
    BY <1>2, <2>1, <2>2, FaultType
    DEF TypeOK, ProcType, AppendPending, cacheVars, envVars, loopVars
<1>3. CASE AppendComplete(p)
  <2>1. unit[p].tomb \in Tombs
    BY <1>3 DEF UnitShape, Shape, AppendComplete, Working, Holding, Cleared
  <2>2. /\ journal' \subseteq Records
        /\ tail' \in {"clean", "torn", "corrupt"}
        /\ NoFault \/ Fault
    BY <1>1, <1>3, <2>1, AppendType DEF AppendComplete, AppendFails
  <2>3. ProcType'
    BY <1>3, ReleaseType DEF AppendComplete
  <2> QED
    BY <1>3, <2>2, <2>3, FaultType
    DEF TypeOK, ProcType, AppendComplete, cacheVars, envVars, loopVars
<1> QED
  BY <1>2, <1>3

\* The steps on the names and on the content of the unit.
LEMMA UnlinkTypeOK ==
  ASSUME TypeOK, UnitShape, NEW p \in Procs,
         Rename(p) \/ DeletePart(p) \/ UnlinkTombstone(p)
  PROVE  TypeOK'
<1>1. ProcType'
  <2>1. CASE Release(p)
    BY <2>1, ReleaseType
  <2>2. CASE ~Release(p)
    BY <2>2, PointsFact
    DEF TypeOK, ProcType, Rename, DeletePart, UnlinkTombstone, Goto
  <2> QED
    BY <2>1, <2>2
<1>2. /\ names' \in [Names -> Inodes \cup {None}]
      /\ NoFault \/ Fault
  BY DEF TypeOK, Names, UnitShape, Shape, Rename, DeletePart, UnlinkTombstone,
         Working, Holding, Cleared
<1>3. age' \in [Inodes -> Ages] /\ parts' \in [Inodes -> 0..Parts]
  BY DEF TypeOK, Rename, DeletePart, UnlinkTombstone, PartsLeft, Ages,
         UnitShape, Shape, Working, Holding, Cleared
<1> QED
  BY <1>1, <1>2, <1>3, FaultType
  DEF TypeOK, ProcType, Rename, DeletePart, UnlinkTombstone, journalVars,
      envVars, loopVars

LEMMA OtherTypeOK ==
  ASSUME TypeOK, NEW p \in Procs,
         Enumerate(p) \/ Finish(p) \/ Cancel(p) \/ Crash(p)
  PROVE  TypeOK'
<1>1. NoUnit \in Units
  BY DEF NoUnit, Units, Ages
<1>2. CASE Enumerate(p) \/ Finish(p)
  BY <1>2, PointsFact
  DEF TypeOK, Enumerate, Finish, Goto, NoFault, cacheVars, journalVars, envVars
<1>3. CASE Cancel(p) \/ Crash(p)
  <2>1. Forget(p) /\ Fault /\ UNCHANGED <<cacheVars, envVars, journal>>
    BY <1>3 DEF Cancel, Crash, journalVars
  <2>2. tail' \in {"clean", "torn", "corrupt"}
    BY <1>3 DEF TypeOK, Cancel, Crash, TearTail, journalVars
  <2>3. ProcType'
    BY <1>1, <2>1, PointsFact DEF TypeOK, ProcType, Forget, Goto
  <2>4. /\ recs' \in [Procs -> SUBSET Records]
        /\ handled' \in [Procs -> SUBSET Leaves]
        /\ todo' \in [Procs -> SUBSET Leaves]
    BY <2>1 DEF TypeOK, Forget
  <2> QED
    BY <2>1, <2>2, <2>3, <2>4, FaultType
    DEF TypeOK, ProcType, cacheVars, envVars
<1> QED
  BY <1>2, <1>3

LEMMA UserTypeOK ==
  ASSUME TypeOK,
         \/ \E u \in Users : UserStep(u)
         \/ \E l \in Leaves : OwnerStep(l)
  PROVE  TypeOK'
<1>1. ASSUME NEW u \in Users, NEW l \in Leaves, UserOpen(u, l)
      PROVE  TypeOK'
  BY <1>1 DEF TypeOK, UserOpen, procVars, cacheVars, journalVars, loopVars, Names
<1>2. ASSUME NEW u \in Users, UserClose(u)
      PROVE  TypeOK'
  BY <1>2 DEF TypeOK, UserClose, procVars, cacheVars, journalVars, loopVars
<1>3. ASSUME NEW u \in Users, UserWrite(u)
      PROVE  TypeOK'
  BY <1>3 DEF TypeOK, UserWrite, Ages, procVars, envVars, journalVars, loopVars
<1>4. ASSUME NEW l \in Leaves, UserCreate(l)
      PROVE  TypeOK'
  BY <1>4 DEF TypeOK, UserCreate, NewAges, Ages, Names, procVars, journalVars, loopVars
<1>5. ASSUME NEW l \in Leaves, UserRemove(l)
      PROVE  TypeOK'
  BY <1>5 DEF TypeOK, UserRemove, Names, procVars, envVars, journalVars, loopVars
<1>6. ASSUME NEW l \in Leaves, Ripen(l)
      PROVE  TypeOK'
  BY <1>6 DEF TypeOK, Ripen, Ages, procVars, envVars, journalVars, loopVars
<1> QED
  BY <1>1, <1>2, <1>3, <1>4, <1>5, <1>6 DEF UserStep, OwnerStep

----------------------------------------------------------------------------
(***************************************************************************)
(* HeldInv: what a process knows of the unit it holds.                     *)
(***************************************************************************)
LEMMA WorkingFact ==
  /\ Cleared = {"rename", "verify", "delete", "unlink", "complete"}
  /\ Holding = Cleared \cup {"scan", "append", "restat", "recapture", "rescan"}
  /\ Working = Holding \cup {"open"}
BY DEF Working, Holding, Cleared

\* A process that does not move keeps its shape.
LEMMA ShapeFrame ==
  ASSUME NEW q \in Procs, Shape(q), pc'[q] = pc[q], unit'[q] = unit[q],
         recs'[q] = recs[q], unscanned'[q] = unscanned[q]
  PROVE  Shape(q)'
BY DEF Shape

\* Only p moves in a step of p.
Only(p) ==
  \A q \in Procs \ {p} :
    /\ pc'[q] = pc[q] /\ unit'[q] = unit[q] /\ recs'[q] = recs[q]
    /\ unscanned'[q] = unscanned[q] /\ watch'[q] = watch[q]

LEMMA ReleaseShape ==
  ASSUME TypeOK, UnitShape, NEW p \in Procs, Release(p), recs' = recs,
         pc[p] \in Working
  PROVE  Shape(p)'
BY WorkingFact DEF TypeOK, UnitShape, Shape, Release, Goto, NoUnit, Units

LEMMA LoopShape ==
  ASSUME TypeOK, UnitShape, NEW p \in Procs,
         Start(p) \/ Enumerate(p) \/ Finish(p) \/ Cancel(p) \/ Crash(p)
  PROVE  Only(p) /\ Shape(p)'
<1>1. CASE Start(p) \/ Enumerate(p) \/ Finish(p)
  BY <1>1, WorkingFact DEF TypeOK, UnitShape, Shape, Only, Start, Enumerate, Finish, Goto
<1>2. CASE Cancel(p) \/ Crash(p)
  BY <1>2, WorkingFact DEF TypeOK, UnitShape, Shape, Only, Cancel, Crash, Forget, Goto
<1> QED
  BY <1>1, <1>2

LEMMA ConsiderShape ==
  ASSUME TypeOK, UnitShape, NEW p \in Procs, NEW l \in Leaves,
         NEW t \in Tombs \cup {None}, NEW i \in Inodes,
         NEW renamed \in BOOLEAN, NEW resumed \in BOOLEAN,
         Consider(p, l, t, i, renamed, resumed),
         pc[p] = (IF resumed THEN "resume" ELSE "select"),
         renamed => resumed, resumed => t \in Tombs,
         recs'[p] \subseteq recs[p],
         UNCHANGED unscanned
  PROVE  Shape(p)'
BY WorkingFact DEF TypeOK, UnitShape, Shape, Consider, Candidate, Goto

LEMMA ResumeShape ==
  ASSUME TypeOK, UnitShape, NEW p \in Procs, Resume(p)
  PROVE  Only(p) /\ Shape(p)'
<1>1. PICK r \in recs[p] : Resume(p)!2!(r)
  BY DEF Resume
<1>2. r.leaf \in Leaves /\ r.tomb \in Tombs /\ r.ino \in Inodes
  BY <1>1 DEF TypeOK, Records
<1>3. pc[p] = "resume" /\ UNCHANGED <<unscanned, watch>> /\ recs'[p] \subseteq recs[p]
  BY <1>1 DEF Resume, TypeOK
<1>4. Shape(p)'
  <2>1. CASE UNCHANGED <<pc, unit>>
    BY <1>3, <2>1, WorkingFact DEF UnitShape, Shape
  <2>2. CASE ~UNCHANGED <<pc, unit>>
    BY <1>1, <1>2, <1>3, <2>2, ConsiderShape
  <2> QED
    BY <2>1, <2>2
<1> QED
  BY <1>1, <1>3, <1>4 DEF TypeOK, Only, Consider, Candidate, Goto

LEMMA SelectShape ==
  ASSUME TypeOK, UnitShape, NEW p \in Procs, Select(p)
  PROVE  Only(p) /\ Shape(p)'
<1>1. PICK l \in todo[p] : Select(p)!2!(l)
  BY DEF Select
<1>2. l \in Leaves
  BY <1>1 DEF TypeOK
<1>3. pc[p] = "select" /\ UNCHANGED <<unscanned, watch, recs>>
  BY <1>1 DEF Select, TypeOK
<1>4. Shape(p)'
  <2>1. CASE UNCHANGED <<pc, unit>>
    BY <1>3, <2>1, WorkingFact DEF UnitShape, Shape
  <2>2. CASE ~UNCHANGED <<pc, unit>>
    <3>1. names[l] \in Inodes
      BY <1>1, <1>2, <2>2 DEF TypeOK, Names
    <3> QED
      BY <1>1, <1>2, <1>3, <2>2, <3>1, ConsiderShape
  <2> QED
    BY <2>1, <2>2
<1> QED
  BY <1>1, <1>3, <1>4 DEF TypeOK, Only, Consider, Candidate, Goto

LEMMA CandidateShape ==
  ASSUME TypeOK, UnitShape, NEW p \in Procs,
         \/ OpenUnit(p) \/ Inspect(p) \/ ScanDone(p) \/ AppendPending(p)
         \/ Restat(p) \/ Recapture(p) \/ Rename(p) \/ Verify(p)
         \/ DeletePart(p) \/ CheckTombstone(p) \/ UnlinkTombstone(p)
         \/ AppendComplete(p) \/ Refuse(p)
  PROVE  Only(p) /\ Shape(p)'
<1> DEFINE Step == \/ OpenUnit(p) \/ Inspect(p) \/ ScanDone(p) \/ AppendPending(p)
         \/ Restat(p) \/ Recapture(p) \/ Rename(p) \/ Verify(p)
         \/ DeletePart(p) \/ CheckTombstone(p) \/ UnlinkTombstone(p)
         \/ AppendComplete(p) \/ Refuse(p)
<1>1. recs' = recs /\ pc[p] \in Working
  BY WorkingFact DEF OpenUnit, Inspect, ScanDone, AppendPending, Restat,
     Recapture, Rename, Verify, DeletePart, CheckTombstone, UnlinkTombstone,
     AppendComplete, Refuse, loopVars
<1>2. CASE Release(p)
  BY <1>1, <1>2, ReleaseShape DEF TypeOK, Only, Release, Goto
<1>3. CASE ~Release(p)
  <2>1. CASE OpenUnit(p)
    <3>1. /\ pc' = [pc EXCEPT ![p] = "scan"] /\ UNCHANGED recs
          /\ unscanned' = [unscanned EXCEPT ![p] = Visible(p)]
          /\ watch' = [watch EXCEPT ![p] = watch'[p]]
          /\ unit' = [unit EXCEPT ![p] =
                        [unit[p] EXCEPT !.seen = age[unit[p].ino]]]
      BY <1>1, <1>3, <2>1 DEF TypeOK, OpenUnit, StartScan, Goto
    <3>2. unit[p] \in Units
      BY DEF TypeOK
    <3>3. /\ unit'[p].leaf = unit[p].leaf /\ unit'[p].ino = unit[p].ino
          /\ unit'[p].tomb = unit[p].tomb
          /\ unit'[p].renamed = unit[p].renamed
          /\ unit'[p].resumed = unit[p].resumed
      BY <3>1, <3>2 DEF TypeOK, Units
    <3> QED
      BY <2>1, <3>1, <3>3, WorkingFact
      DEF TypeOK, UnitShape, Shape, Only, OpenUnit
  <2>2. CASE Inspect(p)
    BY <1>1, <1>3, <2>2, WorkingFact DEF TypeOK, UnitShape, Shape, Only, Inspect
  <2>3. CASE ScanDone(p)
    <3>1. /\ unit[p].tomb \in Tombs \cup {None} /\ None \notin Tombs
      BY DEF TypeOK, Units, Names
    <3>2. /\ pc' = [pc EXCEPT ![p] = AfterScan(p)]
          /\ UNCHANGED <<unit, unscanned, watch, recs>>
      BY <1>1, <1>3, <2>3 DEF ScanDone, Goto
    <3>3. CASE pc[p] = "rescan"
      BY <2>3, <3>1, <3>2, <3>3, WorkingFact
      DEF TypeOK, UnitShape, Shape, Only, ScanDone, AfterScan
    <3>4. CASE pc[p] = "scan"
      BY <2>3, <3>1, <3>2, <3>4, WorkingFact
      DEF TypeOK, UnitShape, Shape, Only, ScanDone, AfterScan
    <3> QED
      BY <2>3, <3>3, <3>4 DEF ScanDone
  <2>4. CASE AppendPending(p)
    <3>1. PICK t \in Tombs : /\ unit' = [unit EXCEPT ![p].tomb = t]
                                /\ Goto(p, "restat")
                                /\ UNCHANGED <<unscanned, watch>>
        BY <1>3, <2>4 DEF AppendPending
    <3> QED
      <4>1. unit[p] \in Units
        BY DEF TypeOK
      <4>2. /\ unit'[p].leaf = unit[p].leaf /\ unit'[p].ino = unit[p].ino
            /\ unit'[p].tomb = t
            /\ unit'[p].renamed = unit[p].renamed
            /\ unit'[p].resumed = unit[p].resumed
        BY <3>1, <4>1 DEF TypeOK, Units
      <4>3. unit[p].tomb = None /\ None \notin Tombs
        BY <2>4, WorkingFact DEF UnitShape, Shape, AppendPending, Names
      <4> QED
        BY <1>1, <2>4, <3>1, <4>2, <4>3, WorkingFact
        DEF TypeOK, UnitShape, Shape, Only, AppendPending, Goto
  <2>5. CASE Restat(p) \/ Verify(p) \/ CheckTombstone(p)
    BY <1>1, <1>3, <2>5, WorkingFact DEF TypeOK, UnitShape, Shape, Only, Restat, Verify, CheckTombstone, Goto
  <2>6. CASE Recapture(p)
    BY <1>1, <1>3, <2>6, WorkingFact DEF TypeOK, UnitShape, Shape, Only, Recapture, StartScan, Goto
  <2>7. CASE Rename(p) \/ DeletePart(p) \/ UnlinkTombstone(p)
    BY <1>1, <1>3, <2>7, WorkingFact DEF TypeOK, UnitShape, Shape, Only, Rename, DeletePart, UnlinkTombstone, Goto
  <2> QED
    BY <1>3, <2>1, <2>2, <2>3, <2>4, <2>5, <2>6, <2>7 DEF AppendComplete, Refuse
<1> QED
  BY <1>2, <1>3

\* The four ways in which a step of p treats the unit it holds: it does not
\* hold one afterwards, has just opened one and inspected nobody, has found
\* that some a does not hold it, or goes on with its first scan complete.
LetsGo(p) == pc'[p] \notin Holding /\ watch'[p] = {}

Opens(p) ==
  /\ pc[p] \notin Holding /\ pc'[p] = "scan"
  /\ unit'[p].ino = unit[p].ino /\ unscanned'[p] = Visible(p)
  /\ \A u \in watch'[p] : uopen[u] = unit[p].ino

Passes(p) ==
  /\ pc[p] \in {"scan", "rescan"} /\ pc'[p] = pc[p]
  /\ unit'[p] = unit[p] /\ watch'[p] = watch[p]
  /\ \E a \in unscanned[p] :
       ~Holds(a, unit[p].ino) /\ unscanned'[p] = unscanned[p] \ {a}

GoesOn(p) ==
  /\ pc[p] \in Holding /\ pc'[p] \in Holding /\ pc'[p] # "scan"
  /\ unit'[p].ino = unit[p].ino /\ watch'[p] = watch[p]
  /\ pc[p] = "scan" => unscanned[p] = {}

ActsOn(p) == LetsGo(p) \/ Opens(p) \/ Passes(p) \/ GoesOn(p)

CandidateStep(p) ==
  \/ OpenUnit(p) \/ Inspect(p) \/ ScanDone(p) \/ AppendPending(p)
  \/ Restat(p) \/ Recapture(p) \/ Rename(p) \/ Verify(p)
  \/ DeletePart(p) \/ CheckTombstone(p) \/ UnlinkTombstone(p)
  \/ AppendComplete(p) \/ Refuse(p)

LoopStep(p) ==
  \/ Start(p) \/ Resume(p) \/ Enumerate(p) \/ Select(p) \/ Finish(p)
  \/ Cancel(p) \/ Crash(p)

LEMMA LoopLetsGo ==
  ASSUME TypeOK, Watched, NEW p \in Procs, LoopStep(p)
  PROVE  LetsGo(p)
<1>1. CASE Start(p) \/ Enumerate(p) \/ Finish(p)
  BY <1>1, WorkingFact
  DEF TypeOK, Watched, LetsGo, Start, Enumerate, Finish, Goto
<1>2. CASE Resume(p) \/ Select(p)
  BY <1>2, WorkingFact
  DEF TypeOK, Watched, LetsGo, Resume, Select, Consider, Goto
<1>3. CASE Cancel(p) \/ Crash(p)
  BY <1>3, WorkingFact DEF TypeOK, LetsGo, Cancel, Crash, Forget, Goto
<1> QED
  BY <1>1, <1>2, <1>3 DEF LoopStep

LEMMA CandidateActsOn ==
  ASSUME TypeOK, UnitShape, NEW p \in Procs, CandidateStep(p)
  PROVE  ActsOn(p)
<1>1. CASE Release(p)
  BY <1>1, WorkingFact DEF TypeOK, ActsOn, LetsGo, Release, Goto
<1>2. CASE ~Release(p)
  <2>1. CASE OpenUnit(p)
    <3>1. Opens(p)
      <4>1. /\ pc' = [pc EXCEPT ![p] = "scan"]
            /\ unscanned' = [unscanned EXCEPT ![p] = Visible(p)]
            /\ watch' = [watch EXCEPT ![p] =
                           {u \in Users : uopen[u] = unit[p].ino}]
            /\ unit' = [unit EXCEPT ![p] =
                          [unit[p] EXCEPT !.seen = age[unit[p].ino]]]
        BY <1>2, <2>1 DEF OpenUnit, StartScan, Goto
      <4>2. unit[p] \in Units
        BY DEF TypeOK
      <4>3. unit'[p].ino = unit[p].ino
        BY <4>1, <4>2 DEF TypeOK, Units
      <4> QED
        BY <2>1, <4>1, <4>3, WorkingFact DEF TypeOK, Opens, OpenUnit
    <3> QED
      BY <3>1 DEF ActsOn
  <2>2. CASE Inspect(p)
    BY <1>2, <2>2 DEF TypeOK, ActsOn, Passes, Inspect
  <2>3. CASE ScanDone(p) \/ Recapture(p)
    BY <1>2, <2>3, WorkingFact
    DEF TypeOK, ActsOn, GoesOn, ScanDone, AfterScan, Recapture, StartScan, Goto
  <2>4. CASE AppendPending(p)
    <3>1. PICK t \in Tombs : /\ unit' = [unit EXCEPT ![p].tomb = t]
                             /\ Goto(p, "restat")
                             /\ UNCHANGED <<unscanned, watch>>
      BY <1>2, <2>4 DEF AppendPending
    <3>2. unit[p] \in Units
      BY DEF TypeOK
    <3>3. unit'[p].ino = unit[p].ino
      BY <3>1, <3>2 DEF TypeOK, Units
    <3> QED
      BY <2>4, <3>1, <3>3, WorkingFact
      DEF TypeOK, ActsOn, GoesOn, AppendPending, Goto
  <2>5. CASE Restat(p) \/ Verify(p) \/ CheckTombstone(p)
    BY <1>2, <2>5, WorkingFact
    DEF TypeOK, ActsOn, GoesOn, Restat, Verify, CheckTombstone, Goto
  <2>6. CASE Rename(p) \/ DeletePart(p) \/ UnlinkTombstone(p)
    BY <1>2, <2>6, WorkingFact
    DEF TypeOK, ActsOn, GoesOn, Rename, DeletePart, UnlinkTombstone, Goto
  <2> QED
    BY <1>2, <2>1, <2>2, <2>3, <2>4, <2>5, <2>6
    DEF CandidateStep, AppendComplete, Refuse
<1> QED
  BY <1>1, <1>2

\* A step of p keeps what HeldInv says of units that are held.
LEMMA ActsOnHeld ==
  ASSUME TypeOK, UnitShape, Apart, Watched, NEW p \in Procs,
         Only(p), ActsOn(p), UNCHANGED uopen
  PROVE  Apart' /\ Watched'
<1>1. Apart'
  <2> SUFFICES ASSUME NEW q \in Procs \ {p},
                      q \in Visible(p), p \in Visible(q),
                      pc'[p] \in Holding, pc[q] \in Holding,
                      unit'[p].ino = unit[q].ino,
                      PassedOnce(p, q)', PassedOnce(q, p)
               PROVE  FALSE
    BY DEF Apart, Only, PassedOnce, Visible, Inspects
  <2>1. CASE LetsGo(p)
    BY <2>1 DEF LetsGo
  <2>2. CASE Opens(p)
    BY <2>2 DEF Opens, PassedOnce
  <2>3. CASE Passes(p)
    <3>1. PICK a \in unscanned[p] :
            ~Holds(a, unit[p].ino) /\ unscanned'[p] = unscanned[p] \ {a}
      BY <2>3 DEF Passes
    <3>2. a # q
      BY <2>3, <3>1 DEF Passes, Holds
    <3>3. PassedOnce(p, q)
      BY <2>3, <3>1, <3>2, WorkingFact DEF Passes, PassedOnce
    <3> QED
      BY <2>3, <3>3, WorkingFact DEF Passes, Apart
  <2>4. CASE GoesOn(p)
    BY <2>4 DEF GoesOn, PassedOnce, Apart
  <2> QED
    BY <2>1, <2>2, <2>3, <2>4 DEF ActsOn
<1>2. Watched'
  <2> SUFFICES /\ pc'[p] \in Holding =>
                    /\ \A u \in watch'[p] : uopen[u] = unit'[p].ino
                    /\ \A u \in watch'[p] \cap Visible(p) :
                         pc'[p] = "scan" /\ u \in unscanned'[p]
               /\ pc'[p] \notin Holding => watch'[p] = {}
    BY DEF Watched, Only, Visible, Inspects
  <2>1. CASE LetsGo(p)
    BY <2>1 DEF LetsGo
  <2>2. CASE Opens(p)
    BY <2>2, WorkingFact DEF Opens
  <2>3. CASE Passes(p)
    <3>1. PICK a \in unscanned[p] :
            ~Holds(a, unit[p].ino) /\ unscanned'[p] = unscanned[p] \ {a}
      BY <2>3 DEF Passes
    <3>2. a \notin watch[p]
      BY <2>3, <3>1, WorkingFact DEF TypeOK, Passes, Holds, Watched
    <3> QED
      BY <2>3, <3>1, <3>2, WorkingFact DEF Passes, Watched
  <2>4. CASE GoesOn(p)
    BY <2>4 DEF GoesOn, Watched
  <2> QED
    BY <2>1, <2>2, <2>3, <2>4 DEF ActsOn
<1> QED
  BY <1>1, <1>2

LEMMA UserHeld ==
  ASSUME TypeOK, UnitShape, Apart, Watched,
         \/ \E u \in Users : UserStep(u)
         \/ \E l \in Leaves : OwnerStep(l)
  PROVE  UnitShape' /\ Apart' /\ Watched'
<1>1. UNCHANGED <<pc, unit, recs, unscanned>>
  BY DEF UserStep, OwnerStep, UserOpen, UserClose, UserWrite, UserCreate,
         UserRemove, Ripen, procVars, loopVars
<1>2. UnitShape' /\ Apart'
  BY <1>1 DEF UnitShape, Shape, Apart, PassedOnce, Visible, Inspects
<1>3. Watched'
  <2>1. CASE UNCHANGED <<uopen, watch>>
    BY <1>1, <2>1 DEF Watched, Visible, Inspects
  <2>2. ASSUME NEW u \in Users, NEW l \in Leaves, UserOpen(u, l)
        PROVE  Watched'
    <3>1. \A p \in Procs : u \notin watch[p]
      BY <2>2, WorkingFact DEF UserOpen, Watched, UnitShape, Shape
    <3> QED
      BY <1>1, <2>2, <3>1 DEF TypeOK, UserOpen, Watched, Visible, Inspects
  <2>3. ASSUME NEW u \in Users, UserClose(u)
        PROVE  Watched'
    BY <1>1, <2>3 DEF TypeOK, UserClose, Watched, Visible, Inspects
  <2> QED
    BY <2>1, <2>2, <2>3
    DEF UserStep, OwnerStep, UserWrite, UserCreate, UserRemove, Ripen, envVars
<1> QED
  BY <1>2, <1>3

\* The next-state relation, by the kind of step.
LEMMA NextCases ==
  ASSUME Next
  PROVE  \/ \E p \in Procs : LoopStep(p)
         \/ \E p \in Procs : CandidateStep(p)
         \/ \E u \in Users : UserStep(u)
         \/ \E l \in Leaves : OwnerStep(l)
BY DEF Next, ProcStep, FaultStep, LoopStep, CandidateStep

LEMMA LoopFrame ==
  ASSUME NEW p \in Procs, LoopStep(p)
  PROVE  UNCHANGED <<names, age, parts, sticky, journal, uopen, created>>
BY DEF LoopStep, Start, Resume, Enumerate, Select, Finish, Cancel, Crash,
       cacheVars, journalVars, envVars

LEMMA CandidateFrame ==
  ASSUME NEW p \in Procs, CandidateStep(p)
  PROVE  UNCHANGED <<uopen, created, sticky, recs, handled, todo>>
BY DEF CandidateStep, OpenUnit, Inspect, ScanDone, AppendPending, Restat,
       Recapture, Rename, Verify, DeletePart, CheckTombstone, UnlinkTombstone,
       AppendComplete, Refuse, cacheVars, envVars, loopVars

LEMMA InitHeld == Init => HeldInv
<1> SUFFICES ASSUME Init PROVE HeldInv
  OBVIOUS
<1>1. TypeOK
  BY PointsFact
  DEF Init, TypeOK, NoUnit, Units, Ages, Records
<1>2. UnitShape /\ Apart /\ Watched
  BY WorkingFact DEF Init, UnitShape, Shape, Apart, PassedOnce, Watched
<1> QED
  BY <1>1, <1>2 DEF HeldInv

LEMMA NextHeld == HeldInv /\ [Next]_vars => HeldInv'
<1> SUFFICES ASSUME HeldInv, [Next]_vars PROVE HeldInv'
  OBVIOUS
<1>1. TypeOK /\ UnitShape /\ Apart /\ Watched
  BY DEF HeldInv
<1>2. ASSUME NEW p \in Procs, LoopStep(p)
      PROVE  HeldInv'
  <2>1. TypeOK'
    BY <1>1, <1>2, StartTypeOK, ResumeTypeOK, SelectTypeOK, OtherTypeOK
    DEF LoopStep
  <2>2. Only(p) /\ Shape(p)'
    BY <1>1, <1>2, LoopShape, ResumeShape, SelectShape DEF LoopStep
  <2>3. UnitShape'
    BY <1>1, <2>2, ShapeFrame DEF Only, UnitShape
  <2>4. Apart' /\ Watched'
    BY <1>1, <1>2, <2>2, LoopLetsGo, LoopFrame, ActsOnHeld DEF ActsOn
  <2> QED
    BY <2>1, <2>3, <2>4 DEF HeldInv
<1>3. ASSUME NEW p \in Procs, CandidateStep(p)
      PROVE  HeldInv'
  <2>1. TypeOK'
    BY <1>1, <1>3, OpenUnitTypeOK, MoveTypeOK, AppendTypeOK, UnlinkTypeOK
    DEF CandidateStep
  <2>2. Only(p) /\ Shape(p)'
    BY <1>1, <1>3, CandidateShape DEF CandidateStep
  <2>3. UnitShape'
    BY <1>1, <2>2, ShapeFrame DEF Only, UnitShape
  <2>4. Apart' /\ Watched'
    BY <1>1, <1>3, <2>2, CandidateActsOn, CandidateFrame, ActsOnHeld
  <2> QED
    BY <2>1, <2>3, <2>4 DEF HeldInv
<1>4. ASSUME \/ \E u \in Users : UserStep(u)
             \/ \E l \in Leaves : OwnerStep(l)
      PROVE  HeldInv'
  BY <1>1, <1>4, UserTypeOK, UserHeld DEF HeldInv
<1>5. CASE UNCHANGED vars
  BY <1>1, <1>5
  DEF vars, cacheVars, journalVars, envVars, loopVars, HeldInv, TypeOK,
      UnitShape, Shape, Apart, PassedOnce, Watched, Visible, Inspects
<1> QED
  BY <1>2, <1>3, <1>4, <1>5, NextCases

LEMMA HeldAlways == Spec => []HeldInv
<1> QED
  BY InitHeld, NextHeld, PTL DEF Spec

\* Every variable keeps its type.
THEOREM TypeCorrect == Spec => []TypeOK
<1>1. HeldInv => TypeOK
  BY DEF HeldInv
<1> QED
  BY <1>1, HeldAlways, PTL

\* Two processes that inspect each other are never both past their scans of
\* the same unit: the later of the two to open it finds the other's
\* descriptor, however their steps interleave.
THEOREM Exclusion == Spec => []Exclusive
<1>1. HeldInv => Exclusive
  <2> SUFFICES ASSUME HeldInv, NEW p \in Procs, NEW q \in Procs, p # q,
                      Inspects(p, q), Inspects(q, p),
                      pc[p] \in Cleared, pc[q] \in Cleared,
                      unit[p].ino = unit[q].ino
               PROVE  FALSE
    BY DEF Exclusive
  <2>1. q \in Visible(p) /\ p \in Visible(q)
    BY DEF Visible, Actors
  <2>2. PassedOnce(p, q) /\ PassedOnce(q, p)
    BY WorkingFact DEF PassedOnce
  <2> QED
    BY <2>1, <2>2, WorkingFact DEF HeldInv, Apart
<1> QED
  BY <1>1, HeldAlways, PTL

\* A user that held the unit when beav opened it, and whose descriptors the
\* process may inspect, keeps it from being renamed or deleted.
THEOREM UseRespected == Spec => []UseBlocks
<1>1. HeldInv => UseBlocks
  <2> SUFFICES ASSUME HeldInv, NEW p \in Procs, pc[p] \in Cleared,
                      NEW u \in watch[p], Inspects(p, u)
               PROVE  FALSE
    BY DEF UseBlocks
  <2>1. u \in Visible(p)
    BY DEF HeldInv, TypeOK, Visible, Actors
  <2> QED
    BY <2>1, WorkingFact DEF HeldInv, Watched
<1> QED
  BY <1>1, HeldAlways, PTL

----------------------------------------------------------------------------
(***************************************************************************)
(* What the steps do to units and records.                                 *)
(***************************************************************************)
Keeps(p) ==
  /\ unit'[p].leaf = unit[p].leaf /\ unit'[p].tomb = unit[p].tomb
  /\ unit'[p].ino = unit[p].ino /\ unit'[p].renamed = unit[p].renamed

\* p has appended a record that gives its unit the unused tombstone name t.
Intends(p, t) ==
  /\ AppendPending(p) /\ UnusedTomb(t)
  /\ AppendLine(RecordOf(p, t, FALSE))
  /\ pc'[p] = "restat" /\ unit'[p].tomb = t
  /\ unit'[p].leaf = unit[p].leaf /\ unit'[p].ino = unit[p].ino
  /\ unit'[p].renamed = unit[p].renamed

LEMMA CandidateUnit ==
  ASSUME TypeOK, NEW p \in Procs, CandidateStep(p)
  PROVE  Release(p) \/ Keeps(p) \/ \E t \in Tombs : Intends(p, t)
<1> SUFFICES ASSUME ~Release(p)
             PROVE  Keeps(p) \/ \E t \in Tombs : Intends(p, t)
  OBVIOUS
<1>1. unit[p] \in Units
  BY DEF TypeOK
<1>2. CASE OpenUnit(p)
  <2>1. unit' = [unit EXCEPT ![p] =
                   [unit[p] EXCEPT !.seen = age[unit[p].ino]]]
    BY <1>2 DEF OpenUnit
  <2> QED
    BY <1>1, <2>1 DEF TypeOK, Units, Keeps
<1>3. CASE AppendPending(p)
  <2>1. PICK t \in Tombs : /\ UnusedTomb(t)
                           /\ AppendLine(RecordOf(p, t, FALSE))
                           /\ unit' = [unit EXCEPT ![p] =
                                         [unit[p] EXCEPT !.tomb = t]]
                           /\ pc' = [pc EXCEPT ![p] = "restat"]
    BY <1>3 DEF AppendPending, Goto
  <2>2. Intends(p, t)
    BY <1>1, <1>3, <2>1 DEF TypeOK, Units, Intends
  <2> QED
    BY <2>2
<1>4. CASE ~OpenUnit(p) /\ ~AppendPending(p)
  <2>1. UNCHANGED unit
    BY <1>4
    DEF CandidateStep, Inspect, ScanDone, Restat, Recapture, Rename, Verify,
        DeletePart, CheckTombstone, UnlinkTombstone, AppendComplete, Refuse
  <2> QED
    BY <2>1 DEF Keeps
<1> QED
  BY <1>2, <1>3, <1>4

\* How a step that is not torn extends the journal.
LEMMA CleanAppend ==
  ASSUME TornAppends = FALSE, tail = "clean", NEW r,
         AppendLine(r) \/ AppendFails(r)
  PROVE  tail' = "clean" /\ (journal' = journal \/ journal' = journal \cup {r})
BY DEF AppendLine, AppendFails, TearTail, journalVars

LEMMA CandidateJournal ==
  ASSUME TypeOK, UnitShape, TornAppends = FALSE, tail = "clean",
         NEW p \in Procs, CandidateStep(p)
  PROVE  /\ tail' = "clean"
         /\ \/ journal' = journal
            \/ /\ AppendPending(p)
               /\ \E t \in Tombs :
                    /\ UnusedTomb(t)
                    /\ journal' = journal \cup {RecordOf(p, t, FALSE)}
            \/ /\ AppendComplete(p)
               /\ journal' = journal \cup {RecordOf(p, unit[p].tomb, TRUE)}
<1>1. CASE AppendPending(p)
  <2>1. CASE \E t \in Tombs :
               /\ UnusedTomb(t)
               /\ \/ AppendLine(RecordOf(p, t, FALSE))
                  \/ AppendFails(RecordOf(p, t, FALSE))
    BY <1>1, <2>1, CleanAppend
  <2>2. CASE UNCHANGED journalVars
    BY <2>2 DEF journalVars
  <2> QED
    BY <1>1, <2>1, <2>2 DEF AppendPending
<1>2. CASE AppendComplete(p)
  BY <1>2, CleanAppend DEF AppendComplete
<1>3. CASE ~AppendPending(p) /\ ~AppendComplete(p)
  BY <1>3
  DEF CandidateStep, OpenUnit, Inspect, ScanDone, Restat, Recapture, Rename,
      Verify, DeletePart, CheckTombstone, UnlinkTombstone, Refuse, journalVars
<1> QED
  BY <1>1, <1>2, <1>3

\* How a step of a candidate changes the names, and in which state it does.
Hides(p) ==
  /\ Rename(p) /\ pc[p] = "rename"
  /\ names[unit[p].leaf] # None /\ names[unit[p].tomb] = None
  /\ names' = [names EXCEPT ![unit[p].leaf] = None,
                            ![unit[p].tomb] = names[unit[p].leaf]]
  /\ pc'[p] = "verify"

Unlinks(p) ==
  /\ UnlinkTombstone(p) /\ pc[p] = "unlink"
  /\ names' = [names EXCEPT ![unit[p].tomb] = None]
  /\ pc'[p] \in {"complete", "resume", "select"}

LEMMA CandidateNames ==
  ASSUME TypeOK, NEW p \in Procs, CandidateStep(p)
  PROVE  UNCHANGED names \/ Hides(p) \/ Unlinks(p)
<1>1. CASE Rename(p)
  BY <1>1 DEF TypeOK, Rename, Goto, Hides
<1>2. CASE UnlinkTombstone(p)
  BY <1>2 DEF TypeOK, UnlinkTombstone, Goto, Release, Unlinks
<1>3. CASE ~Rename(p) /\ ~UnlinkTombstone(p)
  BY <1>3
  DEF CandidateStep, OpenUnit, Inspect, ScanDone, AppendPending, Restat,
      Recapture, Verify, DeletePart, CheckTombstone, AppendComplete, Refuse,
      cacheVars
<1> QED
  BY <1>1, <1>2, <1>3

LEMMA CandidateAge ==
  ASSUME TypeOK, UnitShape, NEW p \in Procs, CandidateStep(p)
  PROVE  \/ UNCHANGED <<age, parts>>
         \/ /\ DeletePart(p) /\ pc[p] = "delete" /\ UNCHANGED names
            /\ age' = [age EXCEPT ![unit[p].ino] =
                         IF @ = "fresh" THEN @ ELSE "touched"]
            /\ parts' = [parts EXCEPT ![unit[p].ino] = @ - 1]
<1>1. CASE DeletePart(p)
  BY <1>1 DEF DeletePart
<1>2. CASE ~DeletePart(p)
  BY <1>2
  DEF CandidateStep, OpenUnit, Inspect, ScanDone, AppendPending, Restat,
      Recapture, Rename, Verify, CheckTombstone, UnlinkTombstone,
      AppendComplete, Refuse, cacheVars
<1> QED
  BY <1>1, <1>2

\* What the users and time do to the names and the ages.
LEMMA UserCache ==
  ASSUME TypeOK,
         \/ \E u \in Users : UserStep(u)
         \/ \E l \in Leaves : OwnerStep(l)
  PROVE  /\ UNCHANGED <<pc, unit, recs, journal, tail>>
         /\ \/ UNCHANGED <<names, age, parts>>
            \/ \E l \in Leaves, i \in Inodes :
                 /\ UserCreate(l) /\ Free(i) /\ names[l] = None
                 /\ names' = [names EXCEPT ![l] = i]
                 /\ Unpacked = FALSE => age' = [age EXCEPT ![i] = "fresh"]
                 /\ parts' = [parts EXCEPT ![i] = Parts]
            \/ \E l \in Leaves :
                 /\ UserRemove(l) /\ names[l] # None
                 /\ names' = [names EXCEPT ![l] = None]
                 /\ UNCHANGED <<age, parts>>
            \/ \E i \in Inodes, a \in Ages :
                 /\ age' = [age EXCEPT ![i] = a]
                 /\ age[i] # "fresh" /\ a # "fresh" /\ (Young(age[i]) => Young(a))
                 /\ UNCHANGED <<names, parts>>
            \/ \E l \in Leaves : Ripen(l)
<1>1. UNCHANGED <<pc, unit, recs, journal, tail>>
  BY DEF UserStep, OwnerStep, UserOpen, UserClose, UserWrite, UserCreate,
         UserRemove, Ripen, procVars, loopVars, journalVars
<1>2. CASE \E u \in Users : UserStep(u)
  BY <1>1, <1>2
  DEF UserStep, UserOpen, UserClose, UserWrite, cacheVars, TypeOK, Ages, Young
<1>3. CASE \E l \in Leaves : OwnerStep(l)
  BY <1>1, <1>3 DEF OwnerStep, UserCreate, UserRemove, NewAges
<1> QED
  BY <1>1, <1>2, <1>3

----------------------------------------------------------------------------
(***************************************************************************)
(* The inductive invariant, conjunct by conjunct.                          *)
(***************************************************************************)
LEMMA OneNameStep ==
  ASSUME IndInv, Next
  PROVE  OneName'
<1>1. TypeOK /\ UnitShape /\ OneName
  BY DEF IndInv, HeldInv
<1>2. ASSUME NEW p \in Procs, LoopStep(p)
      PROVE  OneName'
  BY <1>1, <1>2, LoopFrame DEF OneName
<1>3. ASSUME NEW p \in Procs, CandidateStep(p)
      PROVE  OneName'
  <2>1. CASE UNCHANGED names
    BY <1>1, <2>1 DEF OneName
  <2>2. CASE Hides(p)
    <3>1. /\ unit[p].leaf \in Leaves /\ unit[p].tomb \in Tombs
      BY <1>1, <2>2, WorkingFact DEF UnitShape, Shape, Hides
    <3> QED
      BY <1>1, <2>2, <3>1 DEF TypeOK, OneName, Hides, Names
  <2>3. CASE Unlinks(p)
    BY <1>1, <2>3 DEF TypeOK, OneName, Unlinks
  <2> QED
    BY <1>1, <1>3, <2>1, <2>2, <2>3, CandidateNames
<1>4. ASSUME \/ \E u \in Users : UserStep(u)
             \/ \E l \in Leaves : OwnerStep(l)
      PROVE  OneName'
  <2>1. ASSUME NEW l \in Leaves, NEW i \in Inodes, Free(i),
               names' = [names EXCEPT ![l] = i]
        PROVE  OneName'
    BY <1>1, <2>1 DEF TypeOK, OneName, Free, Linked
  <2>2. ASSUME NEW l \in Leaves, names' = [names EXCEPT ![l] = None]
        PROVE  OneName'
    BY <1>1, <2>2 DEF TypeOK, OneName
  <2>3. CASE UNCHANGED names
    BY <1>1, <2>3 DEF OneName
  <2> QED
    BY <1>1, <1>4, <2>1, <2>2, <2>3, UserCache DEF Ripen
<1> QED
  BY <1>2, <1>3, <1>4, NextCases

LEMMA ConsiderUnit ==
  ASSUME TypeOK, NEW p \in Procs, NEW l, NEW t, NEW i, NEW renamed, NEW resumed,
         Consider(p, l, t, i, renamed, resumed)
  PROVE  \/ unit' = unit /\ pc' = pc
         \/ /\ unit'[p].leaf = l /\ unit'[p].tomb = t /\ unit'[p].ino = i
            /\ pc'[p] = "open"
BY DEF TypeOK, Consider, Candidate, Goto

LEMMA TombFact == None \notin Tombs /\ None \notin Leaves /\ None \notin Inodes
BY DEF Names

\* The records a process has loaded or goes by are in the journal.
LEMMA RecordedLoop ==
  ASSUME IndInv, TornAppends = FALSE, NEW p \in Procs, LoopStep(p)
  PROVE  Recorded'
<1>1. TypeOK /\ UnitShape /\ Recorded
  BY DEF IndInv, HeldInv
<1>2. UNCHANGED <<names, journal>> /\ Only(p)
  BY <1>1, LoopFrame, LoopShape, ResumeShape, SelectShape DEF LoopStep
<1>3. tail' = tail
  BY DEF LoopStep, Start, Resume, Enumerate, Select, Finish, Cancel, Crash,
         journalVars
<1>4. recs'[p] \subseteq {r \in journal : ~r.complete}
  <2>1. CASE Start(p)
    BY <1>1, <2>1 DEF TypeOK, Start, Pending
  <2>2. CASE Resume(p)
    <3>1. recs'[p] \subseteq recs[p]
      BY <1>1, <2>2 DEF TypeOK, Resume
    <3> QED
      BY <1>1, <3>1 DEF Recorded
  <2>3. CASE Enumerate(p) \/ Select(p) \/ Finish(p)
    BY <1>1, <2>3 DEF Enumerate, Select, Finish, Recorded
  <2>4. CASE Cancel(p) \/ Crash(p)
    BY <1>1, <2>4 DEF TypeOK, Cancel, Crash, Forget
  <2> QED
    BY <2>1, <2>2, <2>3, <2>4 DEF LoopStep
<1>5. unit'[p].tomb # None => RecordOf(p, unit[p].tomb, FALSE)' \in journal
  <2>1. CASE unit' = unit
    BY <1>1, <2>1 DEF Recorded, RecordOf
  <2>2. CASE unit'[p] = NoUnit
    BY <2>2 DEF NoUnit
  <2>3. CASE Resume(p) /\ unit' # unit
    <3>1. PICK r \in recs[p], renamed \in BOOLEAN :
            Consider(p, r.leaf, r.tomb, r.ino, renamed, TRUE)
      BY <2>3 DEF Resume
    <3>2. /\ unit'[p].leaf = r.leaf /\ unit'[p].tomb = r.tomb
          /\ unit'[p].ino = r.ino
      BY <1>1, <2>3, <3>1 DEF TypeOK, Consider, Candidate
    <3>3. r \in journal /\ r \in Records /\ r.complete = FALSE
      <4>1. r \in {x \in journal : ~x.complete}
        BY <1>1, <3>1 DEF Recorded
      <4>2. r \in Records
        BY <1>1, <4>1 DEF TypeOK
      <4> QED
        BY <4>1, <4>2 DEF Records
    <3>4. r = [leaf |-> r.leaf, tomb |-> r.tomb, ino |-> r.ino,
               complete |-> FALSE]
      BY <3>3 DEF Records
    <3> QED
      BY <3>2, <3>3, <3>4 DEF RecordOf
  <2>4. CASE Select(p) /\ unit' # unit
    BY <1>1, <2>4, ConsiderUnit DEF Select
  <2> QED
    BY <1>1, <2>1, <2>2, <2>3, <2>4
    DEF TypeOK, LoopStep, Start, Enumerate, Finish, Cancel, Crash, Forget
<1> QED
  BY <1>1, <1>2, <1>3, <1>4, <1>5 DEF Recorded, Only, RecordOf

LEMMA RecordedCandidate ==
  ASSUME IndInv, TornAppends = FALSE, NEW p \in Procs, CandidateStep(p)
  PROVE  Recorded'
<1>1. TypeOK /\ UnitShape /\ Recorded /\ tail = "clean"
  BY DEF IndInv, HeldInv, Recorded
<1>2. Only(p) /\ UNCHANGED recs
  BY <1>1, CandidateShape, CandidateFrame DEF CandidateStep
<1>3. tail' = "clean" /\ journal \subseteq journal'
  BY <1>1, CandidateJournal
<1>4. \A q \in Procs : recs'[q] \subseteq {r \in journal' : ~r.complete}
  BY <1>1, <1>2, <1>3 DEF Recorded
<1>5. \A q \in Procs :
        unit'[q].tomb # None => RecordOf(q, unit[q].tomb, FALSE)' \in journal'
  <2>1. ASSUME NEW q \in Procs \ {p}, unit'[q].tomb # None
        PROVE  RecordOf(q, unit[q].tomb, FALSE)' \in journal'
    BY <1>1, <1>2, <1>3, <2>1 DEF Only, Recorded, RecordOf
  <2>2. CASE Release(p)
    BY <1>1, <2>1, <2>2 DEF TypeOK, Release, NoUnit
  <2>3. CASE Keeps(p)
    BY <1>1, <1>3, <2>1, <2>3 DEF Keeps, Recorded, RecordOf
  <2>4. ASSUME NEW t \in Tombs, Intends(p, t)
        PROVE  RecordOf(p, unit[p].tomb, FALSE)' \in journal'
    BY <1>1, <2>4 DEF Intends, AppendLine, RecordOf
  <2> QED
    BY <1>1, <2>1, <2>2, <2>3, <2>4, CandidateUnit
<1> DEFINE Unique ==
      \A r, s \in journal' :
        r.tomb = s.tomb => r.leaf = s.leaf /\ r.ino = s.ino
<1>6. Unique
  <2>1. ASSUME NEW t \in Tombs, UnusedTomb(t),
               journal' = journal \cup {RecordOf(p, t, FALSE)}
        PROVE  Unique
    <3>1. RecordOf(p, t, FALSE).tomb = t
      BY DEF RecordOf
    <3>2. \A r \in journal : r.tomb # t
      BY <2>1 DEF UnusedTomb
    <3>3. \A r, s \in journal : r.tomb = s.tomb => r.leaf = s.leaf /\ r.ino = s.ino
      BY <1>1 DEF Recorded
    <3> DEFINE x == RecordOf(p, t, FALSE)
    <3>4. \A r \in journal' : r = x \/ r \in journal
      BY <2>1
    <3> HIDE DEF x
    <3> SUFFICES ASSUME NEW r \in journal', NEW s \in journal',
                        r.tomb = s.tomb
                 PROVE  r.leaf = s.leaf /\ r.ino = s.ino
      OBVIOUS
    <3>5. CASE r = x
      BY <3>1, <3>2, <3>4, <3>5 DEF x
    <3>6. CASE r # x
      BY <3>1, <3>2, <3>3, <3>4, <3>6 DEF x
    <3> QED
      BY <3>5, <3>6
  <2>2. CASE /\ AppendComplete(p)
             /\ journal' = journal \cup {RecordOf(p, unit[p].tomb, TRUE)}
    <3>1. unit[p].tomb # None
      BY <1>1, <2>2, WorkingFact, TombFact
      DEF UnitShape, Shape, AppendComplete
    <3>2. RecordOf(p, unit[p].tomb, FALSE) \in journal
      BY <1>1, <3>1 DEF Recorded
    <3> QED
      BY <1>1, <2>2, <3>2 DEF Recorded, RecordOf
  <2>3. CASE journal' = journal
    BY <1>1, <2>3 DEF Recorded
  <2> QED
    BY <1>1, <2>1, <2>2, <2>3, CandidateJournal
<1>7. \A t \in Tombs :
        names'[t] # None => \E r \in journal' : r.tomb = t /\ ~r.complete
  <2>1. CASE UNCHANGED names \/ Unlinks(p)
    <3>1. \A t \in Tombs : names'[t] # None => names[t] # None
      BY <1>1, <2>1 DEF TypeOK, Unlinks, Names
    <3> QED
      BY <1>1, <1>3, <3>1 DEF Recorded
  <2>2. CASE Hides(p)
    <3>1. unit[p].tomb \in Tombs /\ unit[p].leaf \in Leaves
      BY <1>1, <2>2, WorkingFact DEF UnitShape, Shape, Hides
    <3>2. RecordOf(p, unit[p].tomb, FALSE) \in journal
      BY <1>1, <3>1, TombFact DEF Recorded
    <3>3. \E r \in journal' : r.tomb = unit[p].tomb /\ ~r.complete
      BY <1>3, <3>2 DEF RecordOf
    <3> QED
      BY <1>1, <1>3, <2>2, <3>1, <3>3 DEF TypeOK, Recorded, Hides, Names
  <2> QED
    BY <1>1, <2>1, <2>2, CandidateNames
<1> QED
  BY <1>3, <1>4, <1>5, <1>6, <1>7 DEF Recorded

LEMMA RecordedStep ==
  ASSUME IndInv, TornAppends = FALSE, Next
  PROVE  Recorded'
<1>1. TypeOK /\ UnitShape /\ Recorded
  BY DEF IndInv, HeldInv
<1>2. ASSUME \/ \E u \in Users : UserStep(u)
             \/ \E l \in Leaves : OwnerStep(l)
      PROVE  Recorded'
  <2>1. \A t \in Tombs : names'[t] = names[t]
    <3>1. \A l \in Leaves, t \in Tombs : l # t
      OBVIOUS
    <3>2. ASSUME NEW l \in Leaves, NEW x, names' = [names EXCEPT ![l] = x]
          PROVE  \A t \in Tombs : names'[t] = names[t]
      BY <1>1, <3>1, <3>2 DEF TypeOK, Names
    <3> QED
      BY <1>1, <1>2, <3>2, UserCache DEF Ripen
  <2>2. UNCHANGED <<unit, recs, journal, tail>>
    BY <1>1, <1>2, UserCache
  <2> QED
    BY <1>1, <2>1, <2>2 DEF Recorded, RecordOf
<1> QED
  BY <1>2, RecordedLoop, RecordedCandidate, NextCases

\* What Settled says of p and the completed record r.
YoungIfLinked(i) == Linked(i) => Young(age[i])

SettledFor(p, r) ==
  /\ unit[p].tomb = r.tomb =>
       pc[p] \in {"open", "scan", "restat", "verify"} /\ YoungIfLinked(r.ino)
  /\ \A s \in recs[p] : s.tomb = r.tomb => YoungIfLinked(r.ino)

LEMMA SettledMeans ==
  Settled <=> \A r \in journal :
                r.complete => /\ names[r.tomb] = None
                              /\ \A p \in Procs : SettledFor(p, r)
BY DEF Settled, SettledFor, YoungIfLinked

LEMMA SettledLoop ==
  ASSUME IndInv, NEW p \in Procs, LoopStep(p)
  PROVE  Settled'
<1>1. TypeOK /\ UnitShape /\ Recorded /\ Settled
  BY DEF IndInv, HeldInv
<1>2. UNCHANGED <<names, age, journal>> /\ Only(p)
  BY <1>1, LoopFrame, LoopShape, ResumeShape, SelectShape
  DEF LoopStep
<1>3. \A i : YoungIfLinked(i)' <=> YoungIfLinked(i)
  BY <1>2 DEF YoungIfLinked, Linked
<1> SUFFICES ASSUME NEW r \in journal, r.complete
             PROVE  SettledFor(p, r)'
  BY <1>1, <1>2, <1>3, SettledMeans DEF Settled, SettledFor, Only, YoungIfLinked
<1>4. SettledFor(p, r) /\ r \in Records
  BY <1>1, SettledMeans DEF TypeOK
<1>5. CASE Start(p)
  <2>1. unit'[p].tomb # r.tomb
    BY <1>1, <1>4, <1>5, WorkingFact, TombFact
    DEF Start, UnitShape, Shape, NoUnit, Records
  <2>2. ASSUME NEW s \in recs'[p], s.tomb = r.tomb
        PROVE  FALSE
    <3>1. s \in Pending(journal)
      BY <1>1, <1>5 DEF TypeOK, Start
    <3>2. s \in Records /\ s \in journal /\ [s EXCEPT !.complete = TRUE] \notin journal
      BY <1>1, <3>1 DEF TypeOK, Pending
    <3>3. s.leaf = r.leaf /\ s.ino = r.ino
      BY <1>1, <2>2, <3>2 DEF Recorded
    <3>4. r.complete = TRUE
      BY <1>4 DEF Records
    <3>5. [s EXCEPT !.complete = TRUE] = r
      BY <1>4, <2>2, <3>2, <3>3, <3>4 DEF Records
    <3> QED
      BY <3>2, <3>5
  <2> QED
    BY <2>1, <2>2 DEF SettledFor
<1>6. CASE Resume(p)
  <2>1. PICK s \in recs[p] : Resume(p)!2!(s)
    BY <1>6 DEF Resume
  <2>2. recs'[p] \subseteq recs[p]
    BY <1>1, <2>1 DEF TypeOK
  <2>3. \/ unit' = unit /\ pc' = pc
        \/ unit'[p].tomb = s.tomb /\ pc'[p] = "open"
    BY <1>1, <2>1, ConsiderUnit
  <2> QED
    BY <1>3, <1>4, <2>2, <2>3 DEF SettledFor
<1>7. CASE Select(p)
  <2>1. UNCHANGED recs
    BY <1>7 DEF Select
  <2>2. \/ unit' = unit /\ pc' = pc
        \/ unit'[p].tomb = None /\ pc'[p] = "open"
    BY <1>1, <1>7, ConsiderUnit DEF Select
  <2> QED
    BY <1>3, <1>4, <2>1, <2>2, TombFact DEF SettledFor, Records
<1>8. CASE Enumerate(p) \/ Finish(p)
  <2>1. UNCHANGED <<unit, recs>> /\ unit[p].tomb = None
    BY <1>1, <1>8, WorkingFact
    DEF Enumerate, Finish, UnitShape, Shape, NoUnit
  <2> QED
    BY <1>3, <1>4, <2>1, TombFact DEF SettledFor, Records
<1>9. CASE Cancel(p) \/ Crash(p)
  <2>1. unit'[p].tomb = None /\ recs'[p] = {}
    BY <1>1, <1>9 DEF TypeOK, Cancel, Crash, Forget, NoUnit
  <2> QED
    BY <1>4, <2>1, TombFact DEF SettledFor, Records
<1> QED
  BY <1>5, <1>6, <1>7, <1>8, <1>9 DEF LoopStep

\* No step of a candidate gives an unnamed inode a name or makes a young
\* unit old.
LEMMA CandidateYoung ==
  ASSUME TypeOK, UnitShape, NEW p \in Procs, CandidateStep(p),
         NEW i \in Inodes, YoungIfLinked(i)
  PROVE  YoungIfLinked(i)'
<1>1. Linked(i)' => Linked(i)
  <2>1. CASE UNCHANGED names
    BY <2>1 DEF Linked
  <2>2. CASE Hides(p)
    <3>1. unit[p].leaf \in Names /\ unit[p].tomb \in Names
      BY <2>2, WorkingFact DEF UnitShape, Shape, Hides, Names
    <3> QED
      BY <2>2, <3>1, TombFact DEF TypeOK, Hides, Linked
  <2>3. CASE Unlinks(p)
    BY <2>3, TombFact DEF TypeOK, Unlinks, Linked
  <2> QED
    BY <2>1, <2>2, <2>3, CandidateNames
<1>2. Young(age[i]) => Young(age'[i])
  BY CandidateAge DEF TypeOK, Young
<1> QED
  BY <1>1, <1>2 DEF YoungIfLinked

\* A candidate whose tombstone is settled is never renamed or deleted.
LEMMA SettledStays ==
  ASSUME IndInv, NEW p \in Procs, CandidateStep(p),
         NEW r \in journal, r.complete
  PROVE  SettledFor(p, r)'
<1>1. TypeOK /\ UnitShape /\ Recorded /\ Settled
  BY DEF IndInv, HeldInv
<1>2. SettledFor(p, r) /\ names[r.tomb] = None /\ r \in Records
  BY <1>1, SettledMeans DEF TypeOK
<1>3. r.ino \in Inodes /\ r.tomb \in Tombs
  BY <1>2 DEF Records
<1>4. YoungIfLinked(r.ino) => YoungIfLinked(r.ino)'
  BY <1>1, <1>3, CandidateYoung
<1>5. UNCHANGED recs
  BY CandidateFrame
<1>6. CASE Release(p)
  BY <1>1, <1>2, <1>3, <1>4, <1>5, <1>6, TombFact
  DEF TypeOK, SettledFor, Release, NoUnit
<1>7. ASSUME NEW t \in Tombs, Intends(p, t)
      PROVE  SettledFor(p, r)'
  BY <1>2, <1>4, <1>5, <1>7 DEF SettledFor, Intends, UnusedTomb
<1>8. CASE Keeps(p) /\ ~Release(p)
  <2> SUFFICES ASSUME unit[p].tomb = r.tomb
               PROVE  pc'[p] \in {"open", "scan", "restat", "verify"}
    BY <1>2, <1>4, <1>5, <1>8 DEF Keeps, SettledFor
  <2>1. /\ pc[p] \in {"open", "scan", "restat", "verify"}
        /\ YoungIfLinked(r.ino)
    BY <1>2 DEF SettledFor
  <2>2. unit[p].ino = r.ino
    <3>1. RecordOf(p, unit[p].tomb, FALSE) \in journal
      BY <1>1, <1>3, TombFact DEF Recorded
    <3>2. /\ RecordOf(p, unit[p].tomb, FALSE).tomb = r.tomb
          /\ RecordOf(p, unit[p].tomb, FALSE).ino = unit[p].ino
      BY DEF RecordOf
    <3> QED
      BY <1>1, <3>1, <3>2 DEF Recorded
  <2>3. CASE OpenUnit(p)
    BY <1>1, <1>8, <2>3 DEF TypeOK, OpenUnit, StartScan, Goto
  <2>4. CASE Inspect(p)
    BY <1>8, <2>1, <2>4 DEF Inspect
  <2>5. CASE ScanDone(p)
    BY <1>1, <1>3, <1>8, <2>1, <2>5, TombFact
    DEF TypeOK, ScanDone, AfterScan, Goto
  <2>6. CASE Restat(p)
    <3>1. names[unit[p].leaf] = unit[p].ino /\ StillOld(unit[p].ino)
      BY <1>8, <2>6 DEF Restat
    <3>2. unit[p].leaf \in Names
      BY <1>1, <2>6, WorkingFact DEF UnitShape, Shape, Restat, Names
    <3> QED
      BY <2>1, <2>2, <3>1, <3>2 DEF YoungIfLinked, Linked, StillOld
  <2>7. CASE Verify(p)
    BY <1>2, <1>3, <1>8, <2>2, <2>7, TombFact DEF Verify, TombHoldsUnit
  <2> QED
    BY <1>8, <2>1, <2>3, <2>4, <2>5, <2>6, <2>7
    DEF CandidateStep, AppendPending, Recapture, Rename, DeletePart,
        CheckTombstone, UnlinkTombstone, AppendComplete, Refuse
<1> QED
  BY <1>1, <1>6, <1>7, <1>8, CandidateUnit

\* Processes that know the same tombstone know it for the same unit.
LEMMA SameUnit ==
  ASSUME Recorded, NEW p \in Procs, NEW q \in Procs,
         unit[p].tomb \in Tombs, unit[q].tomb = unit[p].tomb
  PROVE  unit[q].leaf = unit[p].leaf /\ unit[q].ino = unit[p].ino
<1>1. \A a, b \in journal : a.tomb = b.tomb => a.leaf = b.leaf /\ a.ino = b.ino
  BY DEF Recorded
<1>2. PICK a \in journal : a = RecordOf(p, unit[p].tomb, FALSE)
  BY TombFact DEF Recorded
<1>3. PICK b \in journal : b = RecordOf(q, unit[q].tomb, FALSE)
  BY TombFact DEF Recorded
<1>4. /\ a.tomb = unit[p].tomb /\ a.leaf = unit[p].leaf /\ a.ino = unit[p].ino
      /\ b.tomb = unit[q].tomb /\ b.leaf = unit[q].leaf /\ b.ino = unit[q].ino
  BY <1>2, <1>3 DEF RecordOf
<1> QED
  BY <1>1, <1>4

\* The record that completes p's tombstone is settled when it is written:
\* whoever else knows the tombstone has not been past its first scan.
LEMMA SettledNew ==
  ASSUME IndInv, MutuallyVisible, NEW p \in Procs, AppendComplete(p),
         NEW r, r = RecordOf(p, unit[p].tomb, TRUE)
  PROVE  /\ names[r.tomb] = None
         /\ \A q \in Procs \ {p} : SettledFor(q, r)
         /\ SettledFor(p, r)'
<1>1. TypeOK /\ UnitShape /\ Recorded /\ TombHeld /\ Apart
  BY DEF IndInv, HeldInv
<1>2. /\ pc[p] = "complete" /\ unit[p].tomb \in Tombs /\ unit[p].ino \in Inodes
      /\ Release(p) /\ UNCHANGED recs
  BY <1>1, WorkingFact DEF AppendComplete, UnitShape, Shape, loopVars
<1>3. names[unit[p].tomb] = None /\ ~Linked(unit[p].ino)
  BY <1>1, <1>2 DEF TombHeld, HoldsTomb
<1>4. r.tomb = unit[p].tomb /\ r.ino = unit[p].ino
  BY DEF RecordOf
<1>5. YoungIfLinked(r.ino)
  BY <1>3, <1>4 DEF YoungIfLinked
<1>6. ASSUME NEW q \in Procs \ {p}, unit[q].tomb = unit[p].tomb
      PROVE  pc[q] \in {"open", "scan"}
  <2>1. unit[q].ino = unit[p].ino
    BY <1>1, <1>2, <1>6, SameUnit
  <2>2. pc[q] \in Working
    BY <1>1, <1>2, <1>6, TombFact DEF UnitShape, Shape, NoUnit
  <2>3. CASE pc[q] \in Holding
    <3>1. q \in Visible(p) /\ p \in Visible(q)
      BY DEF MutuallyVisible
    <3>2. PassedOnce(p, q)
      BY <1>2, WorkingFact DEF PassedOnce
    <3>3. ~PassedOnce(q, p)
      BY <1>1, <1>2, <2>1, <2>3, <3>1, <3>2, WorkingFact DEF Apart
    <3> QED
      BY <2>3, <3>3 DEF PassedOnce
  <2> QED
    BY <2>2, <2>3, WorkingFact
<1>7. \A q \in Procs \ {p} : SettledFor(q, r)
  BY <1>4, <1>5, <1>6 DEF SettledFor
<1>8. SettledFor(p, r)'
  <2>1. unit'[p].tomb # unit[p].tomb
    BY <1>1, <1>2, TombFact DEF TypeOK, Release, NoUnit
  <2>2. UNCHANGED <<names, age>>
    BY DEF AppendComplete, cacheVars
  <2>3. YoungIfLinked(r.ino)'
    BY <1>5, <2>2 DEF YoungIfLinked, Linked
  <2> QED
    BY <1>4, <2>1, <2>3 DEF SettledFor
<1> QED
  BY <1>3, <1>4, <1>7, <1>8

LEMMA SettledStep ==
  ASSUME IndInv, Cooperative, Next
  PROVE  Settled'
<1>1. TypeOK /\ UnitShape /\ Recorded /\ Settled
  BY DEF IndInv, HeldInv
<1>2. ASSUME NEW p \in Procs, CandidateStep(p)
      PROVE  Settled'
  <2>1. Only(p) /\ UNCHANGED recs
    BY <1>1, <1>2, CandidateShape, CandidateFrame DEF CandidateStep
  <2>2. ASSUME NEW r \in Records, names[r.tomb] = None,
               \A q \in Procs \ {p} : SettledFor(q, r),
               unit[p].tomb = r.tomb => pc[p] # "rename"
        PROVE  names'[r.tomb] = None /\ \A q \in Procs \ {p} : SettledFor(q, r)'
    <3>1. names'[r.tomb] = None
      <4>1. r.tomb \in Tombs /\ r.tomb \in Names
        BY DEF Records, Names
      <4>2. CASE UNCHANGED names
        BY <2>2, <4>2
      <4>3. CASE Hides(p)
        <5>1. unit[p].leaf \in Leaves
          BY <1>1, <4>3, WorkingFact DEF UnitShape, Shape, Hides
        <5> QED
          BY <1>1, <2>2, <4>1, <4>3, <5>1 DEF TypeOK, Hides
      <4>4. CASE Unlinks(p)
        BY <1>1, <2>2, <4>1, <4>4 DEF TypeOK, Unlinks
      <4> QED
        BY <1>1, <1>2, <4>2, <4>3, <4>4, CandidateNames
    <3>2. r.ino \in Inodes
      BY DEF Records
    <3>3. YoungIfLinked(r.ino) => YoungIfLinked(r.ino)'
      BY <1>1, <1>2, <3>2, CandidateYoung
    <3> QED
      BY <2>1, <2>2, <3>1, <3>3 DEF SettledFor, Only
  <2>3. ASSUME NEW r \in journal, r.complete
        PROVE  names'[r.tomb] = None /\ \A q \in Procs : SettledFor(q, r)'
    <3>1. /\ names[r.tomb] = None /\ r \in Records
          /\ \A q \in Procs : SettledFor(q, r)
      BY <1>1, <2>3, SettledMeans DEF TypeOK
    <3>2. SettledFor(p, r)'
      BY <1>2, <2>3, SettledStays
    <3>3. unit[p].tomb = r.tomb => pc[p] # "rename"
      BY <3>1 DEF SettledFor
    <3> QED
      BY <2>2, <3>1, <3>2, <3>3
  <2>4. ASSUME NEW r \in Records, r = RecordOf(p, unit[p].tomb, TRUE),
               AppendComplete(p)
        PROVE  names'[r.tomb] = None /\ \A q \in Procs : SettledFor(q, r)'
    <3>1. /\ names[r.tomb] = None /\ SettledFor(p, r)'
          /\ \A q \in Procs \ {p} : SettledFor(q, r)
      BY <2>4, SettledNew DEF Cooperative
    <3>2. pc[p] # "rename"
      BY <2>4 DEF AppendComplete
    <3> QED
      BY <2>2, <3>1, <3>2
  <2>5. SUFFICES ASSUME NEW r \in journal', r.complete
                 PROVE  names'[r.tomb] = None /\ \A q \in Procs : SettledFor(q, r)'
    BY DEF Settled, SettledFor, YoungIfLinked
  <2>6. CASE r \in journal
    BY <2>3, <2>5, <2>6
  <2>7. CASE r \notin journal
    <3>1. \/ \E t \in Tombs : r = RecordOf(p, t, FALSE)
          \/ AppendComplete(p) /\ r = RecordOf(p, unit[p].tomb, TRUE)
      BY <1>1, <1>2, <2>7, CandidateJournal DEF Recorded, Cooperative
    <3>2. AppendComplete(p) /\ r = RecordOf(p, unit[p].tomb, TRUE)
      BY <2>5, <3>1 DEF RecordOf
    <3>3. r \in Records
      BY <1>1, <3>2, WorkingFact
      DEF AppendComplete, UnitShape, Shape, RecordOf, Records
    <3> QED
      BY <2>4, <3>2, <3>3
  <2> QED
    BY <2>6, <2>7
<1>3. ASSUME \/ \E u \in Users : UserStep(u)
             \/ \E l \in Leaves : OwnerStep(l)
      PROVE  Settled'
  <2>1. UNCHANGED <<pc, unit, recs, journal>>
    BY <1>1, <1>3, UserCache
  <2>2. \A t \in Tombs : names'[t] = names[t]
    <3>1. \A l \in Leaves, t \in Tombs : l # t
      OBVIOUS
    <3>2. ASSUME NEW l \in Leaves, NEW x, names' = [names EXCEPT ![l] = x]
          PROVE  \A t \in Tombs : names'[t] = names[t]
      BY <1>1, <3>1, <3>2 DEF TypeOK, Names
    <3> QED
      BY <1>1, <1>3, <3>2, UserCache DEF Ripen
  <2>3. \A r \in journal : r.tomb \in Tombs /\ r.ino \in Inodes
    BY <1>1 DEF TypeOK, Records
  <2>4. CASE \E l \in Leaves : Ripen(l)
    <3>1. \A q \in Procs : unit[q].tomb = None /\ recs[q] = {}
      BY <1>1, <2>4, WorkingFact DEF Ripen, UnitShape, Shape, NoUnit
    <3> QED
      BY <1>1, <2>1, <2>2, <2>3, <3>1, TombFact DEF Settled
  <2>5. CASE \A i \in Inodes : YoungIfLinked(i) => YoungIfLinked(i)'
    <3>1. \A r \in journal, q \in Procs : SettledFor(q, r) => SettledFor(q, r)'
      BY <2>1, <2>3, <2>5 DEF SettledFor
    <3>2. SUFFICES ASSUME NEW r \in journal, r.complete
                   PROVE  /\ names'[r.tomb] = None
                          /\ \A q \in Procs : SettledFor(q, r)'
      BY <2>1 DEF Settled, SettledFor, YoungIfLinked
    <3> QED
      BY <1>1, <2>2, <2>3, <3>1, <3>2, SettledMeans
  <2>6. ASSUME ~\E l \in Leaves : Ripen(l), NEW i \in Inodes, YoungIfLinked(i)
        PROVE  YoungIfLinked(i)'
    <3>1. CASE UNCHANGED <<names, age>>
      BY <2>6, <3>1 DEF YoungIfLinked, Linked, Young
    <3>2. ASSUME NEW l \in Leaves, NEW j \in Inodes,
                 names' = [names EXCEPT ![l] = j],
                 age' = [age EXCEPT ![j] = "fresh"]
          PROVE  YoungIfLinked(i)'
      BY <1>1, <2>6, <3>2 DEF TypeOK, YoungIfLinked, Linked, Young, Names
    <3>3. ASSUME NEW l \in Leaves, names' = [names EXCEPT ![l] = None],
                 UNCHANGED age
          PROVE  YoungIfLinked(i)'
      BY <1>1, <2>6, <3>3, TombFact DEF TypeOK, YoungIfLinked, Linked, Young, Names
    <3>4. ASSUME NEW j \in Inodes, NEW a \in Ages, age' = [age EXCEPT ![j] = a],
                 Young(age[j]) => Young(a), UNCHANGED names
          PROVE  YoungIfLinked(i)'
      BY <1>1, <2>6, <3>4 DEF TypeOK, YoungIfLinked, Linked
    <3> QED
      BY <1>1, <1>3, <2>6, <3>1, <3>2, <3>3, <3>4, UserCache DEF Cooperative
  <2> QED
    BY <2>4, <2>5, <2>6
<1> QED
  BY <1>2, <1>3, SettledLoop, NextCases

LEMMA TombHeldStep ==
  ASSUME IndInv, Cooperative, Next
  PROVE  TombHeld'
<1>1. /\ TypeOK /\ UnitShape /\ Apart /\ OneName /\ Recorded /\ TombHeld
  BY DEF IndInv, HeldInv
<1>2. ASSUME NEW p \in Procs, LoopStep(p)
      PROVE  TombHeld'
  <2>1. UNCHANGED names /\ Only(p) /\ pc'[p] \notin Holding
    BY <1>1, <1>2, LoopFrame, LoopShape, ResumeShape, SelectShape, LoopLetsGo
    DEF IndInv, HeldInv, LoopStep, LetsGo
  <2> QED
    BY <1>1, <2>1, WorkingFact DEF TombHeld, HoldsTomb, Only, Linked
<1>3. ASSUME NEW p \in Procs, CandidateStep(p)
      PROVE  TombHeld'
  <2>1. Only(p)
    BY <1>1, <1>3, CandidateShape DEF CandidateStep
  <2>2. ASSUME NEW q \in Procs \ {p}, pc[q] \in Cleared, pc[p] \in Cleared
        PROVE  unit[q].ino # unit[p].ino
    <3>1. q \in Visible(p) /\ p \in Visible(q)
      BY DEF Cooperative, MutuallyVisible
    <3> QED
      BY <1>1, <2>2, <3>1, WorkingFact DEF Apart, PassedOnce
  <2>3. ASSUME NEW q \in Procs \ {p}, pc[q] \in {"delete", "unlink", "complete"}
        PROVE  /\ unit[q].tomb \in Tombs /\ unit[q].ino \in Inodes
               /\ (Hides(p) \/ Unlinks(p)) => /\ unit[p].tomb # unit[q].tomb
                                              /\ unit[p].tomb \in Tombs
                                              /\ unit[p].leaf \in Leaves
    BY <1>1, <2>2, <2>3, SameUnit, WorkingFact
    DEF UnitShape, Shape, Hides, Unlinks
  <2>4. ASSUME NEW q \in Procs \ {p}, pc[q] \in {"delete", "unlink", "complete"}
        PROVE  names'[unit[q].tomb] = names[unit[q].tomb]
    <3>1. unit[q].tomb \in Names /\ unit[q].tomb \notin Leaves
      BY <2>3, <2>4 DEF Names
    <3>2. CASE Hides(p)
      BY <1>1, <2>3, <2>4, <3>1, <3>2 DEF TypeOK, Hides
    <3>3. CASE Unlinks(p)
      BY <1>1, <2>3, <2>4, <3>1, <3>3 DEF TypeOK, Unlinks
    <3> QED
      BY <1>1, <1>3, <3>2, <3>3, CandidateNames
  <2>5. \A i \in Inodes : ~Linked(i) => ~Linked(i)'
    <3>1. CASE UNCHANGED names
      BY <3>1 DEF Linked
    <3>2. CASE Hides(p)
      <4>1. unit[p].leaf \in Names /\ unit[p].tomb \in Names
        BY <1>1, <3>2, WorkingFact DEF UnitShape, Shape, Hides, Names
      <4> QED
        BY <1>1, <3>2, <4>1, TombFact DEF TypeOK, Hides, Linked
    <3>3. CASE Unlinks(p)
      BY <1>1, <3>3, TombFact DEF TypeOK, Unlinks, Linked
    <3> QED
      BY <1>1, <1>3, <3>1, <3>2, <3>3, CandidateNames
  <2>6. HoldsTomb(p)'
    <3>1. CASE Release(p)
      BY <1>1, <3>1 DEF TypeOK, Release, Goto, HoldsTomb
    <3>2. CASE Verify(p) /\ ~Release(p)
      BY <1>1, <3>2
      DEF TypeOK, Verify, TombHoldsUnit, Goto, cacheVars, HoldsTomb
    <3>3. CASE DeletePart(p) /\ ~Release(p)
      BY <1>1, <3>3 DEF TombHeld, DeletePart, HoldsTomb
    <3>4. CASE CheckTombstone(p) /\ ~Release(p)
      BY <1>1, <3>4
      DEF TypeOK, CheckTombstone, TombHoldsUnit, Goto, cacheVars, HoldsTomb
    <3>5. CASE UnlinkTombstone(p) /\ ~Release(p)
      <4>1. /\ pc[p] = "unlink" /\ pc'[p] = "complete" /\ UNCHANGED unit
            /\ names' = [names EXCEPT ![unit[p].tomb] = None]
        BY <1>1, <3>5 DEF TypeOK, UnlinkTombstone, Goto
      <4>2. /\ unit[p].tomb \in Names /\ unit[p].ino \in Inodes
            /\ names[unit[p].tomb] = unit[p].ino
        BY <1>1, <4>1, WorkingFact
        DEF UnitShape, Shape, TombHeld, HoldsTomb, Names
      <4>3. ~Linked(unit[p].ino)'
        BY <1>1, <4>1, <4>2, TombFact DEF TypeOK, Linked, OneName
      <4>4. names'[unit[p].tomb] = None
        BY <1>1, <4>1, <4>2 DEF TypeOK
      <4> QED
        BY <4>1, <4>3, <4>4 DEF HoldsTomb
    <3>6. CASE OpenUnit(p) \/ Inspect(p) \/ ScanDone(p)
      BY <1>1, <3>1, <3>6
      DEF TypeOK, OpenUnit, Inspect, ScanDone, AfterScan, StartScan, Goto,
          HoldsTomb
    <3>7. CASE AppendPending(p) \/ Restat(p) \/ Recapture(p) \/ Rename(p)
      <4>1. pc \in [Procs -> Points]
        BY <1>1 DEF TypeOK
      <4>2. CASE AppendPending(p)
        <5>1. Release(p) \/ pc'[p] = "restat"
          BY <4>1, <4>2 DEF AppendPending, Goto
        <5> QED
          BY <3>1, <5>1 DEF HoldsTomb
      <4>3. CASE Restat(p)
        <5>1. Release(p) \/ pc'[p] = "recapture"
          BY <4>1, <4>3 DEF Restat, Goto
        <5> QED
          BY <3>1, <5>1 DEF HoldsTomb
      <4>4. CASE Recapture(p)
        <5>1. Release(p) \/ pc'[p] = "rescan"
          BY <4>1, <4>4 DEF Recapture, StartScan, Goto
        <5> QED
          BY <3>1, <5>1 DEF HoldsTomb
      <4>5. CASE Rename(p)
        <5>1. Release(p) \/ pc'[p] = "verify"
          BY <4>1, <4>5 DEF Rename, Goto
        <5> QED
          BY <3>1, <5>1 DEF HoldsTomb
      <4> QED
        BY <3>7, <4>2, <4>3, <4>4, <4>5
    <3> QED
      BY <1>3, <3>1, <3>2, <3>3, <3>4, <3>5, <3>6, <3>7
      DEF CandidateStep, AppendComplete, Refuse
  <2>7. ASSUME NEW q \in Procs \ {p}
        PROVE  HoldsTomb(q)'
    <3>1. pc'[q] = pc[q] /\ unit'[q] = unit[q] /\ HoldsTomb(q)
      BY <1>1, <2>1 DEF Only, TombHeld
    <3>2. CASE pc[q] \in {"delete", "unlink", "complete"}
      BY <2>3, <2>4, <2>5, <3>1, <3>2 DEF HoldsTomb, Linked
    <3>3. CASE pc[q] \notin {"delete", "unlink", "complete"}
      BY <3>1, <3>3 DEF HoldsTomb
    <3> QED
      BY <3>2, <3>3
  <2> QED
    BY <2>6, <2>7 DEF TombHeld
<1>4. ASSUME \/ \E u \in Users : UserStep(u)
             \/ \E l \in Leaves : OwnerStep(l)
      PROVE  TombHeld'
  <2>1. UNCHANGED <<pc, unit>>
    BY <1>1, <1>4, UserCache
  <2>2. \A t \in Tombs : names'[t] = names[t]
    <3>1. \A l \in Leaves, t \in Tombs : l # t
      OBVIOUS
    <3>2. ASSUME NEW l \in Leaves, NEW x, names' = [names EXCEPT ![l] = x]
          PROVE  \A t \in Tombs : names'[t] = names[t]
      BY <1>1, <3>1, <3>2 DEF TypeOK, Names
    <3> QED
      BY <1>1, <1>4, <3>2, UserCache DEF Ripen
  <2>3. ASSUME NEW q \in Procs, pc[q] = "complete"
        PROVE  ~Linked(unit[q].ino)'
    <3>1. /\ ~Linked(unit[q].ino) /\ unit[q].ino \in Inodes
          /\ Holds(q, unit[q].ino)
      BY <1>1, <2>3, WorkingFact DEF TombHeld, HoldsTomb, UnitShape, Shape, Holds
    <3>2. ~Free(unit[q].ino)
      BY <3>1 DEF Free, Actors
    <3>3. ASSUME NEW l \in Leaves, NEW i \in Inodes \cup {None}, i # unit[q].ino,
                 names' = [names EXCEPT ![l] = i]
          PROVE  ~Linked(unit[q].ino)'
      BY <1>1, <2>1, <3>1, <3>3 DEF TypeOK, Linked
    <3>4. CASE UNCHANGED names
      BY <2>1, <3>1, <3>4 DEF Linked
    <3> QED
      BY <1>1, <1>4, <2>1, <3>1, <3>2, <3>3, <3>4, UserCache, TombFact DEF Ripen
  <2> QED
    BY <1>1, <2>1, <2>2, <2>3, WorkingFact DEF TombHeld, HoldsTomb, UnitShape, Shape
<1> QED
  BY <1>2, <1>3, <1>4, NextCases

LEMMA NotFreshStep ==
  ASSUME IndInv, Cooperative, Next
  PROVE  NotFresh'
<1>1. TypeOK /\ UnitShape /\ Recorded /\ TombHeld /\ NotFresh
  BY DEF IndInv, HeldInv
<1>2. ASSUME NEW p \in Procs, LoopStep(p)
      PROVE  NotFresh'
  <2>1. UNCHANGED <<names, age, journal>> /\ Only(p) /\ pc'[p] \notin Holding
    BY <1>1, <1>2, LoopFrame, LoopShape, ResumeShape, SelectShape, LoopLetsGo
    DEF IndInv, HeldInv, LoopStep, LetsGo
  <2> QED
    BY <1>1, <2>1, WorkingFact DEF NotFresh, FoundOld, Only
<1>3. ASSUME NEW p \in Procs, CandidateStep(p)
      PROVE  NotFresh'
  <2>1. Only(p)
    BY <1>1, <1>3, CandidateShape DEF CandidateStep
  <2>2. \A i \in Inodes : age[i] # "fresh" => age'[i] # "fresh"
    BY <1>1, <1>3, CandidateAge DEF TypeOK
  <2>3. FoundOld(p)'
    <3>1. CASE Release(p)
      BY <1>1, <3>1 DEF TypeOK, Release, Goto, FoundOld, Cleared
    <3>2. CASE OpenUnit(p) /\ ~Release(p)
      <4> SUFFICES ASSUME unit[p].renamed
                   PROVE  age[unit[p].ino] # "fresh"
        <5>1. pc'[p] = "scan" /\ UNCHANGED age /\ Keeps(p)
          <6>1. unit' = [unit EXCEPT ![p] =
                           [unit[p] EXCEPT !.seen = age[unit[p].ino]]]
            BY <3>2 DEF OpenUnit
          <6>2. unit[p] \in Units
            BY <1>1 DEF TypeOK
          <6> QED
            BY <1>1, <3>2, <6>1, <6>2
            DEF TypeOK, OpenUnit, StartScan, Goto, cacheVars, Keeps, Units
        <5> QED
          BY <5>1 DEF Keeps, FoundOld, Cleared
      <4>1. names[unit[p].tomb] = unit[p].ino /\ unit[p].tomb \in Tombs
        BY <1>1, <3>2, WorkingFact DEF OpenUnit, UnitName, UnitShape, Shape
      <4>2. PICK r \in journal : r = RecordOf(p, unit[p].tomb, FALSE)
        BY <1>1, <4>1, TombFact DEF Recorded
      <4> QED
        BY <1>1, <4>1, <4>2 DEF NotFresh, RecordOf
    <3>3. CASE Restat(p) /\ ~Release(p)
      BY <1>1, <3>3
      DEF TypeOK, Restat, StillOld, Young, Goto, cacheVars, FoundOld
    <3>4. CASE ScanDone(p) /\ ~Release(p)
      <4>1. pc'[p] = AfterScan(p) /\ UNCHANGED <<unit, age>>
        BY <1>1, <3>4 DEF TypeOK, ScanDone, Goto, cacheVars
      <4>2. FoundOld(p) /\ pc[p] \in {"scan", "rescan"}
        BY <1>1, <3>4 DEF NotFresh, ScanDone
      <4>3. CASE pc[p] = "rescan"
        BY <4>1, <4>2, <4>3 DEF FoundOld
      <4>4. CASE pc[p] = "scan"
        BY <4>1, <4>2, <4>4 DEF FoundOld, AfterScan, Cleared
      <4> QED
        BY <4>2, <4>3, <4>4
    <3>5. CASE AppendPending(p) /\ ~Release(p)
      BY <1>1, <3>5 DEF TypeOK, AppendPending, Goto, FoundOld, Cleared
    <3>6. CASE /\ ~Release(p)
               /\ \/ Inspect(p) \/ Recapture(p) \/ Rename(p) \/ Verify(p)
                  \/ DeletePart(p) \/ CheckTombstone(p) \/ UnlinkTombstone(p)
      <4>1. /\ UNCHANGED unit
            /\ pc[p] \in {"recapture", "rescan"} \cup Cleared
                 \/ (pc[p] = "scan" /\ pc'[p] = "scan")
        BY <3>6
        DEF Inspect, Recapture, Rename, Verify, DeletePart, CheckTombstone,
            UnlinkTombstone, Cleared
      <4>2. FoundOld(p)
        BY <1>1 DEF NotFresh
      <4>3. FoundOld(p)' \/ unit[p].ino \in Inodes
        BY <1>1, <4>1, WorkingFact DEF UnitShape, Shape
      <4> QED
        BY <2>2, <4>1, <4>2, <4>3, WorkingFact DEF FoundOld
    <3> QED
      BY <1>3, <3>1, <3>2, <3>3, <3>4, <3>5, <3>6
      DEF CandidateStep, AppendComplete, Refuse
  <2>4. ASSUME NEW q \in Procs \ {p}
        PROVE  FoundOld(q)'
    <3>1. pc'[q] = pc[q] /\ unit'[q] = unit[q] /\ FoundOld(q)
      BY <1>1, <2>1 DEF Only, NotFresh
    <3>2. pc[q] \in Working => unit[q].ino \in Inodes
      BY <1>1 DEF UnitShape, Shape
    <3> QED
      BY <2>2, <3>1, <3>2, WorkingFact DEF FoundOld
  <2>5. ASSUME NEW r \in journal', names'[r.tomb] = r.ino
        PROVE  age'[r.ino] # "fresh"
    <3>1. ASSUME NEW s \in journal, s.tomb = r.tomb, s.ino = r.ino
          PROVE  age'[r.ino] # "fresh"
      <4>1. s.tomb \in Tombs /\ s.tomb \in Names /\ s.ino \in Inodes
        BY <1>1 DEF TypeOK, Records, Names
      <4>2. CASE names[s.tomb] = s.ino
        BY <1>1, <2>2, <3>1, <4>1, <4>2 DEF NotFresh
      <4>3. CASE names[s.tomb] # s.ino
        <5>1. Hides(p) /\ unit[p].tomb = s.tomb
          BY <1>1, <1>3, <2>5, <3>1, <4>1, <4>3, CandidateNames, TombFact
          DEF TypeOK, Hides, Unlinks
        <5>2. unit[p].tomb # None
          BY <4>1, <5>1, TombFact
        <5>3. PICK x \in journal : x = RecordOf(p, unit[p].tomb, FALSE)
          BY <1>1, <5>2 DEF Recorded
        <5>4. unit[p].ino = s.ino
          BY <1>1, <5>1, <5>3 DEF Recorded, RecordOf
        <5>5. age[unit[p].ino] # "fresh"
          BY <1>1, <5>1 DEF NotFresh, FoundOld, Hides, Cleared
        <5> QED
          BY <2>2, <3>1, <4>1, <5>4, <5>5
      <4> QED
        BY <4>2, <4>3
    <3>2. CASE r \in journal
      BY <3>1, <3>2
    <3>3. ASSUME NEW t \in Tombs, AppendPending(p), UnusedTomb(t),
                 r = RecordOf(p, t, FALSE)
          PROVE  FALSE
      <4>1. names[t] = None /\ UNCHANGED names
        BY <3>3 DEF UnusedTomb, AppendPending, cacheVars
      <4>2. unit[p].ino \in Inodes
        BY <1>1, <3>3, WorkingFact DEF AppendPending, UnitShape, Shape
      <4> QED
        BY <2>5, <3>3, <4>1, <4>2, TombFact DEF RecordOf
    <3>4. CASE AppendComplete(p) /\ r = RecordOf(p, unit[p].tomb, TRUE)
      <4>1. unit[p].tomb \in Tombs
        BY <1>1, <3>4, WorkingFact DEF AppendComplete, UnitShape, Shape
      <4>2. PICK s \in journal : s = RecordOf(p, unit[p].tomb, FALSE)
        BY <1>1, <4>1, TombFact DEF Recorded
      <4> QED
        BY <3>1, <3>4, <4>2 DEF RecordOf
    <3>5. \/ r \in journal
          \/ AppendPending(p) /\ \E t \in Tombs :
                                   UnusedTomb(t) /\ r = RecordOf(p, t, FALSE)
          \/ AppendComplete(p) /\ r = RecordOf(p, unit[p].tomb, TRUE)
      BY <1>1, <1>3, CandidateJournal DEF Recorded, Cooperative
    <3> QED
      BY <3>2, <3>3, <3>4, <3>5
  <2> QED
    BY <2>3, <2>4, <2>5 DEF NotFresh
<1>4. ASSUME \/ \E u \in Users : UserStep(u)
             \/ \E l \in Leaves : OwnerStep(l)
      PROVE  NotFresh'
  <2>1. UNCHANGED <<pc, unit, journal>>
    BY <1>1, <1>4, UserCache
  <2>2. \A t \in Tombs : names'[t] = names[t]
    <3>1. \A l \in Leaves, t \in Tombs : l # t
      OBVIOUS
    <3>2. ASSUME NEW l \in Leaves, NEW x, names' = [names EXCEPT ![l] = x]
          PROVE  \A t \in Tombs : names'[t] = names[t]
      BY <1>1, <3>1, <3>2 DEF TypeOK, Names
    <3> QED
      BY <1>1, <1>4, <3>2, UserCache DEF Ripen
  <2>3. ASSUME NEW i \in Inodes, ~Free(i), age[i] # "fresh"
        PROVE  age'[i] # "fresh"
    <3>1. ASSUME NEW j \in Inodes, NEW a, age' = [age EXCEPT ![j] = a],
                 j # i \/ a # "fresh"
          PROVE  age'[i] # "fresh"
      BY <1>1, <2>3, <3>1 DEF TypeOK
    <3>2. ASSUME NEW l \in Leaves, Ripen(l)
          PROVE  age'[i] # "fresh"
      BY <1>1, <2>3, <3>2 DEF TypeOK, Ripen
    <3> QED
      BY <1>1, <1>4, <2>3, <3>1, <3>2, UserCache DEF Cooperative
  <2>4. ASSUME NEW q \in Procs
        PROVE  FoundOld(q)'
    <3>1. pc[q] \in Holding => unit[q].ino \in Inodes /\ Holds(q, unit[q].ino)
      BY <1>1, WorkingFact DEF UnitShape, Shape, Holds
    <3>2. pc[q] \in Holding => ~Free(unit[q].ino)
      BY <3>1 DEF Free, Actors
    <3>3. FoundOld(q)
      BY <1>1 DEF NotFresh
    <3> QED
      BY <2>1, <2>3, <3>1, <3>2, <3>3, WorkingFact DEF FoundOld
  <2>5. ASSUME NEW r \in journal, names[r.tomb] = r.ino
        PROVE  age'[r.ino] # "fresh"
    <3>1. r.tomb \in Names /\ r.ino \in Inodes
      BY <1>1 DEF TypeOK, Records, Names
    <3>2. ~Free(r.ino)
      BY <2>5, <3>1 DEF Free, Linked
    <3> QED
      BY <1>1, <2>3, <2>5, <3>1, <3>2 DEF NotFresh
  <2>6. \A r \in journal : r.tomb \in Tombs
    BY <1>1 DEF TypeOK, Records
  <2> QED
    BY <2>1, <2>2, <2>4, <2>5, <2>6 DEF NotFresh
<1> QED
  BY <1>2, <1>3, <1>4, NextCases

----------------------------------------------------------------------------
(***************************************************************************)
(* The safety properties.                                                  *)
(***************************************************************************)
LEMMA InitInd == Init => IndInv
<1> SUFFICES ASSUME Init PROVE IndInv
  OBVIOUS
<1>1. HeldInv
  BY InitHeld
<1>2. /\ journal = {} /\ tail = "clean"
      /\ \A n \in Names : names[n] = None
      /\ \A p \in Procs : /\ pc[p] = "idle" /\ recs[p] = {}
                           /\ unit[p].tomb = None
  BY DEF Init, NoUnit
<1>3. OneName /\ Settled /\ TombHeld /\ NotFresh
  BY <1>2 DEF OneName, Settled, TombHeld, HoldsTomb, NotFresh, FoundOld, Cleared
<1>4. Recorded
  BY <1>2 DEF Recorded, Names
<1> QED
  BY <1>1, <1>3, <1>4 DEF IndInv

LEMMA NextInd ==
  ASSUME Cooperative, IndInv, [Next]_vars
  PROVE  IndInv'
<1>1. HeldInv'
  BY NextHeld DEF IndInv
<1>2. CASE Next
  BY <1>1, <1>2, OneNameStep, RecordedStep, SettledStep, TombHeldStep,
     NotFreshStep
  DEF IndInv, Cooperative
<1>3. CASE UNCHANGED vars
  <2>1. UNCHANGED <<names, age, journal, tail, pc, unit, recs>>
    BY <1>3 DEF vars, cacheVars, journalVars, loopVars
  <2> QED
    BY <1>1, <2>1
    DEF IndInv, OneName, Recorded, RecordOf, Settled, Linked, TombHeld,
        HoldsTomb, NotFresh, FoundOld
<1> QED
  BY <1>2, <1>3

\* Under that assumption every reachable state satisfies the inductive
\* invariant: what the journal says, what a process knows of its records and
\* what the names in the root hold agree at every moment.
THEOREM IndAlways ==
  ASSUME Cooperative
  PROVE  Spec => []IndInv
<1>1. IndInv /\ [Next]_vars => IndInv'
  BY NextInd
<1> QED
  BY <1>1, InitInd, PTL DEF Spec

\* A name that beav has hidden is covered by a pending record at every moment,
\* so that no crash leaves a tombstone recovery knows nothing of.
THEOREM WriteAheadHolds ==
  ASSUME Cooperative
  PROVE  Spec => []WriteAhead
<1>1. IndInv => WriteAhead
  <2> SUFFICES ASSUME IndInv, NEW t \in Tombs, names[t] # None
               PROVE  \E r \in Pending(journal) : r.tomb = t
    BY DEF WriteAhead
  <2>1. PICK r \in journal : r.tomb = t /\ ~r.complete
    BY DEF IndInv, Recorded
  <2>2. r \in Records
    BY DEF IndInv, HeldInv, TypeOK
  <2>3. [r EXCEPT !.complete = TRUE].tomb = t
        /\ [r EXCEPT !.complete = TRUE].complete
    BY <2>1, <2>2 DEF Records
  <2>4. [r EXCEPT !.complete = TRUE] \notin journal
    BY <2>3 DEF IndInv, Settled
  <2> QED
    BY <2>1, <2>4 DEF Pending
<1> QED
  BY <1>1, IndAlways, PTL

LEMMA NoFreshLossStep ==
  ASSUME Cooperative, IndInv, Next, NEW i \in Inodes, age[i] = "fresh", Linked(i)
  PROVE  parts'[i] = parts[i] /\ (pc' # pc => Linked(i)')
<1>1. TypeOK /\ UnitShape /\ TombHeld /\ NotFresh
  BY DEF IndInv, HeldInv
<1>2. ASSUME NEW p \in Procs, LoopStep(p)
      PROVE  parts'[i] = parts[i] /\ Linked(i)'
  BY <1>2, LoopFrame DEF Linked
<1>3. ASSUME NEW p \in Procs, CandidateStep(p)
      PROVE  parts'[i] = parts[i] /\ Linked(i)'
  <2>1. parts'[i] = parts[i]
    <3>1. pc[p] = "delete" => unit[p].ino # i
      BY <1>1 DEF NotFresh, FoundOld, Cleared
    <3> QED
      BY <1>1, <1>3, <3>1, CandidateAge DEF TypeOK
  <2>2. CASE UNCHANGED names
    BY <2>1, <2>2 DEF Linked
  <2>3. CASE Hides(p)
    <3>1. unit[p].leaf \in Names /\ unit[p].tomb \in Names
          /\ unit[p].leaf # unit[p].tomb
      BY <1>1, <2>3, WorkingFact DEF UnitShape, Shape, Hides, Names
    <3> QED
      BY <1>1, <2>1, <2>3, <3>1, TombFact DEF TypeOK, Hides, Linked
  <2>4. CASE Unlinks(p)
    <3>1. names[unit[p].tomb] # i
      BY <1>1, <2>4
      DEF Unlinks, TombHeld, HoldsTomb, NotFresh, FoundOld, Cleared
    <3> QED
      BY <1>1, <2>1, <2>4, <3>1 DEF TypeOK, Unlinks, Linked
  <2> QED
    BY <1>1, <1>3, <2>2, <2>3, <2>4, CandidateNames
<1>4. ASSUME \/ \E u \in Users : UserStep(u)
             \/ \E l \in Leaves : OwnerStep(l)
      PROVE  parts'[i] = parts[i] /\ pc' = pc
  BY <1>1, <1>4, UserCache DEF TypeOK, Free, Ripen
<1> QED
  BY <1>2, <1>3, <1>4, NextCases

\* No step of beav unlinks a unit that has never been past the age floor, or
\* anything in it, whatever is put in the way of a rename.
THEOREM NoFreshLossHolds ==
  ASSUME Cooperative
  PROVE  Spec => NoFreshLoss
<1>1. IndInv /\ [Next]_vars =>
        [\A i \in Inodes :
           (age[i] = "fresh" /\ Linked(i)) =>
             /\ parts'[i] = parts[i]
             /\ pc' # pc => Linked(i)']_vars
  BY NoFreshLossStep
<1> QED
  BY <1>1, IndAlways, PTL DEF Spec, NoFreshLoss

----------------------------------------------------------------------------
(***************************************************************************)
(* The refinement of UnitLifecycle.                                        *)
(***************************************************************************)
LEMMA LifeOfName ==
  ASSUME TypeOK, OneName, NEW i \in Inodes
  PROVE  /\ \A l \in Leaves :
              names[l] = i => life[i] = IF age[i] = "fresh" THEN "fresh" ELSE "aged"
         /\ \A t \in Tombs :
              names[t] = i =>
                life[i] = IF age[i] = "fresh" THEN "displaced" ELSE "hidden"
         /\ ~Linked(i) => life[i] = "free"
<1>1. \A l \in Leaves, t \in Tombs : ~(names[l] = i /\ names[t] = i)
  BY TombFact DEF OneName, Names
<1> QED
  BY <1>1 DEF life, Linked, Names

\* A unit whose names and freshness do not change has the life it had.
LEMMA LifeSame ==
  ASSUME NEW i \in Inodes,
         \A n \in Names : names'[n] = i <=> names[n] = i,
         age'[i] = "fresh" <=> age[i] = "fresh"
  PROVE  life'[i] = life[i]
BY DEF life, Names

LEMMA LifeIsFunction ==
  /\ life = [i \in Inodes |-> life[i]] /\ life' = [i \in Inodes |-> life'[i]]
  /\ whole = [i \in Inodes |-> parts[i] = Parts]
  /\ whole' = [i \in Inodes |-> parts'[i] = Parts]
BY DEF life, whole

\* One unit changes its life; the others keep theirs.
LEMMA LifeStep ==
  ASSUME TypeOK, TypeOK', OneName, OneName', NEW i \in Inodes,
         \A j \in Inodes \ {i} :
           /\ \A n \in Names : names'[n] = j <=> names[n] = j
           /\ age'[j] = "fresh" <=> age[j] = "fresh"
  PROVE  life' = [life EXCEPT ![i] = life'[i]]
<1>1. \A j \in Inodes \ {i} : life'[j] = life[j]
  BY LifeSame
<1> QED
  BY <1>1, LifeIsFunction

LEMMA CandidateRefines ==
  ASSUME IndInv, IndInv', NEW p \in Procs, CandidateStep(p)
  PROVE  [Lifecycle!Next]_<<life, whole>>
<1>1. /\ TypeOK /\ UnitShape /\ OneName /\ TombHeld /\ NotFresh
      /\ TypeOK' /\ OneName'
  BY DEF IndInv, HeldInv
<1>2. CASE UNCHANGED <<names, age, parts>>
  BY <1>2 DEF life, whole
<1>3. CASE Hides(p) /\ UNCHANGED <<age, parts>>
  <2> DEFINE i == names[unit[p].leaf]
  <2>1. /\ unit[p].leaf \in Leaves /\ unit[p].tomb \in Tombs
        /\ unit[p].leaf \in Names /\ unit[p].tomb \in Names
        /\ unit[p].leaf # unit[p].tomb /\ i \in Inodes
    BY <1>1, <1>3, WorkingFact DEF UnitShape, Shape, Hides, Names, TypeOK
  <2>2. names'[unit[p].tomb] = i
    BY <1>1, <1>3, <2>1 DEF TypeOK, Hides
  <2>3. life[i] = IF age[i] = "fresh" THEN "fresh" ELSE "aged"
    BY <1>1, <2>1, LifeOfName
  <2>4. life'[i] = IF age[i] = "fresh" THEN "displaced" ELSE "hidden"
    <3>1. ASSUME NEW k \in Inodes, names'[unit[p].tomb] = k
          PROVE  life'[k] = IF age'[k] = "fresh" THEN "displaced" ELSE "hidden"
      <4>1. \A l \in Leaves : names'[l] # k
        BY <1>1, <2>1, <3>1, TombFact DEF OneName, Names
      <4> QED
        BY <2>1, <3>1, <4>1 DEF life
    <3> QED
      BY <1>3, <2>1, <2>2, <3>1
  <2>5. \A j \in Inodes \ {i}, n \in Names : names'[n] = j <=> names[n] = j
    BY <1>1, <1>3, <2>1, TombFact DEF TypeOK, Hides
  <2>6. life' = [life EXCEPT ![i] = life'[i]]
    BY <1>1, <1>3, <2>1, <2>5, LifeStep
  <2>7. UNCHANGED whole
    BY <1>3 DEF whole
  <2> QED
    BY <2>1, <2>3, <2>4, <2>6, <2>7
    DEF Lifecycle!Next, Lifecycle!Hide, Lifecycle!Displace, Lifecycle!Become
<1>4. CASE Unlinks(p) /\ UNCHANGED <<age, parts>>
  <2> DEFINE i == unit[p].ino
  <2>1. /\ unit[p].tomb \in Tombs /\ unit[p].tomb \in Names /\ i \in Inodes
        /\ names[unit[p].tomb] = i /\ age[i] # "fresh"
    BY <1>1, <1>4, WorkingFact
    DEF UnitShape, Shape, Unlinks, TombHeld, HoldsTomb, NotFresh, FoundOld, Names
  <2>2. life[i] = "hidden"
    BY <1>1, <2>1, LifeOfName
  <2>3. \A n \in Names : names'[n] # i
    BY <1>1, <1>4, <2>1, TombFact DEF TypeOK, Unlinks, OneName
  <2>4. life'[i] = "free"
    BY <2>1, <2>3 DEF life, Names
  <2>5. \A j \in Inodes \ {i}, n \in Names : names'[n] = j <=> names[n] = j
    BY <1>1, <1>4, <2>1, TombFact DEF TypeOK, Unlinks
  <2>6. life' = [life EXCEPT ![i] = life'[i]]
    BY <1>1, <1>4, <2>1, <2>5, LifeStep
  <2>7. UNCHANGED whole
    BY <1>4 DEF whole
  <2> QED
    BY <2>1, <2>2, <2>4, <2>6, <2>7
    DEF Lifecycle!Next, Lifecycle!Reclaim, Lifecycle!Become
<1>5. CASE /\ DeletePart(p) /\ pc[p] = "delete" /\ UNCHANGED names
           /\ age' = [age EXCEPT ![unit[p].ino] =
                        IF @ = "fresh" THEN @ ELSE "touched"]
           /\ parts' = [parts EXCEPT ![unit[p].ino] = @ - 1]
  <2> DEFINE i == unit[p].ino
  <2>1. /\ unit[p].tomb \in Tombs /\ i \in Inodes
        /\ names[unit[p].tomb] = i /\ age[i] # "fresh"
    BY <1>1, <1>5, WorkingFact
    DEF UnitShape, Shape, TombHeld, HoldsTomb, NotFresh, FoundOld
  <2>2. life[i] = "hidden"
    BY <1>1, <2>1, LifeOfName
  <2>3. \A j \in Inodes : age'[j] = "fresh" <=> age[j] = "fresh"
    BY <1>1, <1>5, <2>1 DEF TypeOK
  <2>4. \A j \in Inodes : life'[j] = life[j]
    BY <1>5, <2>3, LifeSame
  <2>5. life' = life
    BY <2>4, LifeIsFunction
  <2>6. /\ parts'[i] # Parts
        /\ \A j \in Inodes \ {i} : parts'[j] = parts[j]
    BY <1>1, <1>5, <2>1 DEF TypeOK
  <2>7. whole' = [whole EXCEPT ![i] = FALSE]
    BY <2>1, <2>6, LifeIsFunction
  <2> QED
    BY <2>1, <2>2, <2>5, <2>7 DEF Lifecycle!Next, Lifecycle!Shred
<1>6. Hides(p) \/ Unlinks(p) => UNCHANGED <<age, parts>>
  BY DEF Hides, Unlinks, Rename, UnlinkTombstone
<1> QED
  BY <1>1, <1>2, <1>3, <1>4, <1>5, <1>6, CandidateNames, CandidateAge

LEMMA UserRefines ==
  ASSUME Cooperative, IndInv, IndInv',
         \/ \E u \in Users : UserStep(u)
         \/ \E l \in Leaves : OwnerStep(l)
  PROVE  [Lifecycle!Next]_<<life, whole>>
<1>1. /\ TypeOK /\ OneName /\ TypeOK' /\ OneName'
  BY DEF IndInv, HeldInv
<1>2. CASE UNCHANGED <<names, age, parts>>
  BY <1>2 DEF life, whole
<1>3. ASSUME NEW l \in Leaves, NEW i \in Inodes, Free(i), names[l] = None,
             names' = [names EXCEPT ![l] = i],
             age' = [age EXCEPT ![i] = "fresh"],
             parts' = [parts EXCEPT ![i] = Parts]
      PROVE  Lifecycle!Next
  <2>1. life[i] = "free"
    BY <1>1, <1>3, LifeOfName DEF Free
  <2>2. names'[l] = i /\ age'[i] = "fresh" /\ l \in Names
    BY <1>1, <1>3 DEF TypeOK, Names
  <2>3. life'[i] = "fresh"
    BY <2>2 DEF life
  <2>4. \A j \in Inodes \ {i} : /\ \A n \in Names : names'[n] = j <=> names[n] = j
                                /\ age'[j] = age[j]
    BY <1>1, <1>3, <2>2, TombFact DEF TypeOK
  <2>5. life' = [life EXCEPT ![i] = life'[i]]
    BY <1>1, <2>4, LifeStep
  <2>6. whole' = [whole EXCEPT ![i] = TRUE]
    <3>1. parts'[i] = Parts /\ \A j \in Inodes \ {i} : parts'[j] = parts[j]
      BY <1>1, <1>3 DEF TypeOK
    <3> QED
      BY <3>1, LifeIsFunction
  <2> QED
    BY <2>1, <2>3, <2>5, <2>6
    DEF Lifecycle!Next, Lifecycle!Create, Lifecycle!Become
<1>4. ASSUME NEW l \in Leaves, names[l] # None,
             names' = [names EXCEPT ![l] = None], UNCHANGED <<age, parts>>
      PROVE  Lifecycle!Next
  <2> DEFINE i == names[l]
  <2>1. i \in Inodes /\ l \in Names
    BY <1>1, <1>4 DEF TypeOK, Names
  <2>2. life[i] \in {"fresh", "aged"}
    BY <1>1, <2>1, LifeOfName
  <2>3. \A n \in Names : names'[n] # i
    BY <1>1, <1>4, <2>1, TombFact DEF TypeOK, OneName
  <2>4. life'[i] = "free"
    BY <2>1, <2>3 DEF life, Names
  <2>5. \A j \in Inodes \ {i}, n \in Names : names'[n] = j <=> names[n] = j
    BY <1>1, <1>4, <2>1, TombFact DEF TypeOK
  <2>6. life' = [life EXCEPT ![i] = life'[i]]
    BY <1>1, <1>4, <2>1, <2>5, LifeStep
  <2>7. UNCHANGED whole
    BY <1>4 DEF whole
  <2> QED
    BY <2>1, <2>2, <2>4, <2>6, <2>7
    DEF Lifecycle!Next, Lifecycle!Discard, Lifecycle!Become
<1>5. ASSUME NEW i \in Inodes, NEW a \in Ages, age' = [age EXCEPT ![i] = a],
             age[i] # "fresh", a # "fresh", UNCHANGED <<names, parts>>
      PROVE  UNCHANGED <<life, whole>>
  <2>1. \A j \in Inodes : age'[j] = "fresh" <=> age[j] = "fresh"
    BY <1>1, <1>5 DEF TypeOK
  <2>2. \A j \in Inodes : life'[j] = life[j]
    BY <1>5, <2>1, LifeSame
  <2> QED
    BY <1>5, <2>2, LifeIsFunction DEF whole
<1>6. ASSUME NEW l \in Leaves, Ripen(l)
      PROVE  Lifecycle!Next \/ UNCHANGED <<life, whole>>
  <2> DEFINE i == names[l]
  <2>1. /\ i \in Inodes /\ l \in Names /\ UNCHANGED <<names, parts>>
        /\ age' = [age EXCEPT ![i] = "old"] /\ age'[i] = "old"
    BY <1>1, <1>6 DEF TypeOK, Names, Ripen
  <2>2. /\ life[i] = IF age[i] = "fresh" THEN "fresh" ELSE "aged"
    BY <1>1, <2>1, LifeOfName
  <2>3. life'[i] = "aged"
    BY <2>1 DEF life
  <2>4. life' = [life EXCEPT ![i] = life'[i]]
    BY <1>1, <2>1, LifeStep DEF TypeOK
  <2>5. UNCHANGED whole
    BY <2>1 DEF whole
  <2>6. CASE age[i] = "fresh"
    BY <2>1, <2>2, <2>3, <2>4, <2>5, <2>6
    DEF Lifecycle!Next, Lifecycle!Ripen, Lifecycle!Become
  <2>7. CASE age[i] # "fresh"
    BY <2>1, <2>2, <2>3, <2>4, <2>5, <2>7, LifeIsFunction
  <2> QED
    BY <2>6, <2>7
<1> QED
  BY <1>1, <1>2, <1>3, <1>4, <1>5, <1>6, UserCache DEF Cooperative

\* Seen through the names in the root, every behaviour of the executor is a
\* behaviour of UnitLifecycle: units are whole while they are visible, and
\* only what was hidden past the age floor is destroyed.
THEOREM PromiseKept ==
  ASSUME Cooperative
  PROVE  Spec => Promise
<1>1. Init => Lifecycle!Init
  <2> SUFFICES ASSUME Init PROVE Lifecycle!Init
    OBVIOUS
  <2>1. \A i \in Inodes, n \in Names : names[n] # i
    BY TombFact DEF Init
  <2>2. life = [i \in Inodes |-> "free"]
    BY <2>1 DEF life, Names
  <2>3. whole = [i \in Inodes |-> TRUE]
    BY DEF Init, whole
  <2> QED
    BY <2>2, <2>3 DEF Lifecycle!Init
<1>2. ASSUME IndInv, [Next]_vars
      PROVE  [Lifecycle!Next]_<<life, whole>>
  <2>1. IndInv'
    BY <1>2, NextInd
  <2>2. CASE UNCHANGED vars
    BY <2>2 DEF vars, cacheVars, life, whole
  <2>3. ASSUME NEW p \in Procs, LoopStep(p)
        PROVE  UNCHANGED <<life, whole>>
    BY <2>3, LoopFrame DEF life, whole
  <2> QED
    BY <1>2, <2>1, <2>2, <2>3, CandidateRefines, UserRefines, NextCases
<1>3. IndInv /\ [Next]_vars => [Lifecycle!Next]_(Lifecycle!vars)
  BY <1>2 DEF Lifecycle!vars
<1> QED
  BY <1>1, <1>3, IndAlways, PTL DEF Spec, Promise, Lifecycle!Spec
============================================================================
