---------------------------- MODULE ManagedCache ----------------------------
(***************************************************************************)
(* The managed-cache executor of beav: several beav processes, the users   *)
(* of the cache and one cache root (src/internal/cleaner/executor/         *)
(* managed_cache.go, managed_cache_atomic.go, managed_cache_journal.go).   *)
(*                                                                         *)
(* A unit is a file or a directory tree directly below the root.  It is    *)
(* deleted rename-first: a record naming the unit, its inode and a random  *)
(* tombstone name is appended to a recovery journal and synced, the unit   *)
(* is renamed to the tombstone, its content is unlinked, the tombstone is  *)
(* removed and the record is completed.  Nothing locks the root: a process *)
(* keeps a descriptor of the unit open and looks for descriptors of other  *)
(* processes in /proc, one process after the other.                        *)
(*                                                                         *)
(* Abstractions.  A unit's device, mount and owner never differ from the   *)
(* root's; its identity is its inode.  The owner-process check, the        *)
(* completeness test of a profile and every I/O error are outcomes the     *)
(* model may choose, each at the price of one of MaxFaults faults.  The    *)
(* identity scan before a unit is opened is advisory: it may miss a        *)
(* descriptor of a file inside the unit.  Both scans before the rename are *)
(* one.                                                                    *)
(***************************************************************************)
EXTENDS Naturals, FiniteSets


CONSTANTS
  Procs,        \* beav processes
  Users,        \* processes of the tools that own the cache
  Leaves,       \* names of units in the cache root
  Tombs,        \* tombstone names
  Inodes,       \* inode numbers, reused once nothing refers to them
  None,         \* no inode, no name
  Euid,         \* Euid[a]: effective user of a process
  Root,         \* the super-user
  Protected,    \* Protected[p]: names whitelisted in p's configuration
  DryRun,       \* processes started with --dry-run
  Parts,        \* files inside a directory unit; 0: the unit is a file
  TornAppends,  \* an interrupted journal append may leave part of a line
  Unpacked,     \* a new unit may bring an old time stamp with it
  MaxCreates,   \* bound: units created
  MaxFaults     \* bound: crashes, signals, I/O errors, refused checks

Actors == Procs \cup Users
Names == Leaves \cup Tombs

ASSUME ConstantsAssumption ==
  /\ Procs \cap Users = {} /\ Leaves \cap Tombs = {}
  /\ None \notin Inodes \cup Names
  /\ Protected \in [Procs -> SUBSET Leaves]
  /\ DryRun \subseteq Procs
  /\ DOMAIN Euid = Actors
  /\ Parts \in Nat /\ MaxCreates \in Nat /\ MaxFaults \in Nat
  /\ TornAppends \in BOOLEAN /\ Unpacked \in BOOLEAN

(***************************************************************************)
(* Age of a unit.  "fresh": never past the age floor.  "old": past it.     *)
(* "touched": past it once, own mtime recent again.  "inside": own mtime   *)
(* past the floor, a file inside written recently.                         *)
(***************************************************************************)
Ages == {"fresh", "old", "touched", "inside"}

Records == [leaf : Leaves, tomb : Tombs, ino : Inodes, complete : BOOLEAN]

Units == [leaf : Leaves \cup {None}, tomb : Tombs \cup {None},
          ino : Inodes \cup {None}, renamed : BOOLEAN, resumed : BOOLEAN,
          seen : Ages]

NoUnit == [leaf |-> None, tomb |-> None, ino |-> None,
           renamed |-> FALSE, resumed |-> FALSE, seen |-> "old"]

VARIABLES
  names,      \* names[n]: inode the name n of the root refers to
  age,        \* age[i]
  parts,      \* parts[i]: files left inside unit i
  sticky,     \* sticky[i]: unit i holds something the walker never removes
  uopen,      \* uopen[u]: unit in which user u has a file open
  journal,    \* complete lines of the recovery journal
  tail,       \* "clean": ends in a newline; "torn": ends in part of a line;
              \* "corrupt": a line that does not parse lies before the end
  pc,         \* where each beav process is
  unit,       \* unit[p]: candidate p works on
  recs,       \* recs[p]: loaded records p has still to resume
  handled,    \* handled[p]: names p leaves to recovery
  todo,       \* todo[p]: enumerated names p has still to visit
  unscanned,  \* unscanned[p]: processes p's scan has not reached
  watch,      \* history: users that held p's unit since p opened it
  created,    \* units created so far
  faults      \* faults so far

cacheVars == <<names, age, parts, sticky>>
journalVars == <<journal, tail>>
loopVars == <<recs, handled, todo>>
envVars == <<uopen, created>>
vars == <<cacheVars, journalVars, envVars, pc, unit, loopVars, unscanned,
          watch, faults>>

----------------------------------------------------------------------------
(***************************************************************************)
(* Control points.  At the points in Holding the process keeps a           *)
(* descriptor of its unit; at those in Cleared it has also found, with the *)
(* descriptor held, that no process it can see has the unit open, and      *)
(* nothing but the unit's identity is checked again.                       *)
(***************************************************************************)
Cleared == {"rename", "verify", "delete", "unlink", "complete"}
Holding == Cleared \cup {"scan", "append", "restat", "recapture", "rescan"}
Points == Holding \cup {"idle", "resume", "select", "open"}

Young(a) == a \in {"fresh", "touched"}

\* Records whose latest line for their key is not complete.
Pending(j) == {r \in j : ~r.complete /\ [r EXCEPT !.complete = TRUE] \notin j}

\* A process of another user is not inspected, except by root.
Inspects(p, a) == Euid[p] = Root \/ Euid[a] = Euid[p]
\* Mutant: only beav's own processes are looked at.
VisibleOnlyBeav(p) == {a \in Procs \ {p} : Inspects(p, a)}
Visible(p) == {a \in Actors \ {p} : Inspects(p, a)}

\* Mutant: beav closes the unit once it has been captured.
HoldsNothingInBeav(a, i) == a \in Users /\ uopen[a] = i
Holds(a, i) ==
  \/ a \in Procs /\ pc[a] \in Holding /\ unit[a].ino = i
  \/ a \in Users /\ uopen[a] = i

Linked(i) == \E n \in Names : names[n] = i
Free(i) == ~Linked(i) /\ \A a \in Actors : ~Holds(a, i)

----------------------------------------------------------------------------
Init ==
  /\ names = [n \in Names |-> None]
  /\ age = [i \in Inodes |-> "fresh"]
  /\ parts = [i \in Inodes |-> Parts]
  /\ sticky = [i \in Inodes |-> FALSE]
  /\ uopen = [u \in Users |-> None]
  /\ journal = {} /\ tail = "clean"
  /\ pc = [p \in Procs |-> "idle"]
  /\ unit = [p \in Procs |-> NoUnit]
  /\ recs = [p \in Procs |-> {}]
  /\ handled = [p \in Procs |-> {}]
  /\ todo = [p \in Procs |-> {}]
  /\ unscanned = [p \in Procs |-> {}]
  /\ watch = [p \in Procs |-> {}]
  /\ created = 0 /\ faults = 0

----------------------------------------------------------------------------
(***************************************************************************)
(* Steps shared by the actions of a beav process.                          *)
(***************************************************************************)
Goto(p, to) == pc' = [pc EXCEPT ![p] = to]

NoFault == UNCHANGED faults
Fault == faults < MaxFaults /\ faults' = faults + 1

\* processManagedCandidate returns: the descriptor is closed.
Release(p) ==
  /\ Goto(p, IF unit[p].resumed THEN "resume" ELSE "select")
  /\ unit' = [unit EXCEPT ![p] = NoUnit]
  /\ unscanned' = [unscanned EXCEPT ![p] = {}]
  /\ watch' = [watch EXCEPT ![p] = {}]

\* A descriptor scan starts: no process has been inspected.
StartScan(p, at) ==
  /\ Goto(p, at)
  /\ unscanned' = [unscanned EXCEPT ![p] = Visible(p)]

\* Mutant: the line is buffered and never reaches the disk.
AppendLineLost(r) == r \in Records /\ UNCHANGED journalVars

\* managedJournal.append: O_APPEND puts the line behind whatever ends the file.
AppendLine(r) ==
  IF tail = "clean"
  THEN journal' = journal \cup {r} /\ UNCHANGED tail
  ELSE tail' = "corrupt" /\ UNCHANGED journal

TearTail == tail' = (IF tail = "clean" THEN "torn" ELSE tail)

\* append returns an error: nothing, part of the line or all of it was written.
AppendFails(r) ==
  /\ Fault
  /\ \/ UNCHANGED journalVars
     \/ AppendLine(r)
     \/ TornAppends /\ TearTail /\ UNCHANGED journal

----------------------------------------------------------------------------
(***************************************************************************)
(* Run: load the journal, resume its pending records, visit the names.     *)
(***************************************************************************)
\* Mutant: any record of the journal, completed or not, defers its name.
DeferredByAny(pending) == {r.leaf : r \in pending \cup journal}

\* Names with a pending record are left to recovery.
Deferred(pending) == {r.leaf : r \in pending}

\* A journal with an unparsable line fails the run before it does anything.
Start(p) ==
  /\ pc[p] = "idle"
  /\ p \in DryRun \/ tail # "corrupt"
  /\ LET pending == IF p \in DryRun THEN {} ELSE Pending(journal)
     IN /\ recs' = [recs EXCEPT ![p] = pending]
        /\ handled' = [handled EXCEPT ![p] = Deferred(pending)]
  /\ Goto(p, "resume")
  /\ NoFault
  /\ UNCHANGED <<cacheVars, journalVars, envVars, unit, todo, unscanned, watch>>

Candidate(p, l, t, i, renamed, resumed) ==
  unit' = [unit EXCEPT ![p] =
             [leaf |-> l, tomb |-> t, ino |-> i, renamed |-> renamed,
              resumed |-> resumed, seen |-> "old"]]

\* Mutant: the age floor is applied to tombstones as well.
EligibleTombToo(p, l, i, renamed) ==
  l \notin Protected[p] /\ ~Young(age[i]) /\ renamed \in BOOLEAN

\* The checks made by name: whitelist on the original path, and the age floor
\* unless the unit has already been renamed.
Eligible(p, l, i, renamed) ==
  /\ l \notin Protected[p]
  /\ renamed \/ ~Young(age[i])

AdvisoryBusy(p, i) == \E a \in Visible(p) : Holds(a, i)

\* The unit is left alone, or processManagedCandidate goes on to open it.
Consider(p, l, t, i, renamed, resumed) ==
  \/ /\ ~Eligible(p, l, i, renamed) \/ AdvisoryBusy(p, i)
     /\ UNCHANGED <<pc, unit>>
  \/ /\ Eligible(p, l, i, renamed)
     /\ Candidate(p, l, t, i, renamed, resumed)
     /\ Goto(p, "open")

\* resumeManagedRecords, one record.
Resume(p) ==
  /\ pc[p] = "resume"
  /\ \E r \in recs[p] :
       /\ recs' = [recs EXCEPT ![p] = @ \ {r}]
       /\ \/ /\ names[r.leaf] = r.ino /\ names[r.tomb] = None
             /\ Consider(p, r.leaf, r.tomb, r.ino, FALSE, TRUE)
          \/ /\ names[r.tomb] = r.ino /\ names[r.leaf] = None
             /\ Consider(p, r.leaf, r.tomb, r.ino, TRUE, TRUE)
          \/ /\ \/ names[r.leaf] # r.ino /\ names[r.tomb] # r.ino
                \/ names[r.leaf] # None /\ names[r.tomb] # None
             /\ UNCHANGED <<pc, unit>>
  /\ NoFault
  /\ UNCHANGED <<cacheVars, journalVars, envVars, handled, todo, unscanned,
                 watch>>

\* Tombstone names and names with a pending record are not visited.
Enumerate(p) ==
  /\ pc[p] = "resume" /\ recs[p] = {}
  /\ todo' = [todo EXCEPT ![p] =
                {l \in Leaves : names[l] # None} \ handled[p]]
  /\ Goto(p, "select")
  /\ NoFault
  /\ UNCHANGED <<cacheVars, journalVars, envVars, unit, recs, handled,
                 unscanned, watch>>

Select(p) ==
  /\ pc[p] = "select"
  /\ \E l \in todo[p] :
       /\ todo' = [todo EXCEPT ![p] = @ \ {l}]
       /\ \/ names[l] = None /\ UNCHANGED <<pc, unit>>
          \/ names[l] # None /\ Consider(p, l, None, names[l], FALSE, FALSE)
  /\ NoFault
  /\ UNCHANGED <<cacheVars, journalVars, envVars, recs, handled, unscanned,
                 watch>>

Finish(p) ==
  /\ pc[p] = "select" /\ todo[p] = {}
  /\ Goto(p, "idle")
  /\ handled' = [handled EXCEPT ![p] = {}]
  /\ NoFault
  /\ UNCHANGED <<cacheVars, journalVars, envVars, unit, recs, todo, unscanned,
                 watch>>

----------------------------------------------------------------------------
(***************************************************************************)
(* processManagedCandidate.                                                *)
(***************************************************************************)
UnitName(p) == IF unit[p].renamed THEN unit[p].tomb ELSE unit[p].leaf

\* Open by name, compare identities, capture the tree, start the scan.
OpenUnit(p) ==
  /\ pc[p] = "open"
  /\ IF names[UnitName(p)] = unit[p].ino
     THEN /\ unit' = [unit EXCEPT ![p].seen = age[unit[p].ino]]
          /\ StartScan(p, "scan")
          /\ watch' = [watch EXCEPT ![p] =
                         {u \in Users : uopen[u] = unit[p].ino}]
     ELSE Release(p)
  /\ NoFault
  /\ UNCHANGED <<cacheVars, journalVars, envVars, loopVars>>

\* One process of /proc: a descriptor of the unit ends the candidate.
Inspect(p) ==
  /\ pc[p] \in {"scan", "rescan"}
  /\ \E a \in unscanned[p] :
       IF Holds(a, unit[p].ino)
       THEN Release(p)
       ELSE /\ unscanned' = [unscanned EXCEPT ![p] = @ \ {a}]
            /\ UNCHANGED <<pc, unit, watch>>
  /\ NoFault
  /\ UNCHANGED <<cacheVars, journalVars, envVars, loopVars>>

AfterScan(p) ==
  CASE pc[p] = "rescan" -> "rename"
    [] pc[p] = "scan" /\ unit[p].tomb = None -> "append"
    [] pc[p] = "scan" /\ unit[p].tomb # None /\ unit[p].renamed -> "verify"
    [] OTHER -> "restat"

ScanDone(p) ==
  /\ pc[p] \in {"scan", "rescan"} /\ unscanned[p] = {}
  /\ IF p \in DryRun
     THEN Release(p)
     ELSE Goto(p, AfterScan(p)) /\ UNCHANGED <<unit, unscanned, watch>>
  /\ NoFault
  /\ UNCHANGED <<cacheVars, journalVars, envVars, loopVars>>

\* A random tombstone name has never been used.
UnusedTomb(t) ==
  /\ names[t] = None
  /\ \A r \in journal : r.tomb # t
  /\ \A q \in Procs : unit[q].tomb # t

RecordOf(p, t, complete) ==
  [leaf |-> unit[p].leaf, tomb |-> t, ino |-> unit[p].ino,
   complete |-> complete]

\* Without an unused name left the model, not the program, ends the candidate.
AppendPending(p) ==
  /\ pc[p] = "append"
  /\ \/ \E t \in Tombs :
          /\ UnusedTomb(t)
          /\ \/ /\ AppendLine(RecordOf(p, t, FALSE))
                /\ NoFault
                /\ unit' = [unit EXCEPT ![p].tomb = t]
                /\ Goto(p, "restat")
                /\ UNCHANGED <<unscanned, watch>>
             \/ AppendFails(RecordOf(p, t, FALSE)) /\ Release(p)
     \/ /\ \A t \in Tombs : ~UnusedTomb(t)
        /\ Release(p) /\ NoFault /\ UNCHANGED journalVars
  /\ UNCHANGED <<cacheVars, envVars, loopVars>>

\* Mutant: the second stat only compares identities.
StillThere(i) == age[i] \in Ages

\* The age rule is applied again to what the name refers to now.
StillOld(i) == ~Young(age[i])

Restat(p) ==
  /\ pc[p] = "restat"
  /\ IF names[unit[p].leaf] = unit[p].ino /\ StillOld(unit[p].ino)
     THEN Goto(p, "recapture") /\ UNCHANGED <<unit, unscanned, watch>>
     ELSE Release(p)
  /\ NoFault
  /\ UNCHANGED <<cacheVars, journalVars, envVars, loopVars>>

\* The tree is captured again, compared and scanned.  A capture starts from the
\* state the unit was opened in, so for a unit that is a file the comparison is
\* the one Restat stands for; the two steps together are what the code checks.
Recapture(p) ==
  /\ pc[p] = "recapture"
  /\ IF age[unit[p].ino] = unit[p].seen
     THEN StartScan(p, "rescan") /\ UNCHANGED <<unit, watch>>
     ELSE Release(p)
  /\ NoFault
  /\ UNCHANGED <<cacheVars, journalVars, envVars, loopVars>>

\* renameat2 with RENAME_NOREPLACE moves whatever the name refers to by now.
Rename(p) ==
  /\ pc[p] = "rename"
  /\ LET l == unit[p].leaf
         t == unit[p].tomb
     IN IF names[l] # None /\ names[t] = None
        THEN /\ names' = [names EXCEPT ![l] = None, ![t] = names[l]]
             /\ Goto(p, "verify")
             /\ UNCHANGED <<unit, unscanned, watch>>
        ELSE Release(p) /\ UNCHANGED names
  /\ NoFault
  /\ UNCHANGED <<age, parts, sticky, journalVars, envVars, loopVars>>

\* Mutant: what was renamed is not verified.
TombHoldsAnything(p) == names[unit[p].tomb] # None
TombHoldsUnit(p) == names[unit[p].tomb] = unit[p].ino

Verify(p) ==
  /\ pc[p] = "verify"
  /\ IF TombHoldsUnit(p)
     THEN Goto(p, "delete") /\ UNCHANGED <<unit, unscanned, watch>>
     ELSE Release(p)
  /\ NoFault
  /\ UNCHANGED <<cacheVars, journalVars, envVars, loopVars>>

\* Mutant: off by one at the last file.
PartsLeftOrNone(p) == parts[unit[p].ino] >= 0
PartsLeft(p) == parts[unit[p].ino] > 0

\* The walker of deleteManagedDirectory unlinks one file through the held
\* descriptor, or finds that another process of beav has changed it.
DeletePart(p) ==
  /\ pc[p] = "delete" /\ PartsLeft(p)
  /\ LET i == unit[p].ino
     IN \/ /\ parts' = [parts EXCEPT ![i] = @ - 1]
           /\ age' = [age EXCEPT ![i] = IF @ = "fresh" THEN @ ELSE "touched"]
           /\ UNCHANGED <<pc, unit, unscanned, watch>>
        \/ /\ \E q \in Procs \ {p} : pc[q] = "delete" /\ unit[q].ino = i
           /\ Release(p) /\ UNCHANGED <<parts, age>>
  /\ NoFault
  /\ UNCHANGED <<names, sticky, journalVars, envVars, loopVars>>

\* removeManagedTombstone: the name still refers to the unit, and it is empty.
CheckTombstone(p) ==
  /\ pc[p] = "delete" /\ ~PartsLeft(p)
  /\ IF TombHoldsUnit(p) /\ ~sticky[unit[p].ino]
     THEN Goto(p, "unlink") /\ UNCHANGED <<unit, unscanned, watch>>
     ELSE Release(p)
  /\ NoFault
  /\ UNCHANGED <<cacheVars, journalVars, envVars, loopVars>>

\* unlinkat removes what the name refers to by now, unless it is not empty.
Removable(i) == i # None /\ parts[i] = 0 /\ ~sticky[i]

UnlinkTombstone(p) ==
  /\ pc[p] = "unlink"
  /\ IF Removable(names[unit[p].tomb])
     THEN /\ names' = [names EXCEPT ![unit[p].tomb] = None]
          /\ \/ Goto(p, "complete") /\ NoFault /\ UNCHANGED <<unit, unscanned, watch>>
             \/ Fault /\ Release(p)     \* the parent directory is not synced
     ELSE Release(p) /\ NoFault /\ UNCHANGED names
  /\ UNCHANGED <<age, parts, sticky, journalVars, envVars, loopVars>>

AppendComplete(p) ==
  /\ pc[p] = "complete"
  /\ LET r == RecordOf(p, unit[p].tomb, TRUE)
     IN (AppendLine(r) /\ NoFault) \/ AppendFails(r)
  /\ Release(p)
  /\ UNCHANGED <<cacheVars, envVars, loopVars>>

----------------------------------------------------------------------------
(***************************************************************************)
(* Faults.                                                                 *)
(***************************************************************************)
\* A check refuses the candidate or a system call on it fails: the owner
\* program runs, /proc cannot be read, the unit is incomplete, an I/O error.
Refuse(p) ==
  /\ pc[p] \in {"open", "scan", "restat", "recapture", "rescan", "rename",
                "verify", "delete", "unlink"}
  /\ Fault
  /\ Release(p)
  /\ UNCHANGED <<cacheVars, journalVars, envVars, loopVars>>

Forget(p) ==
  /\ Goto(p, "idle")
  /\ unit' = [unit EXCEPT ![p] = NoUnit]
  /\ unscanned' = [unscanned EXCEPT ![p] = {}]
  /\ watch' = [watch EXCEPT ![p] = {}]
  /\ recs' = [recs EXCEPT ![p] = {}]
  /\ handled' = [handled EXCEPT ![p] = {}]
  /\ todo' = [todo EXCEPT ![p] = {}]

\* A signal is noticed between two candidates: Run returns the context's error.
Cancel(p) ==
  /\ pc[p] \in {"resume", "select"}
  /\ Fault
  /\ Forget(p)
  /\ UNCHANGED <<cacheVars, journalVars, envVars>>

\* The process dies; an append in progress may have written part of its line.
Crash(p) ==
  /\ pc[p] # "idle"
  /\ Fault
  /\ Forget(p)
  /\ \/ UNCHANGED tail
     \/ TornAppends /\ pc[p] \in {"append", "complete"} /\ TearTail
  /\ UNCHANGED <<cacheVars, envVars, journal>>

----------------------------------------------------------------------------
(***************************************************************************)
(* The tools that own the cache, and time.                                 *)
(***************************************************************************)
procVars == <<journalVars, pc, unit, loopVars, unscanned, faults>>

\* An archive that is unpacked sets the time stamps it recorded.
NewAges == IF Unpacked THEN {"fresh", "old"} ELSE {"fresh"}

UserCreate(l) ==
  /\ names[l] = None /\ created < MaxCreates
  /\ \E i \in Inodes, s \in BOOLEAN, a \in NewAges :
       /\ Free(i)
       /\ s => Parts > 0
       /\ names' = [names EXCEPT ![l] = i]
       /\ age' = [age EXCEPT ![i] = a]
       /\ parts' = [parts EXCEPT ![i] = Parts]
       /\ sticky' = [sticky EXCEPT ![i] = s]
  /\ created' = created + 1
  /\ UNCHANGED <<uopen, procVars, watch>>

\* The owner removes its unit; with UserCreate, it replaces it.
UserRemove(l) ==
  /\ names[l] # None
  /\ names' = [names EXCEPT ![l] = None]
  /\ UNCHANGED <<age, parts, sticky, envVars, procVars, watch>>

UserOpen(u, l) ==
  /\ uopen[u] = None /\ names[l] # None
  /\ uopen' = [uopen EXCEPT ![u] = names[l]]
  /\ UNCHANGED <<cacheVars, created, procVars, watch>>

UserClose(u) ==
  /\ uopen[u] # None
  /\ uopen' = [uopen EXCEPT ![u] = None]
  /\ watch' = [p \in Procs |-> watch[p] \ {u}]
  /\ UNCHANGED <<cacheVars, created, procVars>>

\* A write to the unit, or in place to a file inside a directory unit.
UserWrite(u) ==
  /\ uopen[u] # None
  /\ \E to \in {"touched", "inside"} :
       /\ to = "inside" => Parts > 0 /\ age[uopen[u]] # "touched"
       /\ age[uopen[u]] # "fresh"
       /\ age' = [age EXCEPT ![uopen[u]] = to]
  /\ UNCHANGED <<names, parts, sticky, envVars, procVars, watch>>

\* The age floor is 30 days: no unit passes it while a run is under way.
Ripen(l) ==
  /\ names[l] # None /\ age[names[l]] # "old"
  /\ \A p \in Procs : pc[p] = "idle"
  /\ age' = [age EXCEPT ![names[l]] = "old"]
  /\ UNCHANGED <<names, parts, sticky, envVars, procVars, watch>>

----------------------------------------------------------------------------
ProcStep(p) ==
  \/ Resume(p) \/ Enumerate(p) \/ Select(p) \/ Finish(p)
  \/ OpenUnit(p) \/ Inspect(p) \/ ScanDone(p) \/ AppendPending(p)
  \/ Restat(p) \/ Recapture(p) \/ Rename(p) \/ Verify(p)
  \/ DeletePart(p) \/ CheckTombstone(p) \/ UnlinkTombstone(p)
  \/ AppendComplete(p)

FaultStep(p) == Refuse(p) \/ Cancel(p) \/ Crash(p)

UserStep(u) ==
  \/ \E l \in Leaves : UserOpen(u, l)
  \/ UserClose(u) \/ UserWrite(u)

OwnerStep(l) == UserCreate(l) \/ UserRemove(l) \/ Ripen(l)

Next ==
  \/ \E p \in Procs : Start(p) \/ ProcStep(p) \/ FaultStep(p)
  \/ \E u \in Users : UserStep(u)
  \/ \E l \in Leaves : OwnerStep(l)

Spec == Init /\ [][Next]_vars

(***************************************************************************)
(* Fairness: beav is run again and again, a run that has been started goes *)
(* on, and an owner that has opened a unit closes it some day.             *)
(***************************************************************************)
Fairness ==
  /\ \A p \in Procs : WF_vars(Start(p)) /\ WF_vars(ProcStep(p))
  /\ \A u \in Users : WF_vars(UserClose(u))

FairSpec == Spec /\ Fairness

----------------------------------------------------------------------------
(***************************************************************************)
(* Properties.                                                             *)
(***************************************************************************)
\* Every variable keeps its type.
TypeOK ==
  /\ names \in [Names -> Inodes \cup {None}]
  /\ age \in [Inodes -> Ages]
  /\ parts \in [Inodes -> 0..Parts]
  /\ sticky \in [Inodes -> BOOLEAN]
  /\ uopen \in [Users -> Inodes \cup {None}]
  /\ journal \subseteq Records
  /\ tail \in {"clean", "torn", "corrupt"}
  /\ pc \in [Procs -> Points]
  /\ unit \in [Procs -> Units]
  /\ recs \in [Procs -> SUBSET Records]
  /\ handled \in [Procs -> SUBSET Leaves]
  /\ todo \in [Procs -> SUBSET Leaves]
  /\ unscanned \in [Procs -> SUBSET Actors]
  /\ watch \in [Procs -> SUBSET Users]
  /\ created \in Nat /\ faults \in Nat

\* Two processes of beav that inspect each other never both believe they are
\* alone with the same unit, although nothing locks the root: each opens the
\* unit before it looks for the other's descriptor.
Exclusive ==
  \A p, q \in Procs :
    (p # q /\ Inspects(p, q) /\ Inspects(q, p))
      => ~ /\ pc[p] \in Cleared /\ pc[q] \in Cleared
           /\ unit[p].ino = unit[q].ino

\* A name that beav has hidden is always covered by a pending record in the
\* journal, whatever crashes: recovery is never asked to trust a pathname.
WriteAhead ==
  \A t \in Tombs :
    names[t] # None => \E r \in Pending(journal) : r.tomb = t

\* A user that has had the unit open since before beav opened it, and whose
\* descriptors beav inspects, keeps the unit from being renamed or deleted.
UseBlocks ==
  \A p \in Procs :
    pc[p] \in Cleared => \A u \in watch[p] : ~Inspects(p, u)

\* A step of beav (one that moves a process) never unlinks a unit that has
\* never been past the age floor, nor anything in it, even if the unit has
\* taken the name and the inode number of one that was.
NoFreshLoss ==
  [][\A i \in Inodes :
       (age[i] = "fresh" /\ Linked(i)) =>
         /\ parts'[i] = parts[i]
         /\ pc' # pc => Linked(i)']_vars

\* What a run that died has hidden is removed by a later one, unless its name
\* has been taken again or it holds something the walker leaves in place.
Stranded(t) ==
  /\ names[t] # None /\ ~sticky[names[t]]
  /\ \E r \in Pending(journal) :
       r.tomb = t /\ r.ino = names[t] /\ names[r.leaf] = None
Recovered == \A t \in Tombs : Stranded(t) ~> ~Stranded(t)

\* A unit that stays past the age floor, closed and deletable is not left
\* behind for ever, except behind a pending record of another unit: such a
\* record keeps its name out of every later run.
Blocked(l) ==
  \E r \in Pending(journal) :
    r.leaf = l /\ ~(r.ino = names[l] /\ names[r.tomb] = None)
Neglected(l) ==
  /\ names[l] # None /\ ~Blocked(l)
  /\ \E p \in Procs \ DryRun : l \notin Protected[p]
  /\ age[names[l]] = "old" /\ ~sticky[names[l]]
  /\ \A u \in Users : uopen[u] # names[l]
Collected == \A l \in Leaves : []<>~Neglected(l)

(***************************************************************************)
(* The promise of UnitLifecycle is kept.                                   *)
(***************************************************************************)
life == [i \in Inodes |->
  IF \E l \in Leaves : names[l] = i
  THEN IF age[i] = "fresh" THEN "fresh" ELSE "aged"
  ELSE IF \E t \in Tombs : names[t] = i
       THEN IF age[i] = "fresh" THEN "displaced" ELSE "hidden"
       ELSE "free"]

whole == [i \in Inodes |-> parts[i] = Parts]

Lifecycle == INSTANCE UnitLifecycle

Promise == Lifecycle!Spec
============================================================================
