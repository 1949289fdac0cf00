---------------------------- MODULE JournalFile ----------------------------
(***************************************************************************)
(* The recovery journal as a file: managed_cache_journal.go of             *)
(* src/internal/cleaner/executor.  Several beav processes, some of them    *)
(* root working for the target user, make the directories below the home,  *)
(* create or open the file, load it and append to it.  Nothing locks any   *)
(* of it.  ManagedCache takes the journal as a set of records with a tail; *)
(* here the system calls are steps of their own, and what a power failure  *)
(* leaves is what had been synced.                                         *)
(*                                                                         *)
(* Modelled failures: a system call that fails, a short write, a process   *)
(* killed, a power failure.                                                *)
(*                                                                         *)
(* Abstractions.  A line is two pieces, the second of which ends it; a     *)
(* write carries both or, short, the first.  fstatat and openat of a       *)
(* directory are one step, and so are fchown, fsync and the fstat that     *)
(* verifies it.  Ownership survives a power failure.                       *)
(***************************************************************************)
EXTENDS Naturals, SequencesExt

CONSTANTS
  Procs,      \* beav processes
  Root,       \* those that run as root
  Keys,       \* profile, root, leaf and tombstone of a record
  Files,      \* inode numbers for the journal
  Depth,      \* directories between the home and the journal
  None,       \* no key, no file
  Failures,   \* what may go wrong: "error", "short", "kill", "power"
  MaxFaults   \* bound: how often

Records == [key : Keys, complete : BOOLEAN]
Pieces == [rec : Records, end : BOOLEAN]
Levels == 1..Depth
Owners == {"target", "root"}

ASSUME JournalAssumption ==
  /\ Root \subseteq Procs /\ None \notin Keys \cup Files
  /\ Depth \in Nat \ {0} /\ MaxFaults \in Nat
  /\ Failures \subseteq {"error", "short", "kill", "power"}

VARIABLES
  depth,     \* directories that exist, counted from the home
  synced,    \* levels whose entry in the level above is on disk
  owner,     \* owner[d] of the directory at level d
  link,      \* file the journal's name refers to
  disk,      \* file the name refers to on disk
  text,      \* text[f]: pieces written to file f
  flushed,   \* flushed[f]: how many of them are on disk
  fowner,    \* fowner[f]
  pc,        \* where each process is
  level,     \* level[p]: directories p has opened
  gone,      \* gone[p]: the last of them has been removed since
  made,      \* made[p]: p created what it is opening
  fd,        \* fd[p]: the journal p has open
  view,      \* view[p]: keys p may complete
  rec,       \* rec[p]: record p is appending
  used,      \* keys taken
  acked,     \* history: records whose append has returned without an error
  slips,     \* history: what has happened of "glued", "passed", "dropped"
  faults

treeVars == <<depth, synced, owner>>
fileVars == <<link, disk, text, flushed, fowner>>
procVars == <<level, gone, made, fd>>
workVars == <<view, rec, used>>
vars == <<treeVars, fileVars, pc, procVars, workVars, acked, slips, faults>>

NoRecord == [key |-> None, complete |-> FALSE]

----------------------------------------------------------------------------
(***************************************************************************)
(* loadManagedJournal.                                                     *)
(***************************************************************************)
Ends(t) == {i \in DOMAIN t : t[i].end}

\* The line that ends at i is a record and nothing else.
Sound(t, i) ==
  /\ i > 1 /\ t[i - 1] = [rec |-> t[i].rec, end |-> FALSE]
  /\ i > 2 => t[i - 2].end

\* Mutant: what follows the last newline is parsed as well.
ReadableToTheEnd(t) ==
  (t # <<>> => t[Len(t)].end) /\ \A i \in Ends(t) : Sound(t, i)

\* One line that does not parse fails the load; what follows the last newline
\* is dropped.
Readable(t) == \A i \in Ends(t) : Sound(t, i)

\* The latest record of every key.
Loaded(t) ==
  {t[i].rec : i \in {j \in Ends(t) :
                       \A k \in Ends(t) : t[k].rec.key = t[j].rec.key => k <= j}}

Pending(t) == {r.key : r \in {s \in Loaded(t) : ~s.complete}}

----------------------------------------------------------------------------
Init ==
  /\ depth \in 0..Depth /\ synced = 1..depth
  /\ owner \in [Levels -> Owners] /\ \A d \in Levels : d > depth => owner[d] = "target"
  /\ link = None /\ disk = None
  /\ text = [f \in Files |-> <<>>] /\ flushed = [f \in Files |-> 0]
  /\ fowner = [f \in Files |-> "target"]
  /\ pc = [p \in Procs |-> "idle"]
  /\ level = [p \in Procs |-> 0]
  /\ gone = [p \in Procs |-> FALSE] /\ made = [p \in Procs |-> FALSE]
  /\ fd = [p \in Procs |-> None]
  /\ view = [p \in Procs |-> {}] /\ rec = [p \in Procs |-> NoRecord]
  /\ used = {} /\ acked = {} /\ slips = {} /\ faults = 0

Goto(p, to) == pc' = [pc EXCEPT ![p] = to]
Own(p) == IF p \in Root THEN "root" ELSE "target"
NoFault == UNCHANGED faults
Fault(kind) == kind \in Failures /\ faults < MaxFaults /\ faults' = faults + 1

\* The journal is given up or closed; p's descriptors are closed.
End(p) ==
  /\ Goto(p, "idle")
  /\ level' = [level EXCEPT ![p] = 0] /\ gone' = [gone EXCEPT ![p] = FALSE]
  /\ made' = [made EXCEPT ![p] = FALSE] /\ fd' = [fd EXCEPT ![p] = None]
  /\ view' = [view EXCEPT ![p] = {}] /\ rec' = [rec EXCEPT ![p] = NoRecord]
  /\ UNCHANGED used

Start(p) ==
  /\ pc[p] = "idle"
  /\ Goto(p, "look") /\ NoFault
  /\ UNCHANGED <<treeVars, fileVars, procVars, workVars, acked, slips>>

----------------------------------------------------------------------------
(***************************************************************************)
(* openManagedDirTree: one component after the other.                      *)
(***************************************************************************)
Missing(p) == gone[p] \/ depth <= level[p]

\* fstatat finds the next component or not.
Look(p) ==
  /\ pc[p] = "look" /\ level[p] < Depth
  /\ Goto(p, IF Missing(p) THEN "mkdir" ELSE "enter")
  /\ made' = [made EXCEPT ![p] = FALSE]
  /\ NoFault
  /\ UNCHANGED <<treeVars, fileVars, level, gone, fd, workVars, acked, slips>>

\* mkdirat; another process may have been faster.
Mkdir(p) ==
  /\ pc[p] = "mkdir"
  /\ \/ /\ gone[p] /\ End(p)
        /\ UNCHANGED treeVars
     \/ /\ ~Missing(p) /\ Goto(p, "enter")
        /\ UNCHANGED <<treeVars, procVars, workVars>>
     \/ /\ ~gone[p] /\ depth = level[p]
        /\ depth' = depth + 1
        /\ owner' = [owner EXCEPT ![depth + 1] = Own(p)]
        /\ made' = [made EXCEPT ![p] = TRUE]
        /\ Goto(p, "enter")
        /\ UNCHANGED <<synced, level, gone, fd, workVars>>
  /\ NoFault /\ UNCHANGED <<fileVars, acked, slips>>

\* Mutant: the journal is looked for one level too high.
AdvanceShort(p, d) ==
  /\ Goto(p, IF d + 1 = Depth THEN "journal" ELSE "look")
  /\ slips' = IF ~made[p] /\ d \notin synced THEN slips \cup {"passed"} ELSE slips

\* The component at level d is done with: on to the next, or to the journal.
\* A directory found there is not synced, whoever was to do that.
Advance(p, d) ==
  /\ Goto(p, IF d = Depth THEN "journal" ELSE "look")
  /\ slips' = IF ~made[p] /\ d \notin synced THEN slips \cup {"passed"} ELSE slips

\* The component is opened; only root gets into a directory that is root's.
Enter(p) ==
  /\ pc[p] = "enter"
  /\ LET d == level[p] + 1
     IN IF Missing(p) \/ (owner[d] = "root" /\ p \notin Root)
        THEN End(p) /\ UNCHANGED slips
        ELSE /\ level' = [level EXCEPT ![p] = d]
             /\ IF owner[d] # "target" THEN Goto(p, "chown") /\ UNCHANGED slips
                ELSE IF made[p] THEN Goto(p, "sync") /\ UNCHANGED slips
                ELSE Advance(p, d)
             /\ UNCHANGED <<gone, made, fd, workVars>>
  /\ NoFault /\ UNCHANGED <<treeVars, fileVars, acked>>

Chown(p) ==
  /\ pc[p] = "chown"
  /\ owner' = IF gone[p] THEN owner ELSE [owner EXCEPT ![level[p]] = "target"]
  /\ IF made[p] THEN Goto(p, "sync") /\ UNCHANGED slips
     ELSE Advance(p, level[p])
  /\ NoFault
  /\ UNCHANGED <<depth, synced, fileVars, procVars, workVars, acked>>

\* A directory p made and cannot give away is removed, if it is still empty.
ChownFails(p) ==
  /\ pc[p] = "chown" /\ Fault("error")
  /\ LET d == level[p]
     IN IF made[p] /\ depth = d /\ (d = Depth => link = None)
        THEN /\ depth' = d - 1 /\ synced' = synced \ {d}
             /\ Goto(p, "idle")
             /\ level' = [level EXCEPT ![p] = 0]
             /\ gone' = [q \in Procs |-> q # p /\ (gone[q] \/ level[q] = d)]
             /\ made' = [made EXCEPT ![p] = FALSE]
             /\ UNCHANGED <<fd, workVars>>
        ELSE UNCHANGED <<depth, synced>> /\ End(p)
  /\ UNCHANGED <<owner, fileVars, acked, slips>>

\* The new entry in the directory above is synced.
SyncDir(p) ==
  /\ pc[p] = "sync"
  /\ synced' = synced \cup {level[p]}
  /\ Advance(p, level[p])
  /\ NoFault
  /\ UNCHANGED <<depth, owner, fileVars, procVars, workVars, acked>>

----------------------------------------------------------------------------
(***************************************************************************)
(* openManagedJournal.                                                     *)
(***************************************************************************)
FreeFiles == {f \in Files : f \notin {link, disk} /\ \A p \in Procs : fd[p] # f}

\* openat with O_CREAT and O_EXCL.
CreateJournal(p) ==
  /\ pc[p] = "journal"
  /\ \/ /\ gone[p] /\ End(p)
        /\ UNCHANGED fileVars
     \/ /\ ~gone[p] /\ link # None
        /\ Goto(p, "reopen") /\ made' = [made EXCEPT ![p] = FALSE]
        /\ UNCHANGED <<fileVars, level, gone, fd, workVars>>
     \/ /\ ~gone[p] /\ link = None /\ FreeFiles # {}
        /\ LET f == CHOOSE g \in FreeFiles : TRUE
           IN /\ link' = f /\ fd' = [fd EXCEPT ![p] = f]
              /\ text' = [text EXCEPT ![f] = <<>>]
              /\ flushed' = [flushed EXCEPT ![f] = 0]
              /\ fowner' = [fowner EXCEPT ![f] = Own(p)]
        /\ made' = [made EXCEPT ![p] = TRUE]
        /\ Goto(p, "trust")
        /\ UNCHANGED <<disk, level, gone, workVars>>
  /\ NoFault /\ UNCHANGED <<treeVars, acked, slips>>

ReopenJournal(p) ==
  /\ pc[p] = "reopen"
  /\ IF gone[p] \/ link = None \/ (fowner[link] = "root" /\ p \notin Root)
     THEN End(p)
     ELSE /\ fd' = [fd EXCEPT ![p] = link] /\ Goto(p, "trust")
          /\ UNCHANGED <<level, gone, made, workVars>>
  /\ NoFault /\ UNCHANGED <<treeVars, fileVars, acked, slips>>

\* fstat; a file that is not the target's is given to it and synced.
Trust(p) ==
  /\ pc[p] = "trust"
  /\ LET f == fd[p]
     IN /\ fowner' = [fowner EXCEPT ![f] = "target"]
        /\ flushed' = IF fowner[f] = "target" THEN flushed
                      ELSE [flushed EXCEPT ![f] = Len(text[f])]
  /\ Goto(p, "entry") /\ NoFault
  /\ UNCHANGED <<treeVars, link, disk, text, procVars, workVars, acked, slips>>

\* Mutant: only the process that created the journal syncs its entry.
SyncEntryIfMade(p) ==
  /\ pc[p] = "entry"
  /\ disk' = IF made[p] THEN link ELSE disk
  /\ Goto(p, "load") /\ NoFault
  /\ UNCHANGED <<treeVars, link, text, flushed, fowner, procVars, workVars,
                 acked, slips>>

\* The directory of the journal is synced, whoever created the file.
SyncEntry(p) ==
  /\ pc[p] = "entry"
  /\ disk' = link
  /\ Goto(p, "load") /\ NoFault
  /\ UNCHANGED <<treeVars, link, text, flushed, fowner, procVars, workVars,
                 acked, slips>>

\* cleanup: whoever created the file unlinks it, used by others or not.
OpenFails(p) ==
  /\ pc[p] \in {"trust", "entry"} /\ Fault("error")
  /\ IF made[p]
     THEN /\ link' = None
          /\ slips' = IF link # None /\ (text[link] # <<>> \/ \E q \in Procs \ {p} : fd[q] = link)
                      THEN slips \cup {"dropped"} ELSE slips
     ELSE UNCHANGED <<link, slips>>
  /\ End(p)
  /\ UNCHANGED <<treeVars, disk, text, flushed, fowner, acked>>

----------------------------------------------------------------------------
(***************************************************************************)
(* The executor: load, then append.                                        *)
(***************************************************************************)
Load(p) ==
  /\ pc[p] = "load"
  /\ IF Readable(text[fd[p]])
     THEN /\ view' = [view EXCEPT ![p] = Pending(text[fd[p]])]
          /\ Goto(p, "work")
          /\ UNCHANGED <<procVars, rec, used>>
     ELSE End(p)
  /\ NoFault /\ UNCHANGED <<treeVars, fileVars, acked, slips>>

\* A new record, before its unit is renamed.  What was loaded has had its turn.
Prepare(p) ==
  /\ pc[p] = "work"
  /\ view' = [view EXCEPT ![p] = {}]
  /\ \E k \in Keys \ used :
       /\ rec' = [rec EXCEPT ![p] = [key |-> k, complete |-> FALSE]]
       /\ used' = used \cup {k}
  /\ Goto(p, "write") /\ NoFault
  /\ UNCHANGED <<treeVars, fileVars, procVars, acked, slips>>

\* The record of a unit that is gone: the one just prepared or one that was
\* loaded.
Complete(p) ==
  /\ pc[p] = "work"
  /\ \E k \in view[p] :
       /\ rec' = [rec EXCEPT ![p] = [key |-> k, complete |-> TRUE]]
       /\ view' = [view EXCEPT ![p] = @ \ {k}]
  /\ Goto(p, "write") /\ NoFault
  /\ UNCHANGED <<treeVars, fileVars, procVars, used, acked, slips>>

Close(p) ==
  /\ pc[p] = "work"
  /\ End(p) /\ NoFault
  /\ UNCHANGED <<treeVars, fileVars, acked, slips>>

Piece(p, e) == [rec |-> rec[p], end |-> e]

\* p appends to the end of the file, wherever that is by now.
Put(p, pieces) ==
  LET t == text[fd[p]]
      mid == t # <<>> /\ ~t[Len(t)].end
      mine == ~Head(pieces).end
  IN /\ text' = [text EXCEPT ![fd[p]] = t \o pieces]
     /\ slips' = IF mid = mine THEN slips \cup {"glued"} ELSE slips
     /\ UNCHANGED <<link, disk, flushed, fowner>>

Write(p) ==
  /\ pc[p] = "write"
  /\ \/ /\ Put(p, <<Piece(p, FALSE), Piece(p, TRUE)>>)
        /\ Goto(p, "fsync") /\ NoFault
     \/ /\ Put(p, <<Piece(p, FALSE)>>)
        /\ Goto(p, "rest") /\ Fault("short")
  /\ UNCHANGED <<treeVars, procVars, workVars, acked>>

\* What a short write has left, in a write of its own.
WriteRest(p) ==
  /\ pc[p] = "rest"
  /\ Put(p, <<Piece(p, TRUE)>>)
  /\ Goto(p, "fsync") /\ NoFault
  /\ UNCHANGED <<treeVars, procVars, workVars, acked>>

\* append returns: the record is on disk.
Fsync(p) ==
  /\ pc[p] = "fsync"
  /\ flushed' = [flushed EXCEPT ![fd[p]] = Len(text[fd[p]])]
  /\ acked' = acked \cup {rec[p]}
  /\ view' = IF rec[p].complete THEN view ELSE [view EXCEPT ![p] = {rec[p].key}]
  /\ Goto(p, "work") /\ NoFault
  /\ UNCHANGED <<treeVars, link, disk, text, fowner, procVars, rec, used, slips>>

\* append fails; nothing that has been written is taken back.
AppendFails(p) ==
  /\ pc[p] \in {"write", "rest", "fsync"} /\ Fault("error")
  /\ Goto(p, "work")
  /\ UNCHANGED <<treeVars, fileVars, procVars, workVars, acked, slips>>

----------------------------------------------------------------------------
\* A call fails that leaves nothing to clean up, or the process is killed.
GiveUp(p) ==
  /\ \/ pc[p] \in {"look", "mkdir", "enter", "sync", "journal", "reopen", "load"}
          /\ Fault("error")
     \/ pc[p] # "idle" /\ Fault("kill")
  /\ End(p)
  /\ UNCHANGED <<treeVars, fileVars, acked, slips>>

\* Entries and bytes that are not on disk may be lost; a file without a name is.
PowerFailure ==
  /\ Fault("power")
  /\ depth' \in {d \in 0..depth : d = depth \/ d + 1 \notin synced}
  /\ synced' = 1..depth'
  /\ link' \in IF depth' < Depth THEN {None} ELSE {link, disk}
  /\ disk' = link'
  /\ IF link' = None
     THEN text' = [f \in Files |-> <<>>]
     ELSE \E n \in flushed[link']..Len(text[link']) :
            text' = [f \in Files |-> IF f = link' THEN SubSeq(text[f], 1, n) ELSE <<>>]
  /\ flushed' = [f \in Files |-> Len(text'[f])]
  /\ pc' = [p \in Procs |-> "idle"]
  /\ level' = [p \in Procs |-> 0]
  /\ gone' = [p \in Procs |-> FALSE] /\ made' = [p \in Procs |-> FALSE]
  /\ fd' = [p \in Procs |-> None]
  /\ view' = [p \in Procs |-> {}] /\ rec' = [p \in Procs |-> NoRecord]
  /\ UNCHANGED <<owner, fowner, used, acked, slips>>

----------------------------------------------------------------------------
Step(p) ==
  \/ Start(p) \/ Look(p) \/ Mkdir(p) \/ Enter(p) \/ Chown(p) \/ ChownFails(p)
  \/ SyncDir(p) \/ CreateJournal(p) \/ ReopenJournal(p) \/ Trust(p)
  \/ SyncEntry(p) \/ OpenFails(p) \/ Load(p) \/ Prepare(p) \/ Complete(p)
  \/ Close(p) \/ Write(p) \/ WriteRest(p) \/ Fsync(p) \/ AppendFails(p)
  \/ GiveUp(p)

Next == PowerFailure \/ \E p \in Procs : Step(p)

Spec == Init /\ [][Next]_vars

----------------------------------------------------------------------------
Points == {"idle", "look", "mkdir", "enter", "chown", "sync", "journal",
           "reopen", "trust", "entry", "load", "work", "write", "rest", "fsync"}

\* Every variable keeps its type: whoever is past the opening of the journal
\* has it open, and a journal lies in directories that exist.
TypeOK ==
  /\ depth \in 0..Depth /\ synced \subseteq 1..depth
  /\ owner \in [Levels -> Owners]
  /\ link \in Files \cup {None} /\ disk \in Files \cup {None}
  /\ text \in [Files -> Seq(Pieces)] /\ fowner \in [Files -> Owners]
  /\ flushed \in [Files -> Nat] /\ \A f \in Files : flushed[f] <= Len(text[f])
  /\ pc \in [Procs -> Points] /\ level \in [Procs -> 0..Depth]
  /\ gone \in [Procs -> BOOLEAN] /\ made \in [Procs -> BOOLEAN]
  /\ fd \in [Procs -> Files \cup {None}]
  /\ view \in [Procs -> SUBSET Keys]
  /\ rec \in [Procs -> Records \cup {NoRecord}]
  /\ used \subseteq Keys /\ acked \subseteq Records
  /\ slips \subseteq {"glued", "passed", "dropped"} /\ faults \in 0..MaxFaults
  /\ link # None => depth = Depth
  /\ \A p \in Procs :
       pc[p] \in {"trust", "entry", "load", "work", "write", "rest", "fsync"} => fd[p] # None

\* A process that opens the journal now finds the record.
Findable(r) ==
  /\ link # None /\ Readable(text[link])
  /\ \E s \in Loaded(text[link]) : s.key = r.key /\ (r.complete => s.complete)

\* A record that append has confirmed is found by every later run, across
\* failed calls, killed processes and power failures, and a completed one
\* stays completed: what the rename relies on.  Three slips are excepted: a
\* line appended to the rest of another, a directory entered before its entry
\* was synced, a journal unlinked while it was in use.
Kept == slips = {} => \A r \in acked : Findable(r)

\* managed_cache_journal.go:157: the end of a line that was never finished is
\* dropped.  Only what is appended to such an end makes the journal unreadable.
LoadSucceeds ==
  "glued" \notin slips =>
    \A p \in Procs : pc[p] = "load" => Readable(text[fd[p]])

\* managed_cache_journal.go:157: a final line without its newline is dropped,
\* "preserving earlier complete records": with a complete record in it, the
\* journal can be loaded.
EarlierPreserved ==
  (link # None /\ \E i \in Ends(text[link]) : Sound(text[link], i)) => Readable(text[link])
============================================================================
