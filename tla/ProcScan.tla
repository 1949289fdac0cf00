----------------------------- MODULE ProcScan -----------------------------
(***************************************************************************)
(* The search of /proc for an open candidate:                              *)
(* openDescriptorsMatchForUID of src/internal/cleaner/safety/procs.go.     *)
(*                                                                         *)
(* The descriptor tables of the processes are state, the one of beav among *)
(* them, which the search itself uses: it opens the directories it reads   *)
(* and the descriptors it looks at.  Every system call is a step, and the  *)
(* other processes may act between any two.                                *)
(*                                                                         *)
(* Abstractions.  All processes belong to the effective user.  The root of *)
(* /proc is read in one step.  The directory of a process that has exited  *)
(* cannot be opened.                                                       *)
(***************************************************************************)
EXTENDS Naturals

CONSTANTS
  Self,       \* beav
  Others,     \* the other processes
  Candidate,  \* the object searched for
  Free,       \* a number without a descriptor
  MaxFd,      \* largest descriptor number
  MaxActs     \* bound on the steps of the other processes

Procs == {Self} \cup Others
Numbers == 0..MaxFd
OwnDir == "own fd directory"
OtherFile == "other file"
Objects == {Candidate, OwnDir, OtherFile}
NoNumber == MaxFd + 1

VARIABLES
  fd,      \* fd[p][n]: what the descriptor n of p refers to
  alive,   \* processes that have not exited
  except,  \* excludeFD: the caller's own descriptor of the candidate
  pc,      \* "start", "process", "inspect", "open", "read", "stat", "done"
  todo,    \* processes listed and not yet looked at
  at,      \* process being looked at
  dir,     \* descriptor used for reading /proc/<at>/fd
  listed,  \* numbers read there and not yet opened
  answer,  \* "none", "free", "busy", "error"
  acts     \* steps the other processes may still take

vars == <<fd, alive, except, pc, todo, at, dir, listed, answer, acts>>

InUse(p) == {n \in Numbers : fd[p][n] # Free}

\* open returns the lowest number that is free.
Lowest == CHOOSE n \in Numbers \ InUse(Self) :
            \A m \in Numbers \ InUse(Self) : n <= m

\* OpenDescriptorMatchesExceptFD is called with a descriptor of the
\* candidate, OpenDescriptorsMatch with none.
Init ==
  /\ alive = Procs
  /\ except \in {0, NoNumber}
  /\ fd \in [Procs -> [Numbers -> {Candidate, OtherFile, Free}]]
  /\ \A n \in Numbers : fd[Self][n] = Candidate <=> n = except
  /\ \E n \in Numbers : fd[Self][n] = Free
  /\ pc = "start" /\ todo = {} /\ at = Self
  /\ dir = NoNumber /\ listed = {} /\ answer = "none" /\ acts = MaxActs

Conclude(a) ==
  /\ pc' = "done" /\ answer' = a
  /\ UNCHANGED <<todo, at, listed>>

----------------------------------------------------------------------------
\* The processes are listed.
ListProcesses ==
  /\ pc = "start"
  /\ todo' = alive /\ pc' = "process"
  /\ UNCHANGED <<fd, alive, except, at, dir, listed, answer, acts>>

\* The next process; without one nobody has the candidate open.
NextProcess ==
  /\ pc = "process"
  /\ \/ /\ todo = {} /\ Conclude("free")
     \/ \E p \in todo :
          /\ todo' = todo \ {p} /\ at' = p
          /\ pc' = IF p \in alive THEN "open" ELSE "process"
          /\ UNCHANGED <<listed, answer>>
  /\ UNCHANGED <<fd, alive, except, dir, acts>>

\* os.ReadDir opens the directory,
OpenFdDir ==
  /\ pc = "open"
  /\ IF at \in alive
     THEN /\ dir' = Lowest
          /\ fd' = [fd EXCEPT ![Self][Lowest] = OwnDir]
          /\ pc' = "read"
          /\ UNCHANGED <<todo, at, listed, answer>>
     ELSE Conclude("error") /\ UNCHANGED <<fd, dir>>
  /\ UNCHANGED <<alive, except, acts>>

\* reads it and closes it.
ReadFdDir ==
  /\ pc = "read"
  /\ listed' = InUse(at) \ (IF at = Self THEN {except} ELSE {})
  /\ fd' = [fd EXCEPT ![Self][dir] = Free]
  /\ dir' = NoNumber /\ pc' = "stat"
  /\ UNCHANGED <<alive, except, todo, at, answer, acts>>

\* statProcFD opens what the number refers to by now and closes it again.
StatFd ==
  /\ pc = "stat"
  /\ \/ /\ listed = {} /\ pc' = "process"
        /\ UNCHANGED <<todo, at, listed, answer>>
     \/ \E n \in listed :
          IF at \notin alive \/ fd[at][n] = Free THEN Conclude("error")
          ELSE IF fd[at][n] = Candidate THEN Conclude("busy")
          ELSE /\ listed' = listed \ {n}
               /\ UNCHANGED <<pc, todo, at, answer>>
  /\ UNCHANGED <<fd, alive, except, dir, acts>>

----------------------------------------------------------------------------
\* Another process opens, closes or moves a descriptor, or exits.
Act(p) ==
  /\ acts > 0 /\ pc # "done" /\ p \in alive
  /\ acts' = acts - 1
  /\ UNCHANGED <<except, pc, todo, at, dir, listed, answer>>

Put(p, n, o) ==
  /\ Act(p) /\ fd' = [fd EXCEPT ![p][n] = o] /\ UNCHANGED alive

Exit(p) ==
  /\ Act(p) /\ alive' = alive \ {p}
  /\ fd' = [fd EXCEPT ![p] = [n \in Numbers |-> Free]]

SearchStep == ListProcesses \/ NextProcess \/ OpenFdDir \/ ReadFdDir \/ StatFd

Next ==
  \/ SearchStep
  \/ \E p \in Others :
       Exit(p) \/ \E n \in Numbers, o \in {Candidate, OtherFile, Free} : Put(p, n, o)

Spec == Init /\ [][Next]_vars

----------------------------------------------------------------------------
\* While no other process does anything and none has the candidate open, the
\* search says that the candidate is free: beav does not stand in its own way.
\* The test at executor/debris_test.go:684 says so of the root descriptor.
NotInOwnWay ==
  (/\ pc = "done" /\ acts = MaxActs
   /\ \A p \in Others, n \in Numbers : fd[p][n] # Candidate)
     => answer = "free"
============================================================================
