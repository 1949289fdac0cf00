------------------------- MODULE JournalFileProofs -------------------------
(***************************************************************************)
(* Proofs about JournalFile, for every number of processes, of directories *)
(* and of faults: what append has confirmed is found by every later run,   *)
(* and only a glued line makes the journal unreadable.                     *)
(***************************************************************************)
EXTENDS JournalFile, SequenceTheorems, WellFoundedInduction, TLAPS

\* The depth of the tree and the number of faults are numbers; None is neither
\* a key nor a file.
LEMMA Bounds ==
  Depth \in Nat \ {0} /\ MaxFaults \in Nat /\ None \notin Keys \cup Files
BY JournalAssumption DEF JournalAssumption

USE Bounds

HasJournal == {"trust", "entry", "load", "work", "write", "rest", "fsync"}
Appending == {"write", "rest"}

----------------------------------------------------------------------------
(***************************************************************************)
(* The inductive invariant, in parts.                                      *)
(***************************************************************************)
\* How deep a process is; who has lost its directory is not asked.
Placed ==
  \A p \in Procs :
    /\ pc[p] = "idle" => level[p] = 0
    /\ pc[p] \in {"look", "mkdir", "enter"} => level[p] < Depth
    /\ pc[p] \in {"chown", "sync"} => level[p] > 0
    /\ pc[p] \in {"journal", "reopen"} \cup HasJournal => level[p] = Depth
    /\ ~gone[p] => level[p] <= depth
    /\ pc[p] \notin HasJournal => fd[p] = None

Builds(p) == made[p] /\ pc[p] \in {"enter", "chown", "sync"}
Site(p) == IF pc[p] = "enter" THEN level[p] + 1 ELSE level[p]

\* A directory under construction is there and has one builder, the only one
\* that may remove it.
Builders ==
  /\ \A p \in Procs :
       /\ pc[p] = "mkdir" => ~made[p]
       /\ pc[p] = "sync" => made[p]
       /\ Builds(p) => ~gone[p] /\ Site(p) <= depth
  /\ \A p, q \in Procs : Builds(p) /\ Builds(q) /\ Site(p) = Site(q) => p = q

\* Halves alternate, and every line is ended by the record that began it.
Lines(t) ==
  \A i \in DOMAIN t :
    IF t[i].end THEN i > 1 /\ t[i - 1] = [rec |-> t[i].rec, end |-> FALSE]
    ELSE i = 1 \/ t[i - 1].end

\* Who has half a line to write wrote the other half, and nobody since.
Unglued ==
  "glued" \notin slips =>
    /\ \A f \in Files : Lines(text[f])
    /\ \A p \in Procs :
         pc[p] = "rest" =>
           /\ text[fd[p]] # <<>>
           /\ text[fd[p]][Len(text[fd[p]])] = Piece(p, FALSE)
    /\ \A p, q \in Procs :
         pc[p] = "rest" /\ pc[q] = "rest" /\ fd[p] = fd[q] => p = q

\* A key is taken before it is written anywhere.
Taken ==
  /\ \A p \in Procs : /\ view[p] \subseteq used
                      /\ rec[p].key \in used \cup {None}
                      /\ pc[p] \in Appending \cup {"fsync"} => rec[p].key # None
  /\ \A f \in Files : \A i \in DOMAIN text[f] : text[f][i].rec.key \in used

Has(f, k) == \E i \in Ends(text[f]) : text[f][i].rec.key = k
HasRecord(f, r) == \E i \in Ends(text[f]) : text[f][i].rec = r

\* A key is begun once and completed after it was begun, so that no line
\* takes back what an earlier one completed.
Forward ==
  /\ \A p \in Procs :
       /\ \A k \in view[p] : fd[p] # None /\ Has(fd[p], k)
       /\ pc[p] \in Appending =>
            IF rec[p].complete THEN Has(fd[p], rec[p].key)
            ELSE \A f \in Files : ~Has(f, rec[p].key)
       /\ pc[p] = "fsync" => HasRecord(fd[p], rec[p])
  /\ \A p, q \in Procs :
       /\ pc[p] \in Appending /\ pc[q] \in Appending
       /\ ~rec[p].complete /\ ~rec[q].complete /\ rec[p].key = rec[q].key
       => p = q
  /\ \A f \in Files : \A i, j \in Ends(text[f]) :
       i < j /\ text[f][i].rec.key = text[f][j].rec.key
       /\ text[f][i].rec.complete
         => text[f][j].rec.complete

Passed(p) == IF pc[p] \in {"chown", "sync"} THEN level[p] - 1 ELSE level[p]

OnDisk(r) ==
  /\ link # None /\ disk = link /\ 1..Depth \subseteq synced
  /\ \E i \in 1..flushed[link] : text[link][i].end /\ text[link][i].rec = r

\* All have the same journal open, all of whose directories are synced, and
\* whose entry is before anybody loads it; what was confirmed is on disk.
Durable ==
  slips = {} =>
    /\ \A p \in Procs :
         /\ fd[p] # None => fd[p] = link /\ ~gone[p]
         /\ ~gone[p] => 1..Passed(p) \subseteq synced
         /\ pc[p] \in {"load", "work", "fsync"} \cup Appending => disk = link
    /\ \A r \in acked : OnDisk(r)

IndInv ==
  TypeOK /\ Placed /\ Builders /\ Unglued /\ Taken /\ Forward /\ Durable

----------------------------------------------------------------------------
USE DEF Levels, NoFault, Fault, treeVars, fileVars, procVars, workVars

\* Sequences of one and of two elements.
LEMMA Few ==
  ASSUME NEW S, NEW a \in S, NEW b \in S
  PROVE  <<a>> \in Seq(S) /\ <<a, b>> \in Seq(S)
OBVIOUS

\* A process goes to one of the points of the program.
LEMMA Moved ==
  ASSUME pc \in [Procs -> Points], NEW p \in Procs, NEW to \in Points,
         Goto(p, to)
  PROVE  pc' \in [Procs -> Points]
BY DEF Goto

\* Whoever gives the journal up has nothing left.
LEMMA Ended ==
  ASSUME TypeOK, NEW p \in Procs, End(p)
  PROVE  /\ pc' \in [Procs -> Points] /\ level' \in [Procs -> 0..Depth]
         /\ gone' \in [Procs -> BOOLEAN] /\ made' \in [Procs -> BOOLEAN]
         /\ fd' \in [Procs -> Files \cup {None}]
         /\ view' \in [Procs -> SUBSET Keys]
         /\ rec' \in [Procs -> Records \cup {NoRecord}]
<1> USE DEF End, Goto, TypeOK
<1>1. pc' \in [Procs -> Points] BY DEF Points
<1>2. level' \in [Procs -> 0..Depth] OBVIOUS
<1>3. gone' \in [Procs -> BOOLEAN] /\ made' \in [Procs -> BOOLEAN] OBVIOUS
<1>4. fd' \in [Procs -> Files \cup {None}] OBVIOUS
<1>5. view' \in [Procs -> SUBSET Keys] OBVIOUS
<1>6. rec' \in [Procs -> Records \cup {NoRecord}] OBVIOUS
<1> QED BY <1>1, <1>2, <1>3, <1>4, <1>5, <1>6

\* Whoever appends has a record to append and a file to append it to.
LEMMA Appender ==
  ASSUME TypeOK, Taken, NEW p \in Procs, pc[p] \in Appending \cup {"fsync"}
  PROVE  /\ rec[p] \in Records /\ fd[p] \in Files
         /\ \A e \in BOOLEAN : Piece(p, e) \in Pieces
<1>1. rec[p] \in Records
  BY DEF TypeOK, Taken, NoRecord
<1>2. fd[p] \in Files
  BY DEF TypeOK, Appending
<1> QED BY <1>1, <1>2 DEF Piece, Pieces

\* What a write does to the files: pieces of the writer's record are added to
\* the end of one.
LEMMA Appended ==
  ASSUME TypeOK, Taken, NEW p \in Procs, Write(p) \/ WriteRest(p)
  PROVE  /\ fd[p] \in Files /\ rec[p] \in Records
         /\ \E more \in Seq(Pieces) :
              /\ text' = [text EXCEPT ![fd[p]] = @ \o more]
              /\ text'[fd[p]] \in Seq(Pieces)
              /\ Len(text'[fd[p]]) = Len(text[fd[p]]) + Len(more)
              /\ \A i \in 1..Len(text[fd[p]]) : text'[fd[p]][i] = text[fd[p]][i]
              /\ \A i \in 1..Len(more) :
                   text'[fd[p]][Len(text[fd[p]]) + i] = more[i]
              /\ \/ pc[p] = "write"
                    /\ more = <<Piece(p, FALSE), Piece(p, TRUE)>>
                    /\ Goto(p, "fsync")
                 \/ pc[p] = "write" /\ more = <<Piece(p, FALSE)>>
                    /\ Goto(p, "rest")
                 \/ pc[p] = "rest" /\ more = <<Piece(p, TRUE)>>
                    /\ Goto(p, "fsync")
         /\ UNCHANGED <<link, disk, flushed, fowner>>
<1>1. pc[p] \in Appending
  BY DEF Write, WriteRest, Appending
<1>2. /\ rec[p] \in Records /\ fd[p] \in Files
      /\ \A e \in BOOLEAN : Piece(p, e) \in Pieces
  BY <1>1, Appender
<1>3. \E more \in Seq(Pieces) :
        /\ text' = [text EXCEPT ![fd[p]] = text[fd[p]] \o more]
        /\ \/ pc[p] = "write" /\ more = <<Piece(p, FALSE), Piece(p, TRUE)>>
              /\ Goto(p, "fsync")
           \/ pc[p] = "write" /\ more = <<Piece(p, FALSE)>> /\ Goto(p, "rest")
           \/ pc[p] = "rest" /\ more = <<Piece(p, TRUE)>> /\ Goto(p, "fsync")
  <2>1. /\ <<Piece(p, FALSE), Piece(p, TRUE)>> \in Seq(Pieces)
        /\ <<Piece(p, FALSE)>> \in Seq(Pieces)
        /\ <<Piece(p, TRUE)>> \in Seq(Pieces)
    <3>1. Piece(p, FALSE) \in Pieces /\ Piece(p, TRUE) \in Pieces
      BY <1>2
    <3> QED BY <3>1, Few
  <2> QED BY <2>1 DEF Write, WriteRest, Put
<1>4. UNCHANGED <<link, disk, flushed, fowner>>
  BY DEF Write, WriteRest, Put
<1>5. text[fd[p]] \in Seq(Pieces) /\ text \in [Files -> Seq(Pieces)]
  BY <1>2 DEF TypeOK
<1>6. PICK more \in Seq(Pieces) : <1>3!(more)
  BY <1>3
<1>7. /\ text[fd[p]] \o more \in Seq(Pieces)
      /\ Len(text[fd[p]] \o more) = Len(text[fd[p]]) + Len(more)
      /\ \A i \in 1..Len(text[fd[p]]) + Len(more) :
           (text[fd[p]] \o more)[i] =
             IF i <= Len(text[fd[p]]) THEN text[fd[p]][i]
             ELSE more[i - Len(text[fd[p]])]
  BY <1>5, <1>6, ConcatProperties
<1>8. text'[fd[p]] = text[fd[p]] \o more
  BY <1>2, <1>5, <1>6
<1>9. Len(text[fd[p]]) \in Nat /\ Len(more) \in Nat
  BY <1>5, <1>6, LenProperties
<1>10. /\ \A i \in 1..Len(text[fd[p]]) : text'[fd[p]][i] = text[fd[p]][i]
       /\ \A i \in 1..Len(more) : text'[fd[p]][Len(text[fd[p]]) + i] = more[i]
  <2>1. \A i \in 1..Len(text[fd[p]]) : text'[fd[p]][i] = text[fd[p]][i]
    BY <1>7, <1>8, <1>9
  <2>2. ASSUME NEW i \in 1..Len(more)
        PROVE  text'[fd[p]][Len(text[fd[p]]) + i] = more[i]
    <3> DEFINE n == Len(text[fd[p]])
               j == n + i
    <3>1. /\ j \in 1..n + Len(more) /\ ~(j <= n) /\ j - n = i
      BY <1>9
    <3>2. (text[fd[p]] \o more)[j] = more[j - n]
      BY <3>1, <1>7
    <3> QED BY <3>1, <3>2, <1>8
  <2> QED BY <2>1, <2>2
<1> QED BY <1>2, <1>4, <1>6, <1>7, <1>8, <1>10

\* What creating the journal does.
LEMMA Created ==
  ASSUME TypeOK, NEW p \in Procs, CreateJournal(p)
  PROVE  \/ End(p) /\ UNCHANGED fileVars
         \/ /\ ~gone[p] /\ link # None /\ Goto(p, "reopen")
            /\ made' = [made EXCEPT ![p] = FALSE]
            /\ UNCHANGED <<fileVars, level, gone, fd, workVars>>
         \/ /\ ~gone[p] /\ link = None
            /\ Goto(p, "trust") /\ made' = [made EXCEPT ![p] = TRUE]
            /\ UNCHANGED <<disk, level, gone, workVars>>
            /\ \E f \in Files :
                 /\ \A q \in Procs : fd[q] # f
                 /\ link' = f /\ fd' = [fd EXCEPT ![p] = f]
                 /\ text' = [text EXCEPT ![f] = <<>>]
                 /\ flushed' = [flushed EXCEPT ![f] = 0]
BY DEF CreateJournal, FreeFiles

\* What is pending in a journal are keys.
LEMMA PendingKeys ==
  ASSUME TypeOK, NEW f \in Files
  PROVE  Pending(text[f]) \in SUBSET Keys
<1>1. text[f] \in Seq(Pieces)
  BY DEF TypeOK
<1>2. \A i \in DOMAIN text[f] : text[f][i].rec.key \in Keys
  <2>1. \A i \in DOMAIN text[f] : text[f][i] \in Pieces
    BY <1>1
  <2> QED BY <2>1 DEF Pieces, Records
<1> QED BY <1>2 DEF Pending, Loaded, Ends

\* What the steps of a process leave alone.
LEMMA Changes ==
  ASSUME TypeOK, NEW p \in Procs, Step(p)
  PROVE  /\ UNCHANGED treeVars
            \/ Mkdir(p) \/ Chown(p) \/ ChownFails(p) \/ SyncDir(p)
         /\ UNCHANGED link \/ CreateJournal(p) \/ OpenFails(p)
         /\ UNCHANGED disk \/ SyncEntry(p)
         /\ UNCHANGED text \/ CreateJournal(p) \/ Write(p) \/ WriteRest(p)
         /\ UNCHANGED flushed \/ CreateJournal(p) \/ Trust(p) \/ Fsync(p)
         /\ UNCHANGED fowner \/ CreateJournal(p) \/ Trust(p)
         /\ UNCHANGED level \/ End(p) \/ Enter(p) \/ ChownFails(p)
         /\ UNCHANGED gone \/ End(p) \/ ChownFails(p)
         /\ UNCHANGED made
            \/ End(p) \/ Look(p) \/ Mkdir(p) \/ ChownFails(p)
            \/ CreateJournal(p)
         /\ UNCHANGED fd \/ End(p) \/ CreateJournal(p) \/ ReopenJournal(p)
         /\ UNCHANGED view
            \/ End(p) \/ Load(p) \/ Prepare(p) \/ Complete(p) \/ Fsync(p)
         /\ UNCHANGED rec \/ End(p) \/ Prepare(p) \/ Complete(p)
         /\ UNCHANGED used \/ Prepare(p)
         /\ UNCHANGED acked \/ Fsync(p)
         /\ UNCHANGED slips
            \/ Enter(p) \/ Chown(p) \/ SyncDir(p) \/ OpenFails(p) \/ Write(p)
            \/ WriteRest(p)
         /\ UNCHANGED faults \/ (faults < MaxFaults /\ faults' = faults + 1)
         /\ \E to \in Points : Goto(p, to)
         /\ pc'[p] \in {"load", "work", "fsync"} \cup Appending
            => pc[p] \in {"load", "work", "fsync"} \cup Appending
            \/ SyncEntry(p)
         /\ pc[p] \in {"chown", "sync"} \/ pc'[p] \in {"chown", "sync"}
            => Enter(p) \/ Chown(p) \/ ChownFails(p) \/ SyncDir(p) \/ End(p)
<1> USE DEF Step, Start, Look, Mkdir, Enter, Advance, Chown, ChownFails,
            SyncDir, CreateJournal, ReopenJournal, Trust, SyncEntry,
            OpenFails, Load, Prepare, Complete, Close, Write, WriteRest, Put,
            Fsync, AppendFails, GiveUp
<1>1. UNCHANGED treeVars \/ Mkdir(p) \/ Chown(p) \/ ChownFails(p) \/ SyncDir(p)
  OBVIOUS
<1>2. UNCHANGED link \/ CreateJournal(p) \/ OpenFails(p)
  OBVIOUS
<1>3. UNCHANGED disk \/ SyncEntry(p)
  OBVIOUS
<1>4. UNCHANGED text \/ CreateJournal(p) \/ Write(p) \/ WriteRest(p)
  OBVIOUS
<1>5. UNCHANGED flushed \/ CreateJournal(p) \/ Trust(p) \/ Fsync(p)
  OBVIOUS
<1>6. UNCHANGED fowner \/ CreateJournal(p) \/ Trust(p)
  OBVIOUS
<1>7. UNCHANGED level \/ End(p) \/ Enter(p) \/ ChownFails(p)
  OBVIOUS
<1>8. UNCHANGED gone \/ End(p) \/ ChownFails(p)
  OBVIOUS
<1>9. UNCHANGED made
      \/ End(p) \/ Look(p) \/ Mkdir(p) \/ ChownFails(p) \/ CreateJournal(p)
  OBVIOUS
<1>10. UNCHANGED fd \/ End(p) \/ CreateJournal(p) \/ ReopenJournal(p)
  OBVIOUS
<1>11. UNCHANGED view
       \/ End(p) \/ Load(p) \/ Prepare(p) \/ Complete(p) \/ Fsync(p)
  OBVIOUS
<1>12. UNCHANGED rec \/ End(p) \/ Prepare(p) \/ Complete(p)
  OBVIOUS
<1>13. UNCHANGED used \/ Prepare(p)
  BY DEF End
<1>14. UNCHANGED acked \/ Fsync(p)
  OBVIOUS
<1>15. UNCHANGED slips
       \/ Enter(p) \/ Chown(p) \/ SyncDir(p) \/ OpenFails(p) \/ Write(p)
       \/ WriteRest(p)
  OBVIOUS
<1>16. UNCHANGED faults \/ (faults < MaxFaults /\ faults' = faults + 1)
  OBVIOUS
<1>17. \E to \in Points : Goto(p, to)
  BY DEF End, Points
<1>18. pc'[p] \in {"load", "work", "fsync"} \cup Appending
       => pc[p] \in {"load", "work", "fsync"} \cup Appending \/ SyncEntry(p)
  <2>1. pc \in [Procs -> Points]
    BY DEF TypeOK
  <2> QED BY <2>1 DEF End, Goto, Appending
<1>19. pc[p] \in {"chown", "sync"} \/ pc'[p] \in {"chown", "sync"}
       => Enter(p) \/ Chown(p) \/ ChownFails(p) \/ SyncDir(p) \/ End(p)
  <2>1. pc \in [Procs -> Points]
    BY DEF TypeOK
  <2> QED BY <2>1 DEF Goto
<1> HIDE DEF Step, Look, Mkdir, Enter, Chown, ChownFails, SyncDir,
             CreateJournal, ReopenJournal, Trust, SyncEntry, OpenFails, Load,
             Prepare, Complete, Write, WriteRest, Fsync
<1> QED
  BY <1>1, <1>2, <1>3, <1>4, <1>5, <1>6, <1>7, <1>8, <1>9, <1>10, <1>11, <1>12,
     <1>13, <1>14, <1>15, <1>16, <1>17, <1>18,
     <1>19

\* Every step of a process keeps every type.
LEMMA TypeKept ==
  ASSUME TypeOK, Placed, Builders, Taken, NEW p \in Procs, Step(p)
  PROVE  TypeOK'
<1>1. /\ depth' \in 0..Depth /\ synced' \subseteq 1..depth'
      /\ owner' \in [Levels -> Owners]
  <2>0. /\ depth \in 0..Depth /\ synced \subseteq 1..depth
        /\ owner \in [Levels -> Owners] /\ level \in [Procs -> 0..Depth]
    BY DEF TypeOK
  <2>1. CASE Mkdir(p)
    <3>1. CASE UNCHANGED treeVars
      BY <3>1, <2>0
    <3>2. CASE /\ depth = level[p] /\ level[p] < Depth
               /\ depth' = depth + 1 /\ UNCHANGED synced
               /\ owner' = [owner EXCEPT ![depth + 1] = Own(p)]
      BY <3>2, <2>0 DEF Owners, Own
    <3> QED BY <2>1, <3>1, <3>2 DEF Mkdir, Placed
  <2>2. CASE Chown(p)
    BY <2>2, <2>0 DEF Chown, Owners
  <2>3. CASE ChownFails(p)
    <3>1. CASE UNCHANGED <<depth, synced>>
      BY <3>1, <2>3, <2>0 DEF ChownFails
    <3>2. CASE /\ depth' = level[p] - 1 /\ depth = level[p]
               /\ synced' = synced \ {level[p]}
      <4>1. level[p] > 0
        BY <2>3 DEF ChownFails, Placed
      <4>2. depth' \in 0..Depth
        BY <4>1, <3>2, <2>0
      <4>3. synced' \subseteq 1..depth'
        <5>1. \A d \in 1..depth : d # depth => d \in 1..(depth - 1)
          BY <2>0
        <5> QED BY <5>1, <3>2, <2>0
      <4> QED BY <4>2, <4>3, <2>3, <2>0 DEF ChownFails
    <3> QED BY <2>3, <3>1, <3>2 DEF ChownFails
  <2>4. CASE SyncDir(p)
    <3>1. level[p] \in 1..depth
      BY <2>4, <2>0 DEF SyncDir, Placed, Builders, Builds, Site
    <3> QED BY <3>1, <2>4, <2>0 DEF SyncDir
  <2>5. CASE UNCHANGED treeVars
    BY <2>5, <2>0
  <2> QED BY <2>1, <2>2, <2>3, <2>4, <2>5, Changes
<1>2. link' \in Files \cup {None} /\ disk' \in Files \cup {None}
  <2>0. link \in Files \cup {None} /\ disk \in Files \cup {None}
    BY DEF TypeOK
  <2>1. link' \in Files \cup {None}
    BY <2>0, Changes DEF CreateJournal, FreeFiles, OpenFails
  <2>2. disk' \in Files \cup {None}
    BY <2>0, Changes DEF SyncEntry
  <2> QED BY <2>1, <2>2
<1>3. text' \in [Files -> Seq(Pieces)]
  <2>0. text \in [Files -> Seq(Pieces)]
    BY DEF TypeOK
  <2>1. CASE CreateJournal(p)
    <3>1. CASE UNCHANGED text
      BY <3>1, <2>0
    <3>2. CASE \E f \in Files : text' = [text EXCEPT ![f] = <<>>]
      BY <3>2, <2>0
    <3> QED BY <2>1, <3>1, <3>2, Created
  <2>2. CASE Write(p) \/ WriteRest(p)
    BY <2>2, <2>0, Appended
  <2>3. CASE UNCHANGED text
    BY <2>3, <2>0
  <2> QED BY <2>1, <2>2, <2>3, Changes
<1>4. fowner' \in [Files -> Owners]
  BY Changes DEF TypeOK, CreateJournal, Trust, Owners, Own
<1>5. /\ flushed' \in [Files -> Nat]
      /\ \A f \in Files : flushed'[f] <= Len(text'[f])
  <2>0. /\ flushed \in [Files -> Nat] /\ text \in [Files -> Seq(Pieces)]
        /\ \A f \in Files : flushed[f] <= Len(text[f])
    BY DEF TypeOK
  <2>1. CASE CreateJournal(p)
    <3>1. CASE UNCHANGED <<text, flushed>>
      BY <3>1, <2>0
    <3>2. CASE \E f \in Files : /\ text' = [text EXCEPT ![f] = <<>>]
                                /\ flushed' = [flushed EXCEPT ![f] = 0]
      BY <3>2, <2>0
    <3> QED BY <2>1, <3>1, <3>2, Created
  <2>2. CASE Trust(p)
    <3>1. fd[p] \in Files /\ UNCHANGED text
      BY <2>2 DEF Trust, TypeOK
    <3>2. Len(text[fd[p]]) \in Nat
      BY <3>1, <2>0, LenProperties
    <3> QED BY <3>1, <3>2, <2>2, <2>0 DEF Trust
  <2>3. CASE Write(p) \/ WriteRest(p)
    <3>1. /\ UNCHANGED flushed /\ Len(text'[fd[p]]) >= Len(text[fd[p]])
          /\ \E t : text' = [text EXCEPT ![fd[p]] = t]
      <4>1. PICK more \in Seq(Pieces) :
              /\ text' = [text EXCEPT ![fd[p]] = @ \o more]
              /\ Len(text'[fd[p]]) = Len(text[fd[p]]) + Len(more)
        BY <2>3, Appended
      <4>2. fd[p] \in Files /\ UNCHANGED flushed
        BY <2>3, Appended
      <4>3. Len(more) \in Nat /\ Len(text[fd[p]]) \in Nat
        BY <4>1, <4>2, <2>0, LenProperties
      <4>4. Len(text'[fd[p]]) >= Len(text[fd[p]])
        BY <4>1, <4>3
      <4>5. \E t : text' = [text EXCEPT ![fd[p]] = t]
        BY <4>1
      <4> QED BY <4>2, <4>4, <4>5
    <3>2. \A f \in Files : Len(text[f]) \in Nat /\ Len(text'[f]) \in Nat
      BY <2>0, <1>3, LenProperties
    <3> QED BY <3>1, <3>2, <2>0
  <2>4. CASE Fsync(p)
    <3>1. fd[p] \in Files /\ UNCHANGED text
      BY <2>4 DEF Fsync, TypeOK
    <3>2. Len(text[fd[p]]) \in Nat
      BY <3>1, <2>0, LenProperties
    <3> QED BY <3>1, <3>2, <2>4, <2>0 DEF Fsync
  <2>5. CASE UNCHANGED <<text, flushed>>
    BY <2>5, <2>0
  <2> QED BY <2>1, <2>2, <2>3, <2>4, <2>5, Changes
<1>6. pc' \in [Procs -> Points]
  BY Changes, Moved DEF TypeOK
<1>7. level' \in [Procs -> 0..Depth]
  <2>1. CASE Enter(p)
    BY <2>1, Ended DEF Enter, TypeOK, Placed
  <2>2. CASE ChownFails(p)
    BY <2>2, Ended DEF ChownFails, TypeOK
  <2> QED BY <2>1, <2>2, Changes, Ended DEF TypeOK
<1>8. gone' \in [Procs -> BOOLEAN]
  <2>0. gone \in [Procs -> BOOLEAN]
    BY DEF TypeOK
  <2>1. CASE ChownFails(p)
    BY <2>1, Ended DEF ChownFails
  <2> QED BY <2>0, <2>1, Changes, Ended
<1>9. made' \in [Procs -> BOOLEAN]
  <2>1. CASE Look(p) \/ Mkdir(p) \/ ChownFails(p) \/ CreateJournal(p)
    BY <2>1, Ended DEF Look, Mkdir, ChownFails, CreateJournal, TypeOK
  <2> QED BY <2>1, Changes, Ended DEF TypeOK
<1>10. fd' \in [Procs -> Files \cup {None}]
  <2>0. fd \in [Procs -> Files \cup {None}] /\ link \in Files \cup {None}
    BY DEF TypeOK
  <2>1. CASE CreateJournal(p)
    BY <2>1, <2>0, Created, Ended
  <2>2. CASE ReopenJournal(p)
    BY <2>2, <2>0, Ended DEF ReopenJournal
  <2> QED BY <2>0, <2>1, <2>2, Changes, Ended
<1>11. view' \in [Procs -> SUBSET Keys]
  <2>0. view \in [Procs -> SUBSET Keys]
    BY DEF TypeOK
  <2>1. CASE Load(p)
    <3>1. fd[p] \in Files
      BY <2>1 DEF Load, TypeOK
    <3> QED BY <3>1, <2>1, <2>0, Ended, PendingKeys DEF Load
  <2>2. CASE Prepare(p) \/ Complete(p)
    BY <2>2, <2>0 DEF Prepare, Complete
  <2>3. CASE Fsync(p)
    <3>1. rec[p].key \in Keys
      BY <2>3, Appender DEF Fsync, Records
    <3> QED BY <3>1, <2>3, <2>0 DEF Fsync
  <2> QED BY <2>0, <2>1, <2>2, <2>3, Changes, Ended
<1>12. rec' \in [Procs -> Records \cup {NoRecord}]
  <2>0. rec \in [Procs -> Records \cup {NoRecord}]
        /\ view \in [Procs -> SUBSET Keys]
    BY DEF TypeOK
  <2>1. CASE Prepare(p)
    BY <2>1, <2>0 DEF Prepare, Records
  <2>2. CASE Complete(p)
    BY <2>2, <2>0 DEF Complete, Records
  <2> QED BY <2>0, <2>1, <2>2, Changes, Ended
<1>13. used' \subseteq Keys
  <2>1. used \subseteq Keys
    BY DEF TypeOK
  <2> QED BY <2>1, Changes DEF Prepare
<1>14. acked' \subseteq Records
  <2>1. acked \subseteq Records /\ (Fsync(p) => rec[p] \in Records)
    BY Appender DEF Fsync, TypeOK
  <2> QED BY <2>1, Changes DEF Fsync
<1>15. slips' \subseteq {"glued", "passed", "dropped"}
  <2>0. slips \subseteq {"glued", "passed", "dropped"}
    BY DEF TypeOK
  <2>1. CASE Enter(p) \/ Chown(p) \/ SyncDir(p)
    BY <2>1, <2>0 DEF Enter, Chown, SyncDir, Advance
  <2>2. CASE OpenFails(p)
    BY <2>2, <2>0 DEF OpenFails
  <2>3. CASE Write(p) \/ WriteRest(p)
    BY <2>3, <2>0 DEF Write, WriteRest, Put
  <2> QED BY <2>0, <2>1, <2>2, <2>3, Changes
<1>16. faults' \in 0..MaxFaults
  <2>1. faults \in 0..MaxFaults
    BY DEF TypeOK
  <2> QED BY <2>1, Changes
<1>17. link' # None => depth' = Depth
  <2>0. (link # None => depth = Depth) /\ depth \in 0..Depth
    BY DEF TypeOK
  <2>1. CASE Mkdir(p)
    BY <2>1, <2>0 DEF Mkdir, Missing, Placed, TypeOK
  <2>2. CASE ChownFails(p)
    BY <2>2, <2>0 DEF ChownFails
  <2>3. CASE CreateJournal(p)
    <3>1. ~gone[p] => depth = Depth
      BY <2>3, <2>0 DEF CreateJournal, Placed, TypeOK
    <3> QED BY <3>1, <2>3, <2>0 DEF CreateJournal
  <2>4. CASE Chown(p) \/ SyncDir(p)
    BY <2>4, <2>0 DEF Chown, SyncDir
  <2>5. CASE OpenFails(p)
    BY <2>5, <2>0 DEF OpenFails
  <2> QED BY <2>0, <2>1, <2>2, <2>3, <2>4, <2>5, Changes
<1>18. \A q \in Procs : pc'[q] \in HasJournal => fd'[q] # None
  <2>0. /\ \A q \in Procs : pc[q] \in HasJournal => fd[q] # None
        /\ pc \in [Procs -> Points] /\ fd \in [Procs -> Files \cup {None}]
    BY DEF TypeOK, HasJournal
  <2>1. CASE CreateJournal(p)
    BY <2>1, <2>0, Created DEF Goto, End, HasJournal
  <2>2. CASE ReopenJournal(p)
    BY <2>2, <2>0 DEF ReopenJournal, Goto, End, HasJournal
  <2>3. CASE End(p)
    BY <2>3, <2>0 DEF Goto, End, HasJournal
  <2>4. CASE UNCHANGED fd /\ ~CreateJournal(p) /\ ~ReopenJournal(p) /\ ~End(p)
    <3>1. pc[p] \in HasJournal \/ pc'[p] \notin HasJournal
      BY <2>4, <2>0
      DEF Step, Start, Look, Mkdir, Enter, Advance, Chown, ChownFails, SyncDir,
          Trust, SyncEntry, OpenFails, Load, Prepare, Complete, Close, Write,
          WriteRest, Fsync, AppendFails, GiveUp, Goto, HasJournal
    <3>2. \A q \in Procs \ {p} : pc'[q] = pc[q]
      BY <2>0, Changes DEF Goto
    <3> QED BY <3>1, <3>2, <2>4, <2>0
  <2> QED BY <2>1, <2>2, <2>3, <2>4, Changes
<1> QED
  BY <1>1, <1>2, <1>3, <1>4, <1>5, <1>6, <1>7, <1>8, <1>9, <1>10, <1>11, <1>12,
     <1>13, <1>14, <1>15, <1>16, <1>17, <1>18
  DEF TypeOK, HasJournal

\* How deep a process is fits where it is (Placed).
LEMMA PlacedKept ==
  ASSUME TypeOK, Placed, Builders, NEW p \in Procs, Step(p)
  PROVE  Placed'
<1> SUFFICES ASSUME NEW q \in Procs PROVE Placed!(q)'
  BY DEF Placed
<1>0. /\ pc \in [Procs -> Points] /\ level \in [Procs -> 0..Depth]
      /\ gone \in [Procs -> BOOLEAN] /\ made \in [Procs -> BOOLEAN]
      /\ fd \in [Procs -> Files \cup {None}] /\ depth \in 0..Depth
  BY DEF TypeOK
<1> USE <1>0 DEF Placed, HasJournal, Goto
<1>ended. CASE End(p) /\ UNCHANGED treeVars
  BY <1>ended DEF End
<1>1. CASE Start(p)
  BY <1>1 DEF Start
<1>2. CASE Look(p)
  BY <1>2 DEF Look
<1>3. CASE Mkdir(p)
  BY <1>3, <1>ended DEF Mkdir, Missing
<1>4. CASE Enter(p)
  BY <1>4, <1>ended DEF Enter, Missing, Advance
<1>5. CASE Chown(p)
  BY <1>5 DEF Chown, Advance
<1>6. CASE ChownFails(p)
  BY <1>6, <1>ended DEF ChownFails
<1>7. CASE SyncDir(p)
  BY <1>7 DEF SyncDir, Advance
<1>8. CASE CreateJournal(p)
  BY <1>8, <1>ended, Created DEF CreateJournal
<1>9. CASE ReopenJournal(p)
  BY <1>9, <1>ended DEF ReopenJournal
<1>10. CASE Trust(p)
  BY <1>10 DEF Trust
<1>11. CASE SyncEntry(p)
  BY <1>11 DEF SyncEntry
<1>12. CASE OpenFails(p)
  BY <1>12, <1>ended DEF OpenFails
<1>13. CASE Load(p)
  BY <1>13, <1>ended DEF Load
<1>14. CASE Prepare(p)
  BY <1>14 DEF Prepare
<1>15. CASE Complete(p)
  BY <1>15 DEF Complete
<1>16. CASE Close(p)
  BY <1>16, <1>ended DEF Close
<1>17. CASE Write(p)
  <2>1. /\ UNCHANGED <<depth, level, gone, fd>> /\ pc[p] = "write"
        /\ pc' = [pc EXCEPT ![p] = "fsync"] \/ pc' = [pc EXCEPT ![p] = "rest"]
    BY <1>17 DEF Write
  <2> QED BY <2>1
<1>18. CASE WriteRest(p)
  BY <1>18 DEF WriteRest, Put
<1>19. CASE Fsync(p)
  BY <1>19 DEF Fsync
<1>20. CASE AppendFails(p)
  BY <1>20 DEF AppendFails
<1>21. CASE GiveUp(p)
  BY <1>21, <1>ended DEF GiveUp
<1> QED BY <1>1, <1>2, <1>3, <1>4, <1>5, <1>6, <1>7, <1>8, <1>9, <1>10, <1>11,
           <1>12, <1>13, <1>14, <1>15, <1>16, <1>17, <1>18, <1>19, <1>20, <1>21
        DEF Step

\* Of two builders that meet at a directory, Mkdir has made one the builder.
LEMMA BuildersKept ==
  ASSUME TypeOK, Placed, Builders, NEW p \in Procs, Step(p)
  PROVE  Builders'
<1>0. /\ pc \in [Procs -> Points] /\ level \in [Procs -> 0..Depth]
      /\ gone \in [Procs -> BOOLEAN] /\ made \in [Procs -> BOOLEAN]
      /\ depth \in 0..Depth
  BY DEF TypeOK
<1> USE <1>0 DEF Placed, Builders, Builds, Site, HasJournal, Goto, End
<1>1. CASE Start(p)
  BY <1>1 DEF Start
<1>2. CASE Look(p)
  BY <1>2 DEF Look
<1>3. CASE Mkdir(p)
  BY <1>3 DEF Mkdir, Missing
<1>4. CASE Enter(p)
  BY <1>4 DEF Enter, Missing, Advance
<1>5. CASE Chown(p)
  BY <1>5 DEF Chown, Advance
<1>6. CASE ChownFails(p)
  BY <1>6 DEF ChownFails
<1>7. CASE SyncDir(p)
  BY <1>7 DEF SyncDir, Advance
<1>8. CASE CreateJournal(p)
  <2>1. /\ UNCHANGED depth /\ pc' = [pc EXCEPT ![p] = pc'[p]]
        /\ pc'[p] \in {"idle", "reopen", "trust"}
        /\ \A q \in Procs \ {p} : /\ made'[q] = made[q] /\ level'[q] = level[q]
                                 /\ gone'[q] = gone[q]
    BY <1>8, Created DEF CreateJournal
  <2> QED BY <2>1
<1>9. CASE ReopenJournal(p)
  BY <1>9 DEF ReopenJournal
<1>10. CASE Trust(p)
  BY <1>10 DEF Trust
<1>11. CASE SyncEntry(p)
  BY <1>11 DEF SyncEntry
<1>12. CASE OpenFails(p)
  BY <1>12 DEF OpenFails
<1>13. CASE Load(p)
  BY <1>13 DEF Load
<1>14. CASE Prepare(p)
  BY <1>14 DEF Prepare
<1>15. CASE Complete(p)
  BY <1>15 DEF Complete
<1>16. CASE Close(p)
  BY <1>16 DEF Close
<1>17. CASE Write(p)
  <2>1. /\ UNCHANGED <<depth, level, made, gone>>
        /\ pc' = [pc EXCEPT ![p] = "fsync"] \/ pc' = [pc EXCEPT ![p] = "rest"]
    BY <1>17 DEF Write
  <2> QED BY <2>1
<1>18. CASE WriteRest(p)
  BY <1>18 DEF WriteRest, Put
<1>19. CASE Fsync(p)
  BY <1>19 DEF Fsync
<1>20. CASE AppendFails(p)
  BY <1>20 DEF AppendFails
<1>21. CASE GiveUp(p)
  BY <1>21 DEF GiveUp
<1> QED BY <1>1, <1>2, <1>3, <1>4, <1>5, <1>6, <1>7, <1>8, <1>9, <1>10, <1>11,
           <1>12, <1>13, <1>14, <1>15, <1>16, <1>17, <1>18, <1>19, <1>20, <1>21
        DEF Step
----------------------------------------------------------------------------
\* What is written to a file in use stays there.
LEMMA InUse ==
  ASSUME TypeOK, Taken, NEW p \in Procs, Step(p),
         NEW f \in Files, f = link \/ \E q \in Procs : fd[q] = f
  PROVE  \A i \in DOMAIN text[f] :
           i \in DOMAIN text'[f] /\ text'[f][i] = text[f][i]
<1>0. text \in [Files -> Seq(Pieces)] /\ fd \in [Procs -> Files \cup {None}]
  BY DEF TypeOK
<1>1. CASE CreateJournal(p)
  <2>1. CASE UNCHANGED text
    BY <2>1
  <2>2. CASE link = None /\ \E g \in Files : /\ \A r \in Procs : fd[r] # g
                                           /\ text' = [text EXCEPT ![g] = <<>>]
    <3>1. text'[f] = text[f]
      BY <2>2, <1>0
    <3> QED BY <3>1
  <2> QED BY <1>1, <2>1, <2>2, Created
<1>2. CASE Write(p) \/ WriteRest(p)
  <2>1. PICK more \in Seq(Pieces) :
          /\ text' = [text EXCEPT ![fd[p]] = @ \o more]
          /\ text'[fd[p]] \in Seq(Pieces)
          /\ Len(text'[fd[p]]) = Len(text[fd[p]]) + Len(more)
          /\ \A i \in 1..Len(text[fd[p]]) : text'[fd[p]][i] = text[fd[p]][i]
    BY <1>2, Appended
  <2>2. fd[p] \in Files
    BY <1>2, Appended
  <2>3. CASE f = fd[p]
    <3>1. Len(text[fd[p]]) \in Nat /\ Len(more) \in Nat
      BY <1>0, <2>2, LenProperties
    <3>2. DOMAIN text[fd[p]] = 1..Len(text[fd[p]])
      BY <1>0, <2>2, LenProperties
    <3>3. DOMAIN text'[fd[p]] = 1..Len(text[fd[p]]) + Len(more)
      BY <2>1, LenProperties
    <3> QED BY <2>1, <2>3, <3>1, <3>2, <3>3
  <2>4. CASE f # fd[p]
    <3>1. text'[f] = text[f]
      BY <2>1, <2>4, <1>0
    <3> QED BY <3>1
  <2> QED BY <2>3, <2>4
<1>3. CASE ~CreateJournal(p) /\ ~Write(p) /\ ~WriteRest(p)
  <2>1. UNCHANGED text
    BY <1>3, Changes
  <2> QED BY <2>1
<1> QED BY <1>1, <1>2, <1>3

\* A step adds only pieces of the writer's record, at the end of its journal.
LEMMA NewPiece ==
  ASSUME TypeOK, Taken, NEW p \in Procs, Step(p), NEW f \in Files,
         NEW i \in DOMAIN text'[f]
  PROVE  \/ i \in DOMAIN text[f] /\ text'[f][i] = text[f][i]
         \/ /\ pc[p] \in Appending /\ f = fd[p]
            /\ \/ text'[f][i] = Piece(p, TRUE) /\ Goto(p, "fsync")
               \/ text'[f][i] = Piece(p, FALSE)
            /\ \A j \in DOMAIN text[f] : j < i
<1>0. text \in [Files -> Seq(Pieces)] /\ fd \in [Procs -> Files \cup {None}]
  BY DEF TypeOK
<1>1. CASE text'[f] = text[f] \/ text'[f] = <<>>
  <2>1. DOMAIN <<>> = {}
    OBVIOUS
  <2> QED BY <1>1, <2>1
<1>2. CASE (Write(p) \/ WriteRest(p)) /\ f = fd[p]
  <2>1. PICK more \in Seq(Pieces) :
          /\ text'[f] \in Seq(Pieces)
          /\ Len(text'[f]) = Len(text[f]) + Len(more)
          /\ \A j \in 1..Len(text[f]) : text'[f][j] = text[f][j]
          /\ \A j \in 1..Len(more) : text'[f][Len(text[f]) + j] = more[j]
          /\ \/ pc[p] = "write" /\ more = <<Piece(p, FALSE), Piece(p, TRUE)>>
                /\ Goto(p, "fsync")
             \/ pc[p] = "write" /\ more = <<Piece(p, FALSE)>>
             \/ pc[p] = "rest" /\ more = <<Piece(p, TRUE)>> /\ Goto(p, "fsync")
    BY <1>2, Appended
  <2>2. /\ Len(text[f]) \in Nat /\ Len(more) \in Nat
        /\ DOMAIN text[f] = 1..Len(text[f])
        /\ DOMAIN text'[f] = 1..Len(text[f]) + Len(more)
    BY <1>0, <2>1, LenProperties
  <2>3. CASE i \in 1..Len(text[f])
    <3>1. text'[f][i] = text[f][i]
      BY <2>1, <2>3
    <3> QED BY <3>1, <2>2, <2>3
  <2>4. CASE i \notin 1..Len(text[f])
    <3> DEFINE j == i - Len(text[f])
    <3>1. j \in 1..Len(more) /\ i = Len(text[f]) + j
          /\ \A k \in DOMAIN text[f] : k < i
      BY <2>2, <2>4
    <3>2. text'[f][i] = more[j]
      BY <2>1, <3>1
    <3>3. \/ more[j] = Piece(p, TRUE) /\ Goto(p, "fsync")
          \/ more[j] = Piece(p, FALSE)
      <4> DEFINE a == Piece(p, FALSE)
                 b == Piece(p, TRUE)
      <4> HIDE DEF j, a, b
      <4>1. CASE more = <<a, b>> /\ Goto(p, "fsync")
        <5>1. j = 1 \/ j = 2
          BY <3>1, <4>1
        <5>2. more[j] = a \/ more[j] = b
          BY <4>1, <5>1
        <5> QED BY <4>1, <5>2 DEF a, b
      <4>2. CASE more = <<a>>
        <5>1. j = 1
          BY <3>1, <4>2
        <5>2. more[j] = a
          BY <4>2, <5>1
        <5> QED BY <5>2 DEF a
      <4>3. CASE more = <<b>> /\ Goto(p, "fsync")
        <5>1. j = 1
          BY <3>1, <4>3
        <5>2. more[j] = b
          BY <4>3, <5>1
        <5> QED BY <4>3, <5>2 DEF b
      <4> QED BY <2>1, <4>1, <4>2, <4>3 DEF a, b
    <3>4. pc[p] \in Appending
      BY <2>1 DEF Appending
    <3> QED BY <3>1, <3>2, <3>3, <3>4, <1>2
  <2> QED BY <2>3, <2>4
<1>3. CASE (Write(p) \/ WriteRest(p)) /\ f # fd[p]
  <2>1. \E t : text' = [text EXCEPT ![fd[p]] = t]
    BY <1>3, Appended
  <2>2. text'[f] = text[f]
    BY <1>0, <1>3, <2>1
  <2> QED BY <2>2, <1>1
<1>4. CASE CreateJournal(p)
  <2>1. CASE UNCHANGED text
    BY <2>1, <1>1
  <2>2. CASE \E g \in Files : text' = [text EXCEPT ![g] = <<>>]
    BY <2>2, <1>0, <1>1
  <2> QED BY <1>4, <2>1, <2>2, Created
<1>5. CASE ~CreateJournal(p) /\ ~Write(p) /\ ~WriteRest(p)
  <2>1. UNCHANGED text
    BY <1>5, Changes
  <2> QED BY <2>1, <1>1
<1> QED BY <1>2, <1>3, <1>4, <1>5

\* It ends no line but the writer's.
LEMMA NewEnd ==
  ASSUME TypeOK, Taken, NEW p \in Procs, Step(p), NEW f \in Files,
         NEW i \in Ends(text'[f])
  PROVE  \/ i \in Ends(text[f]) /\ text'[f][i] = text[f][i]
         \/ /\ pc[p] \in Appending /\ f = fd[p] /\ text'[f][i] = Piece(p, TRUE)
            /\ Goto(p, "fsync") /\ \A j \in DOMAIN text[f] : j < i
<1>1. i \in DOMAIN text'[f] /\ text'[f][i].end
  BY DEF Ends
<1>2. CASE i \in DOMAIN text[f] /\ text'[f][i] = text[f][i]
  BY <1>1, <1>2 DEF Ends
<1>3. CASE text'[f][i] = Piece(p, FALSE)
  BY <1>1, <1>3 DEF Piece
<1>4. \/ i \in DOMAIN text[f] /\ text'[f][i] = text[f][i]
      \/ /\ pc[p] \in Appending /\ f = fd[p]
         /\ \/ text'[f][i] = Piece(p, TRUE) /\ Goto(p, "fsync")
            \/ text'[f][i] = Piece(p, FALSE)
         /\ \A j \in DOMAIN text[f] : j < i
  BY <1>1, NewPiece
<1> QED BY <1>2, <1>3, <1>4

\* Who is writing or syncing was before, or has just got its record or
\* written it.
LEMMA Still ==
  ASSUME TypeOK, NEW p \in Procs, Step(p),
         NEW q \in Procs, pc'[q] \in Appending \cup {"fsync"}
  PROVE  \/ pc'[q] = pc[q] /\ rec'[q] = rec[q] /\ fd'[q] = fd[q]
         \/ /\ q = p /\ (Write(p) \/ WriteRest(p))
            /\ rec'[p] = rec[p] /\ fd'[p] = fd[p]
            /\ pc'[p] \in {"rest", "fsync"} /\ pc[p] \in Appending
         \/ /\ q = p /\ (Prepare(p) \/ Complete(p)) /\ fd'[p] = fd[p]
            /\ pc'[p] = "write"
<1>0. /\ pc \in [Procs -> Points] /\ rec \in [Procs -> Records \cup {NoRecord}]
      /\ fd \in [Procs -> Files \cup {None}]
  BY DEF TypeOK
<1> USE <1>0 DEF Appending, Goto
<1>ended. CASE End(p)
  BY <1>ended DEF End
<1>1. CASE Start(p)
  BY <1>1 DEF Start
<1>2. CASE Look(p)
  BY <1>2 DEF Look
<1>3. CASE Mkdir(p)
  BY <1>3, <1>ended DEF Mkdir, Missing
<1>4. CASE Enter(p)
  BY <1>4, <1>ended DEF Enter, Missing, Advance
<1>5. CASE Chown(p)
  BY <1>5 DEF Chown, Advance
<1>6. CASE ChownFails(p)
  BY <1>6, <1>ended DEF ChownFails
<1>7. CASE SyncDir(p)
  BY <1>7 DEF SyncDir, Advance
<1>8. CASE CreateJournal(p)
  BY <1>8, <1>ended, Created DEF HasJournal
<1>9. CASE ReopenJournal(p)
  BY <1>9, <1>ended DEF ReopenJournal
<1>10. CASE Trust(p)
  BY <1>10 DEF Trust
<1>11. CASE SyncEntry(p)
  BY <1>11 DEF SyncEntry
<1>12. CASE OpenFails(p)
  BY <1>12, <1>ended DEF OpenFails
<1>13. CASE Load(p)
  BY <1>13, <1>ended DEF Load
<1>14. CASE Prepare(p)
  BY <1>14 DEF Prepare
<1>15. CASE Complete(p)
  BY <1>15 DEF Complete
<1>16. CASE Close(p)
  BY <1>16, <1>ended DEF Close
<1>17. CASE Write(p)
  BY <1>17 DEF Write, Put
<1>18. CASE WriteRest(p)
  BY <1>18 DEF WriteRest, Put
<1>19. CASE Fsync(p)
  BY <1>19 DEF Fsync
<1>20. CASE AppendFails(p)
  BY <1>20 DEF AppendFails
<1>21. CASE GiveUp(p)
  BY <1>21, <1>ended DEF GiveUp
<1> QED BY <1>1, <1>2, <1>3, <1>4, <1>5, <1>6, <1>7, <1>8, <1>9, <1>10, <1>11,
           <1>12, <1>13, <1>14, <1>15, <1>16, <1>17, <1>18, <1>19, <1>20, <1>21
        DEF Step

\* Keys are drawn once: nobody writes one that was not drawn.
LEMMA TakenKept ==
  ASSUME TypeOK, Taken, NEW p \in Procs, Step(p)
  PROVE  Taken'
<1>0. used \subseteq used'
  BY Changes DEF Prepare
<1>1. ASSUME NEW q \in Procs PROVE view'[q] \subseteq used'
  <2>0. /\ view \in [Procs -> SUBSET Keys] /\ view[q] \subseteq used
        /\ view[p] \subseteq used /\ rec[p].key \in used \cup {None}
    BY DEF TypeOK, Taken
  <2>1. CASE Load(p)
    <3>1. CASE End(p)
      BY <3>1, <2>0 DEF End
    <3>2. CASE view' = [view EXCEPT ![p] = Pending(text[fd[p]])]
      <4>1. fd[p] \in Files
        BY <2>1 DEF Load, TypeOK
      <4>2. Pending(text[fd[p]]) \subseteq used
        BY <4>1 DEF Taken, Pending, Loaded, Ends
      <4> QED BY <4>2, <3>2, <2>0, <1>0
    <3> QED BY <2>1, <3>1, <3>2 DEF Load
  <2>2. CASE Prepare(p) \/ Complete(p)
    BY <2>2, <2>0, <1>0 DEF Prepare, Complete
  <2>3. CASE Fsync(p)
    <3>1. rec[p].key \in used
      BY <2>3 DEF Fsync, Taken
    <3> QED BY <3>1, <2>3, <2>0 DEF Fsync
  <2>4. CASE End(p)
    BY <2>4, <2>0 DEF End
  <2>5. CASE UNCHANGED view
    BY <2>5, <2>0, <1>0
  <2> QED BY <2>1, <2>2, <2>3, <2>4, <2>5, Changes
<1>2. ASSUME NEW q \in Procs
      PROVE  /\ rec'[q].key \in used' \cup {None}
             /\ pc'[q] \in Appending \cup {"fsync"} => rec'[q].key # None
  <2>0. /\ rec \in [Procs -> Records \cup {NoRecord}]
        /\ rec[q].key \in used \cup {None}
        /\ pc[q] \in Appending \cup {"fsync"} => rec[q].key # None
        /\ view[p] \subseteq Keys /\ used \subseteq Keys
        /\ view[p] \subseteq used
        /\ pc \in [Procs -> Points]
    BY DEF TypeOK, Taken
  <2>1. CASE Prepare(p)
    BY <2>1, <2>0 DEF Prepare, Goto, Appending
  <2>2. CASE Complete(p)
    BY <2>2, <2>0 DEF Complete, Goto, Appending
  <2>3. CASE End(p)
    BY <2>3, <2>0, <1>0 DEF End, Goto, Appending, NoRecord
  <2>4. CASE UNCHANGED rec /\ ~Prepare(p) /\ ~Complete(p)
    <3>1. pc'[q] \in Appending \cup {"fsync"}
            => pc[q] \in Appending \cup {"fsync"}
      BY <2>4, Still
    <3> QED BY <3>1, <2>4, <2>0, <1>0
  <2> QED BY <2>1, <2>2, <2>3, <2>4, Changes
<1>3. ASSUME NEW f \in Files, NEW i \in DOMAIN text'[f]
      PROVE  text'[f][i].rec.key \in used'
  <2>2. CASE i \in DOMAIN text[f] /\ text'[f][i] = text[f][i]
    BY <1>0, <2>2 DEF Taken
  <2>3. CASE pc[p] \in Appending
             /\ text'[f][i] \in {Piece(p, TRUE), Piece(p, FALSE)}
    <3>1. rec[p].key \in used
      BY <2>3 DEF Taken
    <3> QED BY <1>0, <2>3, <3>1 DEF Piece
  <2>4. \/ i \in DOMAIN text[f] /\ text'[f][i] = text[f][i]
        \/ /\ pc[p] \in Appending /\ f = fd[p]
           /\ \/ text'[f][i] = Piece(p, TRUE) /\ Goto(p, "fsync")
              \/ text'[f][i] = Piece(p, FALSE)
           /\ \A j \in DOMAIN text[f] : j < i
    BY <1>3, NewPiece
  <2> QED BY <2>2, <2>3, <2>4
<1> QED BY <1>1, <1>2, <1>3 DEF Taken
\* What a journal in use has, it keeps.
LEMMA HasStays ==
  ASSUME TypeOK, Taken, NEW p \in Procs, Step(p), NEW q \in Procs, fd[q] # None
  PROVE  /\ \A k : Has(fd[q], k) =>
              \E i \in Ends(text'[fd[q]]) : text'[fd[q]][i].rec.key = k
         /\ \A r : HasRecord(fd[q], r) =>
              \E i \in Ends(text'[fd[q]]) : text'[fd[q]][i].rec = r
<1>1. fd[q] \in Files
  BY DEF TypeOK
<1>2. \A i \in Ends(text[fd[q]]) :
        i \in Ends(text'[fd[q]]) /\ text'[fd[q]][i] = text[fd[q]][i]
  BY <1>1, InUse DEF Ends
<1> QED BY <1>2 DEF Has, HasRecord

\* A completion is appended after the entry it completes, by whoever has read
\* or written that entry.
LEMMA ForwardKept ==
  ASSUME TypeOK, Placed, Builders, Taken, Forward, NEW p \in Procs, Step(p)
  PROVE  Forward'
<1>1. ASSUME NEW q \in Procs, NEW k \in view'[q]
      PROVE  /\ fd'[q] # None
             /\ \E i \in Ends(text'[fd'[q]]) : text'[fd'[q]][i].rec.key = k
  <2>1. CASE k \in view[q] /\ fd'[q] = fd[q]
    BY <2>1, HasStays DEF Forward
  <2>2. CASE Load(p) /\ q = p /\ k \in Pending(text[fd[p]])
    <3>1. fd'[p] = fd[p] /\ fd[p] # None /\ UNCHANGED text
      BY <2>2, <1>1 DEF Load, End, TypeOK
    <3>2. \E i \in Ends(text[fd[p]]) : text[fd[p]][i].rec.key = k
      BY <2>2 DEF Pending, Loaded
    <3> QED BY <2>2, <3>1, <3>2
  <2>3. CASE Fsync(p) /\ q = p /\ k = rec[p].key
    <3>1. fd'[p] = fd[p] /\ fd[p] # None /\ UNCHANGED text
      BY <2>3 DEF Fsync, TypeOK
    <3>2. \E i \in Ends(text[fd[p]]) : text[fd[p]][i].rec = rec[p]
      BY <2>3 DEF Fsync, Forward, HasRecord
    <3> QED BY <2>3, <3>1, <3>2
  <2>4. \/ k \in view[q] /\ fd'[q] = fd[q]
        \/ Load(p) /\ q = p /\ k \in Pending(text[fd[p]])
        \/ Fsync(p) /\ q = p /\ k = rec[p].key
    <3>0. view \in [Procs -> SUBSET Keys] /\ fd \in [Procs -> Files \cup {None}]
      BY DEF TypeOK
    <3>1. CASE End(p)
      BY <3>1, <3>0, <1>1 DEF End
    <3>2. CASE q # p
      <4>1. view'[q] = view[q]
        BY <3>0, <3>2, Changes DEF End, Load, Prepare, Complete, Fsync
      <4>2. fd'[q] = fd[q]
        BY <3>0, <3>2, Changes, Created DEF End, ReopenJournal
      <4> QED BY <4>1, <4>2, <1>1
    <3>3. CASE q = p /\ ~End(p)
      <4>1. CASE CreateJournal(p) \/ ReopenJournal(p)
        <5>1. fd[p] = None
          BY <4>1 DEF CreateJournal, ReopenJournal, Placed, HasJournal
        <5>2. view[p] = {}
          BY <5>1 DEF Forward
        <5>3. UNCHANGED view
          BY <4>1, <3>3, Created DEF ReopenJournal
        <5> QED BY <5>2, <5>3, <3>3, <1>1
      <4>2. CASE UNCHANGED fd
        <5>1. CASE Load(p)
          BY <5>1, <4>2, <3>0, <3>3, <1>1 DEF Load
        <5>2. CASE Prepare(p) \/ Complete(p)
          BY <5>2, <4>2, <3>0, <3>3, <1>1 DEF Prepare, Complete
        <5>3. CASE Fsync(p)
          BY <5>3, <4>2, <3>0, <3>3, <1>1 DEF Fsync
        <5>4. CASE UNCHANGED view
          BY <5>4, <4>2, <1>1
        <5> QED BY <5>1, <5>2, <5>3, <5>4, <3>3, Changes
      <4> QED BY <4>1, <4>2, <3>3, Changes
    <3> QED BY <3>1, <3>2, <3>3
  <2> QED BY <2>1, <2>2, <2>3, <2>4
<1>2. ASSUME NEW q \in Procs, pc'[q] \in Appending, rec'[q].complete
      PROVE  \E i \in Ends(text'[fd'[q]]) :
               text'[fd'[q]][i].rec.key = rec'[q].key
  <2>1. CASE pc[q] \in Appending /\ rec'[q] = rec[q] /\ fd'[q] = fd[q]
    <3>1. Has(fd[q], rec[q].key) /\ fd[q] # None
      BY <1>2, <2>1 DEF Forward, TypeOK, Appending
    <3> QED BY <3>1, <2>1, HasStays
  <2>2. CASE q = p /\ Complete(p)
    <3>1. PICK k \in view[p] :
                 rec' = [rec EXCEPT ![p] = [key |-> k, complete |-> TRUE]]
      BY <2>2 DEF Complete
    <3>2. Has(fd[p], k) /\ fd'[p] = fd[p] /\ UNCHANGED text
      BY <2>2 DEF Complete, Forward
    <3>3. rec'[q].key = k
      BY <2>2, <3>1 DEF TypeOK
    <3> QED BY <2>2, <3>2, <3>3 DEF Has
  <2>3. CASE q = p /\ Prepare(p)
    <3>1. ~rec'[p].complete
      BY <2>3 DEF Prepare, TypeOK
    <3> QED BY <1>2, <2>3, <3>1
  <2> QED BY <1>2, <2>1, <2>2, <2>3, Still
<1>3. ASSUME NEW q \in Procs, pc'[q] \in Appending, ~rec'[q].complete,
             NEW f \in Files, NEW i \in Ends(text'[f])
      PROVE  text'[f][i].rec.key # rec'[q].key
  <2>1. CASE pc[q] \in Appending /\ rec'[q] = rec[q]
    <3>1. \A j \in Ends(text[f]) : text[f][j].rec.key # rec[q].key
      BY <1>3, <2>1 DEF Forward, Has
    <3>2. CASE i \in Ends(text[f]) /\ text'[f][i] = text[f][i]
      BY <3>1, <3>2, <2>1
    <3>3. CASE /\ pc[p] \in Appending /\ f = fd[p]
               /\ text'[f][i] = Piece(p, TRUE)
               /\ Goto(p, "fsync")
      <4>1. q # p
        BY <1>3, <3>3 DEF Goto, TypeOK, Appending
      <4>2. rec[p].key # rec[q].key
        <5>1. CASE rec[p].complete
          BY <5>1, <3>1, <3>3 DEF Forward, Has
        <5>2. CASE ~rec[p].complete
          BY <5>2, <4>1, <3>3, <2>1, <1>3 DEF Forward
        <5> QED BY <5>1, <5>2
      <4> QED BY <4>2, <3>3, <2>1 DEF Piece
    <3> QED BY <3>2, <3>3, NewEnd
  <2>2. CASE q = p /\ Prepare(p)
    <3>1. PICK k \in Keys \ used :
                 rec' = [rec EXCEPT ![p] = [key |-> k, complete |-> FALSE]]
      BY <2>2 DEF Prepare
    <3>2. UNCHANGED text /\ rec'[p].key = k
      BY <2>2, <3>1 DEF Prepare, TypeOK
    <3>3. text[f][i].rec.key \in used
      BY <3>2 DEF Taken, Ends
    <3> QED BY <2>2, <3>1, <3>2, <3>3
  <2>3. CASE q = p /\ Complete(p)
    <3>1. rec'[p].complete
      BY <2>3 DEF Complete, TypeOK
    <3> QED BY <1>3, <2>3, <3>1
  <2> QED BY <1>3, <2>1, <2>2, <2>3, Still
<1>4. ASSUME NEW q \in Procs, pc'[q] = "fsync"
      PROVE  \E i \in Ends(text'[fd'[q]]) : text'[fd'[q]][i].rec = rec'[q]
  <2>1. CASE pc[q] = "fsync" /\ rec'[q] = rec[q] /\ fd'[q] = fd[q]
    <3>1. HasRecord(fd[q], rec[q]) /\ fd[q] # None
      BY <2>1 DEF Forward, TypeOK
    <3> QED BY <3>1, <2>1, HasStays
  <2>2. CASE q = p /\ (Write(p) \/ WriteRest(p)) /\ fd'[p] = fd[p]
             /\ rec'[p] = rec[p]
    <3> DEFINE t == text'[fd[p]]
    <3>1. t \in Seq(Pieces) /\ t # <<>> /\ t[Len(t)] = Piece(p, TRUE)
      <4>1. Goto(p, "fsync") => pc'[p] # "rest"
        BY DEF Goto, TypeOK
      <4>2. PICK more \in Seq(Pieces) :
              /\ t \in Seq(Pieces)
              /\ Len(t) = Len(text[fd[p]]) + Len(more)
              /\ \A j \in 1..Len(more) : t[Len(text[fd[p]]) + j] = more[j]
              /\ \/ more = <<Piece(p, FALSE), Piece(p, TRUE)>>
                 \/ more = <<Piece(p, FALSE)>> /\ Goto(p, "rest")
                 \/ more = <<Piece(p, TRUE)>>
        BY <2>2, Appended
      <4>3. ~Goto(p, "rest")
        BY <1>4, <2>2 DEF Goto, TypeOK
      <4>4. Len(text[fd[p]]) \in Nat
        <5>1. fd[p] \in Files
          BY <2>2, Appended
        <5> QED BY <5>1, LenProperties DEF TypeOK
      <4>5. Len(more) \in 1..2 /\ more[Len(more)] = Piece(p, TRUE)
        <5> DEFINE a == Piece(p, FALSE)
                   b == Piece(p, TRUE)
        <5>1. more = <<a, b>> \/ more = <<b>>
          BY <4>2, <4>3
        <5> HIDE DEF a, b
        <5>2. Len(more) \in 1..2 /\ more[Len(more)] = b
          BY <5>1
        <5> QED BY <5>2 DEF b
      <4>6. Len(more) \in 1..Len(more)
        BY <4>5
      <4>7. t[Len(t)] = Piece(p, TRUE) /\ Len(t) > 0
        <5>1. t[Len(text[fd[p]]) + Len(more)] = more[Len(more)]
          BY <4>2, <4>6
        <5>2. Len(t) = Len(text[fd[p]]) + Len(more)
          BY <4>2
        <5>3. t[Len(t)] = Piece(p, TRUE)
          BY <5>1, <5>2, <4>5
        <5>4. Len(t) > 0
          <6>1. \A n \in 1..2, m \in Nat : m + n > 0
            OBVIOUS
          <6> QED BY <6>1, <5>2, <4>4, <4>5
        <5> QED BY <5>3, <5>4
      <4> QED BY <4>2, <4>7
    <3>2. Len(t) \in DOMAIN t
      BY <3>1, LenProperties, EmptySeq
    <3> QED BY <2>2, <3>1, <3>2 DEF Ends, Piece
  <2> QED BY <1>4, <2>1, <2>2, Still DEF Appending
<1>5. ASSUME NEW q \in Procs, NEW r \in Procs,
             pc'[q] \in Appending, pc'[r] \in Appending,
             ~rec'[q].complete, ~rec'[r].complete, rec'[q].key = rec'[r].key
      PROVE  q = r
  <2> DEFINE Old(s) == pc[s] \in Appending /\ rec'[s] = rec[s]
             New(s) == s = p /\ rec'[s].key \in Keys \ used
  <2>1. ASSUME NEW s \in {q, r}
        PROVE  Old(s) \/ New(s)
    <3>1. CASE s = p /\ Prepare(p)
      BY <3>1 DEF Prepare, TypeOK
    <3>2. CASE s = p /\ Complete(p)
      <4>1. rec'[p].complete
        BY <3>2 DEF Complete, TypeOK
      <4> QED BY <1>5, <3>2, <4>1
    <3> QED BY <1>5, <3>1, <3>2, Still
  <2>2. CASE Old(q) /\ Old(r)
    BY <1>5, <2>2 DEF Forward
  <2>3. \A s \in {q, r} : Old(s) => rec'[s].key \in used
    BY DEF Taken
  <2> QED BY <1>5, <2>1, <2>2, <2>3
<1>6. ASSUME NEW f \in Files, NEW i \in Ends(text'[f]),
             NEW j \in Ends(text'[f]),
             i < j, text'[f][i].rec.key = text'[f][j].rec.key,
             text'[f][i].rec.complete
      PROVE  text'[f][j].rec.complete
  <2> DEFINE Old(n) == n \in Ends(text[f]) /\ text'[f][n] = text[f][n]
             New(n) == /\ pc[p] \in Appending /\ f = fd[p]
                       /\ text'[f][n] = Piece(p, TRUE)
                       /\ \A m \in DOMAIN text[f] : m < n
  <2>1. (Old(i) \/ New(i)) /\ (Old(j) \/ New(j))
    BY NewEnd
  <2>2. CASE Old(i) /\ Old(j)
    BY <1>6, <2>2 DEF Forward
  <2>3. CASE Old(i) /\ New(j)
    <3>1. Has(f, rec[p].key)
      BY <1>6, <2>3 DEF Has, Piece
    <3>2. rec[p].complete
      BY <3>1, <2>3 DEF Forward
    <3> QED BY <3>2, <2>3 DEF Piece
  <2>4. CASE New(i) /\ Old(j)
    <3>1. j < i /\ i \in Int /\ j \in Int
      <4>1. text[f] \in Seq(Pieces) /\ text'[f] \in Seq(Pieces)
        BY TypeKept DEF TypeOK
      <4> QED BY <2>4, <4>1 DEF Ends
    <3> QED BY <3>1, <1>6
  <2>5. CASE New(i) /\ New(j)
    BY <1>6, <2>5
  <2> QED BY <2>1, <2>2, <2>3, <2>4, <2>5
<1>7. Forward'
  BY <1>1, <1>2, <1>3, <1>4, <1>5, <1>6 DEF Forward, Has, HasRecord
<1> QED BY <1>7

\* What follows the seam, when nothing is glued to it.
LEMMA Seam ==
  ASSUME TypeOK, NEW p \in Procs, Write(p) \/ WriteRest(p),
         "glued" \notin slips'
  PROVE  /\ "glued" \notin slips
         /\ pc[p] = "write"
              => text[fd[p]] = <<>> \/ text[fd[p]][Len(text[fd[p]])].end
         /\ pc[p] = "rest"
              => text[fd[p]] # <<>> /\ ~text[fd[p]][Len(text[fd[p]])].end
<1> DEFINE t == text[fd[p]]
           mid == t # <<>> /\ ~t[Len(t)].end
<1>1. CASE Write(p)
  <2>1. PICK pieces : Put(p, pieces) /\ ~Head(pieces).end
    BY <1>1 DEF Write, Piece
  <2>2. ~mid /\ "glued" \notin slips
    BY <2>1 DEF Put
  <2>3. pc[p] = "write"
    BY <1>1 DEF Write
  <2> QED BY <2>2, <2>3
<1>2. CASE WriteRest(p)
  <2>1. PICK pieces : Put(p, pieces) /\ Head(pieces).end
    BY <1>2 DEF WriteRest, Piece
  <2>2. mid /\ "glued" \notin slips
    BY <2>1 DEF Put
  <2>3. pc[p] = "rest"
    BY <1>2 DEF WriteRest
  <2> QED BY <2>2, <2>3
<1> QED BY <1>1, <1>2

\* A fault that has happened has happened.
LEMMA SlipsLast ==
  ASSUME TypeOK, NEW p \in Procs, Step(p)
  PROVE  slips \subseteq slips'
<1>1. CASE Enter(p) \/ Chown(p) \/ SyncDir(p)
  BY <1>1 DEF Enter, Chown, SyncDir, Advance
<1>2. CASE OpenFails(p)
  BY <1>2 DEF OpenFails
<1>3. CASE Write(p) \/ WriteRest(p)
  BY <1>3 DEF Write, WriteRest, Put
<1> QED BY <1>1, <1>2, <1>3, Changes

\* As long as nobody writes between the halves of a line, the halves alternate.
LEMMA UngluedKept ==
  ASSUME TypeOK, Taken, Unglued, NEW p \in Procs, Step(p)
  PROVE  Unglued'
<1> SUFFICES ASSUME "glued" \notin slips'
             PROVE  /\ \A f \in Files : Lines(text'[f])
                    /\ \A q \in Procs :
                         pc'[q] = "rest" =>
                           /\ text'[fd'[q]] # <<>>
                           /\ text'[fd'[q]][Len(text'[fd'[q]])] = Piece(q,
                              FALSE)'
                    /\ \A q, r \in Procs :
                         pc'[q] = "rest" /\ pc'[r] = "rest" /\ fd'[q] = fd'[r]
                           => q = r
  BY DEF Unglued, Lines
<1>0. /\ \A f \in Files : Lines(text[f])
      /\ \A q \in Procs :
           pc[q] = "rest" =>
             /\ text[fd[q]] # <<>>
             /\ text[fd[q]][Len(text[fd[q]])] = Piece(q, FALSE)
      /\ \A q, r \in Procs :
           pc[q] = "rest" /\ pc[r] = "rest" /\ fd[q] = fd[r] => q = r
  BY SlipsLast DEF Unglued
<1>1. \A f \in Files : text[f] \in Seq(Pieces) /\ Len(text[f]) \in Nat
                       /\ DOMAIN text[f] = 1..Len(text[f])
  BY LenProperties DEF TypeOK
<1>2. \A q \in Procs : pc'[q] = "rest" =>
        \/ pc[q] = "rest" /\ rec'[q] = rec[q] /\ fd'[q] = fd[q]
        \/ q = p /\ Write(p) /\ pc[p] = "write" /\ rec'[p] = rec[p]
           /\ fd'[p] = fd[p]
  <2>1. ASSUME NEW q \in Procs, pc'[q] = "rest"
        PROVE  \/ pc'[q] = pc[q] /\ rec'[q] = rec[q] /\ fd'[q] = fd[q]
               \/ q = p /\ (Write(p) \/ WriteRest(p)) /\ rec'[p] = rec[p]
                  /\ fd'[p] = fd[p]
    BY <2>1, Still DEF Appending
  <2>2. WriteRest(p) => pc'[p] # "rest"
    BY DEF WriteRest, Goto, TypeOK
  <2>3. Write(p) => pc[p] = "write"
    BY DEF Write
  <2> QED BY <2>1, <2>2, <2>3
<1>3. CASE Write(p) \/ WriteRest(p)
  <2> DEFINE f == fd[p]
             n == Len(text[f])
  <2>1. PICK more \in Seq(Pieces) :
          /\ text' = [text EXCEPT ![f] = @ \o more]
          /\ text'[f] \in Seq(Pieces)
          /\ Len(text'[f]) = n + Len(more)
          /\ \A i \in 1..n : text'[f][i] = text[f][i]
          /\ \A i \in 1..Len(more) : text'[f][n + i] = more[i]
          /\ \/ /\ pc[p] = "write" /\ more = <<Piece(p, FALSE), Piece(p, TRUE)>>
                /\ Goto(p, "fsync")
             \/ pc[p] = "write" /\ more = <<Piece(p, FALSE)>> /\ Goto(p, "rest")
             \/ pc[p] = "rest" /\ more = <<Piece(p, TRUE)>> /\ Goto(p, "fsync")
    BY <1>3, Appended
  <2>2. f \in Files /\ n \in Nat
    BY <1>1, <1>3, Appended
  <2>3. /\ pc[p] = "write" => text[f] = <<>> \/ text[f][n].end
        /\ pc[p] = "rest" => text[f] # <<>> /\ ~text[f][n].end
    BY <1>3, Seam
  <2>4. \A g \in Files : g # f => text'[g] = text[g]
    BY <2>1 DEF TypeOK
  <2>5. n > 0 <=> text[f] # <<>>
    BY <1>1, <2>2, EmptySeq
  <2>6. \/ /\ pc[p] = "write" /\ Len(text'[f]) = n + 2
           /\ text'[f][n + 1] = Piece(p, FALSE)
           /\ text'[f][n + 2] = Piece(p, TRUE)
        \/ /\ pc[p] = "write" /\ Len(text'[f]) = n + 1
           /\ text'[f][n + 1] = Piece(p, FALSE)
        \/ /\ pc[p] = "rest" /\ Len(text'[f]) = n + 1
           /\ text'[f][n + 1] = Piece(p, TRUE)
    <3> DEFINE a == Piece(p, FALSE)
               b == Piece(p, TRUE)
    <3> HIDE DEF a, b, f, n
    <3>1. \/ pc[p] = "write" /\ more = <<a, b>>
          \/ pc[p] = "write" /\ more = <<a>>
          \/ pc[p] = "rest" /\ more = <<b>>
      BY <2>1 DEF a, b
    <3>2. Len(text'[f]) = n + Len(more) /\ \A i \in 1..Len(more) :
            text'[f][n + i] = more[i]
      BY <2>1
    <3>3. \/ /\ pc[p] = "write" /\ Len(text'[f]) = n + 2
             /\ text'[f][n + 1] = a /\ text'[f][n + 2] = b
          \/ pc[p] = "write" /\ Len(text'[f]) = n + 1 /\ text'[f][n + 1] = a
          \/ pc[p] = "rest" /\ Len(text'[f]) = n + 1 /\ text'[f][n + 1] = b
      <4>1. CASE pc[p] = "write" /\ more = <<a, b>>
        <5>1. Len(more) = 2 /\ more[1] = a /\ more[2] = b
          BY <4>1
        <5> QED BY <4>1, <5>1, <3>2
      <4>2. CASE pc[p] = "write" /\ more = <<a>>
        <5>1. Len(more) = 1 /\ more[1] = a
          BY <4>2
        <5> QED BY <4>2, <5>1, <3>2
      <4>3. CASE pc[p] = "rest" /\ more = <<b>>
        <5>1. Len(more) = 1 /\ more[1] = b
          BY <4>3
        <5> QED BY <4>3, <5>1, <3>2
      <4> QED BY <3>1, <4>1, <4>2, <4>3
    <3> QED BY <3>3 DEF a, b
  <2>7. Lines(text'[f])
    <3>1. DOMAIN text'[f] = 1..Len(text'[f])
      BY <2>1, LenProperties
    <3>2. ASSUME NEW i \in 1..n
          PROVE  IF text'[f][i].end
                   THEN i > 1
                   /\ text'[f][i - 1] = [rec |-> text'[f][i].rec, end |-> FALSE]
                   ELSE i = 1 \/ text'[f][i - 1].end
      <4>1. IF text[f][i].end
              THEN i > 1
              /\ text[f][i - 1] = [rec |-> text[f][i].rec, end |-> FALSE]
              ELSE i = 1 \/ text[f][i - 1].end
        <5>1. Lines(text[f]) /\ DOMAIN text[f] = 1..n
          BY <1>0, <1>1, <2>2
        <5> QED BY <5>1 DEF Lines
      <4>2. text'[f][i] = text[f][i]
            /\ (i > 1 => text'[f][i - 1] = text[f][i - 1])
        <5>1. \A j \in 1..n : text'[f][j] = text[f][j]
          BY <2>1
        <5>2. i > 1 => i - 1 \in 1..n
          BY <2>2
        <5> QED BY <5>1, <5>2
      <4> QED BY <4>1, <4>2, <2>2
    <3>3. CASE pc[p] = "write"
      <4>1. n = 0 \/ (n > 0 /\ text'[f][n].end)
        BY <2>1, <2>2, <2>3, <2>5, <3>3
      <4>2. /\ text'[f][n + 1] = Piece(p, FALSE)
            /\ Len(text'[f]) = n + 2 => text'[f][n + 2] = Piece(p, TRUE)
            /\ Len(text'[f]) \in {n + 1, n + 2}
        <5>1. n + 1 # n + 2 /\ "write" # "rest"
          BY <2>2
        <5> HIDE DEF n, f
        <5> QED BY <5>1, <2>6, <3>3
      <4>3. ASSUME NEW i \in 1..Len(text'[f])
            PROVE  IF text'[f][i].end
                     THEN i > 1
                     /\ text'[f][i - 1] = [rec |-> text'[f][i].rec,
                                           end |-> FALSE]
                     ELSE i = 1 \/ text'[f][i - 1].end
        <5>1. CASE i \in 1..n
          BY <5>1, <3>2
        <5>2. CASE i = n + 1
          BY <5>2, <4>1, <4>2, <2>2 DEF Piece
        <5>3. CASE i = n + 2 /\ Len(text'[f]) = n + 2
          <6>1. text'[f][i] = Piece(p, TRUE)
                /\ text'[f][n + 1] = Piece(p, FALSE)
            BY <5>3, <4>2
          <6>2. i > 1 /\ i - 1 = n + 1
            BY <5>3, <2>2
          <6> QED BY <6>1, <6>2 DEF Piece
        <5> QED BY <5>1, <5>2, <5>3, <4>2, <2>2
      <4> QED BY <4>3, <3>1 DEF Lines
    <3>4. CASE pc[p] = "rest"
      <4>1. n > 0 /\ text'[f][n] = Piece(p, FALSE)
        <5>1. n > 0 /\ text[f][n] = Piece(p, FALSE)
          BY <1>0, <2>5, <3>4
        <5>2. n \in 1..n
          BY <5>1, <2>2
        <5> QED BY <5>1, <5>2, <2>1
      <4>2. text'[f][n + 1] = Piece(p, TRUE) /\ Len(text'[f]) = n + 1
        BY <2>6, <3>4
      <4>3. ASSUME NEW i \in 1..Len(text'[f])
            PROVE  IF text'[f][i].end
                     THEN i > 1
                     /\ text'[f][i - 1] = [rec |-> text'[f][i].rec,
                                           end |-> FALSE]
                     ELSE i = 1 \/ text'[f][i - 1].end
        <5>1. CASE i \in 1..n
          BY <5>1, <3>2
        <5>2. CASE i = n + 1
          BY <5>2, <4>1, <4>2, <2>2 DEF Piece
        <5> QED BY <5>1, <5>2, <4>2, <2>2
      <4> QED BY <4>3, <3>1 DEF Lines
    <3> QED BY <2>1, <3>3, <3>4
  <2>8. \A q \in Procs : q # p /\ pc[q] = "rest" => fd[q] # f
    <3>1. ASSUME NEW q \in Procs, q # p, pc[q] = "rest", fd[q] = f
          PROVE  FALSE
      <4>1. text[f] # <<>> /\ ~text[f][n].end
        <5>1. text[fd[q]] # <<>>
              /\ text[fd[q]][Len(text[fd[q]])] = Piece(q, FALSE)
          BY <1>0, <3>1
        <5> QED BY <5>1, <3>1 DEF Piece
      <4>2. pc[p] = "rest"
        BY <4>1, <2>1, <2>3
      <4> QED BY <4>2, <3>1, <1>0
    <3> QED BY <3>1
  <2>9. ASSUME NEW q \in Procs, pc'[q] = "rest"
        PROVE  /\ text'[fd'[q]] # <<>>
               /\ text'[fd'[q]][Len(text'[fd'[q]])] = Piece(q, FALSE)'
    <3>1. CASE q = p
      <4>1. Len(text'[f]) = n + 1 /\ text'[f][n + 1] = Piece(p, FALSE)
        <5>1. ~Goto(p, "fsync") /\ pc[p] = "write"
          BY <2>9, <3>1, <1>2, <1>3, <2>1 DEF Goto, TypeOK
        <5> QED BY <5>1, <2>1, <2>6
      <4>2. fd'[p] = f /\ rec'[p] = rec[p]
        BY <2>9, <3>1, <1>2
      <4>3. text'[f] # <<>>
        BY <4>1, <2>2, EmptySeq
      <4> QED BY <4>1, <4>2, <4>3, <3>1 DEF Piece
    <3>2. CASE q # p
      <4>1. pc[q] = "rest" /\ rec'[q] = rec[q] /\ fd'[q] = fd[q] /\ fd[q] # f
        BY <2>9, <3>2, <1>2, <2>8
      <4>2. text'[fd[q]] = text[fd[q]]
        BY <4>1, <2>4 DEF TypeOK
      <4> QED BY <4>1, <4>2, <1>0 DEF Piece
    <3> QED BY <3>1, <3>2
  <2>10. ASSUME NEW q \in Procs, NEW r \in Procs,
                pc'[q] = "rest", pc'[r] = "rest", fd'[q] = fd'[r]
         PROVE  q = r
    <3>1. \A s \in {q, r} : s = p \/ (pc[s] = "rest" /\ fd[s] # f)
      BY <2>10, <1>2, <2>8
    <3>2. \A s \in {q, r} : fd'[s] = fd[s]
      BY <2>10, <1>2
    <3> QED BY <2>10, <3>1, <3>2, <1>0
  <2> QED BY <2>4, <2>7, <2>9, <2>10, <1>0
<1>4. CASE ~Write(p) /\ ~WriteRest(p)
  <2>1. \A f \in Files : text'[f] = text[f] \/ text'[f] = <<>>
    <3>1. CASE CreateJournal(p)
      <4>1. CASE UNCHANGED text
        BY <4>1
      <4>2. CASE \E g \in Files : text' = [text EXCEPT ![g] = <<>>]
        BY <4>2 DEF TypeOK
      <4> QED BY <3>1, <4>1, <4>2, Created
    <3>2. CASE ~CreateJournal(p)
      <4>1. UNCHANGED text
        BY <1>4, <3>2
        DEF Step, Start, Look, Mkdir, Missing, Enter, Advance, Chown,
           ChownFails, SyncDir, ReopenJournal, Trust, SyncEntry, OpenFails,
           Load, Prepare, Complete, Close, Fsync, AppendFails, GiveUp
      <4> QED BY <4>1
    <3> QED BY <3>1, <3>2
  <2>2. \A f \in Files : Lines(text'[f])
    <3>1. Lines(<<>>)
      BY DEF Lines
    <3> QED BY <3>1, <2>1, <1>0
  <2>3. ASSUME NEW q \in Procs, pc'[q] = "rest"
        PROVE  /\ text'[fd'[q]] # <<>>
               /\ text'[fd'[q]][Len(text'[fd'[q]])] = Piece(q, FALSE)'
    <3>1. pc[q] = "rest" /\ rec'[q] = rec[q] /\ fd'[q] = fd[q]
      BY <2>3, <1>2, <1>4
    <3>2. fd[q] \in Files
      BY <3>1 DEF TypeOK
    <3>3. Len(text[fd[q]]) \in DOMAIN text[fd[q]]
      <4>1. text[fd[q]] # <<>>
        BY <1>0, <3>1
      <4>2. /\ text[fd[q]] \in Seq(Pieces) /\ Len(text[fd[q]]) \in Nat
            /\ DOMAIN text[fd[q]] = 1..Len(text[fd[q]])
        BY <1>1, <3>2
      <4>3. Len(text[fd[q]]) # 0
        BY <4>1, <4>2, EmptySeq
      <4> QED BY <4>2, <4>3
    <3>4. text'[fd[q]] # <<>>
      <4>1. Len(text[fd[q]]) \in DOMAIN text'[fd[q]]
        BY <3>2, <3>3, InUse
      <4> QED BY <4>1
    <3>5. text'[fd[q]] = text[fd[q]]
      BY <2>1, <3>2, <3>4
    <3> QED BY <3>1, <3>5, <1>0 DEF Piece
  <2>4. ASSUME NEW q \in Procs, NEW r \in Procs,
               pc'[q] = "rest", pc'[r] = "rest", fd'[q] = fd'[r]
        PROVE  q = r
    BY <2>4, <1>0, <1>2, <1>4
  <2> QED BY <2>2, <2>3, <2>4
<1> QED BY <1>3, <1>4

\* Without a fault, all that is confirmed is on disk in the one journal that
\* every process opens.
LEMMA DurableKept ==
  ASSUME TypeOK, Placed, Builders, Taken, Forward, Durable, NEW p \in Procs,
         Step(p)
  PROVE  Durable'
<1> SUFFICES ASSUME slips' = {}
             PROVE  /\ \A q \in Procs :
                         /\ fd'[q] # None => fd'[q] = link' /\ ~gone'[q]
                         /\ ~gone'[q] => 1..Passed(q)' \subseteq synced'
                         /\ pc'[q] \in {"load", "work", "fsync"} \cup Appending
                              => disk' = link'
                    /\ \A r \in acked' : OnDisk(r)'
  BY DEF Durable
<1>0. /\ slips = {}
      /\ \A q \in Procs : fd[q] # None => fd[q] = link /\ ~gone[q]
      /\ \A q \in Procs : ~gone[q] => 1..Passed(q) \subseteq synced
      /\ \A q \in Procs :
           pc[q] \in {"load", "work", "fsync"} \cup Appending => disk = link
      /\ \A r \in acked : OnDisk(r)
  BY SlipsLast DEF Durable
<1>1. /\ pc \in [Procs -> Points] /\ level \in [Procs -> 0..Depth]
      /\ gone \in [Procs -> BOOLEAN] /\ fd \in [Procs -> Files \cup {None}]
      /\ link \in Files \cup {None} /\ depth \in 0..Depth
      /\ link # None => depth = Depth
      /\ \A q \in Procs : pc[q] \in HasJournal => fd[q] # None
      /\ \A q \in Procs : pc[q] \notin HasJournal => fd[q] = None
  BY DEF TypeOK, HasJournal, Placed
\* The journal's name is given and taken only while nobody has it open.
<1>3. link # None => UNCHANGED link \/ (OpenFails(p) /\ link' = None)
  BY Changes DEF CreateJournal, OpenFails
<1>4. OpenFails(p) /\ link # None /\ link' = None =>
        text[link] = <<>> /\ \A q \in Procs \ {p} : fd[q] # link
  BY <1>0 DEF OpenFails
<1>5. ASSUME NEW q \in Procs, fd'[q] # None
      PROVE  fd'[q] = link' /\ ~gone'[q]
  <2>0. /\ fd[q] # None => fd[q] = link /\ ~gone[q]
        /\ \A r \in Procs : link = None => fd[r] = None
    BY <1>0, <1>1
  <2>1. CASE End(p) /\ ~OpenFails(p)
    <3>1. q # p /\ fd'[q] = fd[q] /\ gone'[q] = gone[q]
      BY <2>1, <1>1, <1>5 DEF End
    <3>2. UNCHANGED link
      BY <3>1, <2>1, <2>0, <1>3, <1>5
    <3> QED BY <3>1, <3>2, <2>0, <1>5
  <2>3. CASE ChownFails(p)
    <3>1. fd[q] # None /\ UNCHANGED link
      BY <2>3, <1>1, <1>5 DEF ChownFails, End
    <3>2. fd'[q] = fd[q]
      BY <2>3, <1>1, <1>5 DEF ChownFails, End
    <3>3. q # p
      BY <2>3, <1>1, <3>1 DEF ChownFails, HasJournal
    <3>4. pc[q] \in HasJournal /\ level[q] = Depth /\ depth = Depth
          /\ link # None
      BY <3>1, <2>0, <1>1 DEF Placed
    <3> QED BY <3>1, <3>2, <3>3, <3>4, <2>3, <2>0, <1>1 DEF ChownFails, End
  <2>4. CASE CreateJournal(p)
    <3>1. CASE UNCHANGED <<link, fd, gone>>
      BY <3>1, <2>0, <1>5
    <3>2. CASE End(p) /\ UNCHANGED link
      BY <3>2, <2>0, <1>1, <1>5 DEF End
    <3>3. CASE /\ link = None /\ ~gone[p] /\ UNCHANGED gone
               /\ fd' = [fd EXCEPT ![p] = link']
      BY <3>3, <2>0, <1>1, <1>5
    <3> QED BY <2>4, <3>1, <3>2, <3>3, Created
  <2>5. CASE ReopenJournal(p)
    BY <2>5, <2>0, <1>1, <1>5 DEF ReopenJournal, End
  <2>6. CASE OpenFails(p)
    <3>1. q # p /\ fd'[q] = fd[q] /\ gone'[q] = gone[q]
      BY <2>6, <1>1, <1>5 DEF OpenFails, End
    <3>2. fd[q] = link /\ link # None
      BY <3>1, <2>0, <1>5
    <3>3. UNCHANGED link
      BY <3>1, <3>2, <2>6, <1>3, <1>4
    <3> QED BY <3>1, <3>2, <3>3, <2>0
  <2>7. CASE /\ UNCHANGED <<fd, gone>> /\ ~CreateJournal(p) /\ ~OpenFails(p)
    <3>1. UNCHANGED link
      BY <2>7, Changes
    <3> QED BY <3>1, <2>7, <2>0, <1>5
  <2> QED BY <2>1, <2>3, <2>4, <2>5, <2>6, <2>7, Changes
<1>6. ASSUME NEW q \in Procs, ~gone'[q]
      PROVE  1..Passed(q)' \subseteq synced'
  <2>0. ~gone[q] => 1..Passed(q) \subseteq synced
    BY <1>0
  <2> USE DEF Passed, Goto
  <2>ended. CASE End(p) /\ UNCHANGED synced
    BY <2>ended, <2>0, <1>1, <1>6 DEF End
  <2>4. CASE Enter(p)
    <3>1. CASE End(p) /\ UNCHANGED synced
      BY <3>1, <2>ended
    <3>2. CASE /\ level' = [level EXCEPT ![p] = level[p] + 1]
               /\ UNCHANGED <<gone, synced>>
               /\ \/ Goto(p, "chown") \/ Goto(p, "sync")
                  \/ ~made[p] /\ Advance(p, level[p] + 1)
      <4>1. CASE q # p
        BY <4>1, <3>2, <2>0, <1>1, <1>6 DEF Advance
      <4>2. CASE q = p /\ (Goto(p, "chown") \/ Goto(p, "sync"))
        <5>1. Passed(q)' = level[p] /\ Passed(q) = level[p] /\ ~gone[q]
          BY <4>2, <3>2, <2>4, <1>1, <1>6 DEF Enter
        <5> QED BY <5>1, <3>2, <2>0
      <4>3. CASE q = p /\ ~made[p] /\ Advance(p, level[p] + 1)
        <5>1. level[p] + 1 \in synced
          BY <4>3 DEF Advance
        <5>2. Passed(q)' = level[p] + 1 /\ Passed(q) = level[p] /\ ~gone[q]
          BY <4>3, <3>2, <2>4, <1>1, <1>6 DEF Enter, Advance
        <5>3. 1..(level[p] + 1) = (1..level[p]) \cup {level[p] + 1}
          BY <1>1
        <5> QED BY <5>1, <5>2, <5>3, <3>2, <2>0
      <4> QED BY <3>2, <4>1, <4>2, <4>3
    <3> QED BY <2>4, <3>1, <3>2 DEF Enter
  <2>5. CASE Chown(p)
    <3>1. UNCHANGED <<level, gone, synced>> /\ pc[p] = "chown" /\ level[p] > 0
      BY <2>5 DEF Chown, Placed
    <3>2. CASE made[p] /\ Goto(p, "sync")
      BY <3>1, <3>2, <2>0, <1>1, <1>6
    <3>3. CASE ~made[p] /\ Advance(p, level[p])
      <4>1. level[p] \in synced /\ pc' = [pc EXCEPT ![p] = pc'[p]]
            /\ pc'[p] \in {"journal", "look"}
        BY <3>3, <1>1 DEF Advance
      <4>2. 1..level[p] = 1..(level[p] - 1) \cup {level[p]}
        BY <3>1, <1>1
      <4> QED BY <4>1, <4>2, <3>1, <2>0, <1>1, <1>6
    <3> QED BY <2>5, <3>2, <3>3 DEF Chown
  <2>6. CASE ChownFails(p)
    <3>1. CASE depth = level[p] /\ synced' = synced \ {level[p]}
               /\ level' = [level EXCEPT ![p] = 0]
               /\ gone' = [r \in Procs |-> r # p
                  /\ (gone[r] \/ level[r] = level[p])]
               /\ pc' = [pc EXCEPT ![p] = "idle"]
      <4>1. CASE q = p
        <5>1. 1..0 = {}
          OBVIOUS
        <5> QED BY <4>1, <3>1, <1>1, <5>1
      <4>2. CASE q # p
        <5>1. ~gone[q] /\ level[q] # level[p] /\ level'[q] = level[q]
              /\ pc'[q] = pc[q]
          BY <3>1, <4>2, <1>1, <1>6
        <5>2. level[q] < level[p] /\ Passed(q) <= level[q] /\ Passed(q) \in Int
          BY <3>1, <5>1, <1>1 DEF Placed
        <5>3. level[p] \notin 1..Passed(q)
          BY <5>2, <1>1
        <5> QED BY <5>1, <5>3, <3>1, <2>0
      <4> QED BY <4>1, <4>2
    <3>2. CASE End(p) /\ UNCHANGED synced
      BY <3>2, <2>ended
    <3> QED BY <2>6, <3>1, <3>2 DEF ChownFails
  <2>7. CASE SyncDir(p)
    <3>1. UNCHANGED <<level, gone>> /\ pc[p] = "sync" /\ level[p] > 0
      BY <2>7 DEF SyncDir, Placed
    <3>2. /\ synced' = synced \cup {level[p]} /\ pc' = [pc EXCEPT ![p] = pc'[p]]
          /\ pc'[p] \in {"journal", "look"}
      BY <2>7, <1>1 DEF SyncDir, Advance
    <3>3. 1..level[p] = 1..(level[p] - 1) \cup {level[p]}
      BY <3>1, <1>1
    <3> QED BY <3>1, <3>2, <3>3, <2>0, <1>1, <1>6
  <2>8. CASE ~Enter(p) /\ ~Chown(p) /\ ~ChownFails(p) /\ ~SyncDir(p)
    <3>1. UNCHANGED synced
      BY <2>8, Changes DEF Mkdir
    <3>2. CASE ~End(p)
      <4>1. UNCHANGED <<level, gone>>
        BY <2>8, <3>2, Changes
      <4>2. Passed(q)' = Passed(q)
        BY <2>8, <3>2, <4>1, <1>1, Changes
      <4> QED BY <3>1, <4>1, <4>2, <2>0, <1>6
    <3> QED BY <3>1, <3>2, <2>ended
  <2> QED BY <2>4, <2>5, <2>6, <2>7, <2>8
<1>7. ASSUME NEW q \in Procs,
             pc'[q] \in {"load", "work", "fsync"} \cup Appending
      PROVE  disk' = link'
  <2> USE DEF Goto, Appending
  <2>1. CASE CreateJournal(p)
    <3>1. link # None
      <4>1. q # p /\ pc'[q] = pc[q]
        BY <2>1, <1>1, <1>7, Created DEF End
      <4> QED BY <4>1, <1>0, <1>1, <1>7 DEF HasJournal
    <3> QED BY <3>1, <2>1, <1>0, <1>1, <1>7, Created DEF End
  <2>2. CASE OpenFails(p)
    <3>1. q # p /\ pc'[q] = pc[q] /\ UNCHANGED disk
      BY <2>2, <1>1, <1>7 DEF OpenFails, End
    <3>2. fd[q] = link /\ link # None
      BY <3>1, <1>0, <1>1, <1>7 DEF HasJournal
    <3>3. UNCHANGED link
      BY <3>1, <3>2, <2>2, <1>3, <1>4
    <3> QED BY <3>1, <3>3, <1>0, <1>7
  <2>3. CASE SyncEntry(p)
    BY <2>3 DEF SyncEntry
  <2>4. CASE ~CreateJournal(p) /\ ~OpenFails(p) /\ ~SyncEntry(p)
    <3>1. UNCHANGED <<link, disk>>
      BY <2>4, Changes
    <3>2. pc[q] \in {"load", "work", "fsync"} \cup Appending
      <4>1. CASE q = p
        BY <4>1, <2>4, <1>7, Changes
      <4>2. CASE q # p
        BY <4>2, <1>1, <1>7, Changes
      <4> QED BY <4>1, <4>2
    <3> QED BY <3>1, <3>2, <1>0
  <2> QED BY <2>1, <2>2, <2>3, <2>4
<1>8. ASSUME NEW r \in acked'
      PROVE  OnDisk(r)'
  <2>1. CASE r \in acked
    <3>1. /\ link # None /\ disk = link /\ 1..Depth \subseteq synced
          /\ \E i \in 1..flushed[link] :
               text[link][i].end /\ text[link][i].rec = r
      BY <2>1, <1>0 DEF OnDisk
    <3>2. text[link] # <<>>
      <4>1. flushed[link] \in Nat /\ flushed[link] <= Len(text[link])
        BY <3>1, <1>1 DEF TypeOK
      <4>2. Len(<<>>) = 0
        OBVIOUS
      <4> QED BY <3>1, <4>1, <4>2
    <3>3. UNCHANGED link
      BY <3>1, <3>2, <1>3, <1>4
    <3>4. disk' = link'
      BY <3>1, <3>3, Changes DEF SyncEntry
    <3>5. 1..Depth \subseteq synced'
      <4>1. CASE SyncDir(p)
        BY <4>1, <3>1 DEF SyncDir, Advance
      <4>2. CASE ChownFails(p)
        BY <4>2, <3>1, <1>1 DEF ChownFails, End
      <4>3. CASE UNCHANGED synced
        BY <4>3, <3>1
      <4>4. Mkdir(p) \/ Chown(p) => UNCHANGED synced
        BY DEF Mkdir, Chown
      <4> QED BY <4>1, <4>2, <4>3, <4>4, Changes
    <3>6. flushed'[link] >= flushed[link] /\ flushed[link] \in Nat
          /\ flushed'[link] \in Nat
      <4>0. /\ flushed \in [Files -> Nat] /\ link \in Files
            /\ \A f \in Files :
                 flushed[f] <= Len(text[f]) /\ Len(text[f]) \in Nat
        BY <3>1, <1>1, LenProperties DEF TypeOK
      <4>1. CASE CreateJournal(p)
        <5>1. UNCHANGED flushed
          BY <4>1, <3>1, Created
        <5> QED BY <5>1, <4>0
      <4>2. CASE Trust(p)
        BY <4>2, <3>1, <4>0 DEF Trust
      <4>3. CASE Fsync(p)
        BY <4>3, <3>1, <4>0 DEF Fsync
      <4>4. CASE UNCHANGED flushed
        BY <4>4, <4>0
      <4> QED BY <4>1, <4>2, <4>3, <4>4, Changes
    <3>7. \A i \in 1..flushed[link] : text'[link][i] = text[link][i]
      <4>1. /\ flushed[link] <= Len(text[link]) /\ Len(text[link]) \in Nat
            /\ DOMAIN text[link] = 1..Len(text[link])
        BY <3>1, <1>1, LenProperties DEF TypeOK
      <4>2. \A i \in 1..flushed[link] : i \in DOMAIN text[link]
        BY <4>1, <3>6
      <4> QED BY <4>2, <3>1, <1>1, InUse
    <3>8. \A i \in 1..flushed[link] : i \in 1..flushed'[link]
      BY <3>6
    <3> QED BY <3>1, <3>3, <3>4, <3>5, <3>7, <3>8 DEF OnDisk
  <2>2. CASE r \notin acked
    <3>1. Fsync(p) /\ r = rec[p]
      BY <2>2, <1>8, Changes DEF Fsync
    <3>2. /\ UNCHANGED <<link, disk, text, synced>>
          /\ flushed' = [flushed EXCEPT ![fd[p]] = Len(text[fd[p]])]
          /\ pc[p] = "fsync"
      BY <3>1 DEF Fsync
    <3>3. fd[p] = link /\ link # None /\ disk = link /\ ~gone[p]
          /\ level[p] = Depth
      BY <3>2, <1>0, <1>1 DEF HasJournal, Placed
    <3>4. 1..Depth \subseteq synced
      BY <3>2, <3>3, <1>0 DEF Passed
    <3>5. PICK i \in Ends(text[link]) : text[link][i].rec = r
      BY <3>1, <3>2, <3>3 DEF Forward, HasRecord
    <3>6. flushed'[link] = Len(text[link]) /\ i \in 1..Len(text[link])
          /\ text[link][i].end
      BY <3>2, <3>3, <3>5, <1>1, LenProperties DEF TypeOK, Ends
    <3> QED BY <3>2, <3>3, <3>4, <3>5, <3>6 DEF OnDisk
  <2> QED BY <2>1, <2>2
<1> QED BY <1>5, <1>6, <1>7, <1>8

----------------------------------------------------------------------------
\* What a power failure leaves of a file is the beginning of it.
LEMMA Cut ==
  ASSUME TypeOK, PowerFailure
  PROVE  /\ text' \in [Files -> Seq(Pieces)]
         /\ \A f \in Files :
              /\ Len(text'[f]) \in Nat /\ DOMAIN text'[f] = 1..Len(text'[f])
              /\ Len(text[f]) \in Nat /\ DOMAIN text[f] = 1..Len(text[f])
              /\ Len(text'[f]) <= Len(text[f])
              /\ \A i \in 1..Len(text'[f]) : text'[f][i] = text[f][i]
              /\ link' = f => flushed[f] <= Len(text'[f])
<1>1. /\ text \in [Files -> Seq(Pieces)] /\ None \notin Files
      /\ \A f \in Files :
           Len(text[f]) \in Nat /\ DOMAIN text[f] = 1..Len(text[f])
      /\ flushed \in [Files -> Nat]
  BY LenProperties DEF TypeOK
<1>2. link' \in Files \cup {None}
  BY DEF PowerFailure, TypeOK
<1>3. <<>> \in Seq(Pieces) /\ Len(<<>>) = 0 /\ DOMAIN <<>> = 1..0 /\ 1..0 = {}
  OBVIOUS
<1>4. CASE link' = None
  <2>1. text' = [f \in Files |-> <<>>]
    BY <1>4 DEF PowerFailure
  <2> QED BY <2>1, <1>1, <1>3, <1>4
<1>5. CASE link' \in Files
  <2>1. PICK n \in flushed[link']..Len(text[link']) :
          text' = [f \in Files |-> IF f = link' THEN SubSeq(text[f], 1,
          n) ELSE <<>>]
    BY <1>1, <1>5 DEF PowerFailure
  <2>2. n \in Nat /\ n <= Len(text[link']) /\ flushed[link'] <= n
    BY <1>1, <1>5, <2>1
  <2> DEFINE s == SubSeq(text[link'], 1, n)
  <2>3. s \in Seq(Pieces) /\ Len(s) = n /\ \A i \in 1..n : s[i] = text[link'][i]
    <3>1. CASE n = 0
      <4>1. s = <<>>
        BY <3>1, <1>1, <1>5, SubSeqEmpty
      <4> QED BY <4>1, <3>1, <1>3
    <3>2. CASE n > 0
      <4>1. 1 \in 1..Len(text[link']) + 1 /\ n \in 0..Len(text[link'])
            /\ n \in Int
        BY <3>2, <2>2, <1>1, <1>5
      <4>2. \A i \in 1..n :
              i \in 1..Len(text[link']) /\ text[link'][i] \in Pieces
        BY <2>2, <1>1, <1>5
      <4> QED BY <4>1, <4>2, <1>1, <1>5
    <3> QED BY <2>2, <3>1, <3>2
  <2>4. text'[link'] = s /\ \A f \in Files : f # link' => text'[f] = <<>>
    BY <2>1, <1>5
  <2>5. text' \in [Files -> Seq(Pieces)]
    BY <2>1, <2>3, <1>3, <1>5
  <2>6. DOMAIN s = 1..n
    BY <2>3, LenProperties
  <2> HIDE DEF s
  <2> QED BY <2>2, <2>3, <2>4, <2>5, <2>6, <1>1, <1>3, <1>5
<1> QED BY <1>2, <1>4, <1>5

\* A power failure takes what was not synced, and nothing that was confirmed.
LEMMA PowerKept ==
  ASSUME IndInv, PowerFailure
  PROVE  IndInv'
<1> USE DEF IndInv
<1>0. /\ pc' = [p \in Procs |-> "idle"] /\ level' = [p \in Procs |-> 0]
      /\ gone' = [p \in Procs |-> FALSE] /\ made' = [p \in Procs |-> FALSE]
      /\ fd' = [p \in Procs |-> None] /\ view' = [p \in Procs |-> {}]
      /\ rec' = [p \in Procs |-> NoRecord]
      /\ UNCHANGED <<owner, fowner, used, acked, slips>>
      /\ flushed' = [f \in Files |-> Len(text'[f])]
      /\ synced' = 1..depth' /\ disk' = link' /\ depth' \in 0..depth
      /\ faults' \in 0..MaxFaults
  BY DEF PowerFailure, TypeOK
<1>1. TypeOK'
  <2>1. link' \in Files \cup {None} /\ (link' # None => depth' = Depth)
    BY DEF PowerFailure, TypeOK
  <2>2. depth' \in 0..Depth /\ synced' \subseteq 1..depth'
    BY <1>0 DEF TypeOK
  <2>3. pc' \in [Procs -> Points] /\ \A p \in Procs : pc'[p] = "idle"
    BY <1>0 DEF Points
  <2>4. /\ level' \in [Procs -> 0..Depth] /\ gone' \in [Procs -> BOOLEAN]
        /\ made' \in [Procs -> BOOLEAN] /\ fd' \in [Procs -> Files \cup {None}]
        /\ view' \in [Procs -> SUBSET Keys]
        /\ rec' \in [Procs -> Records \cup {NoRecord}]
    BY <1>0
  <2>5. flushed' \in [Files -> Nat] /\ \A f \in Files :
          flushed'[f] <= Len(text'[f])
    BY <1>0, Cut
  <2>6. text' \in [Files -> Seq(Pieces)]
    BY Cut
  <2>7. /\ owner' \in [Levels -> Owners] /\ fowner' \in [Files -> Owners]
        /\ used' \subseteq Keys /\ acked' \subseteq Records
        /\ slips' \subseteq {"glued", "passed", "dropped"}
    BY <1>0 DEF TypeOK
  <2> QED BY <1>0, <2>1, <2>2, <2>3, <2>4, <2>5, <2>6, <2>7 DEF TypeOK
<1>2. Placed'
  BY <1>0 DEF Placed, HasJournal, TypeOK
<1>3. Builders'
  BY <1>0 DEF Builders, Builds
<1>4. Unglued'
  <2>1. ASSUME "glued" \notin slips, NEW f \in Files
        PROVE  Lines(text'[f])
    <3>1. Lines(text[f])
      BY <2>1 DEF Unglued
    <3>2. ASSUME NEW i \in DOMAIN text'[f]
          PROVE  /\ i \in DOMAIN text[f] /\ text'[f][i] = text[f][i]
                 /\ i \in Nat
                 /\ i > 1 => text'[f][i - 1] = text[f][i - 1]
      BY Cut
    <3>3. ASSUME NEW i \in DOMAIN text'[f]
          PROVE  IF text'[f][i].end
                   THEN i > 1
                   /\ text'[f][i - 1] = [rec |-> text'[f][i].rec, end |-> FALSE]
                   ELSE i = 1 \/ text'[f][i - 1].end
      <4>1. IF text[f][i].end
              THEN i > 1
              /\ text[f][i - 1] = [rec |-> text[f][i].rec, end |-> FALSE]
              ELSE i = 1 \/ text[f][i - 1].end
        BY <3>1, <3>2 DEF Lines
      <4>2. i = 1 \/ i > 1
        <5>1. i \in 1..Len(text'[f]) /\ Len(text'[f]) \in Nat
          BY Cut
        <5> QED BY <5>1
      <4> QED BY <4>1, <4>2, <3>2
    <3> QED BY <3>3 DEF Lines
  <2> QED BY <2>1, <1>0 DEF Unglued
<1>5. Taken'
  <2>1. ASSUME NEW f \in Files, NEW i \in DOMAIN text'[f]
        PROVE  text'[f][i].rec.key \in used'
    <3>1. i \in DOMAIN text[f] /\ text'[f][i] = text[f][i]
      BY Cut
    <3> QED BY <3>1, <1>0 DEF Taken
  <2> QED BY <2>1, <1>0 DEF Taken, NoRecord, Appending
<1>6. Forward'
  <2>1. \A f \in Files :
          \A i \in Ends(text'[f]) :
            i \in Ends(text[f]) /\ text'[f][i] = text[f][i]
    <3>1. ASSUME NEW f \in Files, NEW i \in DOMAIN text'[f]
          PROVE  i \in DOMAIN text[f] /\ text'[f][i] = text[f][i]
      BY Cut
    <3> QED BY <3>1 DEF Ends
  <2>2. \A f \in Files : \A i, j \in Ends(text'[f]) :
          i < j /\ text'[f][i].rec.key = text'[f][j].rec.key
          /\ text'[f][i].rec.complete
            => text'[f][j].rec.complete
    BY <2>1 DEF Forward
  <2> QED BY <2>2, <1>0 DEF Forward, Appending
<1>7. Durable'
  <2> SUFFICES ASSUME slips = {}
               PROVE  /\ \A p \in Procs : 1..Passed(p)' \subseteq synced'
                      /\ \A r \in acked : OnDisk(r)'
    BY <1>0 DEF Durable, Appending
  <2>1. ASSUME NEW p \in Procs PROVE 1..Passed(p)' \subseteq synced'
    <3>1. Passed(p)' = 0
      BY <1>0 DEF Passed
    <3>2. 1..0 = {}
      OBVIOUS
    <3> QED BY <3>1, <3>2
  <2>2. ASSUME NEW r \in acked PROVE OnDisk(r)'
    <3>1. /\ link # None /\ disk = link /\ 1..Depth \subseteq synced
          /\ \E i \in 1..flushed[link] :
               text[link][i].end /\ text[link][i].rec = r
      BY <2>2 DEF Durable, OnDisk
    <3>2. link \in Files /\ depth = Depth /\ flushed[link] \in Nat
      BY <3>1 DEF TypeOK
    <3>3. depth' = Depth
      <4>1. ASSUME NEW d \in 0..depth, d # depth PROVE d + 1 \in synced
        <5>1. d + 1 \in 1..Depth
          BY <3>2, <4>1
        <5> QED BY <5>1, <3>1
      <4>2. depth' \in {d \in 0..depth : d = depth \/ d + 1 \notin synced}
        BY DEF PowerFailure
      <4> QED BY <4>1, <4>2, <3>2
    <3>4. link' = link
      BY <3>1, <3>3 DEF PowerFailure
    <3>5. flushed'[link] \in Nat /\ flushed[link] <= flushed'[link]
      BY <3>2, <3>4, <1>0, Cut
    <3>6. \A i \in 1..flushed[link] :
            i \in 1..flushed'[link] /\ text'[link][i] = text[link][i]
      <4>1. flushed'[link] = Len(text'[link])
        BY <3>2, <1>0
      <4>2. \A i \in 1..flushed[link] : i \in 1..flushed'[link]
        BY <3>2, <3>5
      <4> QED BY <4>1, <4>2, <3>2, Cut
    <3> QED BY <3>1, <3>3, <3>4, <3>6, <1>0 DEF OnDisk
  <2> QED BY <2>1, <2>2
<1> QED BY <1>1, <1>2, <1>3, <1>4, <1>5, <1>6, <1>7

\* An empty disk and no process at work.
LEMMA InitHolds == Init => IndInv
<1> SUFFICES ASSUME Init PROVE IndInv
  OBVIOUS
<1> USE DEF Init
<1>0. /\ pc = [p \in Procs |-> "idle"] /\ level = [p \in Procs |-> 0]
      /\ gone = [p \in Procs |-> FALSE] /\ made = [p \in Procs |-> FALSE]
      /\ fd = [p \in Procs |-> None] /\ view = [p \in Procs |-> {}]
      /\ rec = [p \in Procs |-> NoRecord] /\ text = [f \in Files |-> <<>>]
      /\ acked = {} /\ Len(<<>>) = 0 /\ DOMAIN <<>> = {} /\ 1..0 = {}
      /\ <<>> \in Seq(Pieces)
  OBVIOUS
<1>1. TypeOK
  <2>1. /\ depth \in 0..Depth /\ synced \subseteq 1..depth
        /\ owner \in [Levels -> Owners] /\ fowner \in [Files -> Owners]
    BY DEF Owners
  <2>2. /\ text \in [Files -> Seq(Pieces)] /\ flushed \in [Files -> Nat]
        /\ \A f \in Files : flushed[f] <= Len(text[f])
    BY <1>0
  <2>3. /\ pc \in [Procs -> Points] /\ \A p \in Procs : pc[p] = "idle"
    BY DEF Points
  <2>4. /\ level \in [Procs -> 0..Depth] /\ gone \in [Procs -> BOOLEAN]
        /\ made \in [Procs -> BOOLEAN] /\ fd \in [Procs -> Files \cup {None}]
        /\ view \in [Procs -> SUBSET Keys]
        /\ rec \in [Procs -> Records \cup {NoRecord}]
    OBVIOUS
  <2> QED BY <2>1, <2>2, <2>3, <2>4 DEF TypeOK
<1>2. Placed
  BY DEF Placed, HasJournal
<1>3. Builders
  BY DEF Builders, Builds
<1>4. Unglued
  BY <1>0 DEF Unglued, Lines
<1>5. Taken
  BY <1>0 DEF Taken, NoRecord, Appending
<1>6. Forward
  BY <1>0 DEF Forward, Ends, Appending
<1>7. Durable
  BY <1>0 DEF Durable, Passed, Appending
<1> QED BY <1>1, <1>2, <1>3, <1>4, <1>5, <1>6, <1>7 DEF IndInv

\* No step of a process and no power failure breaks the inductive invariant.
LEMMA StepKept == IndInv /\ [Next]_vars => IndInv'
<1> SUFFICES ASSUME IndInv, [Next]_vars PROVE IndInv'
  OBVIOUS
<1>1. ASSUME NEW p \in Procs, Step(p) PROVE IndInv'
  BY <1>1, TypeKept, PlacedKept, BuildersKept, UngluedKept, TakenKept,
     ForwardKept, DurableKept DEF IndInv
<1>2. CASE UNCHANGED vars
  <2>1. TypeOK'
    BY <1>2 DEF IndInv, TypeOK, vars, Ends, Pieces, Records
  <2>2. Placed' /\ Builders'
    BY <1>2 DEF IndInv, Placed, Builders, Builds, Site, vars
  <2>3. Unglued' /\ Taken'
    BY <1>2 DEF IndInv, Unglued, Taken, Lines, Piece, vars
  <2>4. Forward' /\ Durable'
    BY <1>2
    DEF IndInv, Forward, Has, HasRecord, Ends, Durable, Passed, OnDisk, vars
  <2> QED BY <2>1, <2>2, <2>3, <2>4 DEF IndInv
<1> QED BY <1>1, <1>2, PowerKept DEF Next

\* The inductive invariant holds in every state, after any number of crashes and
\* power failures (IndInv).
THEOREM Invariance == Spec => []IndInv
BY InitHolds, StepKept, PTL DEF Spec

----------------------------------------------------------------------------
\* A set of numbers with a bound has a greatest member.
LEMMA Greatest ==
  ASSUME NEW S \in SUBSET Nat, NEW n \in Nat, S # {}, \A i \in S : i <= n
  PROVE  \E i \in S : \A j \in S : j <= i
<1> DEFINE T == {n - i : i \in S}
<1>1. T \in SUBSET Nat /\ T # {}
  <2>1. \A i \in S : n - i \in Nat
    OBVIOUS
  <2>2. \E i \in S : TRUE
    OBVIOUS
  <2> QED BY <2>1, <2>2
<1>2. PICK m \in T : \A k \in T : ~(<<k, m>> \in OpToRel(<, Nat))
  BY <1>1, NatLessThanWellFounded, WFMin
<1>3. \A k \in T : m <= k
  <2>1. \A k \in T : k \in Nat /\ m \in Nat
    BY <1>1
  <2> HIDE DEF T
  <2>2. \A k \in T : ~(k < m)
    BY <2>1, <1>2 DEF OpToRel
  <2> QED BY <2>1, <2>2
<1>4. PICK i \in S : m = n - i
  OBVIOUS
<1>5. \A j \in S : n - i <= n - j
  BY <1>3, <1>4
<1> QED BY <1>5

\* Whatever has alternating halves can be loaded.
LEMMA LinesReadable ==
  ASSUME NEW t \in Seq(Pieces), Lines(t)
  PROVE  Readable(t)
<1> SUFFICES ASSUME NEW i \in Ends(t) PROVE Sound(t, i)
  BY DEF Readable
<1>1. DOMAIN t = 1..Len(t) /\ Len(t) \in Nat
  BY LenProperties
<1>2. i \in 1..Len(t) /\ i > 1 /\ t[i - 1] = [rec |-> t[i].rec, end |-> FALSE]
  BY <1>1 DEF Ends, Lines
<1>3. i > 2 => t[i - 2].end
  <2>1. i - 1 \in DOMAIN t /\ ~t[i - 1].end /\ (i - 1) - 1 = i - 2
    BY <1>1, <1>2
  <2>2. i - 1 = 1 \/ t[(i - 1) - 1].end
    BY <2>1 DEF Lines
  <2> QED BY <2>1, <2>2, <1>2
<1> QED BY <1>2, <1>3 DEF Sound

\* Every variable keeps its type.
THEOREM TypeCorrect == Spec => []TypeOK
<1>1. IndInv => TypeOK
  BY DEF IndInv
<1> QED BY <1>1, Invariance, PTL

\* Unless a line was glued to the rest of another, the journal can be loaded.
THEOREM Loads == Spec => []LoadSucceeds
<1>1. IndInv => LoadSucceeds
  <2> SUFFICES ASSUME IndInv, "glued" \notin slips, NEW p \in Procs,
                      pc[p] = "load"
               PROVE  Readable(text[fd[p]])
    BY DEF LoadSucceeds
  <2>1. text[fd[p]] \in Seq(Pieces) /\ Lines(text[fd[p]])
    BY DEF IndInv, TypeOK, Unglued
  <2> QED BY <2>1, LinesReadable
<1> QED BY <1>1, Invariance, PTL

\* What append has confirmed every later run finds.
THEOREM ConfirmedIsKept == Spec => []Kept
<1>1. IndInv => Kept
  <2> SUFFICES ASSUME IndInv, slips = {}, NEW r \in acked
               PROVE  Findable(r)
    BY DEF Kept
  <2> DEFINE t == text[link]
  <2>1. PICK i \in 1..flushed[link] : t[i].end /\ t[i].rec = r
    BY DEF IndInv, Durable, OnDisk
  <2>2. link \in Files /\ t \in Seq(Pieces) /\ flushed[link] \in Nat
        /\ flushed[link] <= Len(t)
    BY DEF IndInv, Durable, OnDisk, TypeOK
  <2>3. Len(t) \in Nat /\ DOMAIN t = 1..Len(t)
    BY <2>2, LenProperties
  <2>4. Readable(t)
    <3>1. Lines(t)
      BY <2>2 DEF IndInv, Unglued
    <3> QED BY <3>1, <2>2, LinesReadable
  <2> DEFINE same == {j \in Ends(t) : t[j].rec.key = r.key}
  <2>5. i \in same
    BY <2>1, <2>2, <2>3 DEF Ends
  <2>6. PICK last \in same : \A j \in same : j <= last
    <3>1. same \in SUBSET Nat /\ \A j \in same : j <= Len(t)
      BY <2>3 DEF Ends
    <3> HIDE DEF same
    <3> QED BY <3>1, <2>3, <2>5, Greatest
  <2>7. t[last].rec \in Loaded(t)
    BY <2>6 DEF Loaded
  <2>8. t[last].rec.key = r.key /\ (r.complete => t[last].rec.complete)
    <3>1. i = last \/ i < last
      BY <2>3, <2>5, <2>6 DEF Ends
    <3> QED BY <3>1, <2>1, <2>2, <2>5, <2>6 DEF IndInv, Forward
  <2> QED BY <2>2, <2>4, <2>7, <2>8 DEF Findable
<1> QED BY <1>1, Invariance, PTL
============================================================================
