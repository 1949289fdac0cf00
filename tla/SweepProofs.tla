----------------------------- MODULE SweepProofs ----------------------------
(***************************************************************************)
(* What holds of Sweep for every tree, whatever the owner of the files     *)
(* does between two system calls.                                          *)
(***************************************************************************)
EXTENDS Sweep, SequenceTheorems, FiniteSetTheorems, WellFoundedInduction, TLAPS

\* The owner has not acted since beav looked at the name.
Unmet == last # "checked"

\* The entry being considered.
Busy == pc \in {"inspect", "open", "list", "unlink"}

\* The directories on the walker's stack are directories.
Stacked == \A k \in DOMAIN stack :
  stack[k].self # NoEntry => stack[k].self.ino \in Dirs

\* A step knows what it works on.
AtWork ==
  /\ pc \in {"mount", "descend"}
       => look # NoEntry /\ stack # <<>> /\ Top.left # {}
  /\ pc = "descend" => look.ino \in Dirs
  /\ Busy => cur # NoEntry /\ cur.ino \in Files \cup Dirs /\ cur.age = "old"
  /\ \A e \in plan : e.age = "old"
  /\ pc = "list" => IsDir(cur)
  /\ pc = "inspect" => held = Root /\ opened = 0
  /\ pc \in {"inspect", "open"} => Unmet

\* A profile for debris has nothing to plan; for others nobody looks whether
\* a file is open.
Kinds ==
  /\ sweep.debris \in BOOLEAN
  /\ sweep.debris => list = {} /\ plan = {}
  /\ ~sweep.debris => openf = {}
  /\ pc = "inspect" => sweep.debris

\* A file that still has the version it was seen with is as it was seen.
AsFound(e) ==
  e.ino \in Files =>
    /\ e.ver <= ver[e.ino]
    /\ e.ver = ver[e.ino] => e.ino \in asSeen /\ e.age = age[e.ino]

Found ==
  /\ AsFound(look) /\ AsFound(cur)
  /\ \A e \in list \cup plan : AsFound(e)

\* What unlink is about to remove.
Aimed ==
  pc = "unlink" /\ Unmet /\ ~IsDir(cur) =>
    slot[<<held, Leaf>>] = cur.ino /\ ver[cur.ino] = cur.ver

Searched == pc \in {"open", "list", "unlink"} => cur.ino \notin watched

\* The directory held lies below the root until the owner acts after it was
\* opened; the root itself lies there whatever the owner does.
Anchored ==
  /\ pc \in {"open", "list", "unlink"} /\ last \in {"never", "before"}
       => Below(held)
  /\ pc = "open" /\ opened = 0 => held = Root

IndInv ==
  /\ TypeOK /\ Stacked /\ AtWork /\ Kinds /\ Found /\ Aimed /\ Searched
  /\ Anchored
  /\ OnlyAsSeen /\ Confined /\ NotInUse
----------------------------------------------------------------------------
(***************************************************************************)
(* Helpers.                                                                *)
(***************************************************************************)
USE DEF fsVars, walkVars, curVars, history, beavVars

\* A set of numbers that is not empty has a smallest member.
LEMMA Smallest ==
  ASSUME NEW S \in SUBSET Nat, S # {}
  PROVE  \E i \in S : \A j \in S : i <= j
<1>1. PICK i \in S : \A j \in S : ~(<<j, i>> \in OpToRel(<, Nat))
  BY NatLessThanWellFounded, WFMin
<1>2. \A j \in S : ~(j < i)
  BY <1>1 DEF OpToRel
<1> QED BY <1>2

Frames == [dir : Folders, path : Seq(Names), left : SUBSET Names,
           self : Entry \cup {NoEntry}]

\* The name a directory is continued with is one that is left in it.
LEMMA NextNameLeft ==
  ASSUME NEW s \in Seq(Frames), s # <<>>, s[Len(s)].left # {}
  PROVE  (CHOOSE n \in s[Len(s)].left : \A m \in s[Len(s)].left : n <= m)
           \in s[Len(s)].left
<1>1. Len(s) \in 1..Len(s)
  BY EmptySeq, LenProperties
<1>2. s[Len(s)] \in Frames
  BY <1>1, ElementOfSeq
<1>3. s[Len(s)].left \in SUBSET Nat
  BY <1>2, SweepAssumption DEF Frames, Names
<1> QED BY <1>3, Smallest

\* The number of links is a number.
LEMMA NlinkType ==
  ASSUME NEW i
  PROVE  Nlink(i) \in Nat
<1>1. IsFiniteSet(Folders)
  <2>1. IsFiniteSet(Dirs \cup {Root})
    BY SweepAssumption, FS_AddElement
  <2>2. IsFiniteSet((Dirs \cup {Root}) \cup {Outside})
    BY <2>1, FS_AddElement
  <2>3. Folders = (Dirs \cup {Root}) \cup {Outside}
    BY DEF Folders
  <2> QED BY <2>2, <2>3
<1>2. IsFiniteSet(Names)
  BY SweepAssumption, FS_Interval DEF Names
<1>3. IsFiniteSet(Slots)
  BY <1>1, <1>2, FS_Product DEF Slots
<1>4. IsFiniteSet({s \in Slots : slot[s] = i})
  BY <1>3, FS_Subset
<1> QED BY <1>4, FS_CardinalityType DEF Nlink

\* What the stack of the walk has at its end, and what remains without it.
LEMMA TopType ==
  ASSUME stack \in Seq(Frames), stack # <<>>
  PROVE  /\ Top \in Frames /\ Len(stack) \in 1..Len(stack)
         /\ Consumed \in Seq(Frames) /\ Len(Consumed) = Len(stack)
         /\ Front(stack) \in Seq(Frames) /\ Len(Front(stack)) = Len(stack) - 1
         /\ \A k \in 1..Len(stack) - 1 : Front(stack)[k] = stack[k]
         /\ \A k \in 1..Len(stack) : Consumed[k].self = stack[k].self
<1>1. Len(stack) \in 1..Len(stack)
  BY EmptySeq, LenProperties
<1>2. Top \in Frames
  BY <1>1, ElementOfSeq DEF Top
<1>3. /\ Consumed \in Seq(Frames) /\ Len(Consumed) = Len(stack)
      /\ \A k \in 1..Len(stack) : Consumed[k].self = stack[k].self
  <2> DEFINE f == [stack[Len(stack)] EXCEPT !.left = @ \ {NextName}]
  <2>1. f \in Frames /\ f.self = stack[Len(stack)].self
    BY <1>2 DEF Frames, Top
  <2>2. Consumed = [stack EXCEPT ![Len(stack)] = f]
    BY DEF Consumed
  <2> HIDE DEF f
  <2>3. Consumed \in Seq(Frames) /\ Len(Consumed) = Len(stack)
    BY <1>1, <2>1, <2>2, ExceptSeq
  <2>4. \A k \in 1..Len(stack) :
          Consumed[k] = IF k = Len(stack) THEN f ELSE stack[k]
    BY <1>1, <2>2, ExceptSeq
  <2> QED BY <1>1, <2>1, <2>3, <2>4
<1>4. /\ Front(stack) \in Seq(Frames) /\ Len(Front(stack)) = Len(stack) - 1
      /\ \A k \in 1..Len(stack) - 1 : Front(stack)[k] = stack[k]
  <2>1. \A i \in 1..Len(stack) - 1 : stack[i] \in Frames
    BY <1>1, ElementOfSeq
  <2>2. Len(stack) \in Nat
    BY LenProperties
  <2> DEFINE k == Len(stack) - 1
  <2>3. k \in Nat /\ \A i \in 1..k : stack[i] \in Frames
    BY <1>1, <2>1, <2>2
  <2> HIDE DEF k
  <2>4. /\ SubSeq(stack, 1, k) \in Seq(Frames) /\ Len(SubSeq(stack, 1, k)) = k
        /\ \A i \in 1..k : SubSeq(stack, 1, k)[i] = stack[i]
    BY <2>3, SubSeqProperties
  <2> QED BY <2>4 DEF Front, k
<1> QED BY <1>1, <1>2, <1>3, <1>4

----------------------------------------------------------------------------
(***************************************************************************)
(* The steps keep the types.                                               *)
(***************************************************************************)
FsType ==
  /\ slot \in [Slots -> Dirs \cup Files \cup Links \cup {None}]
  /\ mounts \subseteq Dirs /\ target \in [Links -> Folders]
  /\ age \in [Inodes -> {"old", "young"}] /\ ver \in [Inodes -> Nat]

OpenType == watched \subseteq openf /\ openf \subseteq Files
            /\ asSeen \subseteq Files

FlagType ==
  /\ dry \in BOOLEAN /\ cancelled \in BOOLEAN
  /\ pc \in {"walk", "mount", "descend", "inspect", "next", "open", "list",
             "unlink", "done"}
  /\ last \in {"never", "before", "opened", "checked"}

WalkType == stack \in Seq(Frames) /\ look \in Entry \cup {NoEntry}

ListType == \A e \in list \cup plan : e \in Entry /\ e.ino \in Files \cup Dirs

CurType ==
  /\ held \in Folders /\ opened \in Nat
  /\ cur # NoEntry => cur \in Entry /\ opened < Len(cur.path)

\* The type invariant in the groups that are kept one by one.
LEMMA TypeSplit ==
  TypeOK <=> /\ FsType /\ OpenType /\ FlagType /\ WalkType /\ ListType
             /\ CurType
             /\ acts \in Nat
BY DEF TypeOK, FsType, OpenType, FlagType, WalkType, ListType, CurType, Frames

\* What the owner changes keeps the types of ages and versions.
LEMMA ChangedType ==
  ASSUME FsType, NEW I, NEW D, Changed(I, D)
  PROVE  age' \in [Inodes -> {"old", "young"}] /\ ver' \in [Inodes -> Nat]
<1>1. \A i \in Inodes : age[i] \in {"old", "young"} /\ ver[i] \in Nat
  BY DEF FsType
<1> QED BY <1>1 DEF Changed

\* The types of what is on disk, ...
LEMMA FsTypeKept == FsType /\ CurType /\ [Next]_vars => FsType'
<1> SUFFICES ASSUME FsType, CurType, [Next]_vars PROVE FsType'
  OBVIOUS
<1>1. CASE WalkEntry BY <1>1 DEF WalkEntry, FsType
<1>2. CASE WalkMount BY <1>2 DEF WalkMount, FsType
<1>3. CASE WalkDescend BY <1>3 DEF WalkDescend, FsType
<1>4. CASE WalkUp BY <1>4 DEF WalkUp, FsType
<1>5. CASE MakePlan BY <1>5 DEF MakePlan, FsType
<1>6. CASE NextEntry BY <1>6 DEF NextEntry, FsType
<1>7. CASE Cancelled BY <1>7 DEF Cancelled, FsType
<1>8. CASE Finish BY <1>8 DEF Finish, FsType
<1>9. CASE Inspect BY <1>9 DEF Inspect, FsType
<1>10. CASE Reopen BY <1>10 DEF Reopen, FsType
<1>11. CASE Recheck BY <1>11 DEF Recheck, FsType
<1>12. CASE ListDir BY <1>12 DEF ListDir, FsType
<1>13. CASE Unlink
  <2>1. CASE UNCHANGED <<slot, age, ver>>
    BY <1>13, <2>1 DEF Unlink, FsType
  <2>2. CASE Unlinkable(slot[<<held, Leaf>>])
    <3> DEFINE i == slot[<<held, Leaf>>]
    <3>1. /\ slot' = [slot EXCEPT ![<<held, Leaf>>] = None]
          /\ age' = [age EXCEPT ![held] = "young"]
          /\ ver' = [ver EXCEPT ![i] = @ + 1]
          /\ UNCHANGED <<mounts, target>>
      BY <1>13, <2>2 DEF Unlink
    <3>2. i \in Inodes
      BY <2>2 DEF Unlinkable, Inodes
    <3> HIDE DEF i
    <3>3. ver' \in [Inodes -> Nat]
      BY <3>1, <3>2 DEF FsType
    <3>4. slot' \in [Slots -> Dirs \cup Files \cup Links \cup {None}]
      BY <3>1 DEF FsType
    <3>5. age' \in [Inodes -> {"old", "young"}]
      BY <3>1 DEF FsType
    <3> QED BY <3>1, <3>3, <3>4, <3>5 DEF FsType
  <2> QED BY <1>13, <2>1, <2>2 DEF Unlink
<1>14. ASSUME NEW f \in Files, Write(f)
      PROVE  FsType'
  <2>1. f \in Inodes
    BY DEF Inodes
  <2>2. /\ ver' = [ver EXCEPT ![f] = @ + 1]
        /\ age' \in {[age EXCEPT ![f] = a] : a \in {"old", "young"}}
        /\ UNCHANGED <<slot, target, mounts>>
    BY <1>14 DEF Write
  <2>3. ver' \in [Inodes -> Nat]
    BY <2>1, <2>2 DEF FsType
  <2>4. age' \in [Inodes -> {"old", "young"}]
    BY <2>1, <2>2 DEF FsType
  <2> QED BY <2>2, <2>3, <2>4 DEF FsType
<1>15. ASSUME NEW f \in Files, OpenFile(f)
      PROVE  FsType'
  BY <1>15 DEF OpenFile, Act, FsType, Changed
<1>16. ASSUME NEW f \in Files, CloseFile(f)
      PROVE  FsType'
  BY <1>16 DEF CloseFile, Act, FsType, Changed
<1>17. ASSUME NEW d \in Folders, NEW n \in Names, NEW i \in Inodes,
              Create(d, n, i)
      PROVE  FsType'
  <2>1. age' \in [Inodes -> {"old", "young"}] /\ ver' \in [Inodes -> Nat]
    BY <1>17, ChangedType DEF Create
  <2>2. /\ slot' = [slot EXCEPT ![<<d, n>>] = i] /\ UNCHANGED mounts
        /\ i \in Dirs \cup Files \cup Links
    BY <1>17 DEF Create, Inodes, Folders
  <2>3. slot' \in [Slots -> Dirs \cup Files \cup Links \cup {None}]
    BY <2>2 DEF FsType
  <2>4. target' \in [Links -> Folders]
    BY <1>17 DEF Create, FsType, Folders
  <2> QED BY <2>1, <2>2, <2>3, <2>4 DEF FsType
<1>18. ASSUME NEW f \in Files, NEW d \in Folders, NEW n \in Names,
              HardLink(f, d, n)
      PROVE  FsType'
  <2>1. age' \in [Inodes -> {"old", "young"}] /\ ver' \in [Inodes -> Nat]
    BY <1>18, ChangedType DEF HardLink
  <2>2. /\ slot' = [slot EXCEPT ![<<d, n>>] = f] /\ UNCHANGED <<mounts, target>>
    BY <1>18 DEF HardLink
  <2> QED BY <2>1, <2>2 DEF FsType
<1>19. ASSUME NEW d \in Folders, NEW n \in Names, Delete(d, n)
      PROVE  FsType'
  <2>1. age' \in [Inodes -> {"old", "young"}] /\ ver' \in [Inodes -> Nat]
    BY <1>19, ChangedType DEF Delete
  <2>2. /\ slot' = [slot EXCEPT ![<<d, n>>] = None]
        /\ UNCHANGED <<mounts, target>>
    BY <1>19 DEF Delete
  <2> QED BY <2>1, <2>2 DEF FsType
<1>20. ASSUME NEW d \in Folders, NEW e \in Folders,
             NEW n \in Names, NEW m \in Names, Move(d, n, e, m)
      PROVE  FsType'
  <2>1. age' \in [Inodes -> {"old", "young"}] /\ ver' \in [Inodes -> Nat]
    BY <1>20, ChangedType DEF Move
  <2>2. /\ slot' = [slot EXCEPT ![<<d, n>>] = None,
                    ![<<e, m>>] = slot[<<d, n>>]]
        /\ UNCHANGED <<mounts, target>>
    BY <1>20 DEF Move
  <2>3. slot[<<d, n>>] \in Dirs \cup Files \cup Links \cup {None}
    BY DEF FsType, Slots
  <2> QED BY <2>1, <2>2, <2>3 DEF FsType
<1>21. CASE UNCHANGED vars BY <1>21 DEF vars, FsType
<1> QED BY <1>1, <1>2, <1>3, <1>4, <1>5, <1>6, <1>7, <1>8, <1>9, <1>10,
          <1>11, <1>12, <1>13, <1>14, <1>15, <1>16, <1>17, <1>18, <1>19,
          <1>20, <1>21
          DEF Next, BeavStep, OwnerStep

\* ... of what processes hold open, ...
LEMMA OpenTypeKept == OpenType /\ [Next]_vars => OpenType'
<1> SUFFICES ASSUME OpenType, [Next]_vars PROVE OpenType'
  OBVIOUS
<1>1. CASE WalkEntry BY <1>1 DEF WalkEntry, OpenType
<1>2. CASE WalkMount BY <1>2 DEF WalkMount, OpenType
<1>3. CASE WalkDescend BY <1>3 DEF WalkDescend, OpenType
<1>4. CASE WalkUp BY <1>4 DEF WalkUp, OpenType
<1>5. CASE MakePlan BY <1>5 DEF MakePlan, OpenType
<1>6. CASE NextEntry BY <1>6 DEF NextEntry, OpenType
<1>7. CASE Cancelled BY <1>7 DEF Cancelled, OpenType
<1>8. CASE Finish BY <1>8 DEF Finish, OpenType
<1>9. CASE Inspect BY <1>9 DEF Inspect, OpenType
<1>10. CASE Reopen BY <1>10 DEF Reopen, OpenType
<1>11. CASE Recheck BY <1>11 DEF Recheck, OpenType
<1>12. CASE ListDir BY <1>12 DEF ListDir, OpenType
<1>13. CASE Unlink BY <1>13 DEF Unlink, OpenType
<1>14. ASSUME NEW f \in Files, Write(f)
      PROVE  OpenType'
  BY <1>14 DEF Write, Act, OpenType, Changed
<1>15. ASSUME NEW f \in Files, OpenFile(f)
      PROVE  OpenType'
  BY <1>15 DEF OpenFile, Act, OpenType, Changed
<1>16. ASSUME NEW f \in Files, CloseFile(f)
      PROVE  OpenType'
  BY <1>16 DEF CloseFile, Act, OpenType, Changed
<1>17. ASSUME NEW d \in Folders, NEW n \in Names, NEW i \in Inodes,
              Create(d, n, i)
      PROVE  OpenType'
  BY <1>17 DEF Create, Act, OpenType, Changed
<1>18. ASSUME NEW f \in Files, NEW d \in Folders, NEW n \in Names,
              HardLink(f, d, n)
      PROVE  OpenType'
  BY <1>18 DEF HardLink, Act, OpenType, Changed
<1>19. ASSUME NEW d \in Folders, NEW n \in Names, Delete(d, n)
      PROVE  OpenType'
  BY <1>19 DEF Delete, Act, OpenType, Changed
<1>20. ASSUME NEW d \in Folders, NEW e \in Folders,
             NEW n \in Names, NEW m \in Names, Move(d, n, e, m)
      PROVE  OpenType'
  BY <1>20 DEF Move, Act, OpenType, Changed
<1>21. CASE UNCHANGED vars BY <1>21 DEF vars, OpenType
<1> QED BY <1>1, <1>2, <1>3, <1>4, <1>5, <1>6, <1>7, <1>8, <1>9, <1>10,
          <1>11, <1>12, <1>13, <1>14, <1>15, <1>16, <1>17, <1>18, <1>19,
          <1>20, <1>21
          DEF Next, BeavStep, OwnerStep

\* ... of the flags, ...
LEMMA FlagTypeKept == FlagType /\ [Next]_vars => FlagType'
<1> SUFFICES ASSUME FlagType, [Next]_vars PROVE FlagType'
  OBVIOUS
<1>1. CASE WalkEntry BY <1>1 DEF WalkEntry, FlagType
<1>2. CASE WalkMount
  BY <1>2 DEF WalkMount, Consider, TurnTo, NotConsidered, FlagType
<1>3. CASE WalkDescend BY <1>3 DEF WalkDescend, FlagType
<1>4. CASE WalkUp BY <1>4 DEF WalkUp, FlagType
<1>5. CASE MakePlan BY <1>5 DEF MakePlan, FlagType
<1>6. CASE NextEntry BY <1>6 DEF NextEntry, FlagType
<1>7. CASE Cancelled BY <1>7 DEF Cancelled, FlagType
<1>8. CASE Finish BY <1>8 DEF Finish, FlagType
<1>9. CASE Inspect BY <1>9 DEF Inspect, Resume, FlagType
<1>10. CASE Reopen BY <1>10 DEF Reopen, Onward, Resume, FlagType
<1>11. CASE Recheck BY <1>11 DEF Recheck, Resume, FlagType
<1>12. CASE ListDir BY <1>12 DEF ListDir, Resume, FlagType
<1>13. CASE Unlink BY <1>13 DEF Unlink, Onward, Resume, FlagType
<1>14. ASSUME NEW f \in Files, Write(f)
      PROVE  FlagType'
  BY <1>14 DEF Write, Act, FlagType
<1>15. ASSUME NEW f \in Files, OpenFile(f)
      PROVE  FlagType'
  BY <1>15 DEF OpenFile, Act, FlagType
<1>16. ASSUME NEW f \in Files, CloseFile(f)
      PROVE  FlagType'
  BY <1>16 DEF CloseFile, Act, FlagType
<1>17. ASSUME NEW d \in Folders, NEW n \in Names, NEW i \in Inodes,
              Create(d, n, i)
      PROVE  FlagType'
  BY <1>17 DEF Create, Act, FlagType
<1>18. ASSUME NEW f \in Files, NEW d \in Folders, NEW n \in Names,
              HardLink(f, d, n)
      PROVE  FlagType'
  BY <1>18 DEF HardLink, Act, FlagType
<1>19. ASSUME NEW d \in Folders, NEW n \in Names, Delete(d, n)
      PROVE  FlagType'
  BY <1>19 DEF Delete, Act, FlagType
<1>20. ASSUME NEW d \in Folders, NEW e \in Folders,
             NEW n \in Names, NEW m \in Names, Move(d, n, e, m)
      PROVE  FlagType'
  BY <1>20 DEF Move, Act, FlagType
<1>21. CASE UNCHANGED vars BY <1>21 DEF vars, FlagType
<1> QED BY <1>1, <1>2, <1>3, <1>4, <1>5, <1>6, <1>7, <1>8, <1>9, <1>10,
          <1>11, <1>12, <1>13, <1>14, <1>15, <1>16, <1>17, <1>18, <1>19,
          <1>20, <1>21
          DEF Next, BeavStep, OwnerStep

\* ... of the owner's acts, ...
LEMMA ActsTypeKept == acts \in Nat /\ [Next]_vars => acts' \in Nat
<1> SUFFICES ASSUME acts \in Nat, [Next]_vars PROVE acts' \in Nat
  OBVIOUS
<1>1. CASE WalkEntry BY <1>1 DEF WalkEntry
<1>2. CASE WalkMount BY <1>2 DEF WalkMount
<1>3. CASE WalkDescend BY <1>3 DEF WalkDescend
<1>4. CASE WalkUp BY <1>4 DEF WalkUp
<1>5. CASE MakePlan BY <1>5 DEF MakePlan
<1>6. CASE NextEntry BY <1>6 DEF NextEntry
<1>7. CASE Cancelled BY <1>7 DEF Cancelled
<1>8. CASE Finish BY <1>8 DEF Finish
<1>9. CASE Inspect BY <1>9 DEF Inspect
<1>10. CASE Reopen BY <1>10 DEF Reopen
<1>11. CASE Recheck BY <1>11 DEF Recheck
<1>12. CASE ListDir BY <1>12 DEF ListDir
<1>13. CASE Unlink BY <1>13 DEF Unlink
<1>14. ASSUME NEW f \in Files, Write(f)
      PROVE  acts' \in Nat
  BY <1>14 DEF Write, Act
<1>15. ASSUME NEW f \in Files, OpenFile(f)
      PROVE  acts' \in Nat
  BY <1>15 DEF OpenFile, Act
<1>16. ASSUME NEW f \in Files, CloseFile(f)
      PROVE  acts' \in Nat
  BY <1>16 DEF CloseFile, Act
<1>17. ASSUME NEW d \in Folders, NEW n \in Names, NEW i \in Inodes,
              Create(d, n, i)
      PROVE  acts' \in Nat
  BY <1>17 DEF Create, Act
<1>18. ASSUME NEW f \in Files, NEW d \in Folders, NEW n \in Names,
              HardLink(f, d, n)
      PROVE  acts' \in Nat
  BY <1>18 DEF HardLink, Act
<1>19. ASSUME NEW d \in Folders, NEW n \in Names, Delete(d, n)
      PROVE  acts' \in Nat
  BY <1>19 DEF Delete, Act
<1>20. ASSUME NEW d \in Folders, NEW e \in Folders,
             NEW n \in Names, NEW m \in Names, Move(d, n, e, m)
      PROVE  acts' \in Nat
  BY <1>20 DEF Move, Act
<1>21. CASE UNCHANGED vars BY <1>21 DEF vars
<1> QED BY <1>1, <1>2, <1>3, <1>4, <1>5, <1>6, <1>7, <1>8, <1>9, <1>10,
          <1>11, <1>12, <1>13, <1>14, <1>15, <1>16, <1>17, <1>18, <1>19,
          <1>20, <1>21
          DEF Next, BeavStep, OwnerStep

\* ... of the entry at hand, ...
LEMMA CurTypeKept ==
  CurType /\ WalkType /\ ListType /\ AtWork /\ FlagType /\ [Next]_vars
    => CurType'
<1> SUFFICES ASSUME CurType, WalkType, ListType, AtWork, FlagType, [Next]_vars
             PROVE  CurType'
  OBVIOUS
<1>1. CASE WalkEntry BY <1>1 DEF WalkEntry, CurType
<1>2. CASE WalkMount
  <2>1. CASE UNCHANGED curVars
    BY <2>1 DEF CurType
  <2>2. ASSUME cur' = look, held' = Root, opened' = 0
        PROVE  CurType'
    <3>1. look \in Entry /\ look.path \in Seq(Names) /\ look.path # <<>>
      BY <1>2 DEF WalkMount, WalkType, AtWork, Entry
    <3>2. 0 < Len(look.path)
      BY <3>1, EmptySeq
    <3> QED BY <2>2, <3>1, <3>2 DEF CurType, Folders
  <2> QED BY <1>2, <2>1, <2>2 DEF WalkMount, Consider, TurnTo, NotConsidered
<1>3. CASE WalkDescend BY <1>3 DEF WalkDescend, CurType
<1>4. CASE WalkUp BY <1>4 DEF WalkUp, CurType
<1>5. CASE MakePlan BY <1>5 DEF MakePlan, CurType
<1>6. CASE NextEntry
  <2>1. CASE UNCHANGED curVars
    BY <2>1 DEF CurType
  <2>2. ASSUME NEW e \in plan, cur' = e, held' = Root, opened' = 0
        PROVE  CurType'
    <3>1. e \in Entry /\ e.path \in Seq(Names) /\ e.path # <<>>
      BY DEF ListType, Entry
    <3>2. 0 < Len(e.path)
      BY <3>1, EmptySeq
    <3> QED BY <2>2, <3>1, <3>2 DEF CurType, Folders
  <2> QED BY <1>6, <2>1, <2>2 DEF NextEntry
<1>7. CASE Cancelled BY <1>7 DEF Cancelled, CurType
<1>8. CASE Finish BY <1>8 DEF Finish, CurType
<1>9. CASE Inspect BY <1>9 DEF Inspect, CurType
<1>10. CASE Reopen
  <2>1. cur \in Entry /\ Len(cur.path) \in Nat
    BY <1>10, LenProperties DEF Reopen, AtWork, Busy, CurType, Entry
  <2>2. CASE UNCHANGED <<held, opened>>
    BY <1>10, <2>2 DEF Reopen, CurType
  <2>3. CASE held' = OpenDir(held, cur.path[opened + 1]) /\ held' # NoDir
             /\ opened' = opened + 1
    <3>1. held' \in Folders
      BY <2>3 DEF OpenDir
    <3>2. opened' < Len(cur.path) /\ opened' \in Nat
      BY <1>10, <2>1, <2>3 DEF Reopen, Parents, CurType
    <3> QED BY <1>10, <2>1, <3>1, <3>2 DEF Reopen, CurType
  <2> QED BY <1>10, <2>2, <2>3 DEF Reopen
<1>11. CASE Recheck BY <1>11 DEF Recheck, CurType
<1>12. CASE ListDir BY <1>12 DEF ListDir, CurType
<1>13. CASE Unlink BY <1>13 DEF Unlink, CurType
<1>14. ASSUME NEW f \in Files, Write(f)
      PROVE  CurType'
  BY <1>14 DEF Write, Act, CurType
<1>15. ASSUME NEW f \in Files, OpenFile(f)
      PROVE  CurType'
  BY <1>15 DEF OpenFile, Act, CurType
<1>16. ASSUME NEW f \in Files, CloseFile(f)
      PROVE  CurType'
  BY <1>16 DEF CloseFile, Act, CurType
<1>17. ASSUME NEW d \in Folders, NEW n \in Names, NEW i \in Inodes,
              Create(d, n, i)
      PROVE  CurType'
  BY <1>17 DEF Create, Act, CurType
<1>18. ASSUME NEW f \in Files, NEW d \in Folders, NEW n \in Names,
              HardLink(f, d, n)
      PROVE  CurType'
  BY <1>18 DEF HardLink, Act, CurType
<1>19. ASSUME NEW d \in Folders, NEW n \in Names, Delete(d, n)
      PROVE  CurType'
  BY <1>19 DEF Delete, Act, CurType
<1>20. ASSUME NEW d \in Folders, NEW e \in Folders,
             NEW n \in Names, NEW m \in Names, Move(d, n, e, m)
      PROVE  CurType'
  BY <1>20 DEF Move, Act, CurType
<1>21. CASE UNCHANGED vars BY <1>21 DEF vars, CurType
<1> QED BY <1>1, <1>2, <1>3, <1>4, <1>5, <1>6, <1>7, <1>8, <1>9, <1>10,
          <1>11, <1>12, <1>13, <1>14, <1>15, <1>16, <1>17, <1>18, <1>19,
          <1>20, <1>21
          DEF Next, BeavStep, OwnerStep


\* What fstatat says of an inode is an entry.
LEMMA SeenType ==
  ASSUME FsType, stack \in Seq(Frames), stack # <<>>, Top.left # {},
         NEW i \in Dirs \cup Files \cup Links
  PROVE  Seen(Append(Top.path, NextName), i) \in Entry
<1>1. Top \in Frames /\ NextName \in Top.left
  BY TopType, NextNameLeft DEF Top, NextName
<1>2. Top.path \in Seq(Names) /\ NextName \in Names
  BY <1>1 DEF Frames
<1>3. Append(Top.path, NextName) \in Seq(Names) \ {<<>>}
  BY <1>2, AppendProperties, EmptySeq
<1>4. Nlink(i) \in Nat
  BY NlinkType
<1>5. ver[i] \in Nat /\ age[i] \in {"old", "young"}
  BY DEF FsType, Inodes, Folders
<1> QED BY <1>3, <1>4, <1>5 DEF Seen, Entry

\* ... of the walk ...
LEMMA WalkTypeKept == WalkType /\ FsType /\ AtWork /\ [Next]_vars => WalkType'
<1> SUFFICES ASSUME WalkType, FsType, AtWork, [Next]_vars PROVE WalkType'
  OBVIOUS
<1>1. CASE WalkEntry
  <2>1. stack \in Seq(Frames) /\ stack # <<>> /\ Top.left # {}
    BY <1>1 DEF WalkEntry, WalkType
  <2>2. Consumed \in Seq(Frames) /\ <<>> \in Seq(Frames)
    BY <2>1, TopType, EmptySeq
  <2> DEFINE i == slot[<<Top.dir, NextName>>]
  <2>3. i \in Inodes => i \in Dirs \cup Files \cup Links
    <3>1. Top \in Frames /\ NextName \in Top.left
      BY <2>1, TopType, NextNameLeft DEF Top, NextName
    <3>2. <<Top.dir, NextName>> \in Slots
      BY <3>1 DEF Frames, Slots
    <3> QED BY <3>2, SweepAssumption DEF FsType, Inodes
  <2>4. i \in Inodes => Seen(Append(Top.path, NextName), i) \in Entry
    BY <2>1, <2>3, SeenType
  <2> QED BY <1>1, <2>2, <2>4 DEF WalkEntry, WalkType
<1>2. CASE WalkMount
  <2>1. stack \in Seq(Frames) /\ stack # <<>>
    BY <1>2 DEF WalkMount, WalkType, AtWork
  <2>2. Consumed \in Seq(Frames) /\ <<>> \in Seq(Frames)
    BY <2>1, TopType, EmptySeq
  <2> QED BY <1>2, <2>2 DEF WalkMount, WalkType
<1>3. CASE WalkDescend
  <2>1. stack \in Seq(Frames) /\ stack # <<>> /\ look \in Entry
    BY <1>3 DEF WalkDescend, WalkType, AtWork
  <2>2. Consumed \in Seq(Frames)
    BY <2>1, TopType
  <2> DEFINE d == OpenDir(Top.dir, NextName)
  <2>3. ASSUME d # NoDir PROVE Frame(d, look.path, look) \in Frames
    <3>1. d \in Folders
      BY <2>3 DEF OpenDir
    <3>2. EntriesOf(d) \in SUBSET Names
      BY DEF EntriesOf
    <3> HIDE DEF d
    <3>3. look.path \in Seq(Names)
      BY <2>1 DEF Entry
    <3> QED BY <2>1, <3>1, <3>2, <3>3 DEF Frame, Frames
  <2>4. d # NoDir => Append(Consumed, Frame(d, look.path, look)) \in Seq(Frames)
    BY <2>2, <2>3, AppendProperties
  <2>5. look' = NoEntry /\ stack' \in {Consumed} \cup
          (IF d = NoDir THEN {} ELSE {Append(Consumed,
                                             Frame(d, look.path, look))})
    BY <1>3 DEF WalkDescend
  <2> QED BY <2>2, <2>4, <2>5 DEF WalkType
<1>4. CASE WalkUp
  <2>1. stack \in Seq(Frames) /\ stack # <<>>
    BY <1>4 DEF WalkUp, WalkType
  <2> QED BY <1>4, <2>1, TopType DEF WalkUp, WalkType
<1>5. CASE MakePlan BY <1>5 DEF MakePlan, WalkType
<1>6. CASE NextEntry BY <1>6 DEF NextEntry, WalkType
<1>7. CASE Cancelled BY <1>7 DEF Cancelled, WalkType
<1>8. CASE Finish BY <1>8 DEF Finish, WalkType
<1>9. CASE Inspect BY <1>9 DEF Inspect, WalkType
<1>10. CASE Reopen BY <1>10 DEF Reopen, WalkType
<1>11. CASE Recheck BY <1>11 DEF Recheck, WalkType
<1>12. CASE ListDir BY <1>12 DEF ListDir, WalkType
<1>13. CASE Unlink BY <1>13 DEF Unlink, WalkType
<1>14. ASSUME NEW f \in Files, Write(f)
      PROVE  WalkType'
  BY <1>14 DEF Write, Act, WalkType
<1>15. ASSUME NEW f \in Files, OpenFile(f)
      PROVE  WalkType'
  BY <1>15 DEF OpenFile, Act, WalkType
<1>16. ASSUME NEW f \in Files, CloseFile(f)
      PROVE  WalkType'
  BY <1>16 DEF CloseFile, Act, WalkType
<1>17. ASSUME NEW d \in Folders, NEW n \in Names, NEW i \in Inodes,
              Create(d, n, i)
      PROVE  WalkType'
  BY <1>17 DEF Create, Act, WalkType
<1>18. ASSUME NEW f \in Files, NEW d \in Folders, NEW n \in Names,
              HardLink(f, d, n)
      PROVE  WalkType'
  BY <1>18 DEF HardLink, Act, WalkType
<1>19. ASSUME NEW d \in Folders, NEW n \in Names, Delete(d, n)
      PROVE  WalkType'
  BY <1>19 DEF Delete, Act, WalkType
<1>20. ASSUME NEW d \in Folders, NEW e \in Folders,
             NEW n \in Names, NEW m \in Names, Move(d, n, e, m)
      PROVE  WalkType'
  BY <1>20 DEF Move, Act, WalkType
<1>21. CASE UNCHANGED vars BY <1>21 DEF vars, WalkType
<1> QED BY <1>1, <1>2, <1>3, <1>4, <1>5, <1>6, <1>7, <1>8, <1>9, <1>10,
          <1>11, <1>12, <1>13, <1>14, <1>15, <1>16, <1>17, <1>18, <1>19,
          <1>20, <1>21
          DEF Next, BeavStep, OwnerStep

\* ... and of the list of what is to be removed.
LEMMA ListTypeKept ==
  ListType /\ WalkType /\ FlagType /\ AtWork /\ Stacked /\ [Next]_vars
    => ListType'
<1> SUFFICES ASSUME ListType, WalkType, FlagType, AtWork, Stacked, [Next]_vars
             PROVE  ListType'
  OBVIOUS
<1>1. CASE WalkEntry BY <1>1 DEF WalkEntry, ListType
<1>2. CASE WalkMount
  <2>1. look \in Entry
    BY <1>2 DEF WalkMount, WalkType, AtWork
  <2>2. plan' = plan
        /\ (list' = list \/ (list' = list \cup {look} /\ look.ino \in Files))
    BY <1>2 DEF WalkMount, Consider, TurnTo, NotConsidered
  <2> QED BY <2>1, <2>2 DEF ListType
<1>3. CASE WalkDescend BY <1>3 DEF WalkDescend, ListType
<1>4. CASE WalkUp
  <2>1. stack \in Seq(Frames) /\ stack # <<>>
    BY <1>4 DEF WalkUp, WalkType
  <2>2. Top \in Frames /\ Len(stack) \in DOMAIN stack
    BY <2>1, TopType, LenProperties
  <2>3. Top.self # NoEntry => Top.self \in Entry /\ Top.self.ino \in Dirs
    BY <2>2 DEF Top, Stacked, Frames
  <2> QED BY <1>4, <2>3 DEF WalkUp, ListType
<1>5. CASE MakePlan BY <1>5 DEF MakePlan, Doomed, ListType
<1>6. CASE NextEntry BY <1>6 DEF NextEntry, ListType
<1>7. CASE Cancelled BY <1>7 DEF Cancelled, ListType
<1>8. CASE Finish BY <1>8 DEF Finish, ListType
<1>9. CASE Inspect BY <1>9 DEF Inspect, ListType
<1>10. CASE Reopen BY <1>10 DEF Reopen, ListType
<1>11. CASE Recheck BY <1>11 DEF Recheck, ListType
<1>12. CASE ListDir BY <1>12 DEF ListDir, ListType
<1>13. CASE Unlink BY <1>13 DEF Unlink, ListType
<1>14. ASSUME NEW f \in Files, Write(f)
      PROVE  ListType'
  BY <1>14 DEF Write, Act, ListType
<1>15. ASSUME NEW f \in Files, OpenFile(f)
      PROVE  ListType'
  BY <1>15 DEF OpenFile, Act, ListType
<1>16. ASSUME NEW f \in Files, CloseFile(f)
      PROVE  ListType'
  BY <1>16 DEF CloseFile, Act, ListType
<1>17. ASSUME NEW d \in Folders, NEW n \in Names, NEW i \in Inodes,
              Create(d, n, i)
      PROVE  ListType'
  BY <1>17 DEF Create, Act, ListType
<1>18. ASSUME NEW f \in Files, NEW d \in Folders, NEW n \in Names,
              HardLink(f, d, n)
      PROVE  ListType'
  BY <1>18 DEF HardLink, Act, ListType
<1>19. ASSUME NEW d \in Folders, NEW n \in Names, Delete(d, n)
      PROVE  ListType'
  BY <1>19 DEF Delete, Act, ListType
<1>20. ASSUME NEW d \in Folders, NEW e \in Folders,
             NEW n \in Names, NEW m \in Names, Move(d, n, e, m)
      PROVE  ListType'
  BY <1>20 DEF Move, Act, ListType
<1>21. CASE UNCHANGED vars BY <1>21 DEF vars, ListType
<1> QED BY <1>1, <1>2, <1>3, <1>4, <1>5, <1>6, <1>7, <1>8, <1>9, <1>10,
          <1>11, <1>12, <1>13, <1>14, <1>15, <1>16, <1>17, <1>18, <1>19,
          <1>20, <1>21
          DEF Next, BeavStep, OwnerStep

\* Every step keeps every type.
LEMMA TypeKept == TypeOK /\ AtWork /\ Stacked /\ [Next]_vars => TypeOK'
<1>1. (/\ FsType /\ OpenType /\ FlagType /\ WalkType /\ ListType /\ CurType
       /\ acts \in Nat)' => TypeOK'
  BY DEF TypeOK, FsType, OpenType, FlagType, WalkType, ListType, CurType, Frames
<1> QED BY <1>1, TypeSplit, FsTypeKept, OpenTypeKept, FlagTypeKept,
           WalkTypeKept, ListTypeKept, CurTypeKept, ActsTypeKept

----------------------------------------------------------------------------
(***************************************************************************)
(* A step knows what it works on.                                          *)
(***************************************************************************)
LEMMA ConsumedStacked ==
  ASSUME stack \in Seq(Frames), stack # <<>>, Stacked
  PROVE  \A k \in DOMAIN Consumed :
           Consumed[k].self # NoEntry => Consumed[k].self.ino \in Dirs
<1>1. /\ Consumed \in Seq(Frames) /\ Len(Consumed) = Len(stack)
      /\ \A k \in 1..Len(stack) : Consumed[k].self = stack[k].self
  BY TopType
<1>2. DOMAIN Consumed = 1..Len(stack) /\ DOMAIN stack = 1..Len(stack)
  BY <1>1, LenProperties
<1> QED BY <1>1, <1>2 DEF Stacked

\* An empty stack has no frame.
LEMMA EmptyStacked == DOMAIN <<>> = {}
OBVIOUS

\* What the walker descends into are directories.
LEMMA StackedKept ==
  Stacked /\ AtWork /\ WalkType /\ FsType /\ [Next]_vars => Stacked'
<1> SUFFICES ASSUME Stacked, AtWork, WalkType, FsType, [Next]_vars
             PROVE  Stacked'
  OBVIOUS
<1>1. CASE WalkEntry
  <2>1. stack \in Seq(Frames) /\ stack # <<>>
    BY <1>1 DEF WalkEntry, WalkType
  <2>2. stack' = Consumed \/ stack' = <<>> \/ stack' = stack
    BY <1>1 DEF WalkEntry
  <2> QED BY <2>1, <2>2, ConsumedStacked, EmptyStacked DEF Stacked
<1>2. CASE WalkMount
  <2>1. stack \in Seq(Frames) /\ stack # <<>>
    BY <1>2 DEF WalkMount, WalkType, AtWork
  <2>2. stack' = Consumed \/ stack' = <<>> \/ stack' = stack
    BY <1>2 DEF WalkMount
  <2> QED BY <2>1, <2>2, ConsumedStacked, EmptyStacked DEF Stacked
<1>3. CASE WalkDescend
  <2>1. stack \in Seq(Frames) /\ stack # <<>> /\ look \in Entry
        /\ look.ino \in Dirs
    BY <1>3 DEF WalkDescend, WalkType, AtWork
  <2>2. Consumed \in Seq(Frames) /\ \A k \in DOMAIN Consumed :
          Consumed[k].self # NoEntry => Consumed[k].self.ino \in Dirs
    BY <2>1, TopType, ConsumedStacked
  <2> DEFINE d == OpenDir(Top.dir, NextName)
             f == Frame(d, look.path, look)
  <2>3. stack' = Consumed \/ (d # NoDir /\ stack' = Append(Consumed, f))
    BY <1>3 DEF WalkDescend
  <2>4. CASE d # NoDir /\ stack' = Append(Consumed, f)
    <3>1. f \in Frames /\ f.self = look
      <4>1. d \in Folders
        BY <2>4 DEF OpenDir
      <4>2. EntriesOf(d) \in SUBSET Names
        BY DEF EntriesOf
      <4> HIDE DEF d
      <4>3. look.path \in Seq(Names)
        BY <2>1 DEF Entry
      <4> QED BY <2>1, <4>1, <4>2, <4>3 DEF Frame, Frames
    <3> HIDE DEF f
    <3>2. \A k \in DOMAIN stack' :
            stack'[k].self # NoEntry => stack'[k].self.ino \in Dirs
      BY <2>1, <2>2, <2>4, <3>1, AppendProperties, LenProperties
    <3> QED BY <3>2 DEF Stacked
  <2> QED BY <2>2, <2>3, <2>4 DEF Stacked
<1>4. CASE WalkUp
  <2>1. stack \in Seq(Frames) /\ stack # <<>>
    BY <1>4 DEF WalkUp, WalkType
  <2>2. stack' = Front(stack)
    BY <1>4 DEF WalkUp
  <2>3. /\ Front(stack) \in Seq(Frames) /\ Len(Front(stack)) = Len(stack) - 1
        /\ \A k \in 1..Len(stack) - 1 : Front(stack)[k] = stack[k]
    BY <2>1, TopType
  <2>4. /\ DOMAIN stack = 1..Len(stack) /\ Len(stack) \in Nat
        /\ DOMAIN Front(stack) = 1..Len(stack) - 1
    BY <2>1, <2>3, LenProperties
  <2>5. ASSUME NEW k \in DOMAIN stack'
        PROVE  k \in DOMAIN stack /\ stack'[k] = stack[k]
    <3>1. k \in 1..Len(stack) - 1
      BY <2>2, <2>4
    <3> QED BY <2>2, <2>3, <2>4, <3>1
  <2> QED BY <2>5 DEF Stacked
<1>5. CASE MakePlan BY <1>5 DEF MakePlan, Stacked
<1>6. CASE NextEntry BY <1>6 DEF NextEntry, Stacked
<1>7. CASE Cancelled BY <1>7 DEF Cancelled, Stacked
<1>8. CASE Finish BY <1>8 DEF Finish, Stacked
<1>9. CASE Inspect BY <1>9 DEF Inspect, Stacked
<1>10. CASE Reopen BY <1>10 DEF Reopen, Stacked
<1>11. CASE Recheck BY <1>11 DEF Recheck, Stacked
<1>12. CASE ListDir BY <1>12 DEF ListDir, Stacked
<1>13. CASE Unlink BY <1>13 DEF Unlink, Stacked
<1>14. ASSUME NEW f \in Files, Write(f)
      PROVE  Stacked'
  BY <1>14 DEF Write, Act, Stacked
<1>15. ASSUME NEW f \in Files, OpenFile(f)
      PROVE  Stacked'
  BY <1>15 DEF OpenFile, Act, Stacked
<1>16. ASSUME NEW f \in Files, CloseFile(f)
      PROVE  Stacked'
  BY <1>16 DEF CloseFile, Act, Stacked
<1>17. ASSUME NEW d \in Folders, NEW n \in Names, NEW i \in Inodes,
              Create(d, n, i)
      PROVE  Stacked'
  BY <1>17 DEF Create, Act, Stacked
<1>18. ASSUME NEW f \in Files, NEW d \in Folders, NEW n \in Names,
              HardLink(f, d, n)
      PROVE  Stacked'
  BY <1>18 DEF HardLink, Act, Stacked
<1>19. ASSUME NEW d \in Folders, NEW n \in Names, Delete(d, n)
      PROVE  Stacked'
  BY <1>19 DEF Delete, Act, Stacked
<1>20. ASSUME NEW d \in Folders, NEW e \in Folders,
             NEW n \in Names, NEW m \in Names, Move(d, n, e, m)
      PROVE  Stacked'
  BY <1>20 DEF Move, Act, Stacked
<1>21. CASE UNCHANGED vars BY <1>21 DEF vars, Stacked
<1> QED BY <1>1, <1>2, <1>3, <1>4, <1>5, <1>6, <1>7, <1>8, <1>9, <1>10,
          <1>11, <1>12, <1>13, <1>14, <1>15, <1>16, <1>17, <1>18, <1>19,
          <1>20, <1>21
          DEF Next, BeavStep, OwnerStep

\* Whoever walks has something to walk, whoever removes something to remove.
LEMMA AtWorkKept == AtWork /\ TypeOK /\ [Next]_vars => AtWork'
<1> SUFFICES ASSUME AtWork, TypeOK, [Next]_vars PROVE AtWork'
  OBVIOUS
<1>0. /\ look \in Entry \cup {NoEntry}
      /\ \A e \in list \cup plan : e \in Entry /\ e.ino \in Files \cup Dirs
      /\ \A e \in Entry : e # NoEntry /\ e.ino \in Dirs \cup Files \cup Links
      /\ Folders \cap (Files \cup Links) = {} /\ Files \cap Links = {}
  BY SweepAssumption DEF TypeOK, Entry, NoEntry
<1>1. CASE WalkEntry
  <2>1. /\ stack # <<>> /\ Top.left # {} /\ pc = "walk"
        /\ pc' \in {"walk", "mount"}
        /\ UNCHANGED <<list, plan, curVars, last>>
    BY <1>1 DEF WalkEntry
  <2>2. pc' = "mount" => stack' = stack /\ look' # NoEntry
    BY <1>1, SweepAssumption DEF WalkEntry, Seen, NoEntry
  <2>3. pc' = "mount" => Top' = Top
    BY <2>2 DEF Top
  <2> QED BY <2>1, <2>2, <2>3 DEF AtWork, Busy
<1>2. CASE WalkMount
  <2>1. /\ look \in Entry /\ stack # <<>> /\ Top.left # {} /\ plan' = plan
        /\ pc = "mount" /\ pc' \in {"walk", "descend", "inspect"}
    BY <1>0, <1>2 DEF WalkMount, AtWork, Consider, NotConsidered
  <2>2. ASSUME pc' = "descend"
        PROVE  stack' = stack /\ look' = look /\ look.ino \in Dirs /\ Top' = Top
    <3>1. stack' = stack /\ look' = look /\ look.ino \in Folders
      BY <1>2, <2>2 DEF WalkMount, Consider, NotConsidered
    <3>2. look.ino \in Dirs
      BY <1>0, <2>1, <3>1
    <3> QED BY <3>1, <3>2 DEF Top
  <2>3. ASSUME pc' = "inspect"
        PROVE  /\ cur' = look /\ held' = Root /\ opened' = 0
               /\ look.ino \in Files
               /\ look.age = "old" /\ last' # "checked"
    BY <1>2, <2>3 DEF WalkMount, Consider, NotConsidered, TurnTo, Debris
  <2> QED BY <1>0, <2>1, <2>2, <2>3 DEF AtWork, Busy, Unmet
<1>3. CASE WalkDescend BY <1>3, <1>0 DEF WalkDescend, AtWork, Busy, Unmet
<1>4. CASE WalkUp BY <1>4, <1>0 DEF WalkUp, AtWork, Busy, Unmet
<1>5. CASE MakePlan
  BY <1>5, <1>0 DEF MakePlan, Doomed, Passed, AtWork, Busy, Unmet
<1>6. CASE NextEntry
  BY <1>6, <1>0 DEF NextEntry, TurnTo, AtWork, Busy, Unmet
<1>7. CASE Cancelled BY <1>7, <1>0 DEF Cancelled, AtWork, Busy, Unmet
<1>8. CASE Finish BY <1>8, <1>0 DEF Finish, AtWork, Busy, Unmet
<1>9. CASE Inspect BY <1>9, <1>0 DEF Inspect, Resume, AtWork, Busy, Unmet
<1>10. CASE Reopen
  BY <1>10, <1>0 DEF Reopen, Onward, Resume, IsDir, AtWork, Busy, Unmet
<1>11. CASE Recheck
  BY <1>11, <1>0 DEF Recheck, IsDir, Resume, AtWork, Busy, Unmet
<1>12. CASE ListDir
  BY <1>12, <1>0 DEF ListDir, Resume, IsDir, AtWork, Busy, Unmet
<1>13. CASE Unlink
  BY <1>13, <1>0 DEF Unlink, Onward, Resume, AtWork, Busy, Unmet
<1>14. ASSUME NEW f \in Files, Write(f)
      PROVE  AtWork'
  BY <1>14 DEF Write, Act, AtWork, Busy, Unmet, Top, IsDir
<1>15. ASSUME NEW f \in Files, OpenFile(f)
      PROVE  AtWork'
  BY <1>15 DEF OpenFile, Act, AtWork, Busy, Unmet, Top, IsDir
<1>16. ASSUME NEW f \in Files, CloseFile(f)
      PROVE  AtWork'
  BY <1>16 DEF CloseFile, Act, AtWork, Busy, Unmet, Top, IsDir
<1>17. ASSUME NEW d \in Folders, NEW n \in Names, NEW i \in Inodes,
              Create(d, n, i)
      PROVE  AtWork'
  BY <1>17 DEF Create, Act, AtWork, Busy, Unmet, Top, IsDir
<1>18. ASSUME NEW f \in Files, NEW d \in Folders, NEW n \in Names,
              HardLink(f, d, n)
      PROVE  AtWork'
  BY <1>18 DEF HardLink, Act, AtWork, Busy, Unmet, Top, IsDir
<1>19. ASSUME NEW d \in Folders, NEW n \in Names, Delete(d, n)
      PROVE  AtWork'
  BY <1>19 DEF Delete, Act, AtWork, Busy, Unmet, Top, IsDir
<1>20. ASSUME NEW d \in Folders, NEW e \in Folders,
             NEW n \in Names, NEW m \in Names, Move(d, n, e, m)
      PROVE  AtWork'
  BY <1>20 DEF Move, Act, AtWork, Busy, Unmet, Top, IsDir
<1>21. CASE UNCHANGED vars
  BY <1>21, <1>0 DEF vars, Top, IsDir, AtWork, Busy, Unmet
<1> QED BY <1>1, <1>2, <1>3, <1>4, <1>5, <1>6, <1>7, <1>8, <1>9, <1>10,
          <1>11, <1>12, <1>13, <1>14, <1>15, <1>16, <1>17, <1>18, <1>19,
          <1>20, <1>21
          DEF Next, BeavStep, OwnerStep

\* A sweep of debris plans nothing, and only such a sweep asks who has a file
\* open.
LEMMA KindsKept == Kinds /\ [Next]_vars => Kinds'
<1> SUFFICES ASSUME Kinds, [Next]_vars PROVE Kinds'
  OBVIOUS
<1>1. CASE WalkEntry BY <1>1 DEF WalkEntry, Kinds
<1>2. CASE WalkMount BY <1>2 DEF WalkMount, Consider, NotConsidered, Kinds
<1>3. CASE WalkDescend BY <1>3 DEF WalkDescend, Kinds
<1>4. CASE WalkUp BY <1>4 DEF WalkUp, Kinds
<1>5. CASE MakePlan BY <1>5 DEF MakePlan, Doomed, Kinds
<1>6. CASE NextEntry BY <1>6 DEF NextEntry, Kinds
<1>7. CASE Cancelled BY <1>7 DEF Cancelled, Kinds
<1>8. CASE Finish BY <1>8 DEF Finish, Kinds
<1>9. CASE Inspect BY <1>9 DEF Inspect, Resume, Kinds
<1>10. CASE Reopen BY <1>10 DEF Reopen, Onward, Resume, Kinds
<1>11. CASE Recheck BY <1>11 DEF Recheck, Resume, Kinds
<1>12. CASE ListDir BY <1>12 DEF ListDir, Resume, Kinds
<1>13. CASE Unlink BY <1>13 DEF Unlink, Onward, Resume, Kinds
<1>14. ASSUME NEW f \in Files, Write(f)
      PROVE  Kinds'
  BY <1>14 DEF Write, Act, Kinds
<1>15. ASSUME NEW f \in Files, OpenFile(f)
      PROVE  Kinds'
  BY <1>15 DEF OpenFile, Act, Kinds
<1>16. ASSUME NEW f \in Files, CloseFile(f)
      PROVE  Kinds'
  BY <1>16 DEF CloseFile, Act, Kinds
<1>17. ASSUME NEW d \in Folders, NEW n \in Names, NEW i \in Inodes,
              Create(d, n, i)
      PROVE  Kinds'
  BY <1>17 DEF Create, Act, Kinds
<1>18. ASSUME NEW f \in Files, NEW d \in Folders, NEW n \in Names,
              HardLink(f, d, n)
      PROVE  Kinds'
  BY <1>18 DEF HardLink, Act, Kinds
<1>19. ASSUME NEW d \in Folders, NEW n \in Names, Delete(d, n)
      PROVE  Kinds'
  BY <1>19 DEF Delete, Act, Kinds
<1>20. ASSUME NEW d \in Folders, NEW e \in Folders,
             NEW n \in Names, NEW m \in Names, Move(d, n, e, m)
      PROVE  Kinds'
  BY <1>20 DEF Move, Act, Kinds
<1>21. CASE UNCHANGED vars BY <1>21 DEF vars, Kinds
<1> QED BY <1>1, <1>2, <1>3, <1>4, <1>5, <1>6, <1>7, <1>8, <1>9, <1>10,
          <1>11, <1>12, <1>13, <1>14, <1>15, <1>16, <1>17, <1>18, <1>19,
          <1>20, <1>21
          DEF Next, BeavStep, OwnerStep

----------------------------------------------------------------------------
(***************************************************************************)
(* What is removed is what was seen.                                       *)
(***************************************************************************)
\* A file stays as it is, or gets another version.
Steady ==
  \A f \in Files :
    \/ ver'[f] = ver[f] /\ age'[f] = age[f] /\ (f \in asSeen => f \in asSeen')
    \/ ver'[f] > ver[f] /\ ver'[f] \in Nat

\* What the owner does to the inodes in I and the directories in D is steady.
LEMMA ChangedSteady ==
  ASSUME TypeOK, NEW I, NEW D, Changed(I, D), D \cap Files \subseteq I
  PROVE  Steady
<1>1. \A f \in Files : f \in Inodes /\ ver[f] \in Nat
  BY DEF TypeOK, Inodes
<1>2. ASSUME NEW f \in Files, f \in I PROVE ver'[f] > ver[f] /\ ver'[f] \in Nat
  BY <1>1, <1>2 DEF Changed
<1>3. ASSUME NEW f \in Files, f \notin I
      PROVE  ver'[f] = ver[f] /\ age'[f] = age[f]
             /\ (f \in asSeen => f \in asSeen')
  BY <1>1, <1>3 DEF Changed
<1> QED BY <1>2, <1>3 DEF Steady

\* Versions only grow, and nothing becomes old again.
LEMMA SteadyStep == TypeOK /\ [Next]_vars => Steady
<1> SUFFICES ASSUME TypeOK, [Next]_vars PROVE Steady
  OBVIOUS
<1>0. /\ slot \in [Slots -> Dirs \cup Files \cup Links \cup {None}]
      /\ age \in [Inodes -> {"old", "young"}] /\ ver \in [Inodes -> Nat]
      /\ Files \subseteq Inodes /\ Folders \subseteq Inodes /\ held \in Folders
      /\ Folders \cap (Files \cup Links) = {} /\ Files \cap Links = {}
  BY SweepAssumption DEF TypeOK, Inodes
<1>1. CASE WalkEntry BY <1>1 DEF WalkEntry, Steady
<1>2. CASE WalkMount BY <1>2 DEF WalkMount, Steady
<1>3. CASE WalkDescend BY <1>3 DEF WalkDescend, Steady
<1>4. CASE WalkUp BY <1>4 DEF WalkUp, Steady
<1>5. CASE MakePlan BY <1>5 DEF MakePlan, Steady
<1>6. CASE NextEntry BY <1>6 DEF NextEntry, Steady
<1>7. CASE Cancelled BY <1>7 DEF Cancelled, Steady
<1>8. CASE Finish BY <1>8 DEF Finish, Steady
<1>9. CASE Inspect BY <1>9 DEF Inspect, Steady
<1>10. CASE Reopen BY <1>10 DEF Reopen, Steady
<1>11. CASE Recheck BY <1>11 DEF Recheck, Steady
<1>12. CASE ListDir BY <1>12 DEF ListDir, Steady
<1>13. CASE Unlink
  <2>1. CASE UNCHANGED <<slot, age, ver>>
    BY <1>13, <2>1 DEF Unlink, Steady
  <2>2. CASE Unlinkable(slot[<<held, Leaf>>])
    <3> DEFINE i == slot[<<held, Leaf>>]
    <3>1. /\ age' = [age EXCEPT ![held] = "young"]
          /\ ver' = [ver EXCEPT ![i] = @ + 1]
          /\ asSeen' = asSeen
      BY <1>13, <2>2 DEF Unlink
    <3>2. i \in Inodes
      BY <2>2 DEF Unlinkable, Inodes
    <3> HIDE DEF i
    <3>3. \A f \in Files : f # held /\ age'[f] = age[f]
      BY <1>0, <3>1
    <3> SUFFICES ASSUME NEW f \in Files
                 PROVE  \/ ver'[f] = ver[f] /\ age'[f] = age[f]
                           /\ (f \in asSeen => f \in asSeen')
                        \/ ver'[f] > ver[f] /\ ver'[f] \in Nat
      BY DEF Steady
    <3>4. CASE f = i
      <4>1. ver[i] \in Nat /\ ver'[i] = ver[i] + 1
        BY <1>0, <3>1, <3>2
      <4> QED BY <3>4, <4>1
    <3>5. CASE f # i
      <4>1. ver'[f] = ver[f]
        BY <1>0, <3>1, <3>5
      <4> QED BY <3>1, <3>3, <4>1
    <3> QED BY <3>4, <3>5
  <2> QED BY <1>13, <2>1, <2>2 DEF Unlink
<1>14. ASSUME NEW f \in Files, Write(f)
      PROVE  Steady
  <2>1. /\ ver' = [ver EXCEPT ![f] = @ + 1] /\ asSeen' = asSeen \ {f}
        /\ age' \in {[age EXCEPT ![f] = a] : a \in {"old", "young"}}
    BY <1>14 DEF Write
  <2>2. ver'[f] > ver[f] /\ ver'[f] \in Nat
    BY <1>0, <2>1
  <2>3. \A g \in Files \ {f} : ver'[g] = ver[g] /\ age'[g] = age[g]
    BY <1>0, <2>1
  <2> QED BY <2>1, <2>2, <2>3 DEF Steady
<1>15. ASSUME NEW f \in Files, OpenFile(f)
      PROVE  Steady
  BY <1>15 DEF OpenFile, Steady
<1>16. ASSUME NEW f \in Files, CloseFile(f)
      PROVE  Steady
  BY <1>16 DEF CloseFile, Steady
<1>17. ASSUME NEW d \in Folders, NEW n \in Names, NEW i \in Inodes,
              Create(d, n, i)
      PROVE  Steady
  BY <1>17, <1>0, ChangedSteady DEF Create, Act
<1>18. ASSUME NEW f \in Files, NEW d \in Folders, NEW n \in Names,
              HardLink(f, d, n)
      PROVE  Steady
  BY <1>18, <1>0, ChangedSteady DEF HardLink, Act
<1>19. ASSUME NEW d \in Folders, NEW n \in Names, Delete(d, n)
      PROVE  Steady
  BY <1>19, <1>0, ChangedSteady DEF Delete, Act
<1>20. ASSUME NEW d \in Folders, NEW e \in Folders,
             NEW n \in Names, NEW m \in Names, Move(d, n, e, m)
      PROVE  Steady
  BY <1>20, <1>0, ChangedSteady DEF Move, Act
<1>21. CASE UNCHANGED vars BY <1>21 DEF vars, Steady
<1> QED BY <1>1, <1>2, <1>3, <1>4, <1>5, <1>6, <1>7, <1>8, <1>9, <1>10,
          <1>11, <1>12, <1>13, <1>14, <1>15, <1>16, <1>17, <1>18, <1>19,
          <1>20, <1>21
          DEF Next, BeavStep, OwnerStep

\* What was found as an entry says stays so found, or has changed since.
LEMMA FoundLater ==
  ASSUME TypeOK, Steady, NEW e, AsFound(e),
         e.ino \in Files => e.ver \in Nat
  PROVE  AsFound(e)'
<1>1. SUFFICES ASSUME e.ino \in Files
               PROVE  /\ e.ver <= ver'[e.ino]
                      /\ e.ver = ver'[e.ino]
                           => e.ino \in asSeen' /\ e.age = age'[e.ino]
  BY DEF AsFound
<1>2. e.ver \in Nat /\ ver[e.ino] \in Nat /\ e.ver <= ver[e.ino]
  BY <1>1 DEF AsFound, TypeOK, Inodes
<1>3. CASE ver'[e.ino] > ver[e.ino] /\ ver'[e.ino] \in Nat
  <2> DEFINE v == ver'[e.ino]
             w == ver[e.ino]
  <2>1. v > w /\ v \in Nat /\ e.ver <= w /\ w \in Nat /\ e.ver \in Nat
    BY <1>2, <1>3
  <2> HIDE DEF v, w
  <2>2. e.ver <= v /\ e.ver # v
    BY <2>1
  <2> QED BY <2>2 DEF v
<1> QED BY <1>1, <1>2, <1>3 DEF Steady, AsFound

\* Everything on the list was found as it is listed.
LEMMA FoundKept == Found /\ AtWork /\ Stacked /\ TypeOK /\ [Next]_vars => Found'
<1> SUFFICES ASSUME Found, AtWork, Stacked, TypeOK, [Next]_vars PROVE Found'
  OBVIOUS
<1>0. /\ Steady /\ look \in Entry \cup {NoEntry} /\ cur \in Entry \cup {NoEntry}
      /\ \A e \in list \cup plan : e \in Entry
      /\ \A e \in Entry \cup {NoEntry} : e.ino \in Files => e.ver \in Nat
  BY SteadyStep, SweepAssumption DEF TypeOK, Entry, NoEntry, Inodes
<1>a. \A e \in list \cup plan \cup {look, cur, NoEntry} : AsFound(e)'
  <2> SUFFICES ASSUME NEW e \in list \cup plan \cup {look, cur, NoEntry}
               PROVE  AsFound(e)'
    OBVIOUS
  <2>1. AsFound(e) /\ (e.ino \in Files => e.ver \in Nat)
    BY <1>0, SweepAssumption DEF Found, NoEntry, AsFound, Inodes
  <2> QED BY <1>0, <2>1, FoundLater
<1>1. CASE WalkEntry
  <2>1. UNCHANGED <<cur, list, plan, age, ver>>
    BY <1>1 DEF WalkEntry
  <2>2. CASE look' = look
    BY <1>a, <2>1, <2>2 DEF Found
  <2>3. ASSUME NEW i \in Inodes, look' = Seen(Append(Top.path, NextName), i),
               asSeen' = asSeen \cup ({i} \cap Files)
        PROVE  AsFound(look)'
    <3>1. ver[i] \in Nat
      BY DEF TypeOK
    <3>2. /\ look'.ino = i /\ look'.ver = ver[i] /\ look'.age = age[i]
      BY <2>3 DEF Seen
    <3> QED BY <2>1, <2>3, <3>1, <3>2 DEF AsFound
  <2> QED BY <1>1, <1>a, <2>1, <2>2, <2>3 DEF WalkEntry, Found
<1>2. CASE WalkMount
  <2>1. /\ look' \in {look, NoEntry} /\ cur' \in {look, cur}
        /\ list' \subseteq list \cup {look} /\ plan' = plan
    BY <1>2 DEF WalkMount, Consider, TurnTo, NotConsidered
  <2>2. \A e \in {look', cur'} : AsFound(e)'
    BY <1>2, <1>a, <2>1
  <2>3. \A e \in list' \cup plan' : AsFound(e)'
    BY <1>a, <2>1
  <2> QED BY <2>2, <2>3 DEF Found
<1>3. CASE WalkDescend BY <1>3, <1>0, <1>a DEF WalkDescend, Found
<1>4. CASE WalkUp
  <2>1. stack \in Seq(Frames) /\ stack # <<>>
    BY <1>4, TypeSplit DEF WalkUp, WalkType
  <2>2. Len(stack) \in DOMAIN stack
    BY <2>1, TopType, LenProperties
  <2>3. Top.self # NoEntry => Top.self.ino \in Dirs
    BY <2>2 DEF Top, Stacked
  <2>4. \A e : e.ino \in Dirs => AsFound(e)'
    BY SweepAssumption DEF Folders, AsFound
  <2>5. \A e \in list' : e \in list \/ e.ino \in Dirs
    BY <1>4, <2>3 DEF WalkUp
  <2>6. UNCHANGED <<look, cur, plan>>
    BY <1>4 DEF WalkUp
  <2>7. AsFound(look)' /\ AsFound(cur)'
    BY <1>a, <2>6
  <2>8. \A e \in list' \cup plan' : AsFound(e)'
    BY <1>a, <2>4, <2>5, <2>6
  <2> QED BY <2>7, <2>8 DEF Found
<1>5. CASE MakePlan BY <1>5, <1>0, <1>a DEF MakePlan, Doomed, Found
<1>6. CASE NextEntry BY <1>6, <1>0, <1>a DEF NextEntry, Found
<1>7. CASE Cancelled BY <1>7, <1>0, <1>a DEF Cancelled, Found
<1>8. CASE Finish BY <1>8, <1>0, <1>a DEF Finish, Found
<1>9. CASE Inspect BY <1>9, <1>0, <1>a DEF Inspect, Found
<1>10. CASE Reopen BY <1>10, <1>0, <1>a DEF Reopen, Found
<1>11. CASE Recheck BY <1>11, <1>0, <1>a DEF Recheck, Found
<1>12. CASE ListDir BY <1>12, <1>0, <1>a DEF ListDir, Found
<1>13. CASE Unlink BY <1>13, <1>0, <1>a DEF Unlink, Found
<1>14. ASSUME NEW f \in Files, Write(f)
      PROVE  Found'
  BY <1>14, <1>0, <1>a DEF Write, Act, Found
<1>15. ASSUME NEW f \in Files, OpenFile(f)
      PROVE  Found'
  BY <1>15, <1>0, <1>a DEF OpenFile, Act, Found
<1>16. ASSUME NEW f \in Files, CloseFile(f)
      PROVE  Found'
  BY <1>16, <1>0, <1>a DEF CloseFile, Act, Found
<1>17. ASSUME NEW d \in Folders, NEW n \in Names, NEW i \in Inodes,
              Create(d, n, i)
      PROVE  Found'
  BY <1>17, <1>0, <1>a DEF Create, Act, Found
<1>18. ASSUME NEW f \in Files, NEW d \in Folders, NEW n \in Names,
              HardLink(f, d, n)
      PROVE  Found'
  BY <1>18, <1>0, <1>a DEF HardLink, Act, Found
<1>19. ASSUME NEW d \in Folders, NEW n \in Names, Delete(d, n)
      PROVE  Found'
  BY <1>19, <1>0, <1>a DEF Delete, Act, Found
<1>20. ASSUME NEW d \in Folders, NEW e \in Folders,
             NEW n \in Names, NEW m \in Names, Move(d, n, e, m)
      PROVE  Found'
  BY <1>20, <1>0, <1>a DEF Move, Act, Found
<1>21. CASE UNCHANGED vars BY <1>21, <1>0, <1>a DEF vars, Found
<1> QED BY <1>1, <1>2, <1>3, <1>4, <1>5, <1>6, <1>7, <1>8, <1>9, <1>10,
          <1>11, <1>12, <1>13, <1>14, <1>15, <1>16, <1>17, <1>18, <1>19,
          <1>20, <1>21
          DEF Next, BeavStep, OwnerStep

\* What unlink is about to remove is what the last look has seen, until the
\* owner acts.
LEMMA AimedKept == Aimed /\ AtWork /\ [Next]_vars => Aimed'
<1> SUFFICES ASSUME Aimed, AtWork, [Next]_vars PROVE Aimed'
  OBVIOUS
<1>1. CASE WalkEntry BY <1>1 DEF WalkEntry, Aimed, Unmet
<1>2. CASE WalkMount
  BY <1>2 DEF WalkMount, Consider, NotConsidered, Aimed, Unmet
<1>3. CASE WalkDescend BY <1>3 DEF WalkDescend, Aimed, Unmet
<1>4. CASE WalkUp BY <1>4 DEF WalkUp, Aimed, Unmet
<1>5. CASE MakePlan BY <1>5 DEF MakePlan, Aimed, Unmet
<1>6. CASE NextEntry BY <1>6 DEF NextEntry, Aimed, Unmet
<1>7. CASE Cancelled BY <1>7 DEF Cancelled, Aimed, Unmet
<1>8. CASE Finish BY <1>8 DEF Finish, Aimed, Unmet
<1>9. CASE Inspect BY <1>9 DEF Inspect, Resume, Clear, Aimed, Unmet
<1>10. CASE Reopen BY <1>10 DEF Reopen, Onward, Resume, Aimed, Unmet
<1>11. CASE Recheck
  BY <1>11 DEF Recheck, Resume, Unchanged, IsDir, Leaf, Aimed, Unmet
<1>12. CASE ListDir
  BY <1>12 DEF ListDir, Resume, AtWork, IsDir, Aimed, Unmet
<1>13. CASE Unlink BY <1>13 DEF Unlink, Onward, Resume, Aimed, Unmet
<1>14. ASSUME NEW f \in Files, Write(f)
      PROVE  Aimed'
  BY <1>14 DEF Write, Act, Aimed, Unmet
<1>15. ASSUME NEW f \in Files, OpenFile(f)
      PROVE  Aimed'
  BY <1>15 DEF OpenFile, Act, Aimed, Unmet
<1>16. ASSUME NEW f \in Files, CloseFile(f)
      PROVE  Aimed'
  BY <1>16 DEF CloseFile, Act, Aimed, Unmet
<1>17. ASSUME NEW d \in Folders, NEW n \in Names, NEW i \in Inodes,
              Create(d, n, i)
      PROVE  Aimed'
  BY <1>17 DEF Create, Act, Aimed, Unmet
<1>18. ASSUME NEW f \in Files, NEW d \in Folders, NEW n \in Names,
              HardLink(f, d, n)
      PROVE  Aimed'
  BY <1>18 DEF HardLink, Act, Aimed, Unmet
<1>19. ASSUME NEW d \in Folders, NEW n \in Names, Delete(d, n)
      PROVE  Aimed'
  BY <1>19 DEF Delete, Act, Aimed, Unmet
<1>20. ASSUME NEW d \in Folders, NEW e \in Folders,
             NEW n \in Names, NEW m \in Names, Move(d, n, e, m)
      PROVE  Aimed'
  BY <1>20 DEF Move, Act, Aimed, Unmet
<1>21. CASE UNCHANGED vars BY <1>21 DEF vars, IsDir, Leaf, Aimed, Unmet
<1> QED BY <1>1, <1>2, <1>3, <1>4, <1>5, <1>6, <1>7, <1>8, <1>9, <1>10,
          <1>11, <1>12, <1>13, <1>14, <1>15, <1>16, <1>17, <1>18, <1>19,
          <1>20, <1>21
          DEF Next, BeavStep, OwnerStep

\* Nothing that was found open is opened, listed or removed.
LEMMA SearchedKept == Searched /\ Kinds /\ TypeOK /\ [Next]_vars => Searched'
<1> SUFFICES ASSUME Searched, Kinds, TypeOK, [Next]_vars PROVE Searched'
  OBVIOUS
<1>0. watched \subseteq openf
  BY DEF TypeOK
<1>1. CASE WalkEntry BY <1>1 DEF WalkEntry, Searched
<1>2. CASE WalkMount
  BY <1>2 DEF WalkMount, Consider, NotConsidered, Searched
<1>3. CASE WalkDescend BY <1>3 DEF WalkDescend, Searched
<1>4. CASE WalkUp BY <1>4 DEF WalkUp, Searched
<1>5. CASE MakePlan BY <1>5 DEF MakePlan, Searched
<1>6. CASE NextEntry
  <2>1. CASE UNCHANGED <<pc, curVars>>
    BY <1>6, <2>1 DEF NextEntry, Searched
  <2>2. plan = {} \/ watched' = {}
    BY <1>6, <1>0 DEF NextEntry, Kinds
  <2> QED BY <1>6, <2>1, <2>2 DEF NextEntry, Searched
<1>7. CASE Cancelled BY <1>7 DEF Cancelled, Searched
<1>8. CASE Finish BY <1>8 DEF Finish, Searched
<1>9. CASE Inspect BY <1>9 DEF Inspect, Resume, Clear, Searched
<1>10. CASE Reopen BY <1>10 DEF Reopen, Onward, Resume, Searched
<1>11. CASE Recheck BY <1>11 DEF Recheck, Resume, Searched
<1>12. CASE ListDir BY <1>12 DEF ListDir, Resume, Searched
<1>13. CASE Unlink BY <1>13 DEF Unlink, Onward, Resume, Searched
<1>14. ASSUME NEW f \in Files, Write(f)
      PROVE  Searched'
  BY <1>14 DEF Write, Act, Searched
<1>15. ASSUME NEW f \in Files, OpenFile(f)
      PROVE  Searched'
  BY <1>15 DEF OpenFile, Act, Searched
<1>16. ASSUME NEW f \in Files, CloseFile(f)
      PROVE  Searched'
  BY <1>16 DEF CloseFile, Act, Searched
<1>17. ASSUME NEW d \in Folders, NEW n \in Names, NEW i \in Inodes,
              Create(d, n, i)
      PROVE  Searched'
  BY <1>17 DEF Create, Act, Searched
<1>18. ASSUME NEW f \in Files, NEW d \in Folders, NEW n \in Names,
              HardLink(f, d, n)
      PROVE  Searched'
  BY <1>18 DEF HardLink, Act, Searched
<1>19. ASSUME NEW d \in Folders, NEW n \in Names, Delete(d, n)
      PROVE  Searched'
  BY <1>19 DEF Delete, Act, Searched
<1>20. ASSUME NEW d \in Folders, NEW e \in Folders,
             NEW n \in Names, NEW m \in Names, Move(d, n, e, m)
      PROVE  Searched'
  BY <1>20 DEF Move, Act, Searched
<1>21. CASE UNCHANGED vars BY <1>21 DEF vars, Searched
<1> QED BY <1>1, <1>2, <1>3, <1>4, <1>5, <1>6, <1>7, <1>8, <1>9, <1>10,
          <1>11, <1>12, <1>13, <1>14, <1>15, <1>16, <1>17, <1>18, <1>19,
          <1>20, <1>21
          DEF Next, BeavStep, OwnerStep

----------------------------------------------------------------------------
(***************************************************************************)
(* The directory held lies below the root until the owner acts.            *)
(***************************************************************************)
LEMMA RootBelow == Below(Root)
BY DEF Below

\* What a directory below the root contains lies below the root.
LEMMA EntryBelow ==
  ASSUME NEW d \in Folders, Below(d), NEW n \in Names, OpenDir(d, n) # NoDir
  PROVE  Below(OpenDir(d, n))
<1>1. OpenDir(d, n) = slot[<<d, n>>] /\ slot[<<d, n>>] \in Folders
  BY DEF OpenDir
<1> SUFFICES ASSUME NEW D \in SUBSET Folders, Root \in D,
                    \A e \in D : {slot[<<e, m>>] :
                      m \in Names} \cap Folders \subseteq D
             PROVE  slot[<<d, n>>] \in D
  BY <1>1 DEF Below
<1>2. d \in D
  BY DEF Below
<1> QED BY <1>1, <1>2

\* The owner may turn what was opened into a way out, but not the root.
LEMMA AnchoredByAct ==
  ASSUME Anchored, TypeOK, Act, UNCHANGED <<pc, held, opened>>
  PROVE  Anchored'
<1>1. opened \in Nat
  BY DEF TypeOK
<1>2. CASE pc \in {"list", "unlink"}
  BY <1>2 DEF Act, Anchored
<1>3. CASE pc = "open" /\ opened > 0
  BY <1>1, <1>3 DEF Act, Anchored
<1>4. CASE pc = "open" /\ opened = 0
  <2>1. held' = Root
    BY <1>4 DEF Anchored
  <2>2. Below(held)'
    BY <2>1 DEF Below
  <2> QED BY <2>1, <2>2 DEF Anchored
<1>5. CASE pc \notin {"open", "list", "unlink"}
  BY <1>5 DEF Anchored
<1> QED BY <1>1, <1>2, <1>3, <1>4, <1>5

\* The directory held lies below the root until the owner acts.
LEMMA AnchoredKept == Anchored /\ AtWork /\ TypeOK /\ [Next]_vars => Anchored'
<1> SUFFICES ASSUME Anchored, AtWork, TypeOK, [Next]_vars PROVE Anchored'
  OBVIOUS
<1>1. CASE WalkEntry BY <1>1 DEF WalkEntry, Anchored
<1>2. CASE WalkMount
  BY <1>2 DEF WalkMount, Consider, NotConsidered, Anchored
<1>3. CASE WalkDescend BY <1>3 DEF WalkDescend, Anchored
<1>4. CASE WalkUp BY <1>4 DEF WalkUp, Anchored
<1>5. CASE MakePlan BY <1>5 DEF MakePlan, Anchored
<1>6. CASE NextEntry
  <2>1. CASE UNCHANGED <<pc, curVars>>
    BY <1>6, <2>1 DEF NextEntry, Anchored
  <2>2. ASSUME held' = Root PROVE Below(held)'
    BY <2>2 DEF Below
  <2> QED BY <1>6, <2>2 DEF NextEntry, Anchored
<1>7. CASE Cancelled BY <1>7 DEF Cancelled, Anchored
<1>8. CASE Finish BY <1>8 DEF Finish, Anchored
<1>9. CASE Inspect
  <2>1. held' = Root
    BY <1>9 DEF Inspect, AtWork
  <2>2. Below(held)'
    BY <2>1 DEF Below
  <2> QED BY <2>1, <2>2 DEF Anchored
<1>10. CASE Reopen
  <2>1. UNCHANGED <<slot, last>> /\ pc = "open"
    BY <1>10 DEF Reopen
  <2>2. pc' = "open" => opened' # 0
    BY <1>10 DEF Reopen, Onward, Resume, TypeOK
  <2> SUFFICES ASSUME pc' = "open", last \in {"never", "before"}
               PROVE  Below(held)'
    BY <1>10, <2>1, <2>2 DEF Reopen, Anchored, Onward, Resume
  <2>3. Below(held) /\ held \in Folders
    BY <2>1 DEF Anchored, TypeOK
  <2> DEFINE n == cur.path[opened + 1]
  <2>4. n \in Names
    <3>1. cur \in Entry /\ opened \in Nat /\ opened < Len(cur.path)
      BY <2>1 DEF AtWork, Busy, TypeOK
    <3>2. cur.path \in Seq(Names)
      BY <3>1 DEF Entry
    <3>3. opened + 1 \in 1..Len(cur.path)
      BY <3>1, <3>2, LenProperties
    <3> QED BY <3>2, <3>3, ElementOfSeq
  <2>5. held' = OpenDir(held, n) /\ OpenDir(held, n) # NoDir
    BY <1>10 DEF Reopen, Onward, Resume
  <2> HIDE DEF n
  <2>6. Below(held')
    BY <2>3, <2>4, <2>5, EntryBelow
  <2> QED BY <2>1, <2>6 DEF Below
<1>11. CASE Recheck
  <2>1. UNCHANGED <<slot, held, last>> /\ pc = "open"
    BY <1>11 DEF Recheck
  <2>2. Below(held) => Below(held)'
    BY <2>1 DEF Below
  <2>3. pc' # "open"
    BY <1>11 DEF Recheck, Resume
  <2> QED BY <2>1, <2>2, <2>3 DEF Anchored
<1>12. CASE ListDir
  <2>1. UNCHANGED <<slot, held, last>> /\ pc = "list"
    BY <1>12 DEF ListDir
  <2>2. Below(held) => Below(held)'
    BY <2>1 DEF Below
  <2>3. pc' # "open"
    BY <1>12 DEF ListDir, Resume
  <2> QED BY <2>1, <2>2, <2>3 DEF Anchored
<1>13. CASE Unlink BY <1>13 DEF Unlink, Onward, Resume, Anchored
<1>14. ASSUME NEW f \in Files, Write(f)
      PROVE  Anchored'
  BY <1>14, AnchoredByAct DEF Write
<1>15. ASSUME NEW f \in Files, OpenFile(f)
      PROVE  Anchored'
  BY <1>15, AnchoredByAct DEF OpenFile
<1>16. ASSUME NEW f \in Files, CloseFile(f)
      PROVE  Anchored'
  BY <1>16, AnchoredByAct DEF CloseFile
<1>17. ASSUME NEW d \in Folders, NEW n \in Names, NEW i \in Inodes,
              Create(d, n, i)
      PROVE  Anchored'
  BY <1>17, AnchoredByAct DEF Create
<1>18. ASSUME NEW f \in Files, NEW d \in Folders, NEW n \in Names,
              HardLink(f, d, n)
      PROVE  Anchored'
  BY <1>18, AnchoredByAct DEF HardLink
<1>19. ASSUME NEW d \in Folders, NEW n \in Names, Delete(d, n)
      PROVE  Anchored'
  BY <1>19, AnchoredByAct DEF Delete
<1>20. ASSUME NEW d \in Folders, NEW e \in Folders,
             NEW n \in Names, NEW m \in Names, Move(d, n, e, m)
      PROVE  Anchored'
  BY <1>20, AnchoredByAct DEF Move
<1>21. CASE UNCHANGED vars
  <2>1. UNCHANGED <<slot, held, last, pc, opened>>
    BY <1>21 DEF vars
  <2>2. Below(held) => Below(held)'
    BY <2>1 DEF Below
  <2> QED BY <2>1, <2>2 DEF Anchored
<1> QED BY <1>1, <1>2, <1>3, <1>4, <1>5, <1>6, <1>7, <1>8, <1>9, <1>10,
          <1>11, <1>12, <1>13, <1>14, <1>15, <1>16, <1>17, <1>18, <1>19,
          <1>20, <1>21
          DEF Next, BeavStep, OwnerStep

\* A step that removes an entry removes it as it was seen.
LEMMA OnlyAsSeenKept ==
  OnlyAsSeen /\ Aimed /\ AtWork /\ Found /\ TypeOK /\ [Next]_vars => OnlyAsSeen'
<1> SUFFICES ASSUME OnlyAsSeen, Aimed, AtWork, Found, TypeOK, [Next]_vars
             PROVE  OnlyAsSeen'
  OBVIOUS
<1>1. CASE WalkEntry BY <1>1 DEF WalkEntry, OnlyAsSeen
<1>2. CASE WalkMount BY <1>2 DEF WalkMount, OnlyAsSeen
<1>3. CASE WalkDescend BY <1>3 DEF WalkDescend, OnlyAsSeen
<1>4. CASE WalkUp BY <1>4 DEF WalkUp, OnlyAsSeen
<1>5. CASE MakePlan BY <1>5 DEF MakePlan, OnlyAsSeen
<1>6. CASE NextEntry BY <1>6 DEF NextEntry, OnlyAsSeen
<1>7. CASE Cancelled BY <1>7 DEF Cancelled, OnlyAsSeen
<1>8. CASE Finish BY <1>8 DEF Finish, OnlyAsSeen
<1>9. CASE Inspect BY <1>9 DEF Inspect, OnlyAsSeen
<1>10. CASE Reopen BY <1>10 DEF Reopen, OnlyAsSeen
<1>11. CASE Recheck BY <1>11 DEF Recheck, OnlyAsSeen
<1>12. CASE ListDir BY <1>12 DEF ListDir, OnlyAsSeen
<1>13. CASE Unlink
  <2> DEFINE i == slot[<<held, Leaf>>]
  <2>1. CASE removed' = removed
    BY <2>1 DEF OnlyAsSeen
  <2>2. CASE Unlinkable(i) /\ removed' = removed \cup {Loss(i)}
    <3>1. ASSUME i \notin Folders, Unmet PROVE i \in asSeen /\ age[i] = "old"
      <4>1. ~IsDir(cur) /\ pc = "unlink"
        BY <1>13, <2>2, <3>1 DEF Unlinkable, Unlink
      <4>2. i = cur.ino /\ ver[cur.ino] = cur.ver /\ cur.ino \in Files
            /\ cur.age = "old"
        BY <3>1, <4>1 DEF Aimed, AtWork, Busy, IsDir, Folders
      <4> QED BY <4>2 DEF Found, AsFound
    <3>2. /\ Loss(i).kind = "file" => i \notin Folders
          /\ Loss(i).when = last /\ (Loss(i).seen <=> i \in asSeen)
             /\ Loss(i).age = age[i]
      BY DEF Loss
    <3> QED BY <2>2, <3>1, <3>2 DEF OnlyAsSeen, Unmet
  <2> QED BY <1>13, <2>1, <2>2 DEF Unlink
<1>14. ASSUME NEW f \in Files, Write(f)
      PROVE  OnlyAsSeen'
  BY <1>14 DEF Write, Act, OnlyAsSeen
<1>15. ASSUME NEW f \in Files, OpenFile(f)
      PROVE  OnlyAsSeen'
  BY <1>15 DEF OpenFile, Act, OnlyAsSeen
<1>16. ASSUME NEW f \in Files, CloseFile(f)
      PROVE  OnlyAsSeen'
  BY <1>16 DEF CloseFile, Act, OnlyAsSeen
<1>17. ASSUME NEW d \in Folders, NEW n \in Names, NEW i \in Inodes,
              Create(d, n, i)
      PROVE  OnlyAsSeen'
  BY <1>17 DEF Create, Act, OnlyAsSeen
<1>18. ASSUME NEW f \in Files, NEW d \in Folders, NEW n \in Names,
              HardLink(f, d, n)
      PROVE  OnlyAsSeen'
  BY <1>18 DEF HardLink, Act, OnlyAsSeen
<1>19. ASSUME NEW d \in Folders, NEW n \in Names, Delete(d, n)
      PROVE  OnlyAsSeen'
  BY <1>19 DEF Delete, Act, OnlyAsSeen
<1>20. ASSUME NEW d \in Folders, NEW e \in Folders,
             NEW n \in Names, NEW m \in Names, Move(d, n, e, m)
      PROVE  OnlyAsSeen'
  BY <1>20 DEF Move, Act, OnlyAsSeen
<1>21. CASE UNCHANGED vars BY <1>21 DEF vars, OnlyAsSeen
<1> QED BY <1>1, <1>2, <1>3, <1>4, <1>5, <1>6, <1>7, <1>8, <1>9, <1>10,
          <1>11, <1>12, <1>13, <1>14, <1>15, <1>16, <1>17, <1>18, <1>19,
          <1>20, <1>21
          DEF Next, BeavStep, OwnerStep

\* A step that removes a file found nobody who has it open.
LEMMA NotInUseKept ==
  NotInUse /\ Aimed /\ AtWork /\ Searched /\ TypeOK /\ [Next]_vars => NotInUse'
<1> SUFFICES ASSUME NotInUse, Aimed, AtWork, Searched, TypeOK, [Next]_vars
             PROVE  NotInUse'
  OBVIOUS
<1>1. CASE WalkEntry BY <1>1 DEF WalkEntry, NotInUse
<1>2. CASE WalkMount BY <1>2 DEF WalkMount, NotInUse
<1>3. CASE WalkDescend BY <1>3 DEF WalkDescend, NotInUse
<1>4. CASE WalkUp BY <1>4 DEF WalkUp, NotInUse
<1>5. CASE MakePlan BY <1>5 DEF MakePlan, NotInUse
<1>6. CASE NextEntry BY <1>6 DEF NextEntry, NotInUse
<1>7. CASE Cancelled BY <1>7 DEF Cancelled, NotInUse
<1>8. CASE Finish BY <1>8 DEF Finish, NotInUse
<1>9. CASE Inspect BY <1>9 DEF Inspect, NotInUse
<1>10. CASE Reopen BY <1>10 DEF Reopen, NotInUse
<1>11. CASE Recheck BY <1>11 DEF Recheck, NotInUse
<1>12. CASE ListDir BY <1>12 DEF ListDir, NotInUse
<1>13. CASE Unlink
  <2> DEFINE i == slot[<<held, Leaf>>]
  <2>1. CASE removed' = removed
    BY <2>1 DEF NotInUse
  <2>2. CASE Unlinkable(i) /\ removed' = removed \cup {Loss(i)}
    <3>1. ASSUME Unmet PROVE i \notin watched
      <4>1. CASE IsDir(cur)
        <5>1. i \in Folders /\ watched \subseteq Files
          BY <2>2, <4>1 DEF Unlinkable, TypeOK
        <5> QED BY <5>1, SweepAssumption
      <4>2. CASE ~IsDir(cur)
        BY <1>13, <3>1, <4>2 DEF Unlink, Aimed, Searched
      <4> QED BY <4>1, <4>2
    <3>2. Loss(i).when = last /\ (Loss(i).open <=> i \in watched)
      BY DEF Loss
    <3> QED BY <2>2, <3>1, <3>2 DEF NotInUse, Unmet
  <2> QED BY <1>13, <2>1, <2>2 DEF Unlink
<1>14. ASSUME NEW f \in Files, Write(f)
      PROVE  NotInUse'
  BY <1>14 DEF Write, Act, NotInUse
<1>15. ASSUME NEW f \in Files, OpenFile(f)
      PROVE  NotInUse'
  BY <1>15 DEF OpenFile, Act, NotInUse
<1>16. ASSUME NEW f \in Files, CloseFile(f)
      PROVE  NotInUse'
  BY <1>16 DEF CloseFile, Act, NotInUse
<1>17. ASSUME NEW d \in Folders, NEW n \in Names, NEW i \in Inodes,
              Create(d, n, i)
      PROVE  NotInUse'
  BY <1>17 DEF Create, Act, NotInUse
<1>18. ASSUME NEW f \in Files, NEW d \in Folders, NEW n \in Names,
              HardLink(f, d, n)
      PROVE  NotInUse'
  BY <1>18 DEF HardLink, Act, NotInUse
<1>19. ASSUME NEW d \in Folders, NEW n \in Names, Delete(d, n)
      PROVE  NotInUse'
  BY <1>19 DEF Delete, Act, NotInUse
<1>20. ASSUME NEW d \in Folders, NEW e \in Folders,
             NEW n \in Names, NEW m \in Names, Move(d, n, e, m)
      PROVE  NotInUse'
  BY <1>20 DEF Move, Act, NotInUse
<1>21. CASE UNCHANGED vars BY <1>21 DEF vars, NotInUse
<1> QED BY <1>1, <1>2, <1>3, <1>4, <1>5, <1>6, <1>7, <1>8, <1>9, <1>10,
          <1>11, <1>12, <1>13, <1>14, <1>15, <1>16, <1>17, <1>18, <1>19,
          <1>20, <1>21
          DEF Next, BeavStep, OwnerStep

\* A step that removes removes below the root.
LEMMA ConfinedKept == Confined /\ Anchored /\ [Next]_vars => Confined'
<1> SUFFICES ASSUME Confined, Anchored, [Next]_vars PROVE Confined'
  OBVIOUS
<1>1. CASE WalkEntry BY <1>1 DEF WalkEntry, Confined
<1>2. CASE WalkMount BY <1>2 DEF WalkMount, Confined
<1>3. CASE WalkDescend BY <1>3 DEF WalkDescend, Confined
<1>4. CASE WalkUp BY <1>4 DEF WalkUp, Confined
<1>5. CASE MakePlan BY <1>5 DEF MakePlan, Confined
<1>6. CASE NextEntry BY <1>6 DEF NextEntry, Confined
<1>7. CASE Cancelled BY <1>7 DEF Cancelled, Confined
<1>8. CASE Finish BY <1>8 DEF Finish, Confined
<1>9. CASE Inspect BY <1>9 DEF Inspect, Confined
<1>10. CASE Reopen BY <1>10 DEF Reopen, Confined
<1>11. CASE Recheck BY <1>11 DEF Recheck, Confined
<1>12. CASE ListDir BY <1>12 DEF ListDir, Confined
<1>13. CASE Unlink
  <2> DEFINE i == slot[<<held, Leaf>>]
  <2>1. CASE removed' = removed
    BY <2>1 DEF Confined
  <2>2. CASE removed' = removed \cup {Loss(i)}
    <3>1. Loss(i).when = last /\ (Loss(i).below <=> Below(held))
      BY DEF Loss
    <3> QED BY <1>13, <2>2, <3>1 DEF Confined, Anchored, Unlink
  <2> QED BY <1>13, <2>1, <2>2 DEF Unlink
<1>14. ASSUME NEW f \in Files, Write(f)
      PROVE  Confined'
  BY <1>14 DEF Write, Act, Confined
<1>15. ASSUME NEW f \in Files, OpenFile(f)
      PROVE  Confined'
  BY <1>15 DEF OpenFile, Act, Confined
<1>16. ASSUME NEW f \in Files, CloseFile(f)
      PROVE  Confined'
  BY <1>16 DEF CloseFile, Act, Confined
<1>17. ASSUME NEW d \in Folders, NEW n \in Names, NEW i \in Inodes,
              Create(d, n, i)
      PROVE  Confined'
  BY <1>17 DEF Create, Act, Confined
<1>18. ASSUME NEW f \in Files, NEW d \in Folders, NEW n \in Names,
              HardLink(f, d, n)
      PROVE  Confined'
  BY <1>18 DEF HardLink, Act, Confined
<1>19. ASSUME NEW d \in Folders, NEW n \in Names, Delete(d, n)
      PROVE  Confined'
  BY <1>19 DEF Delete, Act, Confined
<1>20. ASSUME NEW d \in Folders, NEW e \in Folders,
             NEW n \in Names, NEW m \in Names, Move(d, n, e, m)
      PROVE  Confined'
  BY <1>20 DEF Move, Act, Confined
<1>21. CASE UNCHANGED vars BY <1>21 DEF vars, Confined
<1> QED BY <1>1, <1>2, <1>3, <1>4, <1>5, <1>6, <1>7, <1>8, <1>9, <1>10,
          <1>11, <1>12, <1>13, <1>14, <1>15, <1>16, <1>17, <1>18, <1>19,
          <1>20, <1>21
          DEF Next, BeavStep, OwnerStep

----------------------------------------------------------------------------
(***************************************************************************)
(* The invariant, and what it shows.                                       *)
(***************************************************************************)
LEMMA InitHolds == Init => IndInv
<1> SUFFICES ASSUME Init PROVE IndInv
  OBVIOUS
<1>1. PICK t \in Trees : /\ slot = t.slots /\ mounts = t.mounts
                         /\ target = t.target
                         /\ acts = t.acts /\ sweep = t.sweep
  BY DEF Init
<1>2. /\ slot \in [Slots -> Dirs \cup Files \cup Links \cup {None}]
      /\ mounts \subseteq Dirs /\ target \in [Links -> Folders] /\ acts \in Nat
      /\ sweep.debris \in BOOLEAN
  BY <1>1, SweepAssumption
<1>3. FsType
  <2>1. ver \in [Inodes -> Nat] /\ age \in [Inodes -> {"old", "young"}]
    BY DEF Init
  <2> QED BY <1>2, <2>1 DEF FsType
<1>4. OpenType /\ (~sweep.debris => openf = {})
  BY <1>2 DEF Init, OpenType
<1>5. FlagType
  BY DEF Init, FlagType
<1>6. WalkType /\ \A k \in DOMAIN stack : stack[k].self = NoEntry
  <2>1. Root \in Folders /\ <<>> \in Seq(Names)
        /\ EntriesOf(Root) \in SUBSET Names
    BY EmptySeq DEF Folders, EntriesOf
  <2> DEFINE f == Frame(Root, <<>>, NoEntry)
  <2>2. f \in Frames /\ f.self = NoEntry
    BY <2>1 DEF Frame, Frames
  <2> HIDE DEF f
  <2>3. stack \in {<<>>, <<f>>} /\ look = NoEntry
    BY DEF Init, f
  <2>4. <<f>> \in Seq(Frames) /\ DOMAIN <<f>> = {1} /\ <<f>>[1] = f
    BY <2>2
  <2>5. <<>> \in Seq(Frames) /\ DOMAIN <<>> = {}
    BY EmptySeq
  <2> QED BY <2>2, <2>3, <2>4, <2>5 DEF WalkType
<1>7. ListType /\ CurType
  BY DEF Init, ListType, CurType, Folders
<1>8. TypeOK
  BY <1>2, <1>3, <1>4, <1>5, <1>6, <1>7, TypeSplit
<1>9. Stacked /\ AtWork /\ Kinds
  BY <1>2, <1>4, <1>6 DEF Init, Stacked, AtWork, Busy, Kinds
<1>10. Found /\ Aimed /\ Searched /\ Anchored
  BY SweepAssumption
  DEF Init, Found, AsFound, NoEntry, Aimed, Searched, Anchored, Inodes
<1>11. OnlyAsSeen /\ Confined /\ NotInUse
  BY DEF Init, OnlyAsSeen, Confined, NotInUse
<1> QED BY <1>8, <1>9, <1>10, <1>11 DEF IndInv

\* No step breaks the inductive invariant.
LEMMA StepKept == IndInv /\ [Next]_vars => IndInv'
<1> SUFFICES ASSUME IndInv, [Next]_vars PROVE IndInv'
  OBVIOUS
<1>1. /\ TypeOK /\ Stacked /\ AtWork /\ Kinds /\ Found /\ Aimed /\ Searched
      /\ Anchored
      /\ OnlyAsSeen /\ Confined /\ NotInUse
  BY DEF IndInv
<1>2. FsType /\ WalkType
  BY <1>1, TypeSplit
<1>3. TypeOK' /\ Stacked' /\ AtWork' /\ Kinds'
  BY <1>1, <1>2, TypeKept, StackedKept, AtWorkKept, KindsKept
<1>4. Found' /\ Aimed' /\ Searched' /\ Anchored'
  BY <1>1, FoundKept, AimedKept, SearchedKept, AnchoredKept
<1>5. OnlyAsSeen' /\ Confined' /\ NotInUse'
  BY <1>1, OnlyAsSeenKept, ConfinedKept, NotInUseKept
<1> QED BY <1>3, <1>4, <1>5 DEF IndInv

\* Every reachable state satisfies the inductive invariant.
THEOREM Invariance == Spec => []IndInv
BY InitHolds, StepKept, PTL DEF Spec

\* Every variable keeps its type: a descriptor the walk uses refers to a
\* directory, and reopenLeaf never opens the last component (fs.go).
THEOREM TypeCorrect == Spec => []TypeOK
<1>1. IndInv => TypeOK
  BY DEF IndInv
<1> QED BY <1>1, Invariance, PTL

\* Whatever the owner does between two system calls, a file or link is only
\* lost as the walker saw it, old and untouched, unless the owner acted after
\* the last look at the name (UnlinkIfUnchanged).
THEOREM OnlySeenIsLost == Spec => []OnlyAsSeen
<1>1. IndInv => OnlyAsSeen
  BY DEF IndInv
<1> QED BY <1>1, Invariance, PTL

\* No link put in the place of a parent leads a removal out of the root: as
\* long as the owner has not acted since reopenLeaf opened its first
\* component, the directory it holds lies below the root.
THEOREM StaysBelowRoot == Spec => []Confined
<1>1. IndInv => Confined
  BY DEF IndInv
<1> QED BY <1>1, Invariance, PTL

\* A file another process has had open since before the search for it is not
\* removed, unless it took the name after the last look (debris.go).
THEOREM OpenFilesStay == Spec => []NotInUse
<1>1. IndInv => NotInUse
  BY DEF IndInv
<1> QED BY <1>1, Invariance, PTL
============================================================================
