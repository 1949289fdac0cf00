----------------------------- MODULE RustupProofs ---------------------------
(***************************************************************************)
(* What holds of Rustup for every directory of toolchains, however often   *)
(* rustup acts and whatever it does between two system calls.              *)
(***************************************************************************)
EXTENDS Rustup, SequenceTheorems, WellFoundedInduction, TLAPS

Working == pc \in {"restat", "open", "empty", "list", "rmdir"}

\* Each leaf is listed once, and nothing is removed before all are judged.
Listing ==
  /\ \A u \in units : u.leaf \notin names
  /\ \A u, v \in units : u.leaf = v.leaf => u = v
  /\ pc \in {"settings", "check", "names"} => units = {}
  /\ pc \in {"settings", "check", "names", "stat"} => kept = {} /\ stale = {}
  /\ pc \in {"settings", "check", "names", "stat", "select"} =>
       touched = {} /\ gone = {}

\* The toolchain l has been compared.
Compared(l) ==
  l # default /\ \E u \in units :
    u.leaf = l /\ (pc = "select" => u \notin stale)

Champion(k, l) == Family(k) = Family(l) /\ (k = l \/ Newer(k, l))

\* The kept ones have been compared, and nothing compared is newer than the
\* one that is kept of its family.
Tournament ==
  /\ \A k \in kept : Compared(k)
  /\ pc \in {"select", "next"} \/ Working \/ outcome = "finished" =>
       \A l \in Leaves : Compared(l) => \E k \in kept : Champion(k, l)
  /\ \A k \in kept, l \in Leaves :
       Compared(l) /\ Family(k) = Family(l) => Champion(k, l)

\* What goes has a newer one, kept, in its family.
Beaten(l) ==
  /\ l \notin kept \cup {default}
  /\ \E k \in kept : Family(k) = Family(l) /\ Newer(k, l)

Judged ==
  /\ pc = "next" \/ Working => \A u \in stale : Beaten(u.leaf)
  /\ Working => /\ Beaten(cur.leaf) /\ cur.leaf \notin Keep
                /\ cur \notin stale
  /\ \A t \in touched : Beaten(t[1])

\* An inode that was given to a new toolchain is young and whole, and does
\* not pass for the old one any more.
Fresh ==
  /\ \A i \in late : age[i] = "young" /\ parts[i] = Parts
  /\ \A u \in units :
       /\ u.ver <= ver[u.ino]
       /\ u.ino \in late => u.ver < ver[u.ino] \/ u.age = "young"
  /\ pc \in {"open", "empty", "list", "rmdir"} => cur.ino \notin late

Started ==
  /\ start.dir \in [Leaves -> Inodes \cup {None}]
  /\ start.age \in [Inodes -> {"old", "young"}]
  /\ \A l, m \in Leaves :
       start.dir[l] = start.dir[m] /\ start.dir[l] # None => l = m

\* What rustup owns is as it was, but for what beav has removed.
Calm ==
  /\ pc \notin {"settings", "check", "done"} => ~busy
  /\ chosen = start.chosen /\ (pc # "settings" => default = start.chosen)
  /\ \A l \in Leaves : dir[l] = IF l \in gone THEN None ELSE start.dir[l]
  /\ \A t \in touched : t[2] = start.dir[t[1]]
  /\ \A l \in Leaves :
       (start.dir[l] # None /\ \A t \in touched : t[1] # l) =>
         /\ age[start.dir[l]] = start.age[start.dir[l]]
         /\ ver[start.dir[l]] = 0
         /\ kind[start.dir[l]] = "toolchain" => parts[start.dir[l]] = Parts

\* The list is that of the toolchains there were.
Catalogue ==
  /\ \A u \in units : /\ Member(u.leaf) /\ u.ino = start.dir[u.leaf]
                      /\ u.ver = 0 /\ u.age = start.age[u.ino]
  /\ pc \in {"stat", "select", "next"} \/ Working \/ outcome = "finished" =>
       \A l \in Leaves :
         Member(l) => l \in names \/ \E u \in units : u.leaf = l

\* Each toolchain that was beaten waits, is being removed or was dealt with.
Waiting ==
  pc = "next" \/ Working \/ outcome = "finished" =>
    \A u \in units :
      \/ u.leaf \in kept \cup {default} \cup Keep \cup gone
      \/ u \in stale \/ (Working /\ u = cur)
      \/ dry \/ u.age # "old" \/ u.ino \in stuck

RightlyGone ==
  \A l \in gone :
    /\ l \notin Keep /\ start.dir[l] \notin stuck
    /\ Member(l) /\ start.age[start.dir[l]] = "old" /\ Beaten(l)

\* What has been touched waits no more.
Apart ==
  /\ \A t \in touched : /\ \A u \in stale : u.leaf # t[1]
                        /\ pc \in {"restat", "open"} => cur.leaf # t[1]
  /\ \A l \in gone : \E t \in touched : t[1] = l
  /\ Working => cur.leaf \notin gone

Emptied ==
  /\ pc \in {"list", "rmdir"} => parts[cur.ino] = {}
  /\ pc = "rmdir" => cur.ino \notin stuck

\* What is no longer whole is being emptied, gone, or cannot be removed.
Partly ==
  \A l \in Leaves \ gone :
    (dir[l] # None /\ kind[dir[l]] = "toolchain" /\ parts[dir[l]] # Parts) =>
      \/ dir[l] \in stuck
      \/ pc \in {"empty", "list", "rmdir"} /\ l = cur.leaf

Ending ==
  /\ outcome # "" => pc = "done"
  /\ pc = "done" => outcome # ""
  /\ pc \notin {"settings", "check", "names", "stat", "done"} => names = {}
  /\ outcome = "finished" => stale = {} /\ names = {}

Undisturbed ==
  quiet => Calm /\ Catalogue /\ Waiting /\ RightlyGone /\ Apart /\ Emptied
           /\ Partly

IndInv ==
  TypeOK /\ Listing /\ Tournament /\ Judged /\ Fresh /\ Started /\ Ending
    /\ Undisturbed

----------------------------------------------------------------------------
(***************************************************************************)
(* The order of toolchains: Newer is a strict total order.                 *)
(***************************************************************************)
\* s comes before t because of the place k.
Differs(s, t, k) ==
  /\ k \in 1..Len(t) /\ k <= Len(s) + 1
  /\ \A j \in 1..k - 1 : s[j] = t[j]
  /\ k <= Len(s) => s[k] < t[k]

\* Two sequences begin alike when their first elements agree one by one.
LEMMA SameStart ==
  ASSUME NEW s \in Seq(Nat), NEW t \in Seq(Nat), NEW n \in Nat,
         n <= Len(s), n <= Len(t)
  PROVE  SubSeq(s, 1, n) = SubSeq(t, 1, n) <=> \A j \in 1..n : s[j] = t[j]
<1>1. /\ \A i \in 1..n : s[i] \in Nat
      /\ \A i \in 1..n : t[i] \in Nat
  BY ElementOfSeq
<1>2. /\ SubSeq(s, 1, n) \in Seq(Nat) /\ Len(SubSeq(s, 1, n)) = n
      /\ \A i \in 1..n : SubSeq(s, 1, n)[i] = s[i]
  BY <1>1, SubSeqProperties
<1>3. /\ SubSeq(t, 1, n) \in Seq(Nat) /\ Len(SubSeq(t, 1, n)) = n
      /\ \A i \in 1..n : SubSeq(t, 1, n)[i] = t[i]
  BY <1>1, SubSeqProperties
<1>4. ASSUME \A j \in 1..n : s[j] = t[j]
      PROVE  SubSeq(s, 1, n) = SubSeq(t, 1, n)
  BY <1>2, <1>3, <1>4, SeqEqual
<1> QED BY <1>2, <1>3, <1>4

\* A sequence is below another when a first place tells them apart.
LEMMA BelowByPlace ==
  ASSUME NEW s \in Seq(Nat), NEW t \in Seq(Nat)
  PROVE  Below(s, t) <=> \E k \in Nat : Differs(s, t, k)
<1>0. Len(s) \in Nat /\ Len(t) \in Nat
  BY LenProperties
<1>1. ASSUME IsStrictPrefix(s, t)
      PROVE  Differs(s, t, Len(s) + 1)
  <2>1. Len(s) <= Len(t) /\ \A j \in 1..Len(s) : s[j] = t[j]
    BY <1>0, <1>1, SameStart DEF IsStrictPrefix, IsPrefix
  <2>2. Len(s) # Len(t)
    BY <1>1, <2>1, SeqEqual DEF IsStrictPrefix
  <2> QED BY <1>0, <2>1, <2>2 DEF Differs
<1>2. ASSUME NEW k \in 1..Len(s), k <= Len(t), s[k] < t[k],
             SubSeq(s, 1, k - 1) = SubSeq(t, 1, k - 1)
      PROVE  Differs(s, t, k)
  <2>1. \A j \in 1..k - 1 : s[j] = t[j]
    BY <1>0, <1>2, SameStart
  <2> QED BY <1>0, <1>2, <2>1 DEF Differs
<1>3. ASSUME NEW k \in Nat, Differs(s, t, k)
      PROVE  Below(s, t)
  <2>1. CASE k <= Len(s)
    <3>1. SubSeq(s, 1, k - 1) = SubSeq(t, 1, k - 1)
      BY <1>0, <1>3, <2>1, SameStart DEF Differs
    <3> QED BY <1>0, <1>3, <2>1, <3>1 DEF Differs, Below
  <2>2. CASE k = Len(s) + 1
    <3>1. SubSeq(s, 1, Len(s)) = SubSeq(t, 1, Len(s))
      BY <1>0, <1>3, <2>2, SameStart DEF Differs
    <3>2. Len(s) <= Len(t) /\ s # t
      BY <1>0, <1>3, <2>2 DEF Differs
    <3> QED BY <3>1, <3>2 DEF Below, IsStrictPrefix, IsPrefix
  <2> QED BY <1>0, <1>3, <2>1, <2>2 DEF Differs
<1>4. ASSUME Below(s, t)
      PROVE  \E k \in Nat : Differs(s, t, k)
  BY <1>0, <1>1, <1>2, <1>4 DEF Below
<1> QED BY <1>3, <1>4

\* The order of the keys is transitive, ...
LEMMA BelowTransitive ==
  ASSUME NEW s \in Seq(Nat), NEW t \in Seq(Nat), NEW w \in Seq(Nat),
         Below(s, t), Below(t, w)
  PROVE  Below(s, w)
<1>0. /\ Len(s) \in Nat /\ Len(t) \in Nat /\ Len(w) \in Nat
      /\ \A j \in 1..Len(s) : s[j] \in Nat
      /\ \A j \in 1..Len(t) : t[j] \in Nat
      /\ \A j \in 1..Len(w) : w[j] \in Nat
  BY LenProperties, ElementOfSeq
<1>1. PICK k \in Nat : Differs(s, t, k)
  BY BelowByPlace
<1>2. PICK m \in Nat : Differs(t, w, m)
  BY BelowByPlace
<1>3. CASE k <= m
  <2>1. k \in 1..Len(w) /\ k <= Len(s) + 1
    BY <1>0, <1>1, <1>2, <1>3 DEF Differs
  <2>2. \A j \in 1..k - 1 : s[j] = w[j]
    BY <1>0, <1>1, <1>2, <1>3 DEF Differs
  <2>3. ASSUME k <= Len(s) PROVE s[k] < w[k]
    <3>1. s[k] < t[k] /\ k \in 1..Len(t) /\ k \in 1..Len(s)
      BY <1>0, <1>1, <2>3 DEF Differs
    <3>2. CASE k = m
      <4>1. t[k] < w[k]
        BY <1>0, <1>2, <3>1, <3>2 DEF Differs
      <4>2. s[k] \in Nat /\ t[k] \in Nat /\ w[k] \in Nat
        BY <1>0, <2>1, <3>1
      <4>3. \A a, b, c \in Nat : a < b /\ b < c => a < c
        OBVIOUS
      <4> QED BY <3>1, <4>1, <4>2, <4>3
    <3>3. CASE k < m
      <4>1. t[k] = w[k]
        BY <1>0, <1>2, <2>1, <3>1, <3>3 DEF Differs
      <4> QED BY <3>1, <4>1
    <3> QED BY <1>3, <3>2, <3>3
  <2>4. Differs(s, w, k)
    BY <2>1, <2>2, <2>3 DEF Differs
  <2> QED BY <2>4, BelowByPlace
<1>4. CASE m < k
  <2>1. Differs(s, w, m)
    <3>1. m \in 1..Len(w) /\ m <= Len(s) + 1 /\ m <= Len(t)
      <4>1. k \in 1..Len(t) /\ k <= Len(s) + 1
        BY <1>1 DEF Differs
      <4>2. m \in 1..Len(w)
        BY <1>2 DEF Differs
      <4> QED BY <1>0, <1>4, <4>1, <4>2
    <3>2. ASSUME NEW j \in 1..m - 1 PROVE s[j] = w[j]
      <4>1. j \in 1..k - 1
        BY <1>4
      <4>2. s[j] = t[j]
        BY <1>1, <4>1 DEF Differs
      <4>3. t[j] = w[j]
        BY <1>2 DEF Differs
      <4> QED BY <4>2, <4>3
    <3>3. s[m] = t[m] /\ t[m] < w[m]
      <4>1. m \in 1..k - 1
        BY <1>4, <3>1
      <4>2. s[m] = t[m]
        BY <1>1, <4>1 DEF Differs
      <4>3. t[m] < w[m]
        BY <1>2, <3>1 DEF Differs
      <4> QED BY <4>2, <4>3
    <3> QED BY <3>1, <3>2, <3>3 DEF Differs
  <2> QED BY <2>1, BelowByPlace
<1> QED BY <1>3, <1>4

\* ... no key is below itself, ...
LEMMA BelowIrreflexive ==
  ASSUME NEW s \in Seq(Nat)
  PROVE  ~Below(s, s)
<1>0. Len(s) \in Nat /\ \A j \in 1..Len(s) : s[j] \in Nat
  BY LenProperties, ElementOfSeq
<1>1. ASSUME NEW k \in Nat, Differs(s, s, k)
      PROVE  FALSE
  BY <1>0, <1>1 DEF Differs
<1> QED BY <1>1, BelowByPlace

\* ... and of two keys one is below the other: a strict total order.
LEMMA BelowTotal ==
  ASSUME NEW s \in Seq(Nat), NEW t \in Seq(Nat), s # t
  PROVE  Below(s, t) \/ Below(t, s)
<1>0. /\ Len(s) \in Nat /\ Len(t) \in Nat
      /\ \A j \in 1..Len(s) : s[j] \in Nat
      /\ \A j \in 1..Len(t) : t[j] \in Nat
  BY LenProperties, ElementOfSeq
<1>1. CASE \A j \in Nat : j \in 1..Len(s) /\ j \in 1..Len(t) => s[j] = t[j]
  <2>1. CASE Len(s) = Len(t)
    BY <1>0, <1>1, <2>1, SeqEqual
  <2>2. CASE Len(s) < Len(t)
    <3>1. Len(s) + 1 \in 1..Len(t) /\ Len(s) + 1 \in Nat
      BY <1>0, <2>2
    <3>2. \A j \in 1..Len(s) : s[j] = t[j]
      BY <1>0, <1>1, <2>2
    <3>3. Differs(s, t, Len(s) + 1)
      BY <1>0, <3>1, <3>2 DEF Differs
    <3> QED BY <3>1, <3>3, BelowByPlace
  <2>3. CASE Len(t) < Len(s)
    <3>1. Len(t) + 1 \in 1..Len(s) /\ Len(t) + 1 \in Nat
      BY <1>0, <2>3
    <3>2. \A j \in 1..Len(t) : t[j] = s[j]
      BY <1>0, <1>1, <2>3
    <3>3. Differs(t, s, Len(t) + 1)
      BY <1>0, <3>1, <3>2 DEF Differs
    <3> QED BY <3>1, <3>3, BelowByPlace
  <2> QED BY <1>0, <2>1, <2>2, <2>3
<1>2. ASSUME NEW i \in Nat, i \in 1..Len(s), i \in 1..Len(t), s[i] # t[i]
      PROVE  Below(s, t) \/ Below(t, s)
  <2> DEFINE D == {j \in Nat :
               j \in 1..Len(s) /\ j \in 1..Len(t) /\ s[j] # t[j]}
  <2>1. D \subseteq Nat /\ D # {}
    BY <1>2
  <2>2. PICK k \in D : \A j \in D : ~(<<j, k>> \in OpToRel(<, Nat))
    BY <2>1, NatLessThanWellFounded, WFMin
  <2>3. \A j \in D : ~(j < k)
    BY <2>1, <2>2 DEF OpToRel
  <2>4. k \in Nat /\ k \in 1..Len(s) /\ k \in 1..Len(t) /\ s[k] # t[k]
    BY <2>2
  <2>5. ASSUME NEW j \in 1..k - 1 PROVE s[j] = t[j]
    <3>1. j \in Nat /\ j \in 1..Len(s) /\ j \in 1..Len(t) /\ j < k
      BY <1>0, <2>4
    <3> QED BY <2>3, <3>1
  <2>6. s[k] < t[k] \/ t[k] < s[k]
    <3>1. s[k] \in Nat /\ t[k] \in Nat
      BY <1>0, <2>4
    <3> QED BY <2>4, <3>1
  <2> HIDE DEF D
  <2>7. Differs(s, t, k) \/ Differs(t, s, k)
    BY <1>0, <2>4, <2>5, <2>6 DEF Differs
  <2> QED BY <2>4, <2>7, BelowByPlace
<1> QED BY <1>1, <1>2

\* The key of a name is a sequence of numbers.
LEMMA KeyType ==
  ASSUME NEW l \in Leaves
  PROVE  VersionKey(l) \in Seq(Nat)
<1>1. l.date \in Nat /\ l.version \in Seq(Nat)
  BY RustupAssumption DEF Toolchains
<1>2. <<2>> \o l.version \in Seq(Nat)
  <2>1. <<2>> \in Seq(Nat)
    OBVIOUS
  <2> QED BY <1>1, <2>1, ConcatProperties
<1>3. <<1, l.date>> \in Seq(Nat) /\ <<3>> \in Seq(Nat)
  BY <1>1
<1> QED BY <1>2, <1>3 DEF VersionKey

\* CompareVersions orders the names transitively, ...
LEMMA NewerTransitive ==
  ASSUME NEW l \in Leaves, NEW m \in Leaves, NEW n \in Leaves,
         Newer(l, m), Newer(m, n)
  PROVE  Newer(l, n)
<1>1. /\ VersionKey(l) \in Seq(Nat) /\ VersionKey(m) \in Seq(Nat)
      /\ VersionKey(n) \in Seq(Nat)
  BY KeyType
<1>2. l.spelling \in Nat /\ m.spelling \in Nat /\ n.spelling \in Nat
  BY RustupAssumption DEF Toolchains
<1> QED BY <1>1, <1>2, BelowTransitive DEF Newer

\* ... tells any two of them apart, as a tie is broken by the name, ...
LEMMA NewerTotal ==
  ASSUME NEW l \in Leaves, NEW m \in Leaves, l # m
  PROVE  Newer(l, m) \/ Newer(m, l)
<1>1. VersionKey(l) \in Seq(Nat) /\ VersionKey(m) \in Seq(Nat)
  BY KeyType
<1>2. l.spelling \in Nat /\ m.spelling \in Nat /\ l.spelling # m.spelling
  BY RustupAssumption DEF Toolchains
<1> QED BY <1>1, <1>2, BelowTotal DEF Newer

\* ... and finds none newer than itself.
LEMMA NewerIrreflexive ==
  ASSUME NEW l \in Leaves
  PROVE  ~Newer(l, l)
<1>1. l.spelling \in Nat
  BY RustupAssumption DEF Toolchains
<1> QED BY <1>1, KeyType, BelowIrreflexive DEF Newer

----------------------------------------------------------------------------
(***************************************************************************)
(* The steps keep the types.                                               *)
(***************************************************************************)
USE DEF fsVars, ownVars, runVars, history, beavVars

\* Before the executor has read anything the invariant holds.
LEMMA InitHolds == Init => IndInv
<1> SUFFICES ASSUME Init PROVE IndInv
  OBVIOUS
<1> PICK h \in Homes :
      /\ dir = h.dir /\ kind = h.kind /\ age = h.age /\ stuck = h.stuck
      /\ chosen = h.chosen /\ acts = h.acts
  BY DEF Init
<1>1. /\ dir \in [Leaves -> Inodes \cup {None}] /\ kind \in [Inodes -> Kinds]
      /\ age \in [Inodes -> {"old", "young"}] /\ stuck \subseteq Inodes
      /\ chosen \in Leaves \cup {None} /\ acts \in Nat
      /\ \A l, m \in Leaves : dir[l] = dir[m] /\ dir[l] # None => l = m
  BY RustupAssumption
<1>2. TypeOK
  BY <1>1 DEF Init, TypeOK
<1>3. Listing /\ Tournament /\ Judged /\ Fresh /\ Ending
  BY <1>1
  DEF Init, Listing, Tournament, Compared, Judged, Fresh, Ending, Working
<1>4. Started
  BY <1>1 DEF Init, Started
<1>5. Calm /\ Catalogue
  BY <1>1 DEF Init, Calm, Catalogue, Working
<1>6. Waiting /\ RightlyGone /\ Apart
  BY DEF Init, Waiting, RightlyGone, Apart, Working
<1>7. Emptied
  BY DEF Init, Emptied
<1>8. Partly
  <2>1. dir \in [Leaves -> Inodes \cup {None}]
    BY <1>1
  <2>2. \A i \in Inodes : kind[i] = "toolchain" => parts[i] = Parts
    BY DEF Init
  <2> QED BY <2>1, <2>2 DEF Partly
<1> QED BY <1>2, <1>3, <1>4, <1>5, <1>6, <1>7, <1>8 DEF IndInv, Undisturbed

FsType ==
  /\ dir \in [Leaves -> Inodes \cup {None}] /\ kind \in [Inodes -> Kinds]
  /\ age \in [Inodes -> {"old", "young"}] /\ ver \in [Inodes -> Nat]
  /\ parts \in [Inodes -> SUBSET Parts] /\ stuck \subseteq Inodes
  /\ chosen \in Leaves \cup {None}

FlagType ==
  /\ busy \in BOOLEAN /\ dry \in BOOLEAN /\ quiet \in BOOLEAN
  /\ outcome \in {"", "skipped", "error", "cancelled", "finished"}
  /\ default \in Leaves \cup {None}

NumberType == acts \in Nat /\ errs \in Nat

ListType ==
  /\ names \subseteq Leaves /\ units \subseteq Units /\ kept \subseteq Leaves
  /\ stale \subseteq units

CurType ==
  /\ pc \in {"settings", "check", "names", "stat", "select", "next", "restat",
             "open", "empty", "list", "rmdir", "done"}
  /\ cur \in units \cup {NoUnit}
  /\ pc \in {"restat", "open", "empty", "list", "rmdir"} =>
       cur \in units /\ cur.age = "old"
  /\ pc \in {"empty", "list", "rmdir"} => ~dry

HistoryType ==
  /\ late \subseteq Inodes /\ gone \subseteq Leaves
  /\ touched \subseteq Leaves \X Inodes

\* The type invariant in the groups that are kept one by one.
LEMMA TypeSplit ==
  TypeOK <=> /\ FsType /\ FlagType /\ NumberType /\ ListType /\ CurType
             /\ HistoryType
BY DEF TypeOK, FsType, FlagType, NumberType, ListType, CurType, HistoryType

\* The types of what is on disk, ...
LEMMA FsTypeKept == FsType /\ [Next]_vars => FsType'
<1> SUFFICES ASSUME FsType, [Next]_vars PROVE FsType'
  OBVIOUS
<1> USE DEF FsType
<1>1. CASE ReadSettings BY <1>1 DEF ReadSettings
<1>2. CASE CheckOwner BY <1>2 DEF CheckOwner, Done
<1>3. CASE ReadNames BY <1>3 DEF ReadNames
<1>4. CASE StatUnit BY <1>4 DEF StatUnit
<1>5. CASE Select BY <1>5 DEF Select
<1>6. CASE CompareUnit BY <1>6 DEF CompareUnit, Compete
<1>7. CASE Selected BY <1>7 DEF Selected
<1>8. CASE Cancel BY <1>8 DEF Cancel, Done
<1>c. CASE ListingFails BY <1>c DEF ListingFails, Done
<1>9. CASE NextStale BY <1>9 DEF NextStale
<1>10. CASE Finish BY <1>10 DEF Finish, Done
<1>11. CASE Restat BY <1>11 DEF Restat, GiveUp
<1>12. CASE OpenUnit BY <1>12 DEF OpenUnit, GiveUp, AfterOpen
<1>13. CASE RemovePart
  <2>1. PICK x \in parts[cur.ino] :
          parts' = [parts EXCEPT ![cur.ino] = @ \ {x}]
    BY <1>13 DEF RemovePart
  <2>2. parts' \in [Inodes -> SUBSET Parts]
    BY <2>1
  <2>3. ver' \in [Inodes -> Nat]
    <3>1. CASE cur.ino \in Inodes
      BY <1>13, <3>1 DEF RemovePart
    <3>2. CASE cur.ino \notin Inodes
      BY <1>13, <3>2 DEF RemovePart
    <3> QED BY <3>1, <3>2
  <2>4. age' \in [Inodes -> {"old", "young"}]
    BY <1>13 DEF RemovePart
  <2> QED BY <1>13, <2>2, <2>3, <2>4 DEF RemovePart
<1>14. CASE WalkFails BY <1>14 DEF WalkFails, GiveUp
<1>15. CASE WalkEnds BY <1>15 DEF WalkEnds
<1>16. CASE ListUnit BY <1>16 DEF ListUnit, GiveUp
<1>17. CASE RemoveUnit BY <1>17 DEF RemoveUnit, GiveUp
<1>18. CASE Begin BY <1>18 DEF Begin, Act
<1>19. CASE End BY <1>19 DEF End
<1>20. ASSUME NEW l \in Leaves, SetDefault(l)
      PROVE  FsType'
  BY <1>20 DEF SetDefault, Act
<1>21. ASSUME NEW l \in Leaves, Update(l)
      PROVE  FsType'
  BY <1>21 DEF Update, Act
<1>22. ASSUME NEW l \in Leaves, Uninstall(l)
      PROVE  FsType'
  BY <1>22 DEF Uninstall, Act
<1>23. ASSUME NEW l \in Leaves, NEW i \in Inodes, Install(l, i)
      PROVE  FsType'
  BY <1>23 DEF Install, Act, Kinds
<1>24. CASE UNCHANGED vars BY <1>24 DEF vars
<1> QED BY <1>1, <1>2, <1>3, <1>4, <1>5, <1>6, <1>7, <1>8, <1>c, <1>9, <1>10,
          <1>11, <1>12, <1>13, <1>14, <1>15, <1>16, <1>17, <1>18, <1>19,
          <1>20, <1>21, <1>22, <1>23, <1>24
          DEF Next, BeavStep, OwnerStep

\* ... of the flags, ...
LEMMA FlagTypeKept == FlagType /\ FsType /\ [Next]_vars => FlagType'
<1> SUFFICES ASSUME FlagType, FsType, [Next]_vars PROVE FlagType'
  OBVIOUS
<1> USE DEF FlagType, FsType
<1>1. CASE ReadSettings BY <1>1 DEF ReadSettings
<1>2. CASE CheckOwner BY <1>2 DEF CheckOwner, Done
<1>3. CASE ReadNames BY <1>3 DEF ReadNames
<1>4. CASE StatUnit BY <1>4 DEF StatUnit
<1>5. CASE Select BY <1>5 DEF Select
<1>6. CASE CompareUnit BY <1>6 DEF CompareUnit, Compete
<1>7. CASE Selected BY <1>7 DEF Selected
<1>8. CASE Cancel BY <1>8 DEF Cancel, Done
<1>c. CASE ListingFails BY <1>c DEF ListingFails, Done
<1>9. CASE NextStale BY <1>9 DEF NextStale
<1>10. CASE Finish BY <1>10 DEF Finish, Done
<1>11. CASE Restat BY <1>11 DEF Restat, GiveUp
<1>12. CASE OpenUnit BY <1>12 DEF OpenUnit, GiveUp, AfterOpen
<1>13. CASE RemovePart BY <1>13 DEF RemovePart
<1>14. CASE WalkFails BY <1>14 DEF WalkFails, GiveUp
<1>15. CASE WalkEnds BY <1>15 DEF WalkEnds
<1>16. CASE ListUnit BY <1>16 DEF ListUnit, GiveUp
<1>17. CASE RemoveUnit BY <1>17 DEF RemoveUnit, GiveUp
<1>18. CASE Begin BY <1>18 DEF Begin, Act
<1>19. CASE End BY <1>19 DEF End
<1>20. ASSUME NEW l \in Leaves, SetDefault(l)
      PROVE  FlagType'
  BY <1>20 DEF SetDefault, Act
<1>21. ASSUME NEW l \in Leaves, Update(l)
      PROVE  FlagType'
  BY <1>21 DEF Update, Act
<1>22. ASSUME NEW l \in Leaves, Uninstall(l)
      PROVE  FlagType'
  BY <1>22 DEF Uninstall, Act
<1>23. ASSUME NEW l \in Leaves, NEW i \in Inodes, Install(l, i)
      PROVE  FlagType'
  BY <1>23 DEF Install, Act
<1>24. CASE UNCHANGED vars BY <1>24 DEF vars
<1> QED BY <1>1, <1>2, <1>3, <1>4, <1>5, <1>6, <1>7, <1>8, <1>c, <1>9, <1>10,
          <1>11, <1>12, <1>13, <1>14, <1>15, <1>16, <1>17, <1>18, <1>19,
          <1>20, <1>21, <1>22, <1>23, <1>24
          DEF Next, BeavStep, OwnerStep

\* ... of the counters, ...
LEMMA NumberTypeKept == NumberType /\ [Next]_vars => NumberType'
<1> SUFFICES ASSUME NumberType, [Next]_vars PROVE NumberType'
  OBVIOUS
<1> USE DEF NumberType
<1>1. CASE ReadSettings BY <1>1 DEF ReadSettings
<1>2. CASE CheckOwner BY <1>2 DEF CheckOwner, Done
<1>3. CASE ReadNames BY <1>3 DEF ReadNames
<1>4. CASE StatUnit BY <1>4 DEF StatUnit
<1>5. CASE Select BY <1>5 DEF Select
<1>6. CASE CompareUnit BY <1>6 DEF CompareUnit, Compete
<1>7. CASE Selected BY <1>7 DEF Selected
<1>8. CASE Cancel BY <1>8 DEF Cancel, Done
<1>c. CASE ListingFails BY <1>c DEF ListingFails, Done
<1>9. CASE NextStale BY <1>9 DEF NextStale
<1>10. CASE Finish BY <1>10 DEF Finish, Done
<1>11. CASE Restat BY <1>11 DEF Restat, GiveUp
<1>12. CASE OpenUnit BY <1>12 DEF OpenUnit, GiveUp, AfterOpen
<1>13. CASE RemovePart BY <1>13 DEF RemovePart
<1>14. CASE WalkFails BY <1>14 DEF WalkFails, GiveUp
<1>15. CASE WalkEnds BY <1>15 DEF WalkEnds
<1>16. CASE ListUnit BY <1>16 DEF ListUnit, GiveUp
<1>17. CASE RemoveUnit BY <1>17 DEF RemoveUnit, GiveUp
<1>18. CASE Begin BY <1>18 DEF Begin, Act
<1>19. CASE End BY <1>19 DEF End
<1>20. ASSUME NEW l \in Leaves, SetDefault(l)
      PROVE  NumberType'
  BY <1>20 DEF SetDefault, Act
<1>21. ASSUME NEW l \in Leaves, Update(l)
      PROVE  NumberType'
  BY <1>21 DEF Update, Act
<1>22. ASSUME NEW l \in Leaves, Uninstall(l)
      PROVE  NumberType'
  BY <1>22 DEF Uninstall, Act
<1>23. ASSUME NEW l \in Leaves, NEW i \in Inodes, Install(l, i)
      PROVE  NumberType'
  BY <1>23 DEF Install, Act
<1>24. CASE UNCHANGED vars BY <1>24 DEF vars
<1> QED BY <1>1, <1>2, <1>3, <1>4, <1>5, <1>6, <1>7, <1>8, <1>c, <1>9, <1>10,
          <1>11, <1>12, <1>13, <1>14, <1>15, <1>16, <1>17, <1>18, <1>19,
          <1>20, <1>21, <1>22, <1>23, <1>24
          DEF Next, BeavStep, OwnerStep

\* ... of the listing, ...
LEMMA ListTypeKept == ListType /\ FsType /\ [Next]_vars => ListType'
<1> SUFFICES ASSUME ListType, FsType, [Next]_vars PROVE ListType'
  OBVIOUS
<1> USE DEF ListType, FsType
<1>1. CASE ReadSettings BY <1>1 DEF ReadSettings
<1>2. CASE CheckOwner BY <1>2 DEF CheckOwner, Done
<1>3. CASE ReadNames BY <1>3 DEF ReadNames
<1>4. CASE StatUnit BY <1>4 DEF StatUnit, Units
<1>5. CASE Select BY <1>5 DEF Select
<1>6. CASE CompareUnit BY <1>6 DEF CompareUnit, Compete, Units
<1>7. CASE Selected BY <1>7 DEF Selected
<1>8. CASE Cancel BY <1>8 DEF Cancel, Done
<1>c. CASE ListingFails BY <1>c DEF ListingFails, Done
<1>9. CASE NextStale BY <1>9 DEF NextStale
<1>10. CASE Finish BY <1>10 DEF Finish, Done
<1>11. CASE Restat BY <1>11 DEF Restat, GiveUp
<1>12. CASE OpenUnit BY <1>12 DEF OpenUnit, GiveUp, AfterOpen
<1>13. CASE RemovePart BY <1>13 DEF RemovePart
<1>14. CASE WalkFails BY <1>14 DEF WalkFails, GiveUp
<1>15. CASE WalkEnds BY <1>15 DEF WalkEnds
<1>16. CASE ListUnit BY <1>16 DEF ListUnit, GiveUp
<1>17. CASE RemoveUnit BY <1>17 DEF RemoveUnit, GiveUp
<1>18. CASE Begin BY <1>18 DEF Begin, Act
<1>19. CASE End BY <1>19 DEF End
<1>20. ASSUME NEW l \in Leaves, SetDefault(l)
      PROVE  ListType'
  BY <1>20 DEF SetDefault, Act
<1>21. ASSUME NEW l \in Leaves, Update(l)
      PROVE  ListType'
  BY <1>21 DEF Update, Act
<1>22. ASSUME NEW l \in Leaves, Uninstall(l)
      PROVE  ListType'
  BY <1>22 DEF Uninstall, Act
<1>23. ASSUME NEW l \in Leaves, NEW i \in Inodes, Install(l, i)
      PROVE  ListType'
  BY <1>23 DEF Install, Act
<1>24. CASE UNCHANGED vars BY <1>24 DEF vars
<1> QED BY <1>1, <1>2, <1>3, <1>4, <1>5, <1>6, <1>7, <1>8, <1>c, <1>9, <1>10,
          <1>11, <1>12, <1>13, <1>14, <1>15, <1>16, <1>17, <1>18, <1>19,
          <1>20, <1>21, <1>22, <1>23, <1>24
          DEF Next, BeavStep, OwnerStep

\* ... of the toolchain at hand ...
LEMMA CurTypeKept == CurType /\ ListType /\ [Next]_vars => CurType'
<1> SUFFICES ASSUME CurType, ListType, [Next]_vars PROVE CurType'
  OBVIOUS
<1> USE DEF CurType, ListType
<1>1. CASE ReadSettings BY <1>1 DEF ReadSettings
<1>2. CASE CheckOwner BY <1>2 DEF CheckOwner, Done
<1>3. CASE ReadNames BY <1>3 DEF ReadNames
<1>4. CASE StatUnit BY <1>4 DEF StatUnit
<1>5. CASE Select BY <1>5 DEF Select
<1>6. CASE CompareUnit BY <1>6 DEF CompareUnit, Compete
<1>7. CASE Selected BY <1>7 DEF Selected
<1>8. CASE Cancel BY <1>8 DEF Cancel, Done
<1>c. CASE ListingFails BY <1>c DEF ListingFails, Done
<1>9. CASE NextStale BY <1>9 DEF NextStale
<1>10. CASE Finish BY <1>10 DEF Finish, Done
<1>11. CASE Restat BY <1>11 DEF Restat, GiveUp
<1>12. CASE OpenUnit
  <2>1. pc' \in {"next", "empty"} /\ (pc' = "empty" => ~dry)
    BY <1>12 DEF OpenUnit, GiveUp, AfterOpen
  <2> QED BY <1>12, <2>1 DEF OpenUnit
<1>13. CASE RemovePart BY <1>13 DEF RemovePart
<1>14. CASE WalkFails BY <1>14 DEF WalkFails, GiveUp
<1>15. CASE WalkEnds BY <1>15 DEF WalkEnds
<1>16. CASE ListUnit BY <1>16 DEF ListUnit, GiveUp
<1>17. CASE RemoveUnit BY <1>17 DEF RemoveUnit, GiveUp
<1>18. CASE Begin BY <1>18 DEF Begin, Act
<1>19. CASE End BY <1>19 DEF End
<1>20. ASSUME NEW l \in Leaves, SetDefault(l)
      PROVE  CurType'
  BY <1>20 DEF SetDefault, Act
<1>21. ASSUME NEW l \in Leaves, Update(l)
      PROVE  CurType'
  BY <1>21 DEF Update, Act
<1>22. ASSUME NEW l \in Leaves, Uninstall(l)
      PROVE  CurType'
  BY <1>22 DEF Uninstall, Act
<1>23. ASSUME NEW l \in Leaves, NEW i \in Inodes, Install(l, i)
      PROVE  CurType'
  BY <1>23 DEF Install, Act
<1>24. CASE UNCHANGED vars BY <1>24 DEF vars
<1> QED BY <1>1, <1>2, <1>3, <1>4, <1>5, <1>6, <1>7, <1>8, <1>c, <1>9, <1>10,
          <1>11, <1>12, <1>13, <1>14, <1>15, <1>16, <1>17, <1>18, <1>19,
          <1>20, <1>21, <1>22, <1>23, <1>24
          DEF Next, BeavStep, OwnerStep

\* ... and of the history.
LEMMA HistoryTypeKept ==
  HistoryType /\ CurType /\ ListType /\ FsType /\ [Next]_vars => HistoryType'
<1> SUFFICES ASSUME HistoryType, CurType, ListType, FsType, [Next]_vars
             PROVE  HistoryType'
  OBVIOUS
<1> USE DEF HistoryType
<1>1. CASE ReadSettings BY <1>1 DEF ReadSettings
<1>2. CASE CheckOwner BY <1>2 DEF CheckOwner, Done
<1>3. CASE ReadNames BY <1>3 DEF ReadNames
<1>4. CASE StatUnit BY <1>4 DEF StatUnit
<1>5. CASE Select BY <1>5 DEF Select
<1>6. CASE CompareUnit BY <1>6 DEF CompareUnit, Compete
<1>7. CASE Selected BY <1>7 DEF Selected
<1>8. CASE Cancel BY <1>8 DEF Cancel, Done
<1>c. CASE ListingFails BY <1>c DEF ListingFails, Done
<1>9. CASE NextStale BY <1>9 DEF NextStale
<1>10. CASE Finish BY <1>10 DEF Finish, Done
<1>11. CASE Restat BY <1>11 DEF Restat, GiveUp
<1>12. CASE OpenUnit BY <1>12 DEF OpenUnit, GiveUp, AfterOpen
<1>13. CASE RemovePart BY <1>13 DEF RemovePart, Units, CurType, ListType
<1>14. CASE WalkFails BY <1>14 DEF WalkFails, GiveUp
<1>15. CASE WalkEnds BY <1>15 DEF WalkEnds
<1>16. CASE ListUnit BY <1>16 DEF ListUnit, GiveUp
<1>17. CASE RemoveUnit
  BY <1>17 DEF RemoveUnit, GiveUp, Units, CurType, ListType, FsType
<1>18. CASE Begin BY <1>18 DEF Begin, Act
<1>19. CASE End BY <1>19 DEF End
<1>20. ASSUME NEW l \in Leaves, SetDefault(l)
      PROVE  HistoryType'
  BY <1>20 DEF SetDefault, Act
<1>21. ASSUME NEW l \in Leaves, Update(l)
      PROVE  HistoryType'
  BY <1>21 DEF Update, Act
<1>22. ASSUME NEW l \in Leaves, Uninstall(l)
      PROVE  HistoryType'
  BY <1>22 DEF Uninstall, Act
<1>23. ASSUME NEW l \in Leaves, NEW i \in Inodes, Install(l, i)
      PROVE  HistoryType'
  BY <1>23 DEF Install, Act
<1>24. CASE UNCHANGED vars BY <1>24 DEF vars
<1> QED BY <1>1, <1>2, <1>3, <1>4, <1>5, <1>6, <1>7, <1>8, <1>c, <1>9, <1>10,
          <1>11, <1>12, <1>13, <1>14, <1>15, <1>16, <1>17, <1>18, <1>19,
          <1>20, <1>21, <1>22, <1>23, <1>24
          DEF Next, BeavStep, OwnerStep

\* Every step keeps every type.
LEMMA TypeKept == TypeOK /\ [Next]_vars => TypeOK'
<1>1. (FsType /\ FlagType /\ NumberType /\ ListType /\ CurType /\ HistoryType)'
        => TypeOK'
  BY DEF TypeOK, FsType, FlagType, NumberType, ListType, CurType, HistoryType
<1> QED BY <1>1, TypeSplit, FsTypeKept, FlagTypeKept, NumberTypeKept,
           ListTypeKept, CurTypeKept, HistoryTypeKept

----------------------------------------------------------------------------
(***************************************************************************)
(* Listing, selecting and judging.                                         *)
(***************************************************************************)
\* What the parts below take from the types.
LEMMA Typed ==
  TypeOK => /\ names \subseteq Leaves /\ kept \subseteq Leaves
            /\ stale \subseteq units
            /\ \A u \in units : /\ u.leaf \in Leaves /\ u.ino \in Inodes
                                /\ u.ver \in Nat /\ u.age \in {"old", "young"}
            /\ pc \in {"restat", "open", "empty", "list", "rmdir"} =>
                 cur \in units /\ cur.age = "old"
            /\ default \in Leaves \cup {None}
BY DEF TypeOK, Units

\* A leaf is listed once, and nothing is removed before all are judged.
LEMMA ListingKept == Listing /\ TypeOK /\ [Next]_vars => Listing'
<1> SUFFICES ASSUME Listing, TypeOK, [Next]_vars PROVE Listing'
  OBVIOUS
<1> USE DEF Listing
<1>1. CASE ReadSettings BY <1>1 DEF ReadSettings
<1>2. CASE CheckOwner BY <1>2 DEF CheckOwner, Done
<1>3. CASE ReadNames BY <1>3 DEF ReadNames
<1>4. CASE StatUnit
  <2>1. PICK l \in names :
          /\ names' = names \ {l}
          /\ \/ units' = units
             \/ units' = units
                \cup {[leaf |-> l, ino |-> dir[l], ver |-> ver[dir[l]],
                                     age |-> age[dir[l]]]}
    BY <1>4 DEF StatUnit
  <2>2. \A u \in units' : u \in units \/ u.leaf = l
    BY <2>1
  <2>3. \A u, v \in units' : u.leaf = v.leaf => u = v
    BY <2>1
  <2>4. \A u \in units' : u.leaf \notin names'
    BY <2>1, <2>2
  <2> QED BY <1>4, <2>3, <2>4 DEF StatUnit
<1>5. CASE Select BY <1>5 DEF Select
<1>6. CASE CompareUnit BY <1>6 DEF CompareUnit, Compete
<1>7. CASE Selected BY <1>7 DEF Selected
<1>8. CASE Cancel BY <1>8 DEF Cancel, Done
<1>c. CASE ListingFails BY <1>c DEF ListingFails, Done
<1>9. CASE NextStale BY <1>9 DEF NextStale
<1>10. CASE Finish BY <1>10 DEF Finish, Done
<1>11. CASE Restat BY <1>11 DEF Restat, GiveUp
<1>12. CASE OpenUnit BY <1>12 DEF OpenUnit, GiveUp, AfterOpen
<1>13. CASE RemovePart BY <1>13 DEF RemovePart
<1>14. CASE WalkFails BY <1>14 DEF WalkFails, GiveUp
<1>15. CASE WalkEnds BY <1>15 DEF WalkEnds
<1>16. CASE ListUnit BY <1>16 DEF ListUnit, GiveUp
<1>17. CASE RemoveUnit BY <1>17 DEF RemoveUnit, GiveUp
<1>18. CASE Begin BY <1>18 DEF Begin, Act
<1>19. CASE End BY <1>19 DEF End
<1>20. ASSUME NEW l \in Leaves, SetDefault(l)
      PROVE  Listing'
  BY <1>20 DEF SetDefault, Act
<1>21. ASSUME NEW l \in Leaves, Update(l)
      PROVE  Listing'
  BY <1>21 DEF Update, Act
<1>22. ASSUME NEW l \in Leaves, Uninstall(l)
      PROVE  Listing'
  BY <1>22 DEF Uninstall, Act
<1>23. ASSUME NEW l \in Leaves, NEW i \in Inodes, Install(l, i)
      PROVE  Listing'
  BY <1>23 DEF Install, Act
<1>24. CASE UNCHANGED vars BY <1>24 DEF vars
<1> QED BY <1>1, <1>2, <1>3, <1>4, <1>5, <1>6, <1>7, <1>8, <1>c, <1>9, <1>10,
          <1>11, <1>12, <1>13, <1>14, <1>15, <1>16, <1>17, <1>18, <1>19,
          <1>20, <1>21, <1>22, <1>23, <1>24
          DEF Next, BeavStep, OwnerStep

\* While the names are compared, the newest so far is the newest of those that
\* have been looked at, whichever name is taken next.
LEMMA TournamentKept ==
  Tournament /\ Listing /\ Ending /\ TypeOK /\ [Next]_vars => Tournament'
<1> SUFFICES ASSUME Tournament, Listing, Ending, TypeOK, [Next]_vars
             PROVE  Tournament'
  OBVIOUS
<1> USE DEF Tournament, Compared, Working
<1>1. CASE ReadSettings BY <1>1 DEF ReadSettings, Listing
<1>2. CASE CheckOwner BY <1>2 DEF CheckOwner, Done, Listing
<1>3. CASE ReadNames BY <1>3 DEF ReadNames, Listing
<1>4. CASE StatUnit
  <2>1. pc = "stat" /\ pc' = "stat" /\ kept = {} /\ kept' = {} /\ outcome' = ""
    BY <1>4 DEF StatUnit, Listing, Ending
  <2> QED BY <2>1
<1>5. CASE Select BY <1>5 DEF Select, Listing
<1>6. CASE CompareUnit
  <2>0. /\ kept \subseteq Leaves /\ stale \subseteq units
        /\ \A u \in units : u.leaf \in Leaves
    BY Typed
  <2>1. PICK u \in stale : stale' = stale \ {u} /\ kept' = Compete(u.leaf)
    BY <1>6 DEF CompareUnit
  <2>2. /\ pc = "select" /\ pc' = "select"
        /\ UNCHANGED <<units, default, outcome>>
        /\ u \in units /\ u.leaf \in Leaves /\ \A v \in units :
             v.leaf = u.leaf => v = u
    BY <2>0, <2>1, <1>6 DEF CompareUnit, Listing
  <2>3. \A l : Compared(l)' <=> Compared(l) \/ (l = u.leaf /\ l # default)
    BY <2>0, <2>1, <2>2 DEF Listing
  <2>4. u.leaf \notin kept
    BY <2>1, <2>2
  <2>5. CASE u.leaf = default
    <3>1. kept' = kept
      BY <2>1, <2>5 DEF Compete
    <3> QED BY <2>2, <2>3, <2>5, <3>1
  <2>6. CASE u.leaf # default
    <3> DEFINE rivals == {m \in kept : Family(m) = Family(u.leaf)}
    <3>1. CASE \A m \in rivals : Newer(u.leaf, m)
      <4>1. kept' = (kept \ rivals) \cup {u.leaf}
        BY <2>1, <2>6, <3>1 DEF Compete
      <4>2. \A k \in kept' : Compared(k)'
        BY <2>3, <2>6, <4>1
      <4>3. ASSUME NEW k \in kept', NEW l \in Leaves, Compared(l)',
                   Family(k) = Family(l)
            PROVE  Champion(k, l)
        <5>1. CASE k = u.leaf /\ l # u.leaf
          <6>1. PICK m \in kept : Champion(m, l)
            BY <2>2, <2>3, <4>3, <5>1
          <6>2. m \in rivals /\ m \in Leaves
            BY <2>0, <4>3, <5>1, <6>1 DEF Champion
          <6> QED BY <2>2, <3>1, <4>3, <5>1, <6>1, <6>2, NewerTransitive
                  DEF Champion
        <5>2. CASE k = u.leaf /\ l = u.leaf
          BY <5>2 DEF Champion
        <5>3. CASE k # u.leaf
          BY <2>3, <4>1, <4>3, <5>3
        <5> QED BY <5>1, <5>2, <5>3
      <4>4. ASSUME NEW l \in Leaves, Compared(l)'
            PROVE  \E k \in kept' : Champion(k, l)
        <5>1. CASE Family(l) = Family(u.leaf)
          BY <4>1, <4>3, <4>4, <5>1
        <5>2. CASE Family(l) # Family(u.leaf)
          BY <2>2, <2>3, <4>1, <4>4, <5>2 DEF Champion
        <5> QED BY <5>1, <5>2
      <4> QED BY <2>2, <4>2, <4>3, <4>4
    <3>2. CASE ~ \A m \in rivals : Newer(u.leaf, m)
      <4>1. kept' = kept
        BY <2>1, <2>6, <3>2 DEF Compete
      <4>2. PICK m \in rivals : ~Newer(u.leaf, m)
        BY <3>2
      <4>3. Champion(m, u.leaf)
        BY <2>0, <2>2, <2>4, <4>2, NewerTotal DEF Champion
      <4>4. \A k \in kept : Family(k) = Family(u.leaf) => Champion(k, u.leaf)
        <5> SUFFICES ASSUME NEW k \in kept, Family(k) = Family(u.leaf)
                     PROVE  Champion(k, u.leaf)
          OBVIOUS
        <5>1. Champion(k, m)
          BY <2>0, <4>2
        <5> QED BY <2>0, <2>2, <4>3, <5>1, NewerTransitive DEF Champion
      <4> QED BY <2>2, <2>3, <4>1, <4>2, <4>3, <4>4
    <3> QED BY <3>1, <3>2
  <2> QED BY <2>5, <2>6
<1>7. CASE Selected
  <2>1. /\ pc = "select" /\ pc' = "next" /\ stale = {}
        /\ UNCHANGED <<units, kept, default, outcome>>
    BY <1>7 DEF Selected
  <2>2. \A l : Compared(l)' <=> Compared(l)
    BY <2>1
  <2> QED BY <2>1, <2>2
<1>8. CASE Cancel BY <1>8 DEF Cancel, Done, Listing
<1>c. CASE ListingFails BY <1>c DEF ListingFails, Done, Listing
<1>9. CASE NextStale
  <2>1. /\ pc = "next" /\ pc' \in {"next", "restat"}
        /\ UNCHANGED <<units, kept, default, outcome>>
    BY <1>9 DEF NextStale
  <2>2. \A l : Compared(l)' <=> Compared(l)
    BY <2>1
  <2> QED BY <2>1, <2>2
<1>10. CASE Finish BY <1>10 DEF Finish, Done
<1>11. CASE Restat BY <1>11 DEF Restat, GiveUp
<1>12. CASE OpenUnit BY <1>12 DEF OpenUnit, GiveUp, AfterOpen
<1>13. CASE RemovePart BY <1>13 DEF RemovePart
<1>14. CASE WalkFails BY <1>14 DEF WalkFails, GiveUp
<1>15. CASE WalkEnds BY <1>15 DEF WalkEnds
<1>16. CASE ListUnit BY <1>16 DEF ListUnit, GiveUp
<1>17. CASE RemoveUnit BY <1>17 DEF RemoveUnit, GiveUp
<1>18. CASE Begin BY <1>18 DEF Begin, Act
<1>19. CASE End BY <1>19 DEF End
<1>20. ASSUME NEW l \in Leaves, SetDefault(l)
      PROVE  Tournament'
  BY <1>20 DEF SetDefault, Act
<1>21. ASSUME NEW l \in Leaves, Update(l)
      PROVE  Tournament'
  BY <1>21 DEF Update, Act
<1>22. ASSUME NEW l \in Leaves, Uninstall(l)
      PROVE  Tournament'
  BY <1>22 DEF Uninstall, Act
<1>23. ASSUME NEW l \in Leaves, NEW i \in Inodes, Install(l, i)
      PROVE  Tournament'
  BY <1>23 DEF Install, Act
<1>24. CASE UNCHANGED vars BY <1>24 DEF vars
<1> QED BY <1>1, <1>2, <1>3, <1>4, <1>5, <1>6, <1>7, <1>8, <1>c, <1>9, <1>10,
          <1>11, <1>12, <1>13, <1>14, <1>15, <1>16, <1>17, <1>18, <1>19,
          <1>20, <1>21, <1>22, <1>23, <1>24
          DEF Next, BeavStep, OwnerStep

\* What goes has a newer one of its family that is kept.
LEMMA JudgedKept ==
  Judged /\ Tournament /\ Listing /\ TypeOK /\ [Next]_vars => Judged'
<1> SUFFICES ASSUME Judged, Tournament, Listing, TypeOK, [Next]_vars
             PROVE  Judged'
  OBVIOUS
<1> USE DEF Judged, Beaten, Working
<1>1. CASE ReadSettings
  <2>1. pc' \notin {"next", "restat", "open", "empty", "list", "rmdir"}
        /\ touched' = {}
    BY <1>1 DEF ReadSettings, Listing
  <2> QED BY <2>1
<1>2. CASE CheckOwner
  <2>1. pc' \notin {"next", "restat", "open", "empty", "list", "rmdir"}
        /\ touched' = {}
    BY <1>2 DEF CheckOwner, Done, Listing
  <2> QED BY <2>1
<1>3. CASE ReadNames
  <2>1. pc' \notin {"next", "restat", "open", "empty", "list", "rmdir"}
        /\ touched' = {}
    BY <1>3 DEF ReadNames, Listing
  <2> QED BY <2>1
<1>4. CASE StatUnit
  <2>1. pc' \notin {"next", "restat", "open", "empty", "list", "rmdir"}
        /\ touched' = {}
    BY <1>4 DEF StatUnit, Listing
  <2> QED BY <2>1
<1>5. CASE Select
  <2>1. pc' \notin {"next", "restat", "open", "empty", "list", "rmdir"}
        /\ touched' = {}
    BY <1>5 DEF Select, Listing
  <2> QED BY <2>1
<1>6. CASE CompareUnit
  <2>1. pc' \notin {"next", "restat", "open", "empty", "list", "rmdir"}
        /\ touched' = {}
    BY <1>6 DEF CompareUnit, Listing
  <2> QED BY <2>1
<1>7. CASE Selected
  <2>1. /\ pc = "select" /\ pc' = "next" /\ stale = {} /\ touched' = {}
        /\ stale' = {u \in units : u.leaf \notin kept \cup {default}}
        /\ UNCHANGED <<units, kept, default>>
    BY <1>7 DEF Selected, BestAndDefault, Listing
  <2>2. ASSUME NEW u \in stale' PROVE Beaten(u.leaf)'
    <3>1. u \in units /\ u.leaf \in Leaves /\ u.leaf \notin kept \cup {default}
      BY <2>1, Typed
    <3>2. Compared(u.leaf)
      BY <2>1, <3>1 DEF Compared
    <3>3. PICK k \in kept : Champion(k, u.leaf)
      BY <2>1, <3>1, <3>2 DEF Tournament
    <3> QED BY <2>1, <3>1, <3>3 DEF Champion
  <2> QED BY <2>1, <2>2
<1>8. CASE Cancel BY <1>8 DEF Cancel, Done
<1>c. CASE ListingFails BY <1>c DEF ListingFails, Done
<1>9. CASE NextStale BY <1>9 DEF NextStale
<1>10. CASE Finish BY <1>10 DEF Finish, Done
<1>11. CASE Restat BY <1>11 DEF Restat, GiveUp
<1>12. CASE OpenUnit BY <1>12 DEF OpenUnit, GiveUp, AfterOpen
<1>13. CASE RemovePart
  <2>1. /\ pc = "empty" /\ UNCHANGED <<pc, stale, cur, kept, default>>
        /\ touched' = touched \cup {<<cur.leaf, cur.ino>>}
    BY <1>13 DEF RemovePart
  <2> QED BY <2>1
<1>14. CASE WalkFails BY <1>14 DEF WalkFails, GiveUp
<1>15. CASE WalkEnds BY <1>15 DEF WalkEnds
<1>16. CASE ListUnit BY <1>16 DEF ListUnit, GiveUp
<1>17. CASE RemoveUnit
  <2>1. /\ pc = "rmdir" /\ pc' = "next"
        /\ UNCHANGED <<stale, cur, kept, default>>
        /\ touched' \subseteq touched \cup {<<cur.leaf, dir[cur.leaf]>>}
    BY <1>17 DEF RemoveUnit, GiveUp
  <2> QED BY <2>1
<1>18. CASE Begin BY <1>18 DEF Begin, Act
<1>19. CASE End BY <1>19 DEF End
<1>20. ASSUME NEW l \in Leaves, SetDefault(l)
      PROVE  Judged'
  BY <1>20 DEF SetDefault, Act
<1>21. ASSUME NEW l \in Leaves, Update(l)
      PROVE  Judged'
  BY <1>21 DEF Update, Act
<1>22. ASSUME NEW l \in Leaves, Uninstall(l)
      PROVE  Judged'
  BY <1>22 DEF Uninstall, Act
<1>23. ASSUME NEW l \in Leaves, NEW i \in Inodes, Install(l, i)
      PROVE  Judged'
  BY <1>23 DEF Install, Act
<1>24. CASE UNCHANGED vars BY <1>24 DEF vars
<1> QED BY <1>1, <1>2, <1>3, <1>4, <1>5, <1>6, <1>7, <1>8, <1>c, <1>9, <1>10,
          <1>11, <1>12, <1>13, <1>14, <1>15, <1>16, <1>17, <1>18, <1>19,
          <1>20, <1>21, <1>22, <1>23, <1>24
          DEF Next, BeavStep, OwnerStep

\* No toolchain that rustup has made since passes for the one it replaced.
LEMMA FreshKept == Fresh /\ TypeOK /\ [Next]_vars => Fresh'
<1> SUFFICES ASSUME Fresh, TypeOK, [Next]_vars PROVE Fresh'
  OBVIOUS
<1> USE DEF Fresh
<1>0. /\ \A u \in units : u.ver \in Nat /\ u.ino \in Inodes
      /\ pc \in {"restat", "open", "empty", "list", "rmdir"} =>
           cur \in units /\ cur.age = "old"
      /\ ver \in [Inodes -> Nat] /\ age \in [Inodes -> {"old", "young"}]
      /\ parts \in [Inodes -> SUBSET Parts] /\ late \subseteq Inodes
  BY Typed DEF TypeOK
<1>1. CASE ReadSettings BY <1>1, <1>0 DEF ReadSettings
<1>2. CASE CheckOwner BY <1>2, <1>0 DEF CheckOwner, Done
<1>3. CASE ReadNames BY <1>3, <1>0 DEF ReadNames
<1>4. CASE StatUnit
  <2>1. PICK l \in names :
          \/ units' = units
          \/ /\ dir[l] # None
             /\ units' = units
                \cup {[leaf |-> l, ino |-> dir[l], ver |-> ver[dir[l]],
                                     age |-> age[dir[l]]]}
    BY <1>4 DEF StatUnit
  <2>2. pc' = "stat" /\ UNCHANGED <<late, age, parts, ver>>
    BY <1>4 DEF StatUnit
  <2>3. dir[l] # None => dir[l] \in Inodes /\ ver[dir[l]] \in Nat
    BY <1>0 DEF TypeOK
  <2>4. ASSUME NEW u \in units'
        PROVE  u.ver <= ver[u.ino]
               /\ (u.ino \in late => u.ver < ver[u.ino] \/ u.age = "young")
    BY <1>0, <2>1, <2>3
  <2> QED BY <1>0, <2>2, <2>4
<1>5. CASE Select BY <1>5, <1>0 DEF Select
<1>6. CASE CompareUnit BY <1>6, <1>0 DEF CompareUnit, Compete
<1>7. CASE Selected BY <1>7, <1>0 DEF Selected
<1>8. CASE Cancel BY <1>8, <1>0 DEF Cancel, Done
<1>c. CASE ListingFails BY <1>c, <1>0 DEF ListingFails, Done
<1>9. CASE NextStale BY <1>9, <1>0 DEF NextStale
<1>10. CASE Finish BY <1>10, <1>0 DEF Finish, Done
<1>11. CASE Restat BY <1>11, <1>0 DEF Restat, GiveUp, Unchanged
<1>12. CASE OpenUnit BY <1>12, <1>0 DEF OpenUnit, GiveUp, AfterOpen
<1>13. CASE RemovePart BY <1>13, <1>0 DEF RemovePart
<1>14. CASE WalkFails BY <1>14, <1>0 DEF WalkFails, GiveUp
<1>15. CASE WalkEnds BY <1>15, <1>0 DEF WalkEnds
<1>16. CASE ListUnit BY <1>16, <1>0 DEF ListUnit, GiveUp
<1>17. CASE RemoveUnit BY <1>17, <1>0 DEF RemoveUnit, GiveUp
<1>18. CASE Begin BY <1>18, <1>0 DEF Begin, Act
<1>19. CASE End BY <1>19, <1>0 DEF End
<1>20. ASSUME NEW l \in Leaves, SetDefault(l)
      PROVE  Fresh'
  BY <1>20, <1>0 DEF SetDefault, Act
<1>21. ASSUME NEW l \in Leaves, Update(l)
      PROVE  Fresh'
  BY <1>21, <1>0 DEF Update, Act
<1>22. ASSUME NEW l \in Leaves, Uninstall(l)
      PROVE  Fresh'
  BY <1>22, <1>0 DEF Uninstall, Act
<1>23. ASSUME NEW l \in Leaves, NEW i \in Inodes, Install(l, i)
      PROVE  Fresh'
  BY <1>23, <1>0 DEF Install, Act, Unused
<1>24. CASE UNCHANGED vars BY <1>24, <1>0 DEF vars
<1> QED BY <1>1, <1>2, <1>3, <1>4, <1>5, <1>6, <1>7, <1>8, <1>c, <1>9, <1>10,
          <1>11, <1>12, <1>13, <1>14, <1>15, <1>16, <1>17, <1>18, <1>19,
          <1>20, <1>21, <1>22, <1>23, <1>24
          DEF Next, BeavStep, OwnerStep

\* The outcome is set at the end, and nothing waits when it is a success.
LEMMA EndingKept == Ending /\ Listing /\ TypeOK /\ [Next]_vars => Ending'
<1> SUFFICES ASSUME Ending, Listing, TypeOK, [Next]_vars PROVE Ending'
  OBVIOUS
<1> USE DEF Ending
<1>1. CASE ReadSettings BY <1>1 DEF ReadSettings
<1>2. CASE CheckOwner BY <1>2 DEF CheckOwner, Done, Listing
<1>3. CASE ReadNames BY <1>3 DEF ReadNames
<1>4. CASE StatUnit BY <1>4 DEF StatUnit
<1>5. CASE Select BY <1>5 DEF Select
<1>6. CASE CompareUnit BY <1>6 DEF CompareUnit, Compete
<1>7. CASE Selected BY <1>7 DEF Selected
<1>8. CASE Cancel BY <1>8 DEF Cancel, Done
<1>c. CASE ListingFails BY <1>c DEF ListingFails, Done
<1>9. CASE NextStale BY <1>9 DEF NextStale
<1>10. CASE Finish BY <1>10 DEF Finish, Done
<1>11. CASE Restat BY <1>11 DEF Restat, GiveUp
<1>12. CASE OpenUnit BY <1>12 DEF OpenUnit, GiveUp, AfterOpen
<1>13. CASE RemovePart BY <1>13 DEF RemovePart
<1>14. CASE WalkFails BY <1>14 DEF WalkFails, GiveUp
<1>15. CASE WalkEnds BY <1>15 DEF WalkEnds
<1>16. CASE ListUnit BY <1>16 DEF ListUnit, GiveUp
<1>17. CASE RemoveUnit BY <1>17 DEF RemoveUnit, GiveUp
<1>18. CASE Begin BY <1>18 DEF Begin, Act
<1>19. CASE End BY <1>19 DEF End
<1>20. ASSUME NEW l \in Leaves, SetDefault(l)
      PROVE  Ending'
  BY <1>20 DEF SetDefault, Act
<1>21. ASSUME NEW l \in Leaves, Update(l)
      PROVE  Ending'
  BY <1>21 DEF Update, Act
<1>22. ASSUME NEW l \in Leaves, Uninstall(l)
      PROVE  Ending'
  BY <1>22 DEF Uninstall, Act
<1>23. ASSUME NEW l \in Leaves, NEW i \in Inodes, Install(l, i)
      PROVE  Ending'
  BY <1>23 DEF Install, Act
<1>24. CASE UNCHANGED vars BY <1>24 DEF vars
<1> QED BY <1>1, <1>2, <1>3, <1>4, <1>5, <1>6, <1>7, <1>8, <1>c, <1>9, <1>10,
          <1>11, <1>12, <1>13, <1>14, <1>15, <1>16, <1>17, <1>18, <1>19,
          <1>20, <1>21, <1>22, <1>23, <1>24
          DEF Next, BeavStep, OwnerStep

\* The picture of the directory at the start is not changed.
LEMMA StartedKept == Started /\ [Next]_vars => Started'
<1> SUFFICES ASSUME Started, [Next]_vars PROVE Started'
  OBVIOUS
<1> USE DEF Started
<1>1. CASE ReadSettings BY <1>1 DEF ReadSettings
<1>2. CASE CheckOwner BY <1>2 DEF CheckOwner, Done
<1>3. CASE ReadNames BY <1>3 DEF ReadNames
<1>4. CASE StatUnit BY <1>4 DEF StatUnit
<1>5. CASE Select BY <1>5 DEF Select
<1>6. CASE CompareUnit BY <1>6 DEF CompareUnit, Compete
<1>7. CASE Selected BY <1>7 DEF Selected
<1>8. CASE Cancel BY <1>8 DEF Cancel, Done
<1>c. CASE ListingFails BY <1>c DEF ListingFails, Done
<1>9. CASE NextStale BY <1>9 DEF NextStale
<1>10. CASE Finish BY <1>10 DEF Finish, Done
<1>11. CASE Restat BY <1>11 DEF Restat, GiveUp
<1>12. CASE OpenUnit BY <1>12 DEF OpenUnit, GiveUp, AfterOpen
<1>13. CASE RemovePart BY <1>13 DEF RemovePart
<1>14. CASE WalkFails BY <1>14 DEF WalkFails, GiveUp
<1>15. CASE WalkEnds BY <1>15 DEF WalkEnds
<1>16. CASE ListUnit BY <1>16 DEF ListUnit, GiveUp
<1>17. CASE RemoveUnit BY <1>17 DEF RemoveUnit, GiveUp
<1>18. CASE Begin BY <1>18 DEF Begin, Act
<1>19. CASE End BY <1>19 DEF End
<1>20. ASSUME NEW l \in Leaves, SetDefault(l)
      PROVE  Started'
  BY <1>20 DEF SetDefault, Act
<1>21. ASSUME NEW l \in Leaves, Update(l)
      PROVE  Started'
  BY <1>21 DEF Update, Act
<1>22. ASSUME NEW l \in Leaves, Uninstall(l)
      PROVE  Started'
  BY <1>22 DEF Uninstall, Act
<1>23. ASSUME NEW l \in Leaves, NEW i \in Inodes, Install(l, i)
      PROVE  Started'
  BY <1>23 DEF Install, Act
<1>24. CASE UNCHANGED vars BY <1>24 DEF vars
<1> QED BY <1>1, <1>2, <1>3, <1>4, <1>5, <1>6, <1>7, <1>8, <1>c, <1>9, <1>10,
          <1>11, <1>12, <1>13, <1>14, <1>15, <1>16, <1>17, <1>18, <1>19,
          <1>20, <1>21, <1>22, <1>23, <1>24
          DEF Next, BeavStep, OwnerStep

----------------------------------------------------------------------------
(***************************************************************************)
(* While rustup leaves the toolchains alone.                               *)
(***************************************************************************)
LEMMA BeavOnly ==
  quiet' /\ [Next]_vars => quiet /\ (BeavStep \/ UNCHANGED vars)
<1> SUFFICES ASSUME quiet', [Next]_vars
             PROVE  quiet /\ (BeavStep \/ UNCHANGED vars)
  OBVIOUS
<1>1. ASSUME OwnerStep PROVE FALSE
  BY <1>1 DEF OwnerStep, Begin, End, SetDefault, Update, Uninstall, Install, Act
<1>2. ASSUME BeavStep PROVE quiet
  BY <1>2
  DEF BeavStep, ReadSettings, CheckOwner, ReadNames, StatUnit, Select,
     CompareUnit, Selected, Cancel, ListingFails, NextStale, Finish, Restat,
     OpenUnit, RemovePart, WalkFails, WalkEnds, ListUnit, RemoveUnit
<1> QED BY <1>1, <1>2 DEF Next, vars

\* In a run that rustup does not disturb only the executor removes, ...
LEMMA CalmKept ==
  Undisturbed /\ Listing /\ Judged /\ Started /\ Ending /\ TypeOK /\ quiet'
  /\ [Next]_vars => Calm'
<1> SUFFICES ASSUME Undisturbed, Listing, Judged, Started, Ending, TypeOK,
                    quiet', [Next]_vars
             PROVE  Calm'
  OBVIOUS
<1>0. /\ \A u \in units : u.leaf \in Leaves /\ u.ino \in Inodes
      /\ Working => cur \in units /\ cur.age = "old"
      /\ stale \subseteq units /\ names \subseteq Leaves
      /\ ver \in [Inodes -> Nat] /\ age \in [Inodes -> {"old", "young"}]
      /\ parts \in [Inodes -> SUBSET Parts] /\ kind \in [Inodes -> Kinds]
      /\ dir \in [Leaves -> Inodes \cup {None}] /\ gone \subseteq Leaves
      /\ start.dir \in [Leaves -> Inodes \cup {None}]
      /\ \A l, m \in Leaves :
           start.dir[l] = start.dir[m] /\ start.dir[l] # None => l = m
      /\ None \notin Inodes /\ quiet
  BY Typed, BeavOnly, RustupAssumption DEF TypeOK, Started, Working
<1>a. Calm /\ Catalogue /\ Waiting /\ RightlyGone /\ Apart /\ Emptied /\ Partly
  BY <1>0 DEF Undisturbed
\* What is being removed is where it was when it was listed.
<1>b. Working => /\ cur.ino = start.dir[cur.leaf] /\ dir[cur.leaf] = cur.ino
                 /\ cur.leaf \in Leaves /\ cur.ino \in Inodes /\ cur.ino # None
                 /\ kind[cur.ino] = "toolchain" /\ ~busy
                 /\ start.age[cur.ino] = "old" /\ Member(cur.leaf)
                 /\ cur.leaf \notin gone
  BY <1>0, <1>a DEF Calm, Catalogue, Apart, Member, Working
<1>1. CASE ReadSettings
  BY <1>1, <1>0, <1>a, <1>b DEF ReadSettings, Calm, Working
<1>2. CASE CheckOwner
  BY <1>2, <1>0, <1>a, <1>b DEF CheckOwner, Done, Calm, Working
<1>3. CASE ReadNames BY <1>3, <1>0, <1>a, <1>b DEF ReadNames, Calm, Working
<1>4. CASE StatUnit BY <1>4, <1>0, <1>a, <1>b DEF StatUnit, Calm, Working
<1>5. CASE Select BY <1>5, <1>0, <1>a, <1>b DEF Select, Calm, Working
<1>6. CASE CompareUnit
  BY <1>6, <1>0, <1>a, <1>b DEF CompareUnit, Compete, Calm, Working
<1>7. CASE Selected BY <1>7, <1>0, <1>a, <1>b DEF Selected, Calm, Working
<1>8. CASE Cancel BY <1>8, <1>0, <1>a, <1>b DEF Cancel, Done, Calm, Working
<1>c. CASE ListingFails
  BY <1>c, <1>0, <1>a, <1>b DEF ListingFails, Done, Calm, Working
<1>9. CASE NextStale BY <1>9, <1>0, <1>a, <1>b DEF NextStale, Calm, Working
<1>10. CASE Finish
  BY <1>10, <1>0, <1>a, <1>b DEF Finish, Done, Calm, Working
<1>11. CASE Restat
  BY <1>11, <1>0, <1>a, <1>b DEF Restat, GiveUp, Calm, Working
<1>12. CASE OpenUnit
  BY <1>12, <1>0, <1>a, <1>b DEF OpenUnit, GiveUp, AfterOpen, Calm, Working
<1>13. CASE RemovePart
  <2>1. /\ cur.ino = start.dir[cur.leaf] /\ cur.ino \in Inodes
        /\ cur.leaf \in Leaves
    BY <1>0, <1>b, <1>13 DEF RemovePart, Working
  <2>2. /\ pc = "empty" /\ touched' = touched \cup {<<cur.leaf, cur.ino>>}
        /\ UNCHANGED <<pc, busy, chosen, start, default, dir, gone, kind>>
        /\ \A i \in Inodes \ {cur.ino} :
             age'[i] = age[i] /\ ver'[i] = ver[i] /\ parts'[i] = parts[i]
    BY <1>0, <1>13 DEF RemovePart
  <2>3. ASSUME NEW l \in Leaves, start.dir[l] # None, \A t \in touched' :
                 t[1] # l
        PROVE  /\ age'[start.dir[l]] = start.age[start.dir[l]]
               /\ ver'[start.dir[l]] = 0
               /\ kind[start.dir[l]] = "toolchain"
                    => parts'[start.dir[l]] = Parts
    <3>1. l # cur.leaf
      <4>1. <<cur.leaf, cur.ino>> \in touched'
            /\ <<cur.leaf, cur.ino>>[1] = cur.leaf
        BY <2>2
      <4> QED BY <2>3, <4>1
    <3>2. \A t \in touched : t[1] # l
      BY <2>2, <2>3
    <3>3. start.dir[l] \in Inodes \ {cur.ino}
      BY <1>0, <2>1, <2>3, <3>1
    <3>4. /\ age[start.dir[l]] = start.age[start.dir[l]]
          /\ ver[start.dir[l]] = 0
          /\ kind[start.dir[l]] = "toolchain" => parts[start.dir[l]] = Parts
      BY <1>a, <2>3, <3>2 DEF Calm
    <3> QED BY <2>2, <3>3, <3>4
  <2>4. \A t \in touched' : t[2] = start.dir[t[1]]
    <3>1. <<cur.leaf, cur.ino>>[2] = start.dir[<<cur.leaf, cur.ino>>[1]]
      BY <2>1
    <3> QED BY <1>a, <2>2, <3>1 DEF Calm
  <2> QED BY <1>a, <2>2, <2>3, <2>4 DEF Calm
<1>14. CASE WalkFails
  BY <1>14, <1>0, <1>a, <1>b DEF WalkFails, GiveUp, Calm, Working
<1>15. CASE WalkEnds BY <1>15, <1>0, <1>a, <1>b DEF WalkEnds, Calm, Working
<1>16. CASE ListUnit
  BY <1>16, <1>0, <1>a, <1>b DEF ListUnit, GiveUp, Calm, Working
<1>17. CASE RemoveUnit
  BY <1>17, <1>0, <1>a, <1>b DEF RemoveUnit, GiveUp, Calm, Working
<1>18. CASE UNCHANGED vars BY <1>18, <1>a DEF vars, Calm, Working
<1> QED BY <1>1, <1>2, <1>3, <1>4, <1>5, <1>6, <1>7, <1>8, <1>c, <1>9, <1>10,
          <1>11, <1>12, <1>13, <1>14, <1>15, <1>16, <1>17, <1>18, BeavOnly
          DEF BeavStep

\* ... the list is that of the toolchains there were, ...
LEMMA CatalogueKept ==
  Undisturbed /\ Listing /\ Judged /\ Started /\ Ending /\ TypeOK /\ quiet'
  /\ [Next]_vars => Catalogue'
<1> SUFFICES ASSUME Undisturbed, Listing, Judged, Started, Ending, TypeOK,
                    quiet', [Next]_vars
             PROVE  Catalogue'
  OBVIOUS
<1>0. /\ \A u \in units : u.leaf \in Leaves /\ u.ino \in Inodes
      /\ Working => cur \in units /\ cur.age = "old"
      /\ stale \subseteq units /\ names \subseteq Leaves
      /\ ver \in [Inodes -> Nat] /\ age \in [Inodes -> {"old", "young"}]
      /\ parts \in [Inodes -> SUBSET Parts] /\ kind \in [Inodes -> Kinds]
      /\ dir \in [Leaves -> Inodes \cup {None}] /\ gone \subseteq Leaves
      /\ start.dir \in [Leaves -> Inodes \cup {None}]
      /\ \A l, m \in Leaves :
           start.dir[l] = start.dir[m] /\ start.dir[l] # None => l = m
      /\ None \notin Inodes /\ quiet
  BY Typed, BeavOnly, RustupAssumption DEF TypeOK, Started, Working
<1>a. Calm /\ Catalogue /\ Waiting /\ RightlyGone /\ Apart /\ Emptied /\ Partly
  BY <1>0 DEF Undisturbed
\* What is being removed is where it was when it was listed.
<1>b. Working => /\ cur.ino = start.dir[cur.leaf] /\ dir[cur.leaf] = cur.ino
                 /\ cur.leaf \in Leaves /\ cur.ino \in Inodes /\ cur.ino # None
                 /\ kind[cur.ino] = "toolchain" /\ ~busy
                 /\ start.age[cur.ino] = "old" /\ Member(cur.leaf)
                 /\ cur.leaf \notin gone
  BY <1>0, <1>a DEF Calm, Catalogue, Apart, Member, Working
<1>1. CASE ReadSettings
  BY <1>1, <1>0, <1>a, <1>b DEF ReadSettings, Catalogue, Member, Working,
     Listing
<1>2. CASE CheckOwner
  BY <1>2, <1>0, <1>a, <1>b DEF CheckOwner, Done, Catalogue, Member,
     Working, Listing
<1>3. CASE ReadNames
  BY <1>3, <1>0, <1>a, <1>b DEF ReadNames, Catalogue, Member, Working, Calm,
     Listing
<1>4. CASE StatUnit
  <2>1. PICK l \in names :
          /\ names' = names \ {l}
          /\ IF dir[l] # None /\ kind[dir[l]] = "toolchain"
             THEN units' = units
             \cup {[leaf |-> l, ino |-> dir[l], ver |-> ver[dir[l]],
                                       age |-> age[dir[l]]]}
             ELSE units' = units
    BY <1>4 DEF StatUnit
  <2>2. /\ pc = "stat" /\ pc' = "stat" /\ touched = {} /\ gone = {}
        /\ UNCHANGED <<start, kind, outcome>>
    BY <1>4 DEF StatUnit, Listing
  <2>3. l \in Leaves /\ dir[l] = start.dir[l]
    BY <1>0, <1>a, <2>2 DEF Calm
  <2>4. dir[l] # None => ver[dir[l]] = 0 /\ age[dir[l]] = start.age[dir[l]]
    BY <1>a, <2>2, <2>3 DEF Calm
  <2>5. \A u \in units' : /\ Member(u.leaf) /\ u.ino = start.dir[u.leaf]
                          /\ u.ver = 0 /\ u.age = start.age[u.ino]
    BY <1>a, <2>1, <2>3, <2>4 DEF Catalogue, Member
  <2>6. ASSUME NEW m \in Leaves, Member(m)
        PROVE  m \in names' \/ \E u \in units' : u.leaf = m
    <3>1. CASE m = l
      <4>1. dir[l] # None /\ kind[dir[l]] = "toolchain"
        BY <2>3, <2>6, <3>1 DEF Member
      <4>2. [leaf |-> l, ino |-> dir[l], ver |-> ver[dir[l]],
             age |-> age[dir[l]]]
              \in units'
        BY <2>1, <4>1
      <4> QED BY <3>1, <4>2
    <3>2. CASE m # l
      BY <1>a, <2>1, <2>2, <2>6, <3>2 DEF Catalogue
    <3> QED BY <3>1, <3>2
  <2>7. \A m : Member(m)' <=> Member(m)
    BY <2>2 DEF Member
  <2> QED BY <2>2, <2>5, <2>6, <2>7 DEF Catalogue, Working
<1>5. CASE Select
  BY <1>5, <1>0, <1>a, <1>b DEF Select, Catalogue, Member, Working, Ending
<1>6. CASE CompareUnit
  BY <1>6, <1>0, <1>a, <1>b DEF CompareUnit, Compete, Catalogue, Member,
     Working
<1>7. CASE Selected
  BY <1>7, <1>0, <1>a, <1>b DEF Selected, Catalogue, Member, Working
<1>8. CASE Cancel
  BY <1>8, <1>0, <1>a, <1>b DEF Cancel, Done, Catalogue, Member, Working
<1>c. CASE ListingFails
  BY <1>c, <1>0, <1>a, <1>b DEF ListingFails, Done, Catalogue, Member, Working
<1>9. CASE NextStale
  BY <1>9, <1>0, <1>a, <1>b DEF NextStale, Catalogue, Member, Working
<1>10. CASE Finish
  BY <1>10, <1>0, <1>a, <1>b DEF Finish, Done, Catalogue, Member, Working,
     Ending
<1>11. CASE Restat
  BY <1>11, <1>0, <1>a, <1>b DEF Restat, GiveUp, Catalogue, Member, Working
<1>12. CASE OpenUnit
  BY <1>12, <1>0, <1>a, <1>b DEF OpenUnit, GiveUp, AfterOpen, Catalogue,
     Member, Working
<1>13. CASE RemovePart
  BY <1>13, <1>0, <1>a, <1>b DEF RemovePart, Catalogue, Member, Working
<1>14. CASE WalkFails
  BY <1>14, <1>0, <1>a, <1>b DEF WalkFails, GiveUp, Catalogue, Member,
     Working
<1>15. CASE WalkEnds
  BY <1>15, <1>0, <1>a, <1>b DEF WalkEnds, Catalogue, Member, Working
<1>16. CASE ListUnit
  BY <1>16, <1>0, <1>a, <1>b DEF ListUnit, GiveUp, Catalogue, Member,
     Working
<1>17. CASE RemoveUnit
  BY <1>17, <1>0, <1>a, <1>b DEF RemoveUnit, GiveUp, Catalogue, Member,
     Working
<1>18. CASE UNCHANGED vars BY <1>18, <1>a DEF vars, Catalogue, Member, Working
<1> QED BY <1>1, <1>2, <1>3, <1>4, <1>5, <1>6, <1>7, <1>8, <1>c, <1>9, <1>10,
          <1>11, <1>12, <1>13, <1>14, <1>15, <1>16, <1>17, <1>18, BeavOnly
          DEF BeavStep

\* ... what was beaten waits, is being removed or was dealt with, ...
LEMMA WaitingKept ==
  Undisturbed /\ Listing /\ Tournament /\ Judged /\ Started /\ Ending /\ TypeOK
  /\ quiet' /\ [Next]_vars => Waiting'
<1> SUFFICES ASSUME Undisturbed, Listing, Tournament, Judged, Started, Ending,
                    TypeOK, quiet', [Next]_vars
             PROVE  Waiting'
  OBVIOUS
<1>0. /\ \A u \in units : u.leaf \in Leaves /\ u.ino \in Inodes
      /\ Working => cur \in units /\ cur.age = "old"
      /\ stale \subseteq units /\ names \subseteq Leaves
      /\ ver \in [Inodes -> Nat] /\ age \in [Inodes -> {"old", "young"}]
      /\ parts \in [Inodes -> SUBSET Parts] /\ kind \in [Inodes -> Kinds]
      /\ dir \in [Leaves -> Inodes \cup {None}] /\ gone \subseteq Leaves
      /\ start.dir \in [Leaves -> Inodes \cup {None}]
      /\ \A l, m \in Leaves :
           start.dir[l] = start.dir[m] /\ start.dir[l] # None => l = m
      /\ None \notin Inodes /\ quiet
  BY Typed, BeavOnly, RustupAssumption DEF TypeOK, Started, Working
<1>a. Calm /\ Catalogue /\ Waiting /\ RightlyGone /\ Apart /\ Emptied /\ Partly
  BY <1>0 DEF Undisturbed
\* What is being removed is where it was when it was listed.
<1>b. Working => /\ cur.ino = start.dir[cur.leaf] /\ dir[cur.leaf] = cur.ino
                 /\ cur.leaf \in Leaves /\ cur.ino \in Inodes /\ cur.ino # None
                 /\ kind[cur.ino] = "toolchain" /\ ~busy
                 /\ start.age[cur.ino] = "old" /\ Member(cur.leaf)
                 /\ cur.leaf \notin gone
  BY <1>0, <1>a DEF Calm, Catalogue, Apart, Member, Working
<1>1. CASE ReadSettings
  BY <1>1, <1>0, <1>a, <1>b DEF ReadSettings, Waiting, Working, Ending
<1>2. CASE CheckOwner
  BY <1>2, <1>0, <1>a, <1>b DEF CheckOwner, Done, Waiting, Working, Ending
<1>3. CASE ReadNames
  BY <1>3, <1>0, <1>a, <1>b DEF ReadNames, Waiting, Working, Ending
<1>4. CASE StatUnit
  BY <1>4, <1>0, <1>a, <1>b DEF StatUnit, Waiting, Working, Ending
<1>5. CASE Select
  BY <1>5, <1>0, <1>a, <1>b DEF Select, Waiting, Working, Ending
<1>6. CASE CompareUnit
  BY <1>6, <1>0, <1>a, <1>b DEF CompareUnit, Compete, Waiting, Working,
     Ending
<1>7. CASE Selected
  BY <1>7, <1>0, <1>a, <1>b DEF Selected, Waiting, Working, BestAndDefault
<1>8. CASE Cancel
  BY <1>8, <1>0, <1>a, <1>b DEF Cancel, Done, Waiting, Working, Ending
<1>c. CASE ListingFails
  BY <1>c, <1>0, <1>a, <1>b DEF ListingFails, Done, Waiting, Working, Ending
<1>9. CASE NextStale
  BY <1>9, <1>0, <1>a, <1>b DEF NextStale, Waiting, Working
<1>10. CASE Finish
  BY <1>10, <1>0, <1>a, <1>b DEF Finish, Done, Waiting, Working
<1>11. CASE Restat
  BY <1>11, <1>0, <1>a, <1>b DEF Restat, GiveUp, Waiting, Working,
     Unchanged, Catalogue, Apart, Calm
<1>12. CASE OpenUnit
  BY <1>12, <1>0, <1>a, <1>b DEF OpenUnit, GiveUp, AfterOpen, Waiting,
     Working
<1>13. CASE RemovePart
  BY <1>13, <1>0, <1>a, <1>b DEF RemovePart, Waiting, Working
<1>14. CASE WalkFails
  BY <1>14, <1>0, <1>a, <1>b DEF WalkFails, GiveUp, Waiting, Working
<1>15. CASE WalkEnds
  BY <1>15, <1>0, <1>a, <1>b DEF WalkEnds, Waiting, Working
<1>16. CASE ListUnit
  BY <1>16, <1>0, <1>a, <1>b DEF ListUnit, GiveUp, Waiting, Working, Emptied
<1>17. CASE RemoveUnit
  BY <1>17, <1>0, <1>a, <1>b DEF RemoveUnit, GiveUp, Waiting, Working,
     Emptied
<1>18. CASE UNCHANGED vars BY <1>18, <1>a DEF vars, Waiting, Working
<1> QED BY <1>1, <1>2, <1>3, <1>4, <1>5, <1>6, <1>7, <1>8, <1>c, <1>9, <1>10,
          <1>11, <1>12, <1>13, <1>14, <1>15, <1>16, <1>17, <1>18, BeavOnly
          DEF BeavStep

\* ... what has been touched waits no more, ...
LEMMA ApartKept ==
  Undisturbed /\ Listing /\ Tournament /\ Judged /\ Started /\ Ending /\ TypeOK
  /\ quiet' /\ [Next]_vars => Apart'
<1> SUFFICES ASSUME Undisturbed, Listing, Tournament, Judged, Started, Ending,
                    TypeOK, quiet', [Next]_vars
             PROVE  Apart'
  OBVIOUS
<1>0. /\ \A u \in units : u.leaf \in Leaves /\ u.ino \in Inodes
      /\ Working => cur \in units /\ cur.age = "old"
      /\ stale \subseteq units /\ names \subseteq Leaves
      /\ ver \in [Inodes -> Nat] /\ age \in [Inodes -> {"old", "young"}]
      /\ parts \in [Inodes -> SUBSET Parts] /\ kind \in [Inodes -> Kinds]
      /\ dir \in [Leaves -> Inodes \cup {None}] /\ gone \subseteq Leaves
      /\ start.dir \in [Leaves -> Inodes \cup {None}]
      /\ \A l, m \in Leaves :
           start.dir[l] = start.dir[m] /\ start.dir[l] # None => l = m
      /\ None \notin Inodes /\ quiet
  BY Typed, BeavOnly, RustupAssumption DEF TypeOK, Started, Working
<1>a. Calm /\ Catalogue /\ Waiting /\ RightlyGone /\ Apart /\ Emptied /\ Partly
  BY <1>0 DEF Undisturbed
\* What is being removed is where it was when it was listed.
<1>b. Working => /\ cur.ino = start.dir[cur.leaf] /\ dir[cur.leaf] = cur.ino
                 /\ cur.leaf \in Leaves /\ cur.ino \in Inodes /\ cur.ino # None
                 /\ kind[cur.ino] = "toolchain" /\ ~busy
                 /\ start.age[cur.ino] = "old" /\ Member(cur.leaf)
                 /\ cur.leaf \notin gone
  BY <1>0, <1>a DEF Calm, Catalogue, Apart, Member, Working
<1>1. CASE ReadSettings
  BY <1>1, <1>0, <1>a, <1>b DEF ReadSettings, Apart, Working
<1>2. CASE CheckOwner
  BY <1>2, <1>0, <1>a, <1>b DEF CheckOwner, Done, Apart, Working
<1>3. CASE ReadNames
  BY <1>3, <1>0, <1>a, <1>b DEF ReadNames, Apart, Working, Listing
<1>4. CASE StatUnit
  BY <1>4, <1>0, <1>a, <1>b DEF StatUnit, Apart, Working, Listing
<1>5. CASE Select
  BY <1>5, <1>0, <1>a, <1>b DEF Select, Apart, Working, Listing
<1>6. CASE CompareUnit
  BY <1>6, <1>0, <1>a, <1>b DEF CompareUnit, Compete, Apart, Working,
     Listing
<1>7. CASE Selected
  BY <1>7, <1>0, <1>a, <1>b DEF Selected, Apart, Working, Listing
<1>8. CASE Cancel BY <1>8, <1>0, <1>a, <1>b DEF Cancel, Done, Apart, Working
<1>c. CASE ListingFails
  BY <1>c, <1>0, <1>a, <1>b DEF ListingFails, Done, Apart, Working
<1>9. CASE NextStale
  BY <1>9, <1>0, <1>a, <1>b DEF NextStale, Apart, Working, Listing
<1>10. CASE Finish
  BY <1>10, <1>0, <1>a, <1>b DEF Finish, Done, Apart, Working
<1>11. CASE Restat
  BY <1>11, <1>0, <1>a, <1>b DEF Restat, GiveUp, Apart, Working
<1>12. CASE OpenUnit
  BY <1>12, <1>0, <1>a, <1>b DEF OpenUnit, GiveUp, AfterOpen, Apart, Working
<1>13. CASE RemovePart
  BY <1>13, <1>0, <1>a, <1>b DEF RemovePart, Apart, Working, Listing, Judged
<1>14. CASE WalkFails
  BY <1>14, <1>0, <1>a, <1>b DEF WalkFails, GiveUp, Apart, Working
<1>15. CASE WalkEnds BY <1>15, <1>0, <1>a, <1>b DEF WalkEnds, Apart, Working
<1>16. CASE ListUnit
  BY <1>16, <1>0, <1>a, <1>b DEF ListUnit, GiveUp, Apart, Working
<1>17. CASE RemoveUnit
  <2>1. /\ pc = "rmdir" /\ pc' = "next" /\ UNCHANGED stale /\ cur \notin stale
        /\ \A u \in stale : u.leaf # cur.leaf
    BY <1>17, <1>0 DEF RemoveUnit, GiveUp, Judged, Working, Listing
  <2>2. CASE touched' = touched /\ gone' = gone
    BY <1>a, <2>1, <2>2 DEF Apart, Working
  <2>3. CASE /\ touched' = touched \cup {<<cur.leaf, dir[cur.leaf]>>}
             /\ gone' = gone \cup {cur.leaf}
    <3>1. <<cur.leaf, dir[cur.leaf]>>[1] = cur.leaf
      OBVIOUS
    <3>2. \A l \in gone' : \E t \in touched' : t[1] = l
      BY <1>a, <2>3, <3>1 DEF Apart
    <3>3. \A t \in touched' : \A u \in stale' : u.leaf # t[1]
      BY <1>a, <2>1, <2>3, <3>1 DEF Apart
    <3> QED BY <2>1, <3>2, <3>3 DEF Apart, Working
  <2> QED BY <1>17, <2>2, <2>3 DEF RemoveUnit
<1>18. CASE UNCHANGED vars BY <1>18, <1>a DEF vars, Apart, Working
<1> QED BY <1>1, <1>2, <1>3, <1>4, <1>5, <1>6, <1>7, <1>8, <1>c, <1>9, <1>10,
          <1>11, <1>12, <1>13, <1>14, <1>15, <1>16, <1>17, <1>18, BeavOnly
          DEF BeavStep

\* ... a toolchain is listed and removed only when it was emptied, ...
LEMMA EmptiedKept ==
  Undisturbed /\ Listing /\ Tournament /\ Judged /\ Started /\ Ending /\ TypeOK
  /\ quiet' /\ [Next]_vars => Emptied'
<1> SUFFICES ASSUME Undisturbed, Listing, Tournament, Judged, Started, Ending,
                    TypeOK, quiet', [Next]_vars
             PROVE  Emptied'
  OBVIOUS
<1>0. /\ \A u \in units : u.leaf \in Leaves /\ u.ino \in Inodes
      /\ Working => cur \in units /\ cur.age = "old"
      /\ stale \subseteq units /\ names \subseteq Leaves
      /\ ver \in [Inodes -> Nat] /\ age \in [Inodes -> {"old", "young"}]
      /\ parts \in [Inodes -> SUBSET Parts] /\ kind \in [Inodes -> Kinds]
      /\ dir \in [Leaves -> Inodes \cup {None}] /\ gone \subseteq Leaves
      /\ start.dir \in [Leaves -> Inodes \cup {None}]
      /\ \A l, m \in Leaves :
           start.dir[l] = start.dir[m] /\ start.dir[l] # None => l = m
      /\ None \notin Inodes /\ quiet
  BY Typed, BeavOnly, RustupAssumption DEF TypeOK, Started, Working
<1>a. Calm /\ Catalogue /\ Waiting /\ RightlyGone /\ Apart /\ Emptied /\ Partly
  BY <1>0 DEF Undisturbed
\* What is being removed is where it was when it was listed.
<1>b. Working => /\ cur.ino = start.dir[cur.leaf] /\ dir[cur.leaf] = cur.ino
                 /\ cur.leaf \in Leaves /\ cur.ino \in Inodes /\ cur.ino # None
                 /\ kind[cur.ino] = "toolchain" /\ ~busy
                 /\ start.age[cur.ino] = "old" /\ Member(cur.leaf)
                 /\ cur.leaf \notin gone
  BY <1>0, <1>a DEF Calm, Catalogue, Apart, Member, Working
<1>1. CASE ReadSettings
  BY <1>1, <1>0, <1>a, <1>b DEF ReadSettings, Emptied, Working
<1>2. CASE CheckOwner
  BY <1>2, <1>0, <1>a, <1>b DEF CheckOwner, Done, Emptied, Working
<1>3. CASE ReadNames
  BY <1>3, <1>0, <1>a, <1>b DEF ReadNames, Emptied, Working
<1>4. CASE StatUnit BY <1>4, <1>0, <1>a, <1>b DEF StatUnit, Emptied, Working
<1>5. CASE Select BY <1>5, <1>0, <1>a, <1>b DEF Select, Emptied, Working
<1>6. CASE CompareUnit
  BY <1>6, <1>0, <1>a, <1>b DEF CompareUnit, Compete, Emptied, Working
<1>7. CASE Selected BY <1>7, <1>0, <1>a, <1>b DEF Selected, Emptied, Working
<1>8. CASE Cancel
  BY <1>8, <1>0, <1>a, <1>b DEF Cancel, Done, Emptied, Working
<1>c. CASE ListingFails
  BY <1>c, <1>0, <1>a, <1>b DEF ListingFails, Done, Emptied, Working
<1>9. CASE NextStale
  BY <1>9, <1>0, <1>a, <1>b DEF NextStale, Emptied, Working
<1>10. CASE Finish
  BY <1>10, <1>0, <1>a, <1>b DEF Finish, Done, Emptied, Working
<1>11. CASE Restat
  BY <1>11, <1>0, <1>a, <1>b DEF Restat, GiveUp, Emptied, Working
<1>12. CASE OpenUnit
  BY <1>12, <1>0, <1>a, <1>b DEF OpenUnit, GiveUp, AfterOpen, Emptied,
     Working
<1>13. CASE RemovePart
  BY <1>13, <1>0, <1>a, <1>b DEF RemovePart, Emptied, Working
<1>14. CASE WalkFails
  BY <1>14, <1>0, <1>a, <1>b DEF WalkFails, GiveUp, Emptied, Working
<1>15. CASE WalkEnds
  BY <1>15, <1>0, <1>a, <1>b DEF WalkEnds, Emptied, Working
<1>16. CASE ListUnit
  BY <1>16, <1>0, <1>a, <1>b DEF ListUnit, GiveUp, Emptied, Working
<1>17. CASE RemoveUnit
  BY <1>17, <1>0, <1>a, <1>b DEF RemoveUnit, GiveUp, Emptied, Working
<1>18. CASE UNCHANGED vars BY <1>18, <1>a DEF vars, Emptied, Working
<1> QED BY <1>1, <1>2, <1>3, <1>4, <1>5, <1>6, <1>7, <1>8, <1>c, <1>9, <1>10,
          <1>11, <1>12, <1>13, <1>14, <1>15, <1>16, <1>17, <1>18, BeavOnly
          DEF BeavStep

\* ... what is gone was old, beaten and not to be kept ...
LEMMA RightlyGoneKept ==
  Undisturbed /\ Listing /\ Tournament /\ Judged /\ Started /\ Ending /\ TypeOK
  /\ quiet' /\ [Next]_vars => RightlyGone'
<1> SUFFICES ASSUME Undisturbed, Listing, Tournament, Judged, Started, Ending,
                    TypeOK, quiet', [Next]_vars
             PROVE  RightlyGone'
  OBVIOUS
<1>0. /\ \A u \in units : u.leaf \in Leaves /\ u.ino \in Inodes
      /\ Working => cur \in units /\ cur.age = "old"
      /\ stale \subseteq units /\ names \subseteq Leaves
      /\ ver \in [Inodes -> Nat] /\ age \in [Inodes -> {"old", "young"}]
      /\ parts \in [Inodes -> SUBSET Parts] /\ kind \in [Inodes -> Kinds]
      /\ dir \in [Leaves -> Inodes \cup {None}] /\ gone \subseteq Leaves
      /\ start.dir \in [Leaves -> Inodes \cup {None}]
      /\ \A l, m \in Leaves :
           start.dir[l] = start.dir[m] /\ start.dir[l] # None => l = m
      /\ None \notin Inodes /\ quiet
  BY Typed, BeavOnly, RustupAssumption DEF TypeOK, Started, Working
<1>a. Calm /\ Catalogue /\ Waiting /\ RightlyGone /\ Apart /\ Emptied /\ Partly
  BY <1>0 DEF Undisturbed
\* What is being removed is where it was when it was listed.
<1>b. Working => /\ cur.ino = start.dir[cur.leaf] /\ dir[cur.leaf] = cur.ino
                 /\ cur.leaf \in Leaves /\ cur.ino \in Inodes /\ cur.ino # None
                 /\ kind[cur.ino] = "toolchain" /\ ~busy
                 /\ start.age[cur.ino] = "old" /\ Member(cur.leaf)
                 /\ cur.leaf \notin gone
  BY <1>0, <1>a DEF Calm, Catalogue, Apart, Member, Working
<1>1. CASE ReadSettings
  BY <1>1, <1>0, <1>a, <1>b DEF ReadSettings, RightlyGone, Working, Listing
<1>2. CASE CheckOwner
  BY <1>2, <1>0, <1>a, <1>b DEF CheckOwner, Done, RightlyGone, Working,
     Listing
<1>3. CASE ReadNames
  BY <1>3, <1>0, <1>a, <1>b DEF ReadNames, RightlyGone, Working, Listing
<1>4. CASE StatUnit
  BY <1>4, <1>0, <1>a, <1>b DEF StatUnit, RightlyGone, Working, Listing
<1>5. CASE Select
  BY <1>5, <1>0, <1>a, <1>b DEF Select, RightlyGone, Working, Listing
<1>6. CASE CompareUnit
  BY <1>6, <1>0, <1>a, <1>b DEF CompareUnit, Compete, RightlyGone, Working,
     Listing
<1>7. CASE Selected
  BY <1>7, <1>0, <1>a, <1>b DEF Selected, RightlyGone, Working, Member,
     Beaten
<1>8. CASE Cancel
  BY <1>8, <1>0, <1>a, <1>b DEF Cancel, Done, RightlyGone, Working, Member,
     Beaten
<1>c. CASE ListingFails
  BY <1>c, <1>0, <1>a, <1>b DEF ListingFails, Done, RightlyGone, Working,
     Member, Beaten
<1>9. CASE NextStale
  BY <1>9, <1>0, <1>a, <1>b DEF NextStale, RightlyGone, Working, Member,
     Beaten
<1>10. CASE Finish
  BY <1>10, <1>0, <1>a, <1>b DEF Finish, Done, RightlyGone, Working, Member,
     Beaten
<1>11. CASE Restat
  BY <1>11, <1>0, <1>a, <1>b DEF Restat, GiveUp, RightlyGone, Working,
     Member, Beaten
<1>12. CASE OpenUnit
  BY <1>12, <1>0, <1>a, <1>b DEF OpenUnit, GiveUp, AfterOpen, RightlyGone,
     Working, Member, Beaten
<1>13. CASE RemovePart
  BY <1>13, <1>0, <1>a, <1>b DEF RemovePart, RightlyGone, Working, Member,
     Beaten
<1>14. CASE WalkFails
  BY <1>14, <1>0, <1>a, <1>b DEF WalkFails, GiveUp, RightlyGone, Working,
     Member, Beaten
<1>15. CASE WalkEnds
  BY <1>15, <1>0, <1>a, <1>b DEF WalkEnds, RightlyGone, Working, Member,
     Beaten
<1>16. CASE ListUnit
  BY <1>16, <1>0, <1>a, <1>b DEF ListUnit, GiveUp, RightlyGone, Working,
     Member, Beaten
<1>17. CASE RemoveUnit
  BY <1>17, <1>0, <1>a, <1>b DEF RemoveUnit, GiveUp, RightlyGone, Working,
     Member, Beaten, Emptied, Judged
<1>18. CASE UNCHANGED vars BY <1>18, <1>a
  DEF vars, RightlyGone, Working, Member, Beaten
<1> QED BY <1>1, <1>2, <1>3, <1>4, <1>5, <1>6, <1>7, <1>8, <1>c, <1>9, <1>10,
          <1>11, <1>12, <1>13, <1>14, <1>15, <1>16, <1>17, <1>18, BeavOnly
          DEF BeavStep

\* ... and what is no longer whole is being emptied or cannot be removed.
LEMMA PartlyKept ==
  Undisturbed /\ Listing /\ Tournament /\ Judged /\ Started /\ Ending /\ TypeOK
  /\ quiet' /\ [Next]_vars => Partly'
<1> SUFFICES ASSUME Undisturbed, Listing, Tournament, Judged, Started, Ending,
                    TypeOK, quiet', [Next]_vars
             PROVE  Partly'
  OBVIOUS
<1>0. /\ \A u \in units : u.leaf \in Leaves /\ u.ino \in Inodes
      /\ Working => cur \in units /\ cur.age = "old"
      /\ stale \subseteq units /\ names \subseteq Leaves
      /\ ver \in [Inodes -> Nat] /\ age \in [Inodes -> {"old", "young"}]
      /\ parts \in [Inodes -> SUBSET Parts] /\ kind \in [Inodes -> Kinds]
      /\ dir \in [Leaves -> Inodes \cup {None}] /\ gone \subseteq Leaves
      /\ start.dir \in [Leaves -> Inodes \cup {None}]
      /\ \A l, m \in Leaves :
           start.dir[l] = start.dir[m] /\ start.dir[l] # None => l = m
      /\ None \notin Inodes /\ quiet
  BY Typed, BeavOnly, RustupAssumption DEF TypeOK, Started, Working
<1>a. Calm /\ Catalogue /\ Waiting /\ RightlyGone /\ Apart /\ Emptied /\ Partly
  BY <1>0 DEF Undisturbed
\* What is being removed is where it was when it was listed.
<1>b. Working => /\ cur.ino = start.dir[cur.leaf] /\ dir[cur.leaf] = cur.ino
                 /\ cur.leaf \in Leaves /\ cur.ino \in Inodes /\ cur.ino # None
                 /\ kind[cur.ino] = "toolchain" /\ ~busy
                 /\ start.age[cur.ino] = "old" /\ Member(cur.leaf)
                 /\ cur.leaf \notin gone
  BY <1>0, <1>a DEF Calm, Catalogue, Apart, Member, Working
<1>1. CASE ReadSettings
  BY <1>1, <1>0, <1>a, <1>b DEF ReadSettings, Partly, Working
<1>2. CASE CheckOwner
  BY <1>2, <1>0, <1>a, <1>b DEF CheckOwner, Done, Partly, Working
<1>3. CASE ReadNames
  BY <1>3, <1>0, <1>a, <1>b DEF ReadNames, Partly, Working
<1>4. CASE StatUnit BY <1>4, <1>0, <1>a, <1>b DEF StatUnit, Partly, Working
<1>5. CASE Select BY <1>5, <1>0, <1>a, <1>b DEF Select, Partly, Working
<1>6. CASE CompareUnit
  BY <1>6, <1>0, <1>a, <1>b DEF CompareUnit, Compete, Partly, Working
<1>7. CASE Selected BY <1>7, <1>0, <1>a, <1>b DEF Selected, Partly, Working
<1>8. CASE Cancel
  BY <1>8, <1>0, <1>a, <1>b DEF Cancel, Done, Partly, Working
<1>c. CASE ListingFails
  BY <1>c, <1>0, <1>a, <1>b DEF ListingFails, Done, Partly, Working
<1>9. CASE NextStale
  BY <1>9, <1>0, <1>a, <1>b DEF NextStale, Partly, Working
<1>10. CASE Finish
  BY <1>10, <1>0, <1>a, <1>b DEF Finish, Done, Partly, Working
<1>11. CASE Restat
  BY <1>11, <1>0, <1>a, <1>b DEF Restat, GiveUp, Partly, Working
<1>12. CASE OpenUnit
  BY <1>12, <1>0, <1>a, <1>b DEF OpenUnit, GiveUp, AfterOpen, Partly,
     Working
<1>13. CASE RemovePart
  <2>1. /\ pc = "empty" /\ UNCHANGED <<pc, cur, dir, gone, kind, stuck>>
        /\ \A i \in Inodes \ {cur.ino} : parts'[i] = parts[i]
    BY <1>0, <1>13 DEF RemovePart
  <2>2. ASSUME NEW l \in Leaves \ gone, l # cur.leaf, dir[l] # None
        PROVE  dir[l] \in Inodes \ {cur.ino}
    BY <1>0, <1>a, <1>b, <2>1, <2>2 DEF Calm, Working
  <2> QED BY <1>a, <2>1, <2>2 DEF Partly
<1>14. CASE WalkFails
  BY <1>14, <1>0, <1>a, <1>b DEF WalkFails, GiveUp, Partly, Working
<1>15. CASE WalkEnds
  BY <1>15, <1>0, <1>a, <1>b DEF WalkEnds, Partly, Working
<1>16. CASE ListUnit
  BY <1>16, <1>0, <1>a, <1>b DEF ListUnit, GiveUp, Partly, Working, Emptied
<1>17. CASE RemoveUnit
  BY <1>17, <1>0, <1>a, <1>b DEF RemoveUnit, GiveUp, Partly, Working,
     Emptied
<1>18. CASE UNCHANGED vars BY <1>18, <1>a DEF vars, Partly, Working
<1> QED BY <1>1, <1>2, <1>3, <1>4, <1>5, <1>6, <1>7, <1>8, <1>c, <1>9, <1>10,
          <1>11, <1>12, <1>13, <1>14, <1>15, <1>16, <1>17, <1>18, BeavOnly
          DEF BeavStep

\* No step breaks the inductive invariant.
LEMMA StepKept == IndInv /\ [Next]_vars => IndInv'
<1> SUFFICES ASSUME IndInv, [Next]_vars PROVE IndInv'
  OBVIOUS
<1>1. TypeOK' /\ Listing' /\ Tournament' /\ Judged' /\ Fresh' /\ Started'
      /\ Ending'
  BY TypeKept, ListingKept, TournamentKept, JudgedKept, FreshKept, StartedKept,
     EndingKept DEF IndInv
<1>2. ASSUME quiet'
      PROVE  (Calm /\ Catalogue /\ Waiting /\ RightlyGone /\ Apart /\ Emptied
              /\ Partly)'
  BY <1>2, CalmKept, CatalogueKept, WaitingKept, RightlyGoneKept, ApartKept,
     EmptiedKept, PartlyKept DEF IndInv
<1> QED BY <1>1, <1>2 DEF IndInv, Undisturbed

\* What is said above of each variable, of the loop over the toolchains and of
\* an undisturbed run holds in every state.
THEOREM Invariance == Spec => []IndInv
BY InitHolds, StepKept, PTL DEF Spec

\* Every variable keeps its type; only what was old when it was listed is
\* opened, and a dry run empties nothing.
THEOREM TypeCorrect == Spec => []TypeOK
<1>1. IndInv => TypeOK
  BY DEF IndInv
<1> QED BY <1>1, Invariance, PTL

\* The toolchain that was the default when beav read the settings is left
\* alone, whatever rustup does.
THEOREM DefaultStays == Spec => []DefaultAsRead
<1>1. IndInv => DefaultAsRead
  BY DEF IndInv, Judged, Beaten, DefaultAsRead
<1> QED BY <1>1, Invariance, PTL

\* Of the release line of whatever beav touches it has listed a newer member,
\* which it leaves alone: for every set of names, in any order of theirs.
THEOREM NewestStays == Spec => []NewestSurvives
<1>1. IndInv => NewestSurvives
  <2> SUFFICES ASSUME IndInv, NEW t \in touched
               PROVE  \E u \in units :
                        /\ Family(u.leaf) = Family(t[1]) /\ Newer(u.leaf, t[1])
                        /\ \A s \in touched : s[1] # u.leaf
    BY DEF NewestSurvives
  <2>1. PICK k \in kept : Family(k) = Family(t[1]) /\ Newer(k, t[1])
    BY DEF IndInv, Judged, Beaten
  <2>2. PICK u \in units : u.leaf = k
    BY DEF IndInv, Tournament, Compared
  <2>3. \A s \in touched : s[1] \notin kept
    BY DEF IndInv, Judged, Beaten
  <2> QED BY <2>1, <2>2, <2>3
<1> QED BY <1>1, Invariance, PTL

\* No step of beav takes anything from a toolchain that was installed after
\* the listing, but for one that came between the last look and the opening.
THEOREM NothingNewTaken == Spec => NothingNew
<1>1. ASSUME IndInv, [Next]_vars
      PROVE  [\A t \in touched' \ touched : t[2] \notin late]_vars
  <2> SUFFICES ASSUME Next, NEW t \in touched', t \notin touched
               PROVE  t[2] \notin late
    BY <1>1
  <2>1. CASE RemovePart
    <3>1. t = <<cur.leaf, cur.ino>> /\ cur.ino \notin late
      BY <1>1, <2>1 DEF RemovePart, IndInv, Fresh
    <3> QED BY <3>1
  <2>2. CASE RemoveUnit
    <3>1. t = <<cur.leaf, dir[cur.leaf]>> /\ parts[dir[cur.leaf]] = {}
      BY <2>2 DEF RemoveUnit
    <3>2. dir[cur.leaf] \notin late
      BY <1>1, <3>1, RustupAssumption DEF IndInv, Fresh
    <3> QED BY <3>1, <3>2
  <2>3. CASE ~RemovePart /\ ~RemoveUnit
    BY <2>3
    DEF Next, BeavStep, OwnerStep, ReadSettings, CheckOwner, ReadNames,
       StatUnit, Select, ListingFails, CompareUnit, Selected, Cancel, NextStale,
       Finish, Restat, OpenUnit, WalkFails, WalkEnds, ListUnit, Begin, End,
       SetDefault, Update, Uninstall, Install
  <2> QED BY <2>1, <2>2, <2>3
<1> QED BY <1>1, Invariance, PTL DEF Spec, NothingNew

\* A run that rustup leaves alone removes whole what the README says should go
\* and leaves everything else whole that can be removed.
THEOREM PrunedAsPromised == Spec => []Pruned
<1>1. IndInv => Pruned
  <2> SUFFICES ASSUME IndInv, quiet, outcome = "finished", ~dry
               PROVE  /\ gone = {l \in Leaves : ShouldGo(l)}
                      /\ \A l \in Leaves \ gone :
                           dir[l] # None /\ parts[dir[l]] # Parts
                             /\ kind[dir[l]] = "toolchain" => dir[l] \in stuck
    BY DEF Pruned
  <2>1. /\ Calm /\ Catalogue /\ Waiting /\ RightlyGone /\ Partly /\ Tournament
        /\ TypeOK
    BY DEF IndInv, Undisturbed
  <2>2. stale = {} /\ names = {} /\ pc = "done"
    BY DEF IndInv, Ending
  <2>3. ~Working /\ default = start.chosen
    BY <2>1, <2>2 DEF Working, Calm
  <2>4. ASSUME NEW l \in gone PROVE l \in Leaves /\ ShouldGo(l)
    <3>1. l \in Leaves /\ Member(l) /\ l \notin Keep \cup {start.chosen}
          /\ start.age[start.dir[l]] = "old" /\ start.dir[l] \notin stuck
      BY <2>1, <2>3 DEF RightlyGone, Beaten, TypeOK
    <3>2. PICK k \in kept : Family(k) = Family(l) /\ Newer(k, l)
      BY <2>1 DEF RightlyGone, Beaten
    <3>3. k \in Leaves /\ Member(k) /\ k # start.chosen
      BY <2>1, <2>3 DEF Tournament, Compared, Catalogue, TypeOK
    <3> QED BY <3>1, <3>2, <3>3 DEF ShouldGo
  <2>5. ASSUME NEW l \in Leaves, ShouldGo(l) PROVE l \in gone
    <3>1. PICK m \in Leaves :
            /\ Member(m) /\ m # start.chosen
            /\ Family(m) = Family(l) /\ Newer(m, l)
      BY <2>5 DEF ShouldGo
    <3>2. PICK u \in units : u.leaf = l
      BY <2>1, <2>2, <2>5 DEF Catalogue, ShouldGo
    <3>3. Compared(m)
      BY <2>1, <2>2, <2>3, <3>1 DEF Catalogue, Compared
    <3>4. l \notin kept
      <4>1. ASSUME l \in kept PROVE FALSE
        <5>1. Champion(l, m)
          BY <2>1, <3>1, <3>3, <4>1 DEF Tournament
        <5>2. Newer(l, l)
          BY <3>1, <5>1, NewerTransitive DEF Champion
        <5> QED BY <5>2, NewerIrreflexive
      <4> QED BY <4>1
    <3>5. /\ l \notin Keep \cup {default} /\ u.age = "old"
          /\ u.ino \notin stuck
      BY <2>1, <2>3, <2>5, <3>2 DEF Catalogue, ShouldGo
    <3> QED BY <2>1, <2>2, <2>3, <3>2, <3>4, <3>5 DEF Waiting
  <2>6. ASSUME NEW l \in Leaves \ gone, dir[l] # None, parts[dir[l]] # Parts,
               kind[dir[l]] = "toolchain"
        PROVE  dir[l] \in stuck
    BY <2>1, <2>2, <2>6 DEF Partly
  <2> QED BY <2>4, <2>5, <2>6
<1> QED BY <1>1, Invariance, PTL
=============================================================================
