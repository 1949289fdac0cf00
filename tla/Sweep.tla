------------------------------- MODULE Sweep -------------------------------
(***************************************************************************)
(* The sweep of one root by the paths executor or the debris executor: the *)
(* anchored walker of src/internal/cleaner/safety/fs.go, the plan of       *)
(* safety/age.go with the loop of executor/paths.go, or the callback of    *)
(* executor/debris.go, while the owner of the files goes on using them.    *)
(*                                                                         *)
(* The file system is a set of inodes and the slots <<directory, name>>    *)
(* that refer to them.  Every system call beav makes on a name is a step   *)
(* of its own, and the owner may act between any two.                      *)
(*                                                                         *)
(* Abstractions.  A name is a number, compared as names are; 0 is ".git".  *)
(* size, mtime and ctime are one version, which every change of a file     *)
(* increases; what the age rule makes of the chosen time is young or old.  *)
(* The search of /proc for an open file is one step, which may fail.       *)
(* No file passes the age floor during a run.  Mounts do not change during *)
(* a run, and what is mounted on a directory is not looked into.  A failed *)
(* system call is a missing entry.                                         *)
(***************************************************************************)
EXTENDS Naturals, SequencesExt

CONSTANTS
  Root,      \* the cleaner's root, held open by the walker
  Outside,   \* a directory elsewhere on the same file system
  Dirs,      \* inode numbers of other directories
  Files,     \* inode numbers of regular files
  Links,     \* inode numbers of symbolic links to directories
  MaxName,   \* largest name
  Trees,     \* initial trees: slots in use, where mounts are, what sweeps
             \* them and, as a bound, how often others act during the run
  Keep,      \* paths below the root on the keep-list
  Exclude    \* paths below the root that match an exclude pattern

None == "none"
NoDir == "nodir"
Names == 0..MaxName
Git == 0
Folders == Dirs \cup {Root, Outside}
Inodes == Folders \cup Files \cup Links
Slots == Folders \X Names

ASSUME SweepAssumption ==
  /\ Root # Outside /\ {Root, Outside} \cap Dirs = {}
  /\ Folders \cap (Files \cup Links) = {} /\ Files \cap Links = {}
  /\ Inodes \cap {None, NoDir} = {} /\ MaxName \in Nat /\ IsFiniteSet(Dirs)
  /\ Keep \subseteq Seq(Names)
  /\ \A t \in Trees : /\ t.acts \in Nat
                      /\ t.sweep.debris \in BOOLEAN /\ t.sweep.depth \in Nat
                      /\ t.sweep.match \subseteq Names
                      /\ t.slots \in [Slots -> Dirs \cup Files \cup Links \cup {None}]
                      /\ t.mounts \subseteq Dirs
                      /\ t.target \in [Links -> Folders]
                      \* A directory has one name.
                      /\ \A s, u \in Slots :
                           t.slots[s] = t.slots[u] /\ t.slots[s] \in Dirs => s = u

\* Paths as deep as the tree can be.
Paths == UNION {[1..k -> Names] : k \in 0..Cardinality(Dirs) + 1}

VARIABLES
  slot,      \* slot[<<d, n>>]: inode the entry n of d refers to
  mounts,    \* directories on which another file system is mounted
  target,    \* target[l]: directory the link l leads to
  age,       \* age[i]: "old" or "young"
  ver,       \* ver[i]: version, increased by every change
  openf,     \* files another process has open
  sweep,     \* debris profile or not, its depth (0: any) and what it matches
  dry,       \* --dry-run
  pc,        \* "walk", "mount", "descend", "inspect", "next", "open", "list",
             \* "unlink", "done"
  stack,     \* frames of walkDir, outermost first
  look,      \* directory entry walkDir is about to open
  list,      \* entries handed to the callback of Walk
  plan,      \* entries still to be processed
  cur,       \* entry being removed
  held,      \* descriptor of reopenLeaf
  opened,    \* components of cur's path opened so far
  cancelled, \* the context was found cancelled
  acts,      \* how often the owner may still act
  before,    \* history: the initial tree
  watched,   \* history: files open since before the last search for cur
  last,      \* history: when the owner last acted, seen from cur: never,
             \* before a directory on its way was opened, after, or after
             \* the last look at its name
  asSeen,    \* history: files the walker saw that have not changed since
  removed    \* history: what beav has removed

fsVars == <<slot, mounts, target, age, ver, openf, sweep>>
walkVars == <<stack, look, list>>
curVars == <<cur, held, opened>>
history == <<before, watched, asSeen>>
vars == <<fsVars, dry, pc, walkVars, plan, curVars, cancelled, acts, history,
          last, removed>>

----------------------------------------------------------------------------
EntriesOf(d) == {n \in Names : slot[<<d, n>>] # None}
Nlink(i) == Cardinality({s \in Slots : slot[s] = i})

\* The inode the path p leads to from the root in the tree t, following no
\* link; None if there is none.
At(t, p) ==
  LET to[k \in 0..Len(p)] ==
        IF k = 0 THEN Root
        ELSE IF to[k - 1] \in Folders THEN t[<<to[k - 1], p[k]>>] ELSE None
  IN to[Len(p)]

\* d can be reached from the root: it is in every set of directories that
\* holds the root and, of each of its members, what that member contains.
Below(d) ==
  \A D \in SUBSET Folders :
    (Root \in D /\ \A e \in D : {slot[<<e, n>>] : n \in Names} \cap Folders \subseteq D)
      => d \in D

Seen(p, i) ==
  [path |-> p, ino |-> i, ver |-> ver[i], age |-> age[i], nlink |-> Nlink(i)]
NoEntry == [path |-> <<>>, ino |-> None, ver |-> 0, age |-> "young", nlink |-> 0]

\* Mutant: a link is followed.
OpenFollowing(d, n) ==
  LET i == slot[<<d, n>>]
  IN IF i \in Links THEN target[i] ELSE IF i \in Folders THEN i ELSE NoDir

\* openat with O_DIRECTORY and O_NOFOLLOW.
OpenDir(d, n) == IF slot[<<d, n>>] \in Folders THEN slot[<<d, n>>] ELSE NoDir

----------------------------------------------------------------------------
Frame(d, p, self) ==
  [dir |-> d, path |-> p, left |-> EntriesOf(d), self |-> self]

Init ==
  /\ \E t \in Trees :
       /\ slot = t.slots /\ mounts = t.mounts /\ target = t.target
       /\ acts = t.acts /\ sweep = t.sweep
  /\ age \in [Inodes -> {"old", "young"}]
  /\ \A i \in Inodes : Nlink(i) = 0 => age[i] = "young"
  /\ ver = [i \in Inodes |-> 0]
  /\ openf \in IF sweep.debris THEN SUBSET {f \in Files : Nlink(f) > 0} ELSE {{}}
  /\ dry \in BOOLEAN
  /\ pc = "walk"
  /\ stack = IF Git \in EntriesOf(Root) THEN <<>>
             ELSE <<Frame(Root, <<>>, NoEntry)>>
  /\ look = NoEntry /\ list = {} /\ plan = {}
  /\ cur = NoEntry /\ held = Root /\ opened = 0
  /\ cancelled = FALSE
  /\ before = [slots |-> slot, age |-> age]
  /\ last = "never" /\ watched = {} /\ asSeen = {} /\ removed = {}

----------------------------------------------------------------------------
(***************************************************************************)
(* Walker.walkDir.                                                         *)
(***************************************************************************)
Top == stack[Len(stack)]
NextName == CHOOSE n \in Top.left : \A m \in Top.left : n <= m
Consumed == [stack EXCEPT ![Len(stack)].left = @ \ {NextName}]

\* fstatat of the next entry.  What has vanished is passed over, a foreign
\* device ends the whole walk.
WalkEntry ==
  /\ pc = "walk" /\ stack # <<>> /\ Top.left # {}
  /\ LET i == slot[<<Top.dir, NextName>>]
     IN \/ /\ i = None
           /\ stack' = Consumed
           /\ UNCHANGED <<pc, look, asSeen>>
        \/ /\ i \in mounts
           /\ stack' = <<>>
           /\ UNCHANGED <<pc, look, asSeen>>
        \/ /\ i \in Inodes \ mounts
           /\ look' = Seen(Append(Top.path, NextName), i)
           /\ asSeen' = asSeen \cup ({i} \cap Files)
           /\ pc' = "mount"
           /\ UNCHANGED stack
  /\ UNCHANGED <<fsVars, dry, list, plan, curVars, cancelled, acts, before,
                 watched, last, removed>>

NotConsidered == pc' = "walk" /\ UNCHANGED <<curVars, last>>

\* beav turns to the entry e.
TurnTo(e) ==
  /\ cur' = e /\ held' = Root /\ opened' = 0
  /\ last' = IF last = "never" THEN last ELSE "before"

\* Mutant: the depth of the profile is taken for a limit.
DebrisUpTo(e) ==
  /\ sweep.depth > 0 => Len(e.path) <= sweep.depth
  /\ e.nlink = 1 /\ e.path[Len(e.path)] \in sweep.match
  /\ e.age = "old"
  /\ ~\E k \in Keep : IsPrefix(k, e.path)

\* The callback of the debris executor, up to its search: what the profile
\* asks of a file.
Debris(e) ==
  /\ sweep.depth > 0 => Len(e.path) = sweep.depth
  /\ e.nlink = 1 /\ e.path[Len(e.path)] \in sweep.match
  /\ e.age = "old"
  /\ ~\E k \in Keep : IsPrefix(k, e.path)

Consider(e) ==
  IF Debris(e) THEN TurnTo(e) /\ pc' = "inspect" ELSE NotConsidered

\* statx of its mount: here a vanished entry ends the walk as well.  Then the
\* kind seen by fstatat decides.
WalkMount ==
  /\ pc = "mount"
  /\ LET i == look.ino
         vanished == slot[<<Top.dir, NextName>>] \in mounts \cup {None}
     IN \/ /\ vanished
           /\ stack' = <<>> /\ look' = NoEntry /\ NotConsidered
           /\ UNCHANGED list
        \/ /\ ~vanished /\ i \in Files
           /\ stack' = Consumed /\ look' = NoEntry
           /\ IF sweep.debris
              THEN UNCHANGED list /\ Consider(look)
              ELSE list' = list \cup {look} /\ NotConsidered
        \/ /\ ~vanished /\ i \in Folders
           /\ pc' = "descend"
           /\ UNCHANGED <<stack, look, list, curVars, last>>
        \/ /\ ~vanished /\ i \in Links
           /\ stack' = Consumed /\ look' = NoEntry /\ NotConsidered
           /\ UNCHANGED list
  /\ UNCHANGED <<fsVars, dry, plan, cancelled, acts, history, removed>>

\* The directory is opened and read; one that holds .git is passed over.
WalkDescend ==
  /\ pc = "descend"
  /\ pc' = "walk"
  /\ LET d == OpenDir(Top.dir, NextName)
     IN stack' = IF d = NoDir THEN Consumed
                 ELSE IF Git \in EntriesOf(d) THEN Consumed
                 ELSE Append(Consumed, Frame(d, look.path, look))
  /\ look' = NoEntry
  /\ UNCHANGED <<fsVars, dry, list, plan, curVars, cancelled, acts, history,
                 last, removed>>

\* A directory is handed over after its content; debris is files only.
WalkUp ==
  /\ pc = "walk" /\ stack # <<>> /\ Top.left = {}
  /\ stack' = Front(stack)
  /\ list' = IF Top.self = NoEntry \/ sweep.debris THEN list
             ELSE list \cup {Top.self}
  /\ UNCHANGED <<fsVars, dry, pc, look, plan, curVars, cancelled, acts,
                 history, last, removed>>

----------------------------------------------------------------------------
(***************************************************************************)
(* AgePlan and orderForDeletion.                                           *)
(***************************************************************************)
IsDir(e) == e.ino \in Folders
Passed(e) == e.age = "old"

\* A directory is kept for every recent entry in it, or for itself.
KeptFor(d) == \E e \in list : ~Passed(e) /\ IsPrefix(d.path, e.path)

Doomed == {e \in list : Passed(e) /\ (IsDir(e) => ~KeptFor(e))}

MakePlan ==
  /\ pc = "walk" /\ stack = <<>>
  /\ plan' = Doomed
  /\ pc' = "next"
  /\ list' = {}
  /\ UNCHANGED <<fsVars, dry, stack, look, curVars, cancelled, acts, history,
                 last, removed>>

\* Mutant: parents come before their children.
ComesFirstShallow(e, f) ==
  Len(e.path) < Len(f.path) \/ (Len(e.path) = Len(f.path) /\ (IsDir(e) => IsDir(f)))

\* Deeper entries first, and files before directories of the same depth.
ComesFirst(e, f) ==
  Len(e.path) > Len(f.path) \/ (Len(e.path) = Len(f.path) /\ (IsDir(e) => IsDir(f)))

----------------------------------------------------------------------------
(***************************************************************************)
(* The loop of PathsExecutor.Run.                                          *)
(***************************************************************************)
Spared(p) == p \in Exclude \/ \E k \in Keep : IsPrefix(k, p)

NextEntry ==
  /\ pc = "next"
  /\ \E e \in plan :
       /\ \A f \in plan : ComesFirst(e, f)
       /\ plan' = plan \ {e}
       /\ IF Spared(e.path) \/ dry
          THEN UNCHANGED <<pc, curVars>>
          ELSE cur' = e /\ held' = Root /\ opened' = 0 /\ pc' = "open"
  /\ last' = IF last = "never" THEN last ELSE "before"
  /\ UNCHANGED <<fsVars, dry, walkVars, cancelled, acts, history, removed>>

\* Of a walk for debris, nothing that follows has an effect.
Cancelled ==
  /\ (pc = "next" /\ plan # {}) \/ (pc = "walk" /\ sweep.debris /\ stack # <<>>)
  /\ pc' = "done" /\ cancelled' = TRUE /\ plan' = {}
  /\ UNCHANGED <<fsVars, dry, walkVars, curVars, acts, history, last, removed>>

Finish ==
  /\ pc = "next" /\ plan = {}
  /\ pc' = "done"
  /\ UNCHANGED <<fsVars, dry, walkVars, plan, curVars, cancelled, acts,
                 history, last, removed>>

----------------------------------------------------------------------------
(***************************************************************************)
(* reopenLeaf, UnlinkIfUnchanged and RemoveEmptyDirIfMatch.                *)
(***************************************************************************)
\* Where beav goes on after the entry.
Resume == IF sweep.debris THEN "walk" ELSE "next"
Onward == pc' = Resume

\* Mutant: a search that failed is taken for one that found nothing.
ClearUnlessOpen(verdict) == verdict # "open"
Clear(verdict) == verdict = "free"

\* The search for a process that has the candidate open.
Inspect ==
  /\ pc = "inspect"
  /\ \E verdict \in {IF cur.ino \in openf THEN "open" ELSE "free", "failed"} :
       /\ pc' = IF Clear(verdict) /\ ~dry THEN "open" ELSE Resume
       /\ IF verdict = "failed"
          THEN acts > 0 /\ acts' = acts - 1 /\ last' = "before"
          ELSE UNCHANGED <<acts, last>>
  /\ watched' = openf
  /\ UNCHANGED <<fsVars, dry, walkVars, plan, curVars, cancelled, before,
                 asSeen, removed>>

Leaf == cur.path[Len(cur.path)]

\* Mutant: the last component is opened like the others.
ParentsAndLeaf == Len(cur.path)
Parents == Len(cur.path) - 1

\* reopenLeaf starts from the held root again and opens one component.
Reopen ==
  /\ pc = "open" /\ opened < Parents
  /\ LET d == OpenDir(held, cur.path[opened + 1])
     IN IF d = NoDir \/ d \in mounts
        THEN Onward /\ UNCHANGED <<held, opened>>
        ELSE held' = d /\ opened' = opened + 1 /\ UNCHANGED pc
  /\ UNCHANGED <<fsVars, dry, walkVars, plan, cur, cancelled, acts, history,
                 last, removed>>

\* Mutant: only the inode is compared.
UnchangedInode(e, i) == i = e.ino
Unchanged(e, i) == i = e.ino /\ (~IsDir(e) => ver[i] = e.ver /\ Nlink(i) = 1)

Recheck ==
  /\ pc = "open" /\ opened = Parents
  /\ LET i == slot[<<held, Leaf>>]
     IN pc' = IF ~Unchanged(cur, i) \/ i \in mounts THEN Resume
              ELSE IF IsDir(cur) THEN "list" ELSE "unlink"
  /\ UNCHANGED <<fsVars, dry, walkVars, plan, curVars, cancelled, acts,
                 history, last, removed>>

\* The directory is opened by its name once more and read.
ListDir ==
  /\ pc = "list"
  /\ LET d == OpenDir(held, Leaf)
     IN pc' = IF d = NoDir THEN Resume
              ELSE IF EntriesOf(d) # {} THEN Resume ELSE "unlink"
  /\ UNCHANGED <<fsVars, dry, walkVars, plan, curVars, cancelled, acts,
                 history, last, removed>>

Loss(i) == [ino |-> i, kind |-> IF i \in Folders THEN "dir" ELSE "file",
            seen |-> i \in asSeen, open |-> i \in watched, age |-> age[i], below |-> Below(held),
            when |-> last]

\* unlinkat acts on what the name refers to by now.
Unlinkable(i) ==
  IF IsDir(cur) THEN i \in Folders /\ i \notin mounts /\ EntriesOf(i) = {}
                ELSE i \in Files \cup Links

Unlink ==
  /\ pc = "unlink"
  /\ LET i == slot[<<held, Leaf>>]
     IN IF Unlinkable(i)
        THEN /\ slot' = [slot EXCEPT ![<<held, Leaf>>] = None]
             /\ age' = [age EXCEPT ![held] = "young"]
             /\ ver' = [ver EXCEPT ![i] = @ + 1]
             /\ removed' = removed \cup {Loss(i)}
        ELSE UNCHANGED <<slot, age, ver, removed>>
  /\ Onward
  /\ UNCHANGED <<mounts, target, openf, sweep, dry, walkVars, plan, curVars, cancelled,
                 acts, history, last>>

----------------------------------------------------------------------------
(***************************************************************************)
(* The owner of the files.                                                 *)
(***************************************************************************)
beavVars == <<mounts, sweep, dry, pc, walkVars, plan, curVars, cancelled, before,
              removed>>

Act ==
  /\ acts > 0 /\ pc # "done"
  /\ acts' = acts - 1
  /\ last' = CASE pc \in {"list", "unlink"} -> "checked"
               [] pc = "open" /\ opened > 0 -> "opened"
               [] OTHER -> "before"

\* The inodes in I change; those of the directories in D have a new mtime.
Changed(I, D) ==
  /\ ver' = [i \in Inodes |-> IF i \in I THEN ver[i] + 1 ELSE ver[i]]
  /\ asSeen' = asSeen \ I
  /\ age' = [i \in Inodes |-> IF i \in D THEN "young" ELSE age[i]]

OpenFile(f) ==
  /\ sweep.debris /\ Act /\ Nlink(f) > 0 /\ f \notin openf
  /\ openf' = openf \cup {f}
  /\ UNCHANGED <<slot, target, age, ver, asSeen, watched, beavVars>>

CloseFile(f) ==
  /\ Act /\ f \in openf
  /\ openf' = openf \ {f} /\ watched' = watched \ {f}
  /\ UNCHANGED <<slot, target, age, ver, asSeen, beavVars>>

InUse(d) == d \in {Root, Outside} \/ Nlink(d) > 0
Idle(i) == Nlink(i) = 0 /\ i \notin openf \cup {held} /\ \A k \in DOMAIN stack : stack[k].dir # i

\* A file is written, or unpacked over with its old time stamp.
Write(f) ==
  /\ Act /\ Nlink(f) > 0
  /\ ver' = [ver EXCEPT ![f] = @ + 1]
  /\ asSeen' = asSeen \ {f}
  /\ age' \in {[age EXCEPT ![f] = a] : a \in {"old", "young"}}
  /\ UNCHANGED <<slot, target, openf, watched, beavVars>>

\* A new file, directory (perhaps .git) or link.
Create(d, n, i) ==
  /\ Act /\ InUse(d) /\ slot[<<d, n>>] = None
  /\ Idle(i) /\ i \notin {Root, Outside}
  /\ i \in Folders => EntriesOf(i) = {} /\ i \notin mounts
  /\ slot' = [slot EXCEPT ![<<d, n>>] = i]
  /\ target' \in IF i \in Links
                 THEN {[target EXCEPT ![i] = g] : g \in Dirs \cup {Outside}}
                 ELSE {target}
  /\ Changed({i}, {d, i})
  /\ UNCHANGED <<openf, watched, beavVars>>

HardLink(f, d, n) ==
  /\ Act /\ InUse(d) /\ slot[<<d, n>>] = None /\ Nlink(f) > 0
  /\ slot' = [slot EXCEPT ![<<d, n>>] = f]
  /\ Changed({f}, {d})
  /\ UNCHANGED <<target, openf, watched, beavVars>>

Delete(d, n) ==
  /\ Act /\ slot[<<d, n>>] # None
  /\ slot[<<d, n>>] \in Folders => EntriesOf(slot[<<d, n>>]) = {}
  /\ slot[<<d, n>>] \notin mounts
  /\ slot' = [slot EXCEPT ![<<d, n>>] = None]
  /\ Changed({slot[<<d, n>>]}, {d})
  /\ UNCHANGED <<target, openf, watched, beavVars>>

\* d lies in the directory i, or is i.
Within(d, i) ==
  \E k \in 0..Cardinality(Dirs) :
    \E c \in [0..k -> Folders] :
      /\ c[0] = d /\ c[k] = i
      /\ \A j \in 1..k : \E n \in Names : slot[<<c[j], n>>] = c[j - 1]

\* An entry is renamed, over another file if there is one.
Move(d, n, e, m) ==
  /\ Act /\ InUse(e) /\ slot[<<d, n>>] # None /\ <<d, n>> # <<e, m>>
  /\ slot[<<d, n>>] \notin mounts
  /\ LET i == slot[<<d, n>>]
         j == slot[<<e, m>>]
     IN /\ j # None => i \notin Folders /\ j \notin Folders /\ i # j
        /\ i \in Folders => ~Within(e, i)
        /\ slot' = [slot EXCEPT ![<<d, n>>] = None, ![<<e, m>>] = i]
        /\ Changed({i, j} \ {None}, {d, e})
  /\ UNCHANGED <<target, openf, watched, beavVars>>

----------------------------------------------------------------------------
BeavStep ==
  \/ WalkEntry \/ WalkMount \/ WalkDescend \/ WalkUp \/ MakePlan
  \/ NextEntry \/ Cancelled \/ Finish
  \/ Inspect \/ Reopen \/ Recheck \/ ListDir \/ Unlink

OwnerStep ==
  \/ \E f \in Files : Write(f) \/ OpenFile(f) \/ CloseFile(f)
  \/ \E d \in Folders, n \in Names, i \in Inodes : Create(d, n, i)
  \/ \E f \in Files, d \in Folders, n \in Names : HardLink(f, d, n)
  \/ \E d \in Folders, n \in Names : Delete(d, n)
  \/ \E d, e \in Folders, n, m \in Names : Move(d, n, e, m)

Next == BeavStep \/ OwnerStep

Spec == Init /\ [][Next]_vars

----------------------------------------------------------------------------
Entry ==
  [path : Seq(Names) \ {<<>>}, ino : Dirs \cup Files \cup Links, ver : Nat,
   age : {"old", "young"}, nlink : Nat]

\* Every variable keeps its type: above all, a descriptor that a step uses
\* refers to a directory, and reopenLeaf leaves the last component alone.
TypeOK ==
  /\ slot \in [Slots -> Dirs \cup Files \cup Links \cup {None}]
  /\ mounts \subseteq Dirs /\ target \in [Links -> Folders]
  /\ age \in [Inodes -> {"old", "young"}] /\ ver \in [Inodes -> Nat]
  /\ watched \subseteq openf /\ openf \subseteq Files
  /\ dry \in BOOLEAN /\ cancelled \in BOOLEAN /\ acts \in Nat
  /\ pc \in {"walk", "mount", "descend", "inspect", "next", "open", "list",
             "unlink", "done"}
  /\ stack \in Seq([dir : Folders, path : Seq(Names), left : SUBSET Names,
                    self : Entry \cup {NoEntry}])
  /\ look \in Entry \cup {NoEntry}
  /\ \A e \in list \cup plan : e \in Entry /\ e.ino \in Files \cup Dirs
  /\ held \in Folders /\ opened \in Nat
  /\ cur # NoEntry => cur \in Entry /\ opened < Len(cur.path)
  /\ asSeen \subseteq Files
  /\ last \in {"never", "before", "opened", "checked"}

\* Design 6.2, TOCTOU: the window is a single system call.  A file or link is
\* only lost if it is, untouched, one the walker saw when it was old, or if
\* the owner acted between the last look at its name and the removal.
OnlyAsSeen ==
  \A x \in removed :
    (x.kind = "file" /\ x.when # "checked") => x.seen /\ x.age = "old"

\* Design 6.2: nobody can redirect a deletion by putting a link in the place
\* of a parent.  What is removed lies below the root, unless the owner acted
\* after beav had opened the first directory on the way to it, or between the
\* last look at its name and the removal.
Confined ==
  \A x \in removed : x.when \in {"never", "before"} => x.below

\* A file that another process has had open since before beav searched for
\* it is not removed, unless it took the candidate's name after the last look.
NotInUse == \A x \in removed : x.when # "checked" => ~x.open

----------------------------------------------------------------------------
(***************************************************************************)
(* What the rules of the design say should go, from the tree alone.        *)
(***************************************************************************)
There(p) == At(before.slots, p)

\* Every directory on the way, the last one included, is free of .git.
OutOfGit(p) ==
  \A q \in Paths :
    (IsPrefix(q, p) /\ There(q) \in Folders)
      => before.slots[<<There(q), Git>>] = None

Removable(p) ==
  /\ p # <<>> /\ before.age[There(p)] = "old"
  /\ OutOfGit(p) /\ ~Spared(p)
  /\ There(p) \in Files =>
       Cardinality({s \in Slots : before.slots[s] = There(p)}) = 1

\* A file that is removable; a directory that is, and all that it holds.
ShouldGo(p) ==
  /\ ~sweep.debris /\ There(p) \in Files \cup Dirs
  /\ \A q \in Paths :
       (IsPrefix(p, q) /\ There(q) # None) =>
         There(q) \in Files \cup Dirs /\ Removable(q)

\* For a debris profile: a file of its own depth and name that nobody has open.
IsDebris(p) ==
  /\ sweep.debris /\ There(p) \in Files \ openf
  /\ sweep.depth \in {0, Len(p)} /\ p[Len(p)] \in sweep.match
  /\ before.age[There(p)] = "old" /\ OutOfGit(p)
  /\ \A q \in Paths : IsPrefix(q, p) => q \notin Keep
  /\ Cardinality({s \in Slots : before.slots[s] = There(p)}) = 1

Undisturbed == pc = "done" /\ last = "never" /\ ~cancelled /\ ~dry

\* Left alone, a sweep removes what the rules say and nothing else: the plan,
\* its order and the check that a directory is empty agree with the rules,
\* which look at the tree as a whole.
Swept ==
  (Undisturbed /\ mounts = {}) =>
    {x.ino : x \in removed} =
      {There(p) : p \in {q \in Paths : ShouldGo(q) \/ IsDebris(q)}}
============================================================================
