------------------------------- MODULE Rustup -------------------------------
(***************************************************************************)
(* The removal of stale Rust toolchains: src/internal/cleaner/executor/    *)
(* rustup.go, while rustup goes on installing, updating, removing and      *)
(* choosing toolchains.                                                    *)
(*                                                                         *)
(* The directory of toolchains maps leaves to inodes; an inode number may  *)
(* be used again.  The settings are read once, processes are looked for    *)
(* once, the directory is listed once; then each stale toolchain is looked *)
(* at again, opened, emptied and removed, system call by system call.      *)
(*                                                                         *)
(* Abstractions.  A leaf is a record of what the code parses out of the    *)
(* name.  The content of a toolchain is a set of parts, each removed in    *)
(* one step (Sweep models that step); `stuck' stands for content the       *)
(* walker leaves in place or trips over.  Size, mtime and ctime of the     *)
(* directory are one version; its mtime is old or young.  How the roots    *)
(* are opened is Roots.                                                    *)
(***************************************************************************)
EXTENDS Naturals, SequencesExt

CONSTANTS
  Leaves,    \* names of toolchains: [base, date, version, triple, spelling]
  Inodes,    \* inode numbers
  Parts,     \* parts of a toolchain
  None,
  Keep,      \* leaves the keep-list intersects
  Homes      \* initial directories, default toolchains and, as a bound, how
             \* often rustup acts

Kinds == {"toolchain", "link", "file", "foreign", "others"}

Toolchains == [base : {"stable", "beta", "nightly", "version", "custom"},
               date : Nat, version : Seq(Nat), triple : STRING, spelling : Nat]

\* No directory has two names, and a toolchain is never empty.
ASSUME RustupAssumption ==
  /\ None \notin Leaves \cup Inodes /\ Keep \subseteq Leaves /\ Parts # {}
  /\ Leaves \subseteq Toolchains
  /\ \A l, m \in Leaves : l.spelling = m.spelling => l = m
  /\ \A h \in Homes : /\ h.dir \in [Leaves -> Inodes \cup {None}]
                      /\ \A l, m \in Leaves :
                           h.dir[l] = h.dir[m] /\ h.dir[l] # None => l = m
                      /\ h.kind \in [Inodes -> Kinds]
                      /\ h.age \in [Inodes -> {"old", "young"}]
                      /\ h.stuck \subseteq Inodes
                      /\ h.chosen \in Leaves \cup {None}
                      /\ h.acts \in Nat

VARIABLES
  dir,       \* dir[l]: inode the leaf l refers to
  kind,      \* kind[i]
  age,       \* age[i]: "old" or "young"
  ver,       \* ver[i]: version of the directory's state
  parts,     \* parts[i]: what is left of it
  stuck,     \* inodes with content that cannot be removed
  chosen,    \* default toolchain of the settings
  busy,      \* a process of rustup, cargo or rustc is running
  acts,      \* how often it may still act
  pc,        \* "settings", "check", "names", "stat", "select", "next",
             \* "restat", "open", "empty", "list", "rmdir", "done"
  dry,       \* --dry-run
  default,   \* default toolchain as read
  names,     \* leaves read from the directory and not yet looked at
  units,     \* toolchains listed: [leaf, ino, ver, age]
  kept,      \* the best member of each family so far, by leaf
  stale,     \* toolchains still to be compared, then those to be removed
  cur,       \* the one being removed
  outcome,   \* "", "skipped", "error" (not listed), "cancelled", "finished"
  errs,      \* number of error events
  start,     \* history: the initial state, for the undisturbed run
  quiet,     \* history: rustup has not acted
  late,      \* history: inodes that were listed and have been given to a new
             \* toolchain since, but not between the last look and the opening
  touched,   \* history: <<leaf, inode>> of which beav has removed something
  gone       \* history: leaves beav has reported as deleted

fsVars == <<dir, kind, age, ver, parts, stuck, chosen>>
ownVars == <<busy, acts, quiet>>
runVars == <<dry, default, names, units, kept, stale, cur, outcome, errs>>
history == <<start, late, touched, gone>>
vars == <<fsVars, ownVars, pc, runVars, history>>

----------------------------------------------------------------------------
(***************************************************************************)
(* rustupFamilyKey, rustupVersionKey, selectStaleRustupToolchains.         *)
(***************************************************************************)
\* A channel, or major.minor, on a platform; any other name stands alone.
Family(l) ==
  IF l.base = "version" THEN <<"version", SubSeq(l.version, 1, 2), l.triple>>
  ELSE IF l.base = "custom" THEN <<"custom", l.spelling>>
  ELSE <<l.base, l.triple>>

\* Dated nightlies come before versions, and these before names without either.
VersionKey(l) ==
  IF l.base = "nightly" /\ l.date > 0 THEN <<1, l.date>>
  ELSE IF l.base = "version" THEN <<2>> \o l.version
  ELSE <<3>>

Below(s, t) ==
  \/ IsStrictPrefix(s, t)
  \/ \E k \in 1..Len(s) :
       /\ k <= Len(t) /\ s[k] < t[k]
       /\ SubSeq(s, 1, k - 1) = SubSeq(t, 1, k - 1)

Newer(l, m) ==
  \/ Below(VersionKey(m), VersionKey(l))
  \/ VersionKey(l) = VersionKey(m) /\ l.spelling > m.spelling

\* Mutant: there is one slot for all release lines.
CompeteOnce(l) ==
  IF l = default THEN kept
  ELSE IF \A m \in kept : Newer(l, m) THEN {l} ELSE kept

\* Mutant: the default takes part.
CompeteAll(l) ==
  LET rivals == {m \in kept : Family(m) = Family(l)}
  IN IF \A m \in rivals : Newer(l, m) THEN (kept \ rivals) \cup {l} ELSE kept

\* One turn of the loop: the best member of each family so far.
Compete(l) ==
  IF l = default THEN kept
  ELSE LET rivals == {m \in kept : Family(m) = Family(l)}
       IN IF \A m \in rivals : Newer(l, m) THEN (kept \ rivals) \cup {l} ELSE kept

\* Mutant: the default is not added to what is kept.
BestOnly == kept
BestAndDefault == kept \cup {default}

----------------------------------------------------------------------------
NoUnit == [leaf |-> None, ino |-> None, ver |-> 0, age |-> "young"]

Init ==
  /\ \E h \in Homes :
       /\ dir = h.dir /\ kind = h.kind /\ age = h.age /\ stuck = h.stuck
       /\ chosen = h.chosen /\ acts = h.acts
  /\ ver = [i \in Inodes |-> 0]
  /\ parts = [i \in Inodes |-> IF kind[i] = "toolchain" THEN Parts ELSE {}]
  /\ busy \in BOOLEAN /\ dry \in BOOLEAN
  /\ pc = "settings"
  /\ default = None /\ names = {} /\ units = {} /\ kept = {} /\ stale = {}
  /\ cur = NoUnit
  /\ outcome = "" /\ errs = 0
  /\ start = [dir |-> dir, age |-> age, chosen |-> chosen]
  /\ quiet = TRUE /\ late = {} /\ touched = {} /\ gone = {}

Done(how) == pc' = "done" /\ outcome' = how

\* settings.toml is read; whatever goes wrong means that there is no default.
ReadSettings ==
  /\ pc = "settings"
  /\ \/ default' = chosen /\ UNCHANGED <<acts, quiet>>
     \/ acts > 0 /\ default' = None /\ acts' = acts - 1 /\ quiet' = FALSE
  /\ pc' = "check"
  /\ UNCHANGED <<fsVars, busy, dry, names, units, kept, stale, cur, outcome,
                 errs, history>>

\* The only search for processes that own toolchains; it may also fail.
CheckOwner ==
  /\ pc = "check"
  /\ \/ Done("skipped")
     \/ ~busy /\ pc' = "names" /\ UNCHANGED outcome
  /\ UNCHANGED <<fsVars, ownVars, dry, default, names, units, kept, stale,
                 cur, errs, history>>

ReadNames ==
  /\ pc = "names"
  /\ names' = {l \in Leaves : dir[l] # None}
  /\ pc' = "stat"
  /\ UNCHANGED <<fsVars, ownVars, dry, default, units, kept, stale, cur,
                 outcome, errs, history>>

\* Links, files, mounts and what others own are passed over.
StatUnit ==
  /\ pc = "stat"
  /\ \E l \in names :
       /\ \A m \in names : l.spelling <= m.spelling
       /\ names' = names \ {l}
       /\ LET i == dir[l]
          IN IF i # None /\ kind[i] = "toolchain"
             THEN units' = units \cup {[leaf |-> l, ino |-> i, ver |-> ver[i],
                                       age |-> age[i]]}
             ELSE UNCHANGED units
  /\ UNCHANGED <<fsVars, ownVars, pc, dry, default, kept, stale, cur,
                 outcome, errs, history>>

\* The directory cannot be read, or a name in it not be looked at, for another
\* reason than that it is gone: the run ends before anything is chosen.
ListingFails ==
  /\ pc = "names" \/ (pc = "stat" /\ names # {})
  /\ Done("error") /\ errs' = errs + 1
  /\ UNCHANGED <<fsVars, ownVars, dry, default, names, units, kept, stale,
                 cur, history>>

\* selectStaleRustupToolchains: a loop over what was listed, in its order.
Select ==
  /\ pc = "stat" /\ names = {}
  /\ stale' = units /\ pc' = "select"
  /\ UNCHANGED <<fsVars, ownVars, dry, default, names, units, kept, cur,
                 outcome, errs, history>>

CompareUnit ==
  /\ pc = "select"
  /\ \E u \in stale :
       /\ \A v \in stale : u.leaf.spelling <= v.leaf.spelling
       /\ stale' = stale \ {u}
       /\ kept' = Compete(u.leaf)
  /\ UNCHANGED <<fsVars, ownVars, pc, dry, default, names, units, cur,
                 outcome, errs, history>>

Selected ==
  /\ pc = "select" /\ stale = {}
  /\ stale' = {u \in units : u.leaf \notin BestAndDefault}
  /\ pc' = "next"
  /\ UNCHANGED <<fsVars, ownVars, dry, default, names, units, kept, cur,
                 outcome, errs, history>>

\* The context is looked at between toolchains only; there is no finish event.
Cancel ==
  /\ (pc = "stat" /\ names # {}) \/ (pc = "next" /\ stale # {})
  /\ Done("cancelled")
  /\ UNCHANGED <<fsVars, ownVars, dry, default, names, units, kept, stale,
                 cur, errs, history>>

NextStale ==
  /\ pc = "next" /\ stale # {}
  /\ \E u \in stale :
       /\ \A v \in stale : u.leaf.spelling <= v.leaf.spelling
       /\ stale' = stale \ {u}
       /\ IF u.leaf \in Keep \/ u.age # "old"
          THEN UNCHANGED <<pc, cur>>
          ELSE cur' = u /\ pc' = "restat"
  /\ UNCHANGED <<fsVars, ownVars, dry, default, names, units, kept, outcome,
                 errs, history>>

Finish ==
  /\ pc = "next" /\ stale = {}
  /\ Done("finished")
  /\ UNCHANGED <<fsVars, ownVars, dry, default, names, units, kept, stale,
                 cur, errs, history>>

----------------------------------------------------------------------------
(***************************************************************************)
(* removeRustupToolchain.                                                  *)
(***************************************************************************)
GiveUp == pc' = "next" /\ errs' = errs + 1

\* Mutant: the inode is compared, but not the state of the directory.
SameInode(u, i) == i = u.ino
Unchanged(u, i) == i = u.ino /\ ver[i] = u.ver

Restat ==
  /\ pc = "restat"
  /\ IF Unchanged(cur, dir[cur.leaf])
     THEN pc' = "open" /\ UNCHANGED errs
     ELSE GiveUp
  /\ UNCHANGED <<fsVars, ownVars, dry, default, names, units, kept, stale,
                 cur, outcome, history>>

\* Mutant: a dry run goes on like any other.
AfterOpenAlways == "empty"
AfterOpen == IF dry THEN "next" ELSE "empty"

\* The leaf is opened as a directory; only its identity is compared.  From
\* here on the descriptor counts.  A dry run ends here.
OpenUnit ==
  /\ pc = "open"
  /\ LET i == dir[cur.leaf]
     IN IF i # None /\ i = cur.ino /\ kind[i] = "toolchain"
        THEN pc' = AfterOpen /\ UNCHANGED errs
        ELSE GiveUp
  /\ UNCHANGED <<fsVars, ownVars, dry, default, names, units, kept, stale,
                 cur, outcome, history>>

\* The walker removes a part.
RemovePart ==
  /\ pc = "empty"
  /\ \E x \in parts[cur.ino] :
       parts' = [parts EXCEPT ![cur.ino] = @ \ {x}]
  /\ ver' = [ver EXCEPT ![cur.ino] = @ + 1]
  /\ age' = [age EXCEPT ![cur.ino] = "young"]
  /\ touched' = touched \cup {<<cur.leaf, cur.ino>>}
  /\ UNCHANGED <<dir, kind, stuck, chosen, ownVars, pc, runVars, start,
                 late, gone>>

\* An entry that changed under the walker, or a directory that does not get
\* empty: the rest stays.
WalkFails ==
  /\ pc = "empty" /\ (cur.ino \in stuck \/ (busy /\ parts[cur.ino] # {}))
  /\ GiveUp
  /\ UNCHANGED <<fsVars, ownVars, dry, default, names, units, kept, stale,
                 cur, outcome, history>>

WalkEnds ==
  /\ pc = "empty" /\ parts[cur.ino] = {}
  /\ pc' = "list"
  /\ UNCHANGED <<fsVars, ownVars, runVars, history>>

\* Links in the toolchain itself are left by the walker and found here.
ListUnit ==
  /\ pc = "list"
  /\ IF parts[cur.ino] # {} \/ cur.ino \in stuck
     THEN GiveUp
     ELSE pc' = "rmdir" /\ UNCHANGED errs
  /\ UNCHANGED <<fsVars, ownVars, dry, default, names, units, kept, stale,
                 cur, outcome, history>>

\* unlinkat removes what the name refers to by now, if it is empty.
RemoveUnit ==
  /\ pc = "rmdir"
  /\ LET i == dir[cur.leaf]
     IN IF i # None /\ kind[i] = "toolchain" /\ parts[i] = {} /\ i \notin stuck
        THEN /\ dir' = [dir EXCEPT ![cur.leaf] = None]
             /\ touched' = touched \cup {<<cur.leaf, i>>}
             /\ gone' = gone \cup {cur.leaf}
             /\ pc' = "next" /\ UNCHANGED errs
        ELSE GiveUp /\ UNCHANGED <<dir, touched, gone>>
  /\ UNCHANGED <<kind, age, ver, parts, stuck, chosen, ownVars, dry,
                 default, names, units, kept, stale, cur, outcome, start,
                 late>>

----------------------------------------------------------------------------
(***************************************************************************)
(* rustup, cargo and rustc.                                                *)
(***************************************************************************)
Act == acts > 0 /\ pc # "done" /\ acts' = acts - 1 /\ quiet' = FALSE
beavVars == <<pc, runVars, start, touched, gone>>

Begin ==
  /\ ~busy /\ Act /\ busy' = TRUE
  /\ UNCHANGED <<fsVars, late, beavVars>>

End ==
  /\ busy /\ busy' = FALSE
  /\ quiet' = FALSE
  /\ UNCHANGED <<fsVars, acts, late, beavVars>>

SetDefault(l) ==
  /\ busy /\ Act /\ dir[l] # None
  /\ chosen' = l
  /\ UNCHANGED <<dir, kind, age, ver, parts, stuck, busy, late, beavVars>>

\* An inode nobody uses; beav's descriptor keeps the one it has open.
Unused(i) ==
  /\ \A l \in Leaves : dir[l] # i
  /\ pc \in {"empty", "list", "rmdir"} => i # cur.ino

\* A new toolchain, perhaps under the name and the inode number of an old one.
Install(l, i) ==
  /\ busy /\ Act /\ dir[l] = None /\ Unused(i)
  /\ dir' = [dir EXCEPT ![l] = i]
  /\ kind' = [kind EXCEPT ![i] = "toolchain"]
  /\ age' = [age EXCEPT ![i] = "young"]
  /\ ver' = [ver EXCEPT ![i] = @ + 1]
  /\ parts' = [parts EXCEPT ![i] = Parts]
  /\ stuck' = stuck \ {i}
  /\ late' = IF (\E u \in units : u.ino = i) /\ ~(pc = "open" /\ i = cur.ino)
             THEN late \cup {i} ELSE late
  /\ UNCHANGED <<chosen, busy, beavVars>>

\* A component is replaced in place, below the top directory or in it.
Update(l) ==
  /\ busy /\ Act /\ dir[l] # None /\ kind[dir[l]] = "toolchain"
  /\ \/ /\ ver' = [ver EXCEPT ![dir[l]] = @ + 1]
        /\ age' = [age EXCEPT ![dir[l]] = "young"]
     \/ UNCHANGED <<ver, age>>
  /\ parts' = [parts EXCEPT ![dir[l]] = Parts]
  /\ UNCHANGED <<dir, kind, stuck, chosen, busy, late, beavVars>>

Uninstall(l) ==
  /\ busy /\ Act /\ dir[l] # None
  /\ dir' = [dir EXCEPT ![l] = None]
  /\ UNCHANGED <<kind, age, ver, parts, stuck, chosen, busy, late,
                 beavVars>>

----------------------------------------------------------------------------
BeavStep ==
  \/ ReadSettings \/ CheckOwner \/ ReadNames \/ StatUnit \/ Select
  \/ ListingFails \/ CompareUnit \/ Selected \/ Cancel \/ NextStale \/ Finish
  \/ Restat \/ OpenUnit \/ RemovePart \/ WalkFails \/ WalkEnds \/ ListUnit
  \/ RemoveUnit

OwnerStep ==
  \/ Begin \/ End
  \/ \E l \in Leaves : SetDefault(l) \/ Update(l) \/ Uninstall(l)
  \/ \E l \in Leaves, i \in Inodes : Install(l, i)

Next == BeavStep \/ OwnerStep

Spec == Init /\ [][Next]_vars

----------------------------------------------------------------------------
Units == [leaf : Leaves, ino : Inodes, ver : Nat, age : {"old", "young"}]

\* Every variable keeps its type; what is being emptied was old when it was
\* listed, and a dry run empties nothing.
TypeOK ==
  /\ dir \in [Leaves -> Inodes \cup {None}] /\ kind \in [Inodes -> Kinds]
  /\ age \in [Inodes -> {"old", "young"}] /\ ver \in [Inodes -> Nat]
  /\ parts \in [Inodes -> SUBSET Parts] /\ stuck \subseteq Inodes
  /\ chosen \in Leaves \cup {None} /\ default \in Leaves \cup {None}
  /\ busy \in BOOLEAN /\ dry \in BOOLEAN /\ acts \in Nat /\ errs \in Nat
  /\ pc \in {"settings", "check", "names", "stat", "select", "next", "restat",
             "open", "empty", "list", "rmdir", "done"}
  /\ names \subseteq Leaves /\ units \subseteq Units /\ kept \subseteq Leaves
  /\ stale \subseteq units /\ cur \in units \cup {NoUnit}
  /\ pc \in {"restat", "open", "empty", "list", "rmdir"} =>
       cur \in units /\ cur.age = "old"
  /\ pc \in {"empty", "list", "rmdir"} => ~dry
  /\ outcome \in {"", "skipped", "error", "cancelled", "finished"}
  /\ quiet \in BOOLEAN /\ late \subseteq Inodes /\ gone \subseteq Leaves
  /\ touched \subseteq Leaves \X Inodes

\* README 206: the newest member of each release line stays.  Whatever beav
\* has removed something of, it has seen a newer member of the same line and
\* left that alone.
NewestSurvives ==
  \A t \in touched :
    \E u \in units :
      /\ Family(u.leaf) = Family(t[1]) /\ Newer(u.leaf, t[1])
      /\ \A s \in touched : s[1] # u.leaf

\* The toolchain that was the default when beav read the settings is left
\* alone, under whatever inode.
DefaultAsRead == \A t \in touched : t[1] # default

\* What was installed after the listing, perhaps under the name and the inode
\* number of what was listed, is not emptied, unless it came between the last
\* look at the name and its opening.
NothingNew == [][\A t \in touched' \ touched : t[2] \notin late]_vars

----------------------------------------------------------------------------
(***************************************************************************)
(* What the README says should go, from the directory alone.               *)
(***************************************************************************)
Member(l) == start.dir[l] # None /\ kind[start.dir[l]] = "toolchain"

ShouldGo(l) ==
  /\ Member(l) /\ l \notin Keep \cup {start.chosen}
  /\ start.age[start.dir[l]] = "old" /\ start.dir[l] \notin stuck
  /\ \E m \in Leaves :
       /\ Member(m) /\ m # start.chosen
       /\ Family(m) = Family(l) /\ Newer(m, l)

\* Left alone, a run removes whole what should go, and leaves every other
\* toolchain whole unless it cannot be removed.
Pruned ==
  (quiet /\ outcome = "finished" /\ ~dry) =>
    /\ gone = {l \in Leaves : ShouldGo(l)}
    /\ \A l \in Leaves \ gone :
         dir[l] # None /\ parts[dir[l]] # Parts /\ kind[dir[l]] = "toolchain"
           => dir[l] \in stuck
=============================================================================
