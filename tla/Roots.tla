-------------------------------- MODULE Roots --------------------------------
(***************************************************************************)
(* How the executors get from the path of a root to what they work on:     *)
(* OpenAnchoredDirFD, OpenAnchoredDirFDFromFD and OpenAnchoredFile of      *)
(* src/internal/cleaner/safety/fs.go, and what paths.go, debris.go,        *)
(* managed_cache.go, rustup.go and tool_security.go check around them.     *)
(*                                                                         *)
(* Between any two system calls others rename directories, put links in    *)
(* their place and mount file systems over them.                           *)
(*                                                                         *)
(* Abstractions.  A root is two names below the home, <<"p", "r">>, or     *)
(* one below "/", <<"n">>; the path of the home itself is taken to be      *)
(* stable.  A mount is a directory of its own (device and mount id tell    *)
(* the same).  Checks of the path string come before and are not modelled. *)
(***************************************************************************)
EXTENDS Naturals, Sequences, SequencesExt

CONSTANTS
  Dirs, Files, Links,   \* nodes of the file systems
  Home, Slash,          \* the target's home and "/", both directories
  Foreign,              \* roots of file systems that may be mounted
  None,
  Places,               \* <<directory, name>> pairs there may be an entry at
  Fs,                   \* Fs[x]: file system of the node x
  LinkTo,               \* LinkTo[l]: directory a link leads to
  Owner,                \* Owner[d]: uid that owns the node d
  Swaps,                \* Swaps[who]: pairs of places others may exchange while
                        \* the executor who is at work
  MountPoints,          \* directories others may mount over
  Modes                 \* nodes whose mode others may change

Callers == {"paths", "debris", "managed", "rustup", "tool"}
Nodes == Dirs \cup Files \cup Links
Paths == [from : Dirs, names : Seq(STRING)]

ASSUME RootsAssumption ==
  /\ Home \in Dirs /\ Slash \in Dirs /\ Foreign \subseteq Dirs \ {Home, Slash}
  /\ None \notin Nodes /\ Dirs \cap (Files \cup Links) = {} /\ Files \cap Links = {}
  /\ \A x \in Nodes, f \in Foreign : x = f => Fs[x] # Fs[Home]
  /\ LinkTo \in [Links -> Dirs] /\ Owner \in [Dirs \cup Files -> Nat]
  /\ \A x \in Places : x[1] \in Dirs
  /\ \A w \in Callers : Swaps[w] \subseteq Places \X Places
  /\ MountPoints \subseteq Dirs \ Foreign
  /\ Modes \subseteq Dirs \cup Files

VARIABLES
  entry,     \* entry[<<d, n>>]: node the name n of the directory d refers to
  over,      \* over[d]: root of the file system mounted on d, or None
  loose,     \* nodes that group or world may write
  acts,      \* how often others may still act
  who,       \* the executor
  root,      \* path of its root: [from |-> directory, names |-> sequence]
  uid,       \* uid of its target
  pc,        \* next system call
  stage,     \* what is being opened: "parent", "file", "rustup", "root"
  base,      \* directory the descent started in
  cur,       \* directory held
  rest,      \* names still to be opened
  seen,      \* node fstatat found
  sel,       \* state of the root when it was selected
  settings,  \* directory the settings were read from
  got,       \* directory or file the executor works on
  refused,   \* the opening ended without a root
  claimed,   \* history: directories that were ever below the base, or below
             \* one that was
  named,     \* history: nodes the whole path has referred to since the start
  within     \* history: nodes the directory of the settings has held since

fsVars == <<entry, over, loose>>
task == <<who, root, uid>>
descent == <<stage, base, cur, rest, seen>>
rootVars == <<pc, descent, sel, settings, got, refused>>
history == <<claimed, named, within>>

----------------------------------------------------------------------------
(***************************************************************************)
(* What the kernel does with names.                                        *)
(***************************************************************************)
\* A directory that is mounted over is not seen.
Lookup(d, n) ==
  LET c == IF <<d, n>> \in Places THEN entry[<<d, n>>] ELSE None
  IN IF c \in Dirs /\ over[c] # None THEN over[c] ELSE c

Step(d, n) ==
  LET at == IF d \in Links THEN LinkTo[d] ELSE d
  IN IF at \in Dirs THEN Lookup(at, n) ELSE None

\* A whole path: links on the way are followed, a link at its end is not.
Resolve(path) ==
  LET upTo[k \in 0..Len(path.names)] ==
        IF k = 0 THEN path.from ELSE Step(upTo[k - 1], path.names[k])
  IN upTo[Len(path.names)]

\* What the nodes S hold, with S, as nobody sees it but who has a descriptor.
Content(x) == {x} \cup {entry[y] : y \in {z \in Places : z[1] = x}}
                  \cup (IF x \in Dirs THEN {over[x]} ELSE {})
Below(S) == UNION {Content(x) : x \in S}

\* Everything in the directories D and below; no tree is deeper than this.
Reach(D) == Below(Below(Below(Below(Below(D))))) \ {None}

----------------------------------------------------------------------------
RootsInit(caller, path, target, tree) ==
  /\ entry = tree /\ over = [d \in Dirs |-> None] /\ loose = {}
  /\ who = caller /\ root = path /\ uid = target
  /\ base = path.from /\ cur = path.from /\ seen = None /\ sel = None
  /\ settings = None /\ got = None /\ refused = FALSE
  /\ IF caller \in {"debris", "tool"}
     THEN stage = "root" /\ rest = path.names
     ELSE stage = (IF caller = "rustup" THEN "rustup" ELSE "parent")
          /\ rest = <<Head(path.names)>>
  /\ pc = CASE caller = "debris" -> "select"    \* a tool is identified first
            [] caller = "tool" -> "identity"
            [] OTHER -> "stat"
  /\ claimed = Reach({path.from})
  /\ named = {Resolve(path)} /\ within = {}

\* How every opening ends: with nothing, or with what is worked on.
Refuse == pc' = "done" /\ refused' = TRUE /\ UNCHANGED <<descent, sel, settings, got>>
Accept(x) == pc' = "ready" /\ got' = x /\ UNCHANGED <<descent, sel, settings, refused>>

\* One directory after the other, from d.
Descend(what, d, names) ==
  /\ stage' = what /\ base' = d /\ cur' = d /\ rest' = names /\ seen' = None
  /\ pc' = "stat"

----------------------------------------------------------------------------
(***************************************************************************)
(* OpenAnchoredDirFD and OpenAnchoredDirFDFromFD, component by component.  *)
(***************************************************************************)
StatPart ==
  /\ pc = "stat"
  /\ LET c == Lookup(cur, Head(rest))
     IN IF c \in Links \cup {None} \/ Fs[c] # Fs[base]
        THEN Refuse
        ELSE /\ pc' = "mount" /\ seen' = c
             /\ UNCHANGED <<stage, base, cur, rest, sel, settings, got, refused>>

\* The name is looked up again for its mount; the kind is the one seen before.
MountPart ==
  /\ pc = "mount"
  /\ LET c == Lookup(cur, Head(rest))
     IN IF c = None \/ Fs[c] # Fs[base] \/ seen \notin Dirs
        THEN Refuse
        ELSE pc' = "open" /\ UNCHANGED <<descent, sel, settings, got, refused>>

\* Mutant: openat without O_NOFOLLOW.
OpenFollowing(d, n) == LET c == Lookup(d, n) IN IF c \in Links THEN LinkTo[c] ELSE c
OpenDirAt(d, n) == Lookup(d, n)

\* What each executor does with the directory it has reached.
AtEnd ==
  CASE stage = "parent" -> IF who = "paths" THEN "leaf" ELSE "select"
    [] stage = "file" -> "file"
    [] stage = "rustup" -> "settings"
    [] stage = "root" /\ who = "paths" -> "ready"
    [] stage = "root" /\ who = "debris" -> "compare"
    [] stage = "root" /\ who = "rustup" -> "check"
    [] stage = "root" /\ who = "tool" -> "owner"

\* The name is looked up a third time; the device is not compared any more.
OpenPart ==
  /\ pc = "open"
  /\ LET c == OpenDirAt(cur, Head(rest))
     IN IF c \notin Dirs
        THEN Refuse
        ELSE /\ cur' = c /\ rest' = Tail(rest) /\ seen' = None
             /\ pc' = IF Len(rest) > 1 THEN "stat" ELSE AtEnd
             /\ got' = IF pc' = "ready" THEN c ELSE got
             /\ UNCHANGED <<stage, base, sel, settings, refused>>

----------------------------------------------------------------------------
(***************************************************************************)
(* PathsExecutor.runRoot: the leaf decides, and the descent starts again.  *)
(***************************************************************************)
PathsLeaf ==
  /\ pc = "leaf"
  /\ LET c == Lookup(cur, root.names[2])
     IN IF c \in Links \cup {None}
        THEN Refuse
        ELSE /\ IF c \in Files
                THEN Descend("file", root.from, <<root.names[1]>>)
                ELSE Descend("root", root.from, root.names)
             /\ UNCHANGED <<sel, settings, got, refused>>

\* OpenAnchoredFile: the file is known by its state, not held.
PathsFile ==
  /\ pc = "file"
  /\ LET c == Lookup(cur, root.names[2])
     IN IF c = None
        THEN Refuse
        ELSE pc' = "filemount" /\ seen' = c
             /\ UNCHANGED <<stage, base, cur, rest, sel, settings, got, refused>>

PathsFileMount ==
  /\ pc = "filemount"
  /\ LET c == Lookup(cur, root.names[2])
     IN IF c = None \/ Fs[c] # Fs[cur] \/ seen \notin Files
        THEN Refuse
        ELSE Accept(seen)

----------------------------------------------------------------------------
(***************************************************************************)
(* openDebrisRoot and openManagedRoot: the root is selected, opened and    *)
(* compared.  debris selects by the whole path, managed in the parent it   *)
(* holds.                                                                  *)
(***************************************************************************)
Candidate == IF who = "debris" THEN Resolve(root) ELSE Lookup(cur, root.names[2])

Select ==
  /\ pc = "select"
  /\ IF Candidate = None
     THEN Refuse
     ELSE pc' = "selmount" /\ sel' = Candidate
          /\ UNCHANGED <<descent, settings, got, refused>>

\* What was selected has to be the target's, a directory and on its mount.
Suitable(c) == c \in Dirs /\ Owner[c] = uid /\ Fs[c] = Fs[root.from]

SelectMount ==
  /\ pc = "selmount"
  /\ IF Candidate = None \/ Fs[Candidate] # Fs[root.from] \/ ~Suitable(sel)
     THEN Refuse
     ELSE /\ IF who = "debris"
             THEN Descend("root", root.from, root.names)
             ELSE pc' = "openleaf" /\ UNCHANGED descent
          /\ UNCHANGED <<sel, settings, got, refused>>

ManagedOpen ==
  /\ pc = "openleaf"
  /\ LET c == OpenDirAt(cur, root.names[2])
     IN IF c \notin Dirs
        THEN Refuse
        ELSE /\ pc' = "compare" /\ cur' = c
             /\ UNCHANGED <<stage, base, rest, seen, sel, settings, got, refused>>

\* Mutant: owner, kind and mount are compared, the inode is not.
SameKind(d) == Owner[d] = Owner[sel] /\ Fs[d] = Fs[sel]
SameRoot(d) == d = sel

Compare ==
  /\ pc = "compare"
  /\ IF SameRoot(cur) THEN Accept(cur) ELSE Refuse

----------------------------------------------------------------------------
(***************************************************************************)
(* openRustupRoot: settings and toolchains come from one directory held.   *)
(***************************************************************************)
\* Mutant: the toolchains are opened from the home again.
FromHome == [dir |-> root.from, names |-> root.names]
FromSettings == [dir |-> cur, names |-> Tail(root.names)]

RustupSettings ==
  /\ pc = "settings"
  /\ settings' = cur
  /\ Descend("root", FromSettings.dir, FromSettings.names)
  /\ UNCHANGED <<sel, got, refused>>

RustupCheck ==
  /\ pc = "check"
  /\ IF Suitable(cur) THEN Accept(cur) ELSE Refuse

----------------------------------------------------------------------------
(***************************************************************************)
(* resolveCheckedRoots: the root is opened, closed and looked at again by  *)
(* its path.                                                               *)
(***************************************************************************)
\* device, inode, owner and mode
Snapshot(c) == [node |-> c, loose |-> c \in loose]

ToolOwner ==
  /\ pc = "owner"
  /\ IF Owner[cur] # uid
     THEN Refuse
     ELSE pc' = "snapshot" /\ sel' = Snapshot(cur)
          /\ UNCHANGED <<descent, settings, got, refused>>

\* A root of the system must not be writable for others.
Strict(c) == uid = 0 => c \notin loose

ToolSnapshot ==
  /\ pc = "snapshot"
  /\ LET c == Resolve(root)
     IN IF c \in Links \cup {None} \/ Snapshot(c) # sel \/ ~Strict(c)
        THEN Refuse
        ELSE Accept(c)

----------------------------------------------------------------------------
(***************************************************************************)
(* The others.                                                             *)
(***************************************************************************)
Act == acts > 0 /\ acts' = acts - 1 /\ UNCHANGED <<task, rootVars>>

\* The entries of two names change places; one of them may be empty.
Exchange(s, t) ==
  /\ Act /\ entry[s] # entry[t] /\ Fs[s[1]] = Fs[t[1]]
  /\ \A x \in {<<s, t>>, <<t, s>>} :
       entry[x[1]] \in Dirs => /\ over[entry[x[1]]] = None
                              /\ x[2][1] \notin Reach({entry[x[1]]})
  /\ entry' = [entry EXCEPT ![s] = entry[t], ![t] = entry[s]]
  /\ UNCHANGED <<over, loose>>

Mount(d, f) ==
  /\ Act /\ over[d] = None /\ \A e \in Dirs : over[e] # f
  /\ over' = [over EXCEPT ![d] = f]
  /\ UNCHANGED <<entry, loose>>

Unmount(d) ==
  /\ Act /\ over[d] # None
  /\ over' = [over EXCEPT ![d] = None]
  /\ UNCHANGED <<entry, loose>>

Chmod(x) ==
  /\ Act
  /\ loose' = IF x \in loose THEN loose \ {x} ELSE loose \cup {x}
  /\ UNCHANGED <<entry, over>>

RootsStep ==
  /\ \/ StatPart \/ MountPart \/ OpenPart
     \/ PathsLeaf \/ PathsFile \/ PathsFileMount
     \/ Select \/ SelectMount \/ ManagedOpen \/ Compare
     \/ RustupSettings \/ RustupCheck
     \/ ToolOwner \/ ToolSnapshot
  /\ UNCHANGED <<fsVars, acts, task>>

OthersStep ==
  \/ \E x \in Swaps[who] : Exchange(x[1], x[2])
  \/ \E d \in MountPoints, f \in Foreign : Mount(d, f)
  \/ \E d \in MountPoints : Unmount(d)
  \/ \E x \in Modes : Chmod(x)

\* Every step adds to the history.
Remember ==
  /\ IF UNCHANGED <<entry, over>>
     THEN UNCHANGED <<claimed, named>>
     ELSE /\ \E D \in {claimed} : claimed' = Reach(D)'
          /\ named' = named \cup {Resolve(root)'}
  /\ within' = IF settings' = None THEN within
               ELSE within \cup {Lookup(settings, x[2]) : x \in Places}'

----------------------------------------------------------------------------
Opened == got # None

\* README 90, 99: no link leads an executor elsewhere.  Whatever it works on
\* has been put into the tree it started in, or into a directory that was
\* taken out of it.
NoRedirect == Opened => got \in claimed

\* README 90, 99: the root is what the executor selected and checked.  debris
\* and tools work on what the whole path has referred to at one moment of the
\* opening; a cache of debris, managed units and toolchains is the target's
\* own and on the mount of its home; toolchains belong to the settings read.
AsSelected ==
  Opened =>
    /\ who \in {"debris", "tool"} => got \in named
    /\ who \in {"debris", "managed", "rustup"} => Suitable(got)
    /\ who = "managed" => got = sel
    /\ who = "rustup" => got \in within
=============================================================================
