------------------------------ MODULE ToolPrune ------------------------------
(***************************************************************************)
(* A tool that prunes its own cache: src/internal/cleaner/executor/        *)
(* tool_prune.go with tool_identity.go, tool_security.go and               *)
(* tool_capability.go.  The identity is settled, the root is opened        *)
(* (Roots), the tool's binary is looked for, both are looked at again, the *)
(* tool is asked what it can do, both are looked at once more, and the     *)
(* tool runs.                                                              *)
(*                                                                         *)
(* Abstractions.  A profile is the place of its root, whether it is one of *)
(* the system, and whether it knows a dry run.  What a run of a command    *)
(* does is CommandRunner; here it has an outcome.  The components of a     *)
(* system binary's path are looked at in one step.                         *)
(***************************************************************************)
EXTENDS Roots, Target

CONSTANTS
  Profiles,     \* [system, nativeDryRun, path]
  SearchPaths,  \* SearchPaths[system]: paths of candidates for the binary
  Executable,   \* files that may be executed
  Tasks         \* what may be asked for: [who, profile, situation, tree, dry, acts]

ASSUME ToolPruneAssumption ==
  /\ Executable \subseteq Files
  /\ \A p \in Profiles : /\ p.system \in BOOLEAN /\ p.nativeDryRun \in BOOLEAN
                         /\ p.path \in Paths /\ Len(p.path.names) \in 1..2
  /\ \A system \in BOOLEAN : SearchPaths[system] \in Seq(Paths)
  /\ \A t \in Tasks : /\ t.who \in Callers /\ t.acts \in Nat /\ t.dry \in BOOLEAN
                      /\ t.profile \in Profiles /\ t.situation \in Situations
                      /\ t.who # "tool" => Len(t.profile.path.names) = 2
                      /\ t.tree \in [Places -> Nodes \cup {None}]

VARIABLES
  situation,  \* what the program finds
  run,        \* scope, home and uid of the run
  profile,
  dry,        \* --dry-run
  identity,   \* identity of the tool
  tried,      \* candidates for the binary looked at
  binary,     \* path of the binary
  binState,   \* its snapshot; the one of the root is sel
  round,      \* 1 before the tool has been probed, 2 after it
  outcome,    \* why the cleaner ended
  again       \* history: what has been, since the probe, as it was checked

asked == <<situation, run, profile, dry>>
toolVars == <<identity, tried, binary, binState, round, outcome>>
vars == <<fsVars, acts, task, rootVars, history, asked, toolVars, again>>

NoPath == [from |-> Slash, names |-> <<>>]
NoState == [node |-> None, loose |-> FALSE]

TargetUid(t) ==
  LET scope == DetermineScope(t.situation)
  IN IF t.who = "tool" THEN IdentityFor(t.situation, scope, t.profile.system).uid
     ELSE scope.uid

Init ==
  \E t \in Tasks :
    /\ RootsInit(t.who, t.profile.path, TargetUid(t), t.tree)
    /\ acts = t.acts /\ situation = t.situation /\ profile = t.profile
    /\ run = DetermineScope(situation)
    /\ dry = t.dry /\ identity = NoIdentity
    /\ tried = 0 /\ binary = NoPath /\ binState = NoState
    /\ round = 1 /\ outcome = "" /\ again = {}

----------------------------------------------------------------------------
Finish(how) ==
  /\ pc' = "done" /\ outcome' = how
  /\ UNCHANGED <<identity, tried, binary, binState, round>>

\* The engine has selected the cleaner by the scope of the run.
Selected == run.scope \in {"all", IF profile.system THEN "system" ELSE "user"}

Identify ==
  /\ pc = "identity"
  /\ LET id == IdentityFor(situation, run, profile.system)
     IN IF ~Selected \/ id = NoIdentity
        THEN Finish("identity_unavailable")
        ELSE /\ identity' = id /\ pc' = "stat"
             /\ UNCHANGED <<tried, binary, binState, round, outcome>>

\* Mutant: a tool without a dry run is run for good.
UnsupportedNever == FALSE
Unsupported == dry /\ ~profile.nativeDryRun

\* The root is checked; it may be in use.
CheckBusy ==
  /\ pc = "ready" /\ who = "tool"
  /\ \/ Finish("cache_busy")
     \/ /\ Unsupported /\ Finish("dry_run_unsupported")
     \/ /\ ~Unsupported /\ pc' = "resolve"
        /\ UNCHANGED toolVars

----------------------------------------------------------------------------
Ancestry(path) ==
  {[from |-> path.from, names |-> SubSeq(path.names, 1, k)] : k \in 0..Len(path.names)}

\* validateTrustedPath: every component is root's and writable for nobody else.
Trusted(path) ==
  \A p \in Ancestry(path) :
    LET c == Resolve(p)
    IN /\ c \in (IF p = path THEN Dirs \cup Files ELSE Dirs)
       /\ Owner[c] = 0 /\ c \notin loose

TrustedIfSystem(path) == profile.system => Trusted(path)

\* resolveProfileBinaryWithTrust, one candidate at a time.
ResolveBinary ==
  /\ pc = "resolve"
  /\ IF tried = Len(SearchPaths[profile.system])
     THEN Finish("manager_not_installed")
     ELSE LET path == SearchPaths[profile.system][tried + 1]
          IN /\ IF Resolve(path) \in Executable /\ TrustedIfSystem(path)
                THEN pc' = "binary" /\ binary' = path /\ UNCHANGED tried
                ELSE pc' = pc /\ tried' = tried + 1 /\ UNCHANGED binary
             /\ UNCHANGED <<identity, binState, round, outcome>>

SnapshotBinary ==
  /\ pc = "binary"
  /\ LET c == Resolve(binary)
     IN IF c \in Links \cup {None} \/ ~TrustedIfSystem(binary)
        THEN Finish("manager_not_installed")
        ELSE /\ pc' = "validate root" /\ binState' = Snapshot(c)
             /\ UNCHANGED <<identity, tried, binary, round, outcome>>

----------------------------------------------------------------------------
(***************************************************************************)
(* validateToolState, before and after the probe.                          *)
(***************************************************************************)
Unchanged(path, state) == Snapshot(Resolve(path)) = state

ValidateRoot ==
  /\ pc = "validate root"
  /\ IF Unchanged(root, sel) /\ (profile.system => Owner[sel.node] = 0 /\ ~sel.loose)
     THEN pc' = "validate binary" /\ UNCHANGED toolVars
     ELSE Finish("safety_changed")

ValidateBinary ==
  /\ pc = "validate binary"
  /\ IF Unchanged(binary, binState) /\ TrustedIfSystem(binary)
     THEN pc' = (IF round = 1 THEN "probe" ELSE "command") /\ UNCHANGED toolVars
     ELSE Finish("safety_changed")

\* Mutant: the state is not validated again after the probe.
AfterProbeAtOnce == "command"
AfterProbe == "validate root"

\* The tool is asked for its version and what it can do; it may fail, be too
\* slow, or be something else.
Probe ==
  /\ pc = "probe"
  /\ \/ \E how \in {"capability_unsupported", "version_mismatch"} : Finish(how)
     \/ /\ pc' = AfterProbe /\ round' = 2
        /\ UNCHANGED <<identity, tried, binary, binState, outcome>>

Command ==
  /\ pc = "command"
  /\ \E how \in {"ok", "command_failed"} : Finish(how)

----------------------------------------------------------------------------
ToolStep ==
  /\ \/ Identify \/ CheckBusy \/ ResolveBinary \/ SnapshotBinary
     \/ ValidateRoot \/ ValidateBinary \/ Probe \/ Command
  /\ UNCHANGED <<fsVars, acts, task, descent, sel, settings, got, refused>>

RememberChecks ==
  again' = IF round' = 1 THEN {}
           ELSE again \cup (IF Unchanged(root, sel)' THEN {"root"} ELSE {})
                      \cup (IF Unchanged(binary, binState)' THEN {"binary"} ELSE {})

Next ==
  /\ \/ RootsStep /\ UNCHANGED toolVars
     \/ ToolStep
     \/ pc # "done" /\ OthersStep /\ UNCHANGED toolVars
  /\ UNCHANGED asked
  /\ Remember /\ RememberChecks

Spec == Init /\ [][Next]_vars

----------------------------------------------------------------------------
\* Every variable keeps its type; a root is either refused or opened, and a
\* dry run never runs a tool that knows none.
TypeOK ==
  /\ entry \in [Places -> Nodes \cup {None}]
  /\ over \in [Dirs -> Foreign \cup {None}] /\ loose \subseteq Nodes
  /\ acts \in Nat /\ who \in Callers /\ uid \in Nat
  /\ cur \in Dirs /\ base \in Dirs /\ seen \in Nodes \cup {None}
  /\ got \in Dirs \cup Files \cup {None} /\ settings \in Dirs \cup {None}
  /\ refused => got = None /\ pc = "done"
  /\ Len(rest) <= 2 /\ (pc \in {"stat", "mount", "open"} => rest # <<>>)
  /\ round \in 1..2 /\ tried \in 0..Len(SearchPaths[profile.system])
  /\ pc = "command" /\ dry => profile.nativeDryRun

\* The tool runs on what was checked: since it was probed, its root and its
\* binary have each been found, by path, as they were when they were checked.
StillAsChecked == pc = "command" => again = {"root", "binary"}

\* The user on whose behalf beav runs.
Invoker == IF situation.proc.uid # 0 THEN situation.proc.uid ELSE Sudo(situation).uid

\* README 94 (no hidden escalation; sudo cannot point at the wrong home).  A
\* tool runs with root's rights only as a profile of the system, started by
\* root, from a binary and on a root that only root can change.  Any other
\* runs as the invoking user, in a home and on a root of his own, and what root
\* starts for him keeps none of root's groups.
Privilege ==
  pc \in {"probe", "command"} =>
    LET rights == Rights(situation, identity)
    IN IF profile.system
       THEN /\ situation.proc.uid = 0 /\ rights.uid = 0
            /\ Owner[sel.node] = 0 /\ ~sel.loose
            /\ Owner[binState.node] = 0 /\ ~binState.loose
       ELSE /\ rights.uid = Invoker /\ rights.uid # 0
            /\ situation.homes[identity.home].owner = rights.uid
            /\ Owner[sel.node] = rights.uid
            /\ situation.proc.uid = 0 => 0 \notin {rights.gid} \cup rights.groups
=============================================================================
