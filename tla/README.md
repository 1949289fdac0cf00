# Beav in TLA+

Beav is a Linux cleaner: `beav clean` selects cleaners from a registry and runs
them one after the other. A cleaner removes files by age, removes the units of a
tool's cache, or runs a tool's own prune command. What is hard about it is that it
deletes: other processes use the same files while it works, it can be interrupted
at any point, and a mistake cannot be undone.

This directory models the parts that delete, the parts that run other programs and
the engine around them. TLC checks small instances; TLAPS proves the safety properties of
seven of the components, and three refinements, for every instance.

## The system

| Component | State it keeps | Operations | Works with |
|---|---|---|---|
| command line (`cmd/beav`, `cli`) | signal context, flags, exit code | `clean`, `analyze`, `config`, ... | builds the engine, maps its result to 0, 3 or 4 |
| registry and configuration | merged list of cleaners | load, merge, validate | gives the engine its list |
| engine (`engine/engine.go`) | counters of the result, position in the list | `Run`: select, authorise, execute, aggregate, summarise | calls one executor per cleaner, passes its events on |
| executors (`executor/*.go`) | nothing between runs, except the managed cache | `Run(ctx, cleaner, dryRun, emit)` | walker, inspection, command runner |
| managed-cache executor and recovery journal | journal file in the state directory, tombstones in the cache | resume, select, rename, delete, complete | descriptor inspection, walker |
| command runner (`command.go`, `command_helper.go`) | one process group, two pipes, three goroutines | `RunCommand` | helper process, tool, callbacks of the executor |
| anchored walker (`safety/fs.go`) | descriptor, device and mount of the root | walk, unlink if unchanged, remove empty directory | paths, debris, managed-cache executors |
| safety gates (`safety/*.go`) | keep-list, blacklist | age plan, order, prefix checks | every deleting executor |
| inspection (`safety/procs.go`, `tool_busy.go`) | none | search of `/proc` by descriptor and by name | managed cache, debris, rustup |
| target and tools (`determineScope`, `sysinfo/user.go`, `tool_*.go`) | none | choice of home and user, identity of a tool, checks of its root and binary | command runner, walker |
| operation log, renderers | a file; a screen | write one event | receive the events of the engine |

The components share the file system and `/proc` with processes they do not control
(the tools that own the caches, the user, another beav), the context with the signal
handler, and the event stream with the goroutines that drain a command's pipes.

What has to hold, component by component:

- **managed cache**: nothing recent is ever destroyed; a unit in use is not touched;
  two beav processes never work on one unit; after a crash at any point, what was hidden
  is found again and finished, and nothing else is.
- **command runner**: a call returns in time; success means that all of the output was
  handed over; nothing of the command survives a cut; no callback after the return.
- **engine**: exit code, event stream and summary agree with each other and with what
  was executed; a signal is never mistaken for a complete run.
- **walker, gates, paths executor**: only what was seen, unchanged and old, goes; a
  deletion cannot be redirected by links; the plan and its order remove exactly what the
  rules allow.
- **inspection**: a holder is found, and beav does not stand in its own way.
- **registry and configuration**: a user's overlay cannot widen what a built-in cleaner
  deletes.
- **roots**: no link and no exchange of names leads an executor out of the tree it was given;
  what it works on is what it selected and checked.
- **target and tools**: a tool runs with the rights, in the home and on the root of one user
  on whom the process, sudo, the accounts and the homes agree, and on what was checked.
- **recovery journal**: a record whose append has returned is found again, whatever fails.
- **rustup**: the newest toolchain of every release line and the default stay.

The hazards, each at its line, are listed under `hazards` in `PROJECT.json` with the
properties that cover them.

## The modules

| Module | Models | Stands on |
|---|---|---|
| `UnitLifecycle` | what the managed cache promises about the units of a root (abstract) | |
| `ManagedCache` | `managed_cache.go`, `_atomic.go`: beav processes, users of the cache, crashes | `UnitLifecycle` |
| `ManagedCacheInv` | the inductive invariant | `ManagedCache` |
| `ManagedCacheProofs` | the proofs | `ManagedCacheInv` |
| `JournalFile` | `managed_cache_journal.go`: directories, file, load and append, power failures | |
| `CommandCall` | a call of the command runner as its caller sees it (abstract) | |
| `CommandRunner` | `RunCommand`, the helper, the goroutines, the command and its descendants | `CommandCall` |
| `EventStream` | what a reader of the JSONL events relies on (abstract) | |
| `Registry` | `registry/*.go`, `applyEffectiveConfig`: documents, overlays, configuration (operators) | |
| `Engine` | `main`, `runClean`, `Engine.Run`, the envelopes of all executors, their commands | `Registry`, `EventStream`, `CommandCall` |
| `Roots` | `OpenAnchoredDirFD`, `OpenAnchoredFile` and how five executors get to their root | |
| `Sweep` | `walkDir`, `AgePlan`, the loops of the paths and debris executors, `reopenLeaf`, both removals, the owner of the files | |
| `Rustup` | `rustup.go`: default, listing, choice and removal of toolchains, while rustup works | |
| `Target` | `determineScope`, `SudoUserResolver`, `identityFor`, the rights of a command (operators) | |
| `ToolPrune` | `tool_prune.go`, `tool_security.go`, `tool_capability.go` | `Roots`, `Target` |
| `ProcScan` | `openDescriptorsMatchForUID` with beav's own descriptor table | |
| `CommandRunnerProofs`, `EngineProofs`, `JournalFileProofs`, `ToolPruneProofs`, `SweepProofs`, `RustupProofs` | inductive invariant and proofs of each | the component |
| `SweptProofs` | paths, trees and the proof that a sweep does what the rules say | `SweepProofs` |

Modules named `MC...` hold the constants of the TLC runs.

Three compositions tie the parts together. `CommandRunner` is shown to implement
`CommandCall`, and `Engine` uses `CommandCall` for every command its executors run, so
what is checked of the engine rests on what is checked of the runner. `Engine` is
shown to implement `EventStream`. And `ToolPrune` runs the tool executor on top of the
steps of `Roots` and the operators of `Target`. `Roots` ends where `Sweep`,
`ManagedCache` and `Rustup` begin: with a root held.

### ManagedCache

One action per step of `processManagedCandidate` between two system calls that another
process could come between. `pc[p]` names the place: `open` (the unit's descriptor),
`scan` (first search of `/proc`), `append` (journal record, write-ahead), `restat`,
`recapture`, `rescan`, `rename`, `verify`, `delete`, `unlink`, `complete`; `resume` and
`select` are the two loops of `Run`. `names` is the directory, from names to inodes,
whose numbers are reused; `journal` is the set of whole lines of the file and `tail`
its end. A search of `/proc` removes one process after the other from `unscanned[p]`:
a process already passed may open the unit later. Users open, use, close, replace, fill
and remove units at any time. A crash forgets everything but the file system and the
journal. Processes may differ in their keep-lists (`Protected`) and in `--dry-run`
(`DryRun`); both only refuse work, so the runs leave them empty and the proofs cover them.

Abstractions: the unit's device, mount and owner are those of the root; a tombstone
name is chosen among unused ones; the two scans that precede the rename while nothing
is written are one; content is counted, not named (`parts`). `sticky` stands for content
the walker never removes (links, a `.git` tree): such a unit stays as a tombstone.
The executor is modelled given a search of `/proc` that answers; see *Findings* for
what the search does on a real system. A directory unit is judged by its own mtime, as in
the code; the README of beav (89) says that files are judged one by one, and a recent file
inside an old unit does go with it. For a unit that is a file the comparison of the second
capture is the one `Restat` stands for: a capture starts from the state the unit was opened in.

A new unit is recent, unless `Unpacked` lets the owner unpack one with an old time stamp.
`sudo` and `recovery` have such units; `one_user` and the theorems about the journal do not,
because `WriteAhead` fails with them (see *Limits*).

### JournalFile

The directories below the home are a chain of which `depth` exist and the entries `synced`
are on disk; the file is a sequence of pieces, the first `flushed` of which are. `Look`, `Mkdir`,
`Enter`, `Chown`, `SyncDir` are the turns of `openManagedDirTree`; `CreateJournal` to
`SyncEntry` are `openManagedJournal`; `Write`, `WriteRest`, `Fsync` are `append`. Any call
may fail, a write may be short, a process may be killed, and the power may fail: then
what had not been synced may be gone, in any combination the order of the syncs leaves.
Three slips of the code end what can be promised, and the run follows a behaviour up to
the first: a piece is appended in the middle of a line (`glued`, the finding), a directory is
passed that its maker has not synced (`passed`), and a process that fails to open the
journal it has just created unlinks it although another process is using it (`dropped`).

### CommandRunner

`RunCommand` with its loop and three goroutines, the helper, which becomes the command
or exits with 127, and descendants that may write, close pipes, fork, leave the group
(`Escape`; a fork into the background is `Fork` then `Escape`) or exit. A line too long
for `bufio.Scanner` ends the drain while the pipe stays open. Killing the group and
closing the pipes are one step, as the loop performs them in one case.

### Engine

`Load` is `runClean` up to `Engine.Run`: load, merge, apply the configuration, validate. It
is one step, since nothing outside takes part in it, and is put together from the operators
of `Registry`. A document there is a record; a field that may be absent is a set of at most
one value, a path is the place it lies in. `LoadFails` stands for whatever cannot be read
or parsed. Then the loop with its guards in the order of the code, `Kind` for the five ways an executor
treats the context and its errors, `Conclude` for the finish event. All eight executor
types are registered by `runClean`, so "no executor for type" is not a state the program
reaches. Which check made an executor skip is left out; that it may skip, reject, fail
or go on, and what it has emitted by then, is not.

### Roots

`entry` maps names in directories to nodes, `over` mounts to directories. `StatPart`,
`MountPart` and `OpenPart` are the three system calls `OpenAnchoredDirFD` makes for one
component; `stage` says what is being opened and `AtEnd` what the executor does then.
`paths` looks at the leaf and starts again; `debris` selects by the whole path, opens and
compares; `managed` does so in the parent it holds; `rustup` reads its settings in one
directory and goes on from there; tools open the root, look at its owner and look again by
path. Others exchange names, mount, unmount and change modes between any two calls.

Two things a reader may expect do not hold, and no property claims them. The device and the
mount are compared before the last `openat`, not after it: `paths` and tools then work on
what has been mounted over the root in that moment. And `paths` compares nothing
with what it saw at the leaf, so another directory of the tree may take the place of the one
it looked at.

### Target and ToolPrune

A *situation* is the process, its environment and flags, the accounts and the homes.
`DetermineScope` gives scope, home and uid of the run, `IdentityFor` the identity of a tool and
`Rights` what the command ends up with: an unprivileged beav keeps its own, root
takes on the identity in the helper. `Init` of `ToolPrune` takes a task, a situation with a profile and
a tree; `Identify`, the steps of `Roots`, `CheckBusy`, `ResolveBinary`, `SnapshotBinary`,
`ValidateRoot`, `ValidateBinary`, `Probe`, both validations again and `Command` follow the
code. A snapshot is device, inode, owner and mode: a binary overwritten in place keeps it.
An unprivileged user who has changed groups (`newgrp`) keeps them: the check of the current
groups (`ensureCurrentIdentity`) is reached in tests only.

### Rustup

One action per system call: settings, the only search for processes, names, one stat each,
the comparison of one unit with the one kept of its family (`CompareUnit`, a turn of the loop of
`selectStaleRustupToolchains`), and for every stale toolchain restat, openat, the walk part by part, the
listing and rmdir. A search that fails ends the run as skipped, a directory that cannot be read or
a name that cannot be looked at ends it with an error (`ListingFails`). Inode numbers are reused. rustup installs, updates, removes and chooses
toolchains at any time once a process of it has begun, which is after the search at the
earliest. Known and not claimed otherwise: a toolchain made the default after the settings were
read may be removed.

### Sweep

The file system is a set of inodes and of slots `<<directory, name>>`; a directory lies `Below`
the root if it is in every set of directories that holds the root and what its members contain. `WalkEntry`,
`WalkMount` and `WalkDescend` are fstatat, statx and openat of `walkDir`; `Reopen` is one
openat of `reopenLeaf`; `Recheck`, `ListDir`, `Unlink` are what follows. Between any two
the owner may write, create, link, delete or rename. `ver` stands for size and time
stamps together, so an owner that restores the mtime is still noticed, as it is by the
ctime in the code.

`Debris`, `Inspect` and `Resume` are the callback of the debris executor, which
considers, searches and removes during the walk instead of after it; there `OpenFile` and
`CloseFile` let others hold a candidate.

An entry on another mount, or one that vanishes between two calls, ends the walk of the
whole root, and `AgePlan` drops the error. The design (2026-04-26, line 254) says that only the
subtree is skipped. The model follows the code.

### ProcScan

Each `open` takes the lowest free number of beav's own table. `Init` chooses what the
tables hold and whether the caller excludes a descriptor of its own.

## Runs

| Run | Instance | Shows |
|---|---|---|
| `one_user` | 2 beav, 1 user of the cache, 1 fault, 2 creations, 3 inode numbers | exclusion, units in use, nothing fresh lost, write-ahead, `UnitLifecycle`, the invariant |
| `sudo` | one of the two is root, appends may be torn, new units may come with an old time stamp | what remains when inspection is one-sided |
| `recovery` | 1 beav, again and again, with fairness; new units may come with an old time stamp | hidden units are recovered, no unit is left for ever |
| `journal_file` | 2 processes of root and one of the user, 2 directories, 2 faults of any kind | confirmed records are found again, the journal stays readable |
| `torn_journal` | one process, short and failing writes | finding |
| `command` | leader and one descendant, two lines per stream, pipe of one line | output, cleanup, `CommandCall`, the call returns |
| `engine` | up to 6 cleaners of all kinds, 9 sets of files, 6 command lines | exit codes, signals, order of events, consent |
| `command_timeout` | the same | finding |
| `tools` | one home and its surroundings, 5 executors, 2 or 3 acts of others; 630 situations without any | no redirection, the root is the one selected, rights of tools |
| `sweep` | trees with 2 directories, 2 files and a link, debris profiles | only what was seen goes, no redirection, nothing held is removed, the plan agrees with the rules |
| `rustup` | 8 homes with up to 4 toolchains, up to 4 acts of rustup | the newest and the default stay, the rest goes, nothing new is touched |
| `own_descriptor` | beav and one other process, 3 descriptor numbers | finding |

Why the bounds are enough. Interference between beav processes is pairwise: each action of
`ManagedCache` names one process, and the properties speak of two. Two creations give a unit
and one that takes its name or its inode number; one fault gives a crash, a failed append or
a refused check between any two steps, and a second run after it. Two tombstones let two
records of one name coexist. Where a bound would matter, the proofs do without it: the
invariant is proved for any number of processes, units, creations and faults, and for
directory units, which only `recovery` has, in any number. In `journal_file` a second
process of root fails to sync what the first one made, and the user meets directories that
are root's; two faults let a failed cleanup meet a power failure. In `command` one
descendant is enough to keep a pipe open, to survive outside the group and to be forked at
the last moment; a pipe of one line and two lines make a writer block. Its payloads fit into
a pipe, see *Limits*. In `engine` two entries or commands let a signal come before, between
and after them; its files are the built-in documents alone, cleaners and overlays of the
user with overrides, and one set for each reason to refuse them, met by every command line.
In `tools` three exchanges suffice to move a directory away, put a link in its place and
undo it between two calls; situations with more than one account of a name or a number are
among those taken, and they do not interact with the file system, so they are run with
nobody else acting. In `sweep` the owner acts twice on the smallest tree and once on the
trees that need no more than one act to go wrong; trees whose point is the plan are swept
undisturbed; each act may fall between any two system calls. In `rustup` the four acts are a
process that begins, an uninstallation, an installation under the old inode number and one
more.

`CHECK_DEADLOCK FALSE` is set where a run of the program ends: a returned call, an ended
run of beav, a finished sweep, a finished search, keys or faults used up. In `sudo` a corrupt
journal stops every later run. In `one_user` and `recovery` TLC also checks for deadlock.

## Properties

- `Exclusive`, `UseBlocks`: the two halves of "open first, then look": without a lock,
  whoever opened first is seen by whoever looks last.
- `WriteAhead`: a hidden name always has a pending record, across crashes.
- `NoFreshLoss`: even if names and inode numbers are reused between the last check and
  the system call. The age floor is waived for a resumed record, so this rests on what the
  journal says about tombstones (`Settled`, `NotFresh` of the invariant).
- `Promise`: the executor implements `UnitLifecycle`: hide first, then destroy; nothing
  displaced by mistake is destroyed.
- `Recovered`, `Collected`: liveness, see below.
- `CompleteOutput`, `NothingLeftBehind`, `Returns`, `Contract`: the command runner.
- `Kept`, `LoadSucceeds`: what `append` has confirmed survives every failure that comes
  before the first slip, and so does the readability of the file.
- `NoRedirect`, `AsSelected`: what an executor works on was in its tree, or below what was
  taken out of it; it is what the whole path meant at one moment (debris, tools), the
  selected inode (managed), or in the directory the settings were read from (rustup).
- `StillAsChecked`: root and binary have each been found as they were checked after the
  probe, which gives others seconds.
- `Privilege`: identity, home, root, binary and rights belong together (README 94).
- `NewestSurvives`, `DefaultAsRead`, `Pruned`, `NothingNew`: `Pruned` compares an undisturbed
  run with what beav's README says should go, stated over the directory alone.
- `ExitCodes`, `Interrupted`, `EventOrder`: the engine.
- `Consent`, `Guarded`: what the documents, overlays, overrides and flags add up to, at the
  point where an executor is called: nothing heavy unasked, nothing outside its scope, no
  age given on the command line undercut. `Consent` is stated over the documents, not over
  the merged cleaner, whose impact an overlay must not lower.
- `OnlyAsSeen`, `Confined`, `NotInUse`, `Swept`: the sweep. `OnlyAsSeen` leaves out exactly the
  window the design concedes, from the last look at a name to the system call. `Confined`
  leaves out more: what the owner does from the moment `reopenLeaf` has opened the first
  directory on the way, because a directory that is open can be moved out of the root.
  `Swept` compares the plan with the rules of the design stated over the whole tree, for
  trees without mounts: with one, the code ends the walk where the design (line 254) says
  that only the subtree is passed over.

## Fairness

`recovery` assumes that beav is run again and again, that a run that has been started
goes on (weak fairness of `Start` and of the steps of a process) and that a user of the
cache eventually closes what it has open. Crashes are bounded, users are otherwise free.
`Collected` is checked for one beav process: two of them can
find each other's descriptor in every run and skip the unit for ever, which no fairness of
the scheduler prevents.

`command` assumes that goroutines are scheduled, that time passes and that the kernel
reports a dead child. Nothing is assumed of the command or its descendants, which may keep
the pipes open for ever; `Returns` therefore rests on the timeout, the kill and the closed
pipes.

## Proofs

| Module | Theorem | For every instance |
|---|---|---|
| `ManagedCacheProofs` | `TypeCorrect`, `Exclusion`, `UseRespected` | `TypeOK`, `Exclusive`, `UseBlocks` |
| | `IndAlways`, `WriteAheadHolds`, `NoFreshLossHolds` | `IndInv`, `WriteAhead`, `NoFreshLoss` |
| | `PromiseKept` | `ManagedCache` implements `UnitLifecycle` |
| `JournalFileProofs` | `TypeCorrect`, `Loads`, `ConfirmedIsKept` | `TypeOK`, `LoadSucceeds`, `Kept` |
| `CommandRunnerProofs` | `TypeCorrect`, `OutputComplete`, `NothingLeft` | `TypeOK`, `CompleteOutput`, `NothingLeftBehind` |
| | `ContractKept` | `CommandRunner` implements `CommandCall` |
| `EngineProofs` | `TypeCorrect`, `ExitCodesTell`, `InterruptedEnds`, `CalledAreGuarded`, `CalledByConsent` | `TypeOK`, `ExitCodes`, `Interrupted`, `Guarded`, `Consent` |
| | `EventsInOrder` | `Engine` implements `EventStream` |
| `ToolPruneProofs` | `TypeCorrect`, `NeverRedirected`, `WorksOnTheSelected` | `TypeOK`, `NoRedirect`, `AsSelected` |
| | `CheckedAfterProbe`, `NoEscalation` | `StillAsChecked`, `Privilege` |
| `SweepProofs` | `TypeCorrect`, `OnlySeenIsLost`, `StaysBelowRoot`, `OpenFilesStay` | `TypeOK`, `OnlyAsSeen`, `Confined`, `NotInUse` |
| `SweptProofs` | `RemovesWhatShouldGo` | `Swept` |
| `RustupProofs` | `TypeCorrect`, `DefaultStays`, `NewestStays`, `NothingNewTaken`, `PrunedAsPromised` | `TypeOK`, `DefaultAsRead`, `NewestSurvives`, `NothingNew`, `Pruned` |

Each proof is laid out alike: the parts of an inductive invariant `IndInv`, each checked by TLC
on the component's run first; a lemma per part (or per action) that every step keeps it; the
properties as consequences.

What is assumed. Apart from the last four of `ManagedCacheProofs`, nothing but the named assumption of each
module about its constants: that different kinds of things (names, inodes, directories, files)
are different, that the trees and homes a run starts from are trees and homes, that a depth or
a capacity is a number. Two say more. `RustupAssumption` wants a toolchain to consist of
something and no directory to have two names, as on any file system. `SweepAssumption` wants
finitely many directories, so that links can be counted, a keep-list of paths, and likewise no
directory with two names in a tree a run starts from. `IndAlways`, `WriteAheadHolds`,
`NoFreshLossHolds` and `PromiseKept` assume `Cooperative`: processes of beav inspect each
other, which they do when they run as the same user, appends are whole, and new units are
recent. The first two are needed: `torn_journal` shows a corrupt journal, and with
one-sided inspection one process may complete a record another still works on. The third
part of `Cooperative`, units that are recent when they are created, is what lets a stale
record do no harm; see *Limits* for what happens without it.

### The managed cache

`Exclusive` is not inductive. `Apart` is: of two processes that hold the same
unit, one has not yet looked at the other. It holds because the descriptor is opened before
the search begins and kept to the end. `Watched` is the same for users, who only count if
they were there first. For the journal, `Recorded` says that whatever a process knows of a
record is in the file, and that a tombstone has a pending record; `Settled` that a
completed tombstone name is gone for good and that a process still holding the record, read
before it was completed, can only meet a young unit under that inode number; `TombHeld` that
from `verify` on the tombstone holds what was opened; `NotFresh` that nothing recent is
about to be renamed or recorded.

### The journal file

`Kept` speaks of a record that has been confirmed and of the file as it is now, perhaps after
a power failure. `Durable` is why it holds: up to the first slip all processes have the same
file open, its directories are synced down to where each process stands, its entry is on disk
before anyone reads it, and the confirmed records lie in the flushed part. That needs
`Builders` (a directory under construction has one builder, the only one that may remove
it), `Forward` (a key is begun once and completed after it was begun, so no line takes back
an earlier one) and `Unglued` (halves of lines alternate, and who still has half a line to
write wrote the other half last), which is also why the journal can be loaded.

The proof found a mistake in an earlier form of the model: a process whose directory had been
removed by its maker's cleanup could still open a journal created under the same path
later, although the call is relative to the descriptor it holds.

### The command runner

`CompleteOutput` speaks of the state after the return. It holds because of what the goroutines
knew when they reported (`DrainsKnow`: the end of a stream was seen, so nobody held it;
`WaitKnows`: the leader was reaped) and because nothing a process does later undoes it
(`NoneHolds`: who has no write end passes none on; `KillLasts`: after the kill nobody of the
group is left to fork). `ContractKept` maps every step to one of `CommandCall` or a stutter:
the call is "ready" until the helper is launched, and its lines are those delivered.

### The engine

The properties speak of all cleaners, the loop knows one. `Ordered` says that the cleaners
ahead of the loop are untouched and those behind it settled; `Counted` that the counters count
exactly those; `Current` what has been emitted for the one at hand in each place; `CutHere`
that a cleaner that gave up work is the one the loop stands at, until the run ends with 4.
`Guarded` follows from `RegistryKnown`, which `Load` establishes: what `applyEffectiveConfig`
leaves selected is allowed by scope, flags and ages. For `EventStream` the totals of the
summary must equal what a reader has counted, which is `Counted` at the end of the loop.

`Consent` is about the documents, from which `MergeByID` makes the registry with two
folds. `Merged` says what the fold has yielded after k documents: every cleaner has the kind
and impact of the last built-in document of its id or, without any, of the first of the user's,
it has only tags of documents of its id, and no document is lost. `MergeByIDFact` proves it for all
lists, by induction: the theorems of the library for that take the property as an
operator, which the provers cannot instantiate, so here it is a set, and the smallest number
outside it (`Smallest`, `UpTo`) has a predecessor in it. `FoldExists` gives the prefixes of a fold.
`Documented` then holds of the registry of a loaded run, and nothing after `Load` changes it.

### Roots and tools

`NoRedirect` needs to look ahead: `Descent` says that the directory held is as far from its
anchor as names have been opened, and that whatever one or two more names lead to is claimed
already; others can only put things where they are then claimed too. `Chosen` and
`BesideSettings` relate what was selected to what the next checks compare with. For tools,
`Settled` says which facts about root and binary hold from which check on, and `Rechecked` which
were seen again since the probe. `Privilege` then follows from the operators of `Target` and
the lemmas about them: `IdentityFor` names the invoking user, or root for a profile of the system
only.

### The sweep

`OnlyAsSeen` is about a removal, after walks, plans and reopenings that took many steps. `AsFound`
holds of every entry beav carries with it: a file that still has the version it was seen
with is still as it was seen. Steps of the owner keep it because each is `Steady`: a file
stays as it is or gets a larger version. `Aimed` says that at the unlink the name still holds
that very version unless the owner has acted since `Recheck`; `Searched` that the candidate is
not among the files open since the search; `Anchored` that the directory held lies below the root until
the owner acts after it was opened, one `openat` after the other.

`Swept` is about a whole run: what is gone at its end is what the rules name in the tree as it
was. Nothing in the rules mentions a walk, a list or a plan, so the invariant, `Calm`, has to
say at every moment of an undisturbed run how far it has come. `Finished` tells of each path
whether beav is through with it: no longer to be handed over (debris), or neither planned nor at
hand (paths). `World` says that the file system is the tree at the beginning without
`Gone`, what should go and is finished. The rest is why that stays true:

- `FramedIn`, `ChainIn`: the stack of the walk is a path from the root through directories
  free of `.git`, and `PendingIn` is what it will still come to. Consuming a name, entering and
  leaving a directory change that by exactly what is below the name, nothing and the directory
  (`AfterConsumed`, `AfterEntered`, `AfterLeft`). Hence `Listing`: at the end the list is every
  file and directory that is not in a work tree.
- `Planned`: what has left the plan is no less deep than what is in it. A parent is therefore
  in its place when its content is removed (`ReopenCalm`), and when it is looked into
  itself, all in it that should go is gone: it is empty if and only if the rules say that it
  should go (`EmptyIfGoes`).
- a file beav comes to is as the walk saw it, its links counted (`FileAsSeen`): none of the
  others is gone, as what goes has one link (`OneLink`).

The rules quantify over paths and so does the walk, one name at a time. The bridge is a set of
lemmas about `At`: a recursion along the path (`AtStep`) has a solution (`WayExists`); a path
that leads somewhere leads through directories (`OnTheWay`), a directory has one path
(`OnePath`), an entry one slot (`OneHome`), and so no path to anything is longer than there are
directories, which makes the bound in `Paths` no restriction (`Shallow`). All inductions
are by `UpTo`, as in the engine.

### rustup

`Tournament` is the invariant of the selection: whatever has been compared is the one kept of
its family or older than it. It rests on `Newer` being a strict total order, which is proved
for dates, versions and names, whatever the set of names (`BelowTransitive`,
`BelowTotal`). `Judged` carries it to the removals: what goes has a newer one, kept, in its
family. `Fresh` says that an inode given to a new toolchain is young and does not pass
for the old one, which is why `NothingNew` holds. `Undisturbed` says of a run that rustup
leaves alone that its list is that of the toolchains there were and that each one beaten
waits, is being removed or is gone.

### What is only model-checked

- everything temporal (`Recovered`, `Collected`, `Returns`): the prover handles neither
  fairness nor ENABLED;
- the findings, which are counterexamples.

## Findings

Each is a run that expects a violation and shows the shortest way to it.

1. `torn_journal`: the torn last line of the journal is ignored on reading and appended to on
   writing. The glued line makes the journal unreadable for every later run.
2. `command_timeout`: the timeout of one tool's command is taken for the end of the run; later
   cleaners do not run and there is no summary.
3. `own_descriptor`: the search of `/proc` lists the descriptor it lists with, which is
   closed when it is looked at, and fails. Every candidate that is not in use is skipped as
   `proc_inspection_failed`. The tests use a made-up `/proc`, which has no such entry.

### Limits

Seen while modelling, without a run of their own:

- the payload for the helper holds the whole environment and is written to a pipe before the
  helper is started (`command.go:152`). One larger than the pipe blocks `RunCommand` before its
  timeout is looked at; `CommandRunner` with `Payloads = {"fits", "exceeds"}` violates
  `Returns`;
- a process goes by the records it loaded when it started. If another one completes such a
  record, and the owner then unpacks a unit with an old time stamp under the same name, which
  gets the same inode number, the first process renames it to the tombstone of the finished
  record (`managed_cache.go:543`, `462`); killed before it has deleted everything, it leaves
  a hidden unit that no pending record covers and no later run visits. `one_user` with
  `Unpacked = TRUE` violates `WriteAhead` in this way;
- the age of a directory unit is its own mtime (see *ManagedCache*);
- the default toolchain may change during a run (see *Rustup*);
- a mount or a vanishing entry ends the walk of a whole root (see *Sweep*);
- a failed question to a container runtime counts as "not rootless" and "not busy"
  (`container.go:161`, `181`), where beav's README (103) says that system cleaners refuse a
  rootless daemon;
- the statistics of resumed units are dropped when the enumeration fails
  (`managed_cache.go:222`);
- a failed rotation of the operation log is repeated by every later write (`oplog.go:83`).

## Not modelled

- the blacklist, bounds and glob patterns: predicates on path strings without state.
- several roots of one cleaner: they are swept one after the other, each as in `Sweep`.
- the decoding of YAML, and negative ages of the configuration, which `EffectiveAge` passes on
  as the code does but no property judges.
- what a container runtime answers: preconditions of the engine's cleaners.
- the table of tool profiles, the matching of a probe's output, lock markers of tools.
- the operation log: nothing reads it back.
- renderers, `analyze`, `config`, `version`, os-release, the embedded YAML: formatting and
  reads without state.
- power failure, except in `JournalFile`: elsewhere a completed system call is taken to last.

## Plan

The components are modelled, and every safety property a run checks is proved. What is left:

1. `JournalFile` against `ManagedCache`: the journal as a set of records with a tail is an
   abstraction of the file, stated so far by the properties of both and not as a refinement. The
   two do not map onto one another as they stand: `ManagedCache` appends a line in one step and
   has no power failure, while the file has half-written lines that their writer still finishes,
   and loses unconfirmed records with the power. A common abstract journal would need a record
   that is written and not yet confirmed; `Kept` is what both sides then agree on.
