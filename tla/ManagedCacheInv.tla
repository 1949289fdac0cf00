-------------------------- MODULE ManagedCacheInv --------------------------
(***************************************************************************)
(* The inductive invariant behind the safety properties of ManagedCache,   *)
(* for processes that all inspect each other, a journal whose appends are  *)
(* not torn and units that are recent when they are created.  TLC checks   *)
(* it on small instances; ManagedCacheProofs proves it for every instance. *)
(***************************************************************************)
EXTENDS ManagedCache

Working == Holding \cup {"open"}

\* Every process of beav can look into every other one.
MutuallyVisible == \A p, q \in Procs : p # q => q \in Visible(p)

Cooperative ==
  MutuallyVisible /\ TornAppends = FALSE /\ Unpacked = FALSE

\* A candidate has the names and the inode its control point relies on.
Shape(p) ==
  /\ pc[p] \in Working =>
       /\ unit[p].leaf \in Leaves /\ unit[p].ino \in Inodes
       /\ pc[p] \notin {"open", "scan", "append"} => unit[p].tomb \in Tombs
       /\ unit[p].renamed => unit[p].tomb \in Tombs
       /\ unit[p].resumed => unit[p].tomb \in Tombs
       /\ ~unit[p].resumed => recs[p] = {}
  /\ pc[p] \notin Working => unit[p] = NoUnit
  /\ pc[p] = "append" => ~unit[p].resumed /\ unit[p].tomb = None
  /\ pc[p] \in {"idle", "select"} => recs[p] = {}
  /\ pc[p] \in {"append", "restat", "recapture"} \cup Cleared
       => unscanned[p] = {}
  /\ pc[p] \in {"restat", "recapture", "rescan", "rename"}
       => ~unit[p].renamed

UnitShape == \A p \in Procs : Shape(p)

\* With the unit open, p's first scan has been past q.
PassedOnce(p, q) ==
  pc[p] \in Holding /\ (pc[p] = "scan" => q \notin unscanned[p])

\* Of two processes that hold the same unit, one has still to find the other.
Apart ==
  \A p, q \in Procs :
    (/\ p # q /\ q \in Visible(p) /\ p \in Visible(q)
     /\ pc[p] \in Holding /\ pc[q] \in Holding /\ unit[p].ino = unit[q].ino)
      => ~(PassedOnce(p, q) /\ PassedOnce(q, p))

\* Users that p's scan has passed do not watch over p's unit.
Watched ==
  \A p \in Procs :
    /\ pc[p] \in Holding =>
         /\ \A u \in watch[p] : uopen[u] = unit[p].ino
         /\ \A u \in watch[p] \cap Visible(p) :
              pc[p] = "scan" /\ u \in unscanned[p]
    /\ pc[p] \notin Holding => watch[p] = {}

\* No inode has two names.
OneName ==
  \A m, n \in Names : names[m] # None /\ names[m] = names[n] => m = n

\* What a process knows of a record is in the journal.
Recorded ==
  /\ tail = "clean"
  /\ \A p \in Procs :
       /\ recs[p] \subseteq {r \in journal : ~r.complete}
       /\ unit[p].tomb # None => RecordOf(p, unit[p].tomb, FALSE) \in journal
  /\ \A r, s \in journal : r.tomb = s.tomb => r.leaf = s.leaf /\ r.ino = s.ino
  /\ \A t \in Tombs :
       names[t] # None => \E r \in journal : r.tomb = t /\ ~r.complete

\* A tombstone whose record is complete is gone for good.  A process that
\* still knows the record can only meet a young unit under its inode number,
\* and has not yet come to the point where it would rename it.
Settled ==
  \A r \in journal :
    r.complete =>
      /\ names[r.tomb] = None
      /\ \A p \in Procs :
           /\ unit[p].tomb = r.tomb =>
                /\ pc[p] \in {"open", "scan", "restat", "verify"}
                /\ Linked(r.ino) => Young(age[r.ino])
           /\ \A s \in recs[p] :
                s.tomb = r.tomb /\ Linked(r.ino) => Young(age[r.ino])

\* From Verify to the end the tombstone holds the unit, then nothing.
HoldsTomb(p) ==
  /\ pc[p] \in {"delete", "unlink"} => names[unit[p].tomb] = unit[p].ino
  /\ pc[p] = "complete" =>
       names[unit[p].tomb] = None /\ ~Linked(unit[p].ino)

TombHeld == \A p \in Procs : HoldsTomb(p)

\* Neither a unit about to be renamed or deleted nor a recorded tombstone
\* holds a unit that has never been past the age floor.
FoundOld(p) ==
  (pc[p] \in {"recapture", "rescan"} \cup Cleared
    \/ (pc[p] = "scan" /\ unit[p].renamed))
    => age[unit[p].ino] # "fresh"

NotFresh ==
  /\ \A p \in Procs : FoundOld(p)
  /\ \A r \in journal : names[r.tomb] = r.ino => age[r.ino] # "fresh"

\* What holds whoever can inspect whom, and whatever an append leaves behind.
HeldInv == TypeOK /\ UnitShape /\ Apart /\ Watched

IndInv ==
  HeldInv /\ OneName /\ Recorded /\ Settled /\ TombHeld /\ NotFresh
============================================================================
