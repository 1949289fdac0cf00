--------------------------- MODULE UnitLifecycle ---------------------------
(***************************************************************************)
(* What the managed-cache executor promises about the cache units of one   *)
(* root, seen by somebody who only looks at the names in that root.        *)
(*                                                                         *)
(* A unit is visible under its own name, or hidden under a tombstone name, *)
(* or gone.  A visible unit is always whole: content is destroyed only     *)
(* after the unit has been hidden.  Only a unit that was past the age      *)
(* floor is ever destroyed.  A recent unit that is put in the way of a     *)
(* rename may be displaced to a tombstone name, and then it stays there    *)
(* untouched: nothing is ever restored and nothing recent is destroyed.    *)
(***************************************************************************)
CONSTANT Inodes

Lives == {"free", "fresh", "aged", "displaced", "hidden"}

VARIABLES
  life,     \* life[i]: what the name of inode i, if it has one, stands for
  whole     \* whole[i]: no part of unit i has been destroyed

vars == <<life, whole>>

TypeOK ==
  /\ life \in [Inodes -> Lives]
  /\ whole \in [Inodes -> BOOLEAN]

Init ==
  /\ life = [i \in Inodes |-> "free"]
  /\ whole = [i \in Inodes |-> TRUE]

Become(i, from, to) ==
  /\ life[i] \in from
  /\ life' = [life EXCEPT ![i] = to]

\* The owning tool writes a new unit; inode numbers are reused.
Create(i) ==
  /\ Become(i, {"free"}, "fresh")
  /\ whole' = [whole EXCEPT ![i] = TRUE]

\* The unit passes the age floor.
Ripen(i) == Become(i, {"fresh"}, "aged") /\ UNCHANGED whole

\* The owner removes or replaces its own unit.
Discard(i) == Become(i, {"fresh", "aged"}, "free") /\ UNCHANGED whole

\* The unit's name becomes a tombstone.
Hide(i) == Become(i, {"aged"}, "hidden") /\ UNCHANGED whole
Displace(i) == Become(i, {"fresh"}, "displaced") /\ UNCHANGED whole

\* A file inside a hidden unit is unlinked.
Shred(i) ==
  /\ life[i] = "hidden"
  /\ whole' = [whole EXCEPT ![i] = FALSE]
  /\ UNCHANGED life

\* The tombstone is unlinked.
Reclaim(i) == Become(i, {"hidden"}, "free") /\ UNCHANGED whole

Next ==
  \E i \in Inodes :
    \/ Create(i) \/ Ripen(i) \/ Discard(i)
    \/ Hide(i) \/ Displace(i) \/ Shred(i) \/ Reclaim(i)

Spec == Init /\ [][Next]_vars
============================================================================
