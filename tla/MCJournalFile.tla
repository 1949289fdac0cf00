--------------------------- MODULE MCJournalFile ---------------------------
(***************************************************************************)
(* Instances of JournalFile for TLC.                                       *)
(***************************************************************************)
EXTENDS JournalFile, TLC

\* A behaviour is followed up to its first slip.
UpToSlip == slips = {}

Symmetry == Permutations(Keys) \cup Permutations(Root) \cup Permutations(Procs \ Root)
============================================================================
