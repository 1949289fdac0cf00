---------------------------- MODULE EventStream ----------------------------
(***************************************************************************)
(* What a program that reads the JSONL events of one beav run relies on:   *)
(* everything between the start and the finish event of a cleaner belongs  *)
(* to that cleaner, its finish status says whether it emitted an error or  *)
(* never started work, and the summary comes last, after a whole run, and  *)
(* agrees with the finish events.                                          *)
(***************************************************************************)
EXTENDS Naturals, FiniteSets

CONSTANT Cleaners

Verdicts == {"ok", "skipped", "error"}

VARIABLES
  open,      \* cleaners started and not finished
  verdict,   \* verdict[c]: finish status of cleaner c, "none" before
  faulty,    \* cleaners that have emitted an error event
  worked,    \* cleaners that have emitted the result of some work
  totals     \* counts of the summary by status, {} before it

vars == <<open, verdict, faulty, worked, totals>>

Init ==
  /\ open = {} /\ verdict = [c \in Cleaners |-> "none"]
  /\ faulty = {} /\ worked = {} /\ totals = {}

Begin(c) ==
  /\ totals = {} /\ open = {} /\ verdict[c] = "none"
  /\ open' = {c}
  /\ UNCHANGED <<verdict, faulty, worked, totals>>

Report(c) ==
  /\ c \in open
  /\ worked' = worked \cup {c}
  /\ UNCHANGED <<open, verdict, faulty, totals>>

Fail(c) ==
  /\ c \in open
  /\ faulty' = faulty \cup {c}
  /\ UNCHANGED <<open, verdict, worked, totals>>

\* An error event may directly precede the finish event.
Finish(c, v) ==
  /\ c \in open
  /\ faulty' \in {faulty, faulty \cup {c}}
  /\ v = "error" <=> c \in faulty'
  /\ v = "skipped" => c \notin worked
  /\ open' = {}
  /\ verdict' = [verdict EXCEPT ![c] = v]
  /\ UNCHANGED <<worked, totals>>

\* A cleaner that is not authorised starts and finishes in one go.
Decline(c) ==
  /\ totals = {} /\ open = {} /\ verdict[c] = "none"
  /\ verdict' = [verdict EXCEPT ![c] = "skipped"]
  /\ UNCHANGED <<open, faulty, worked, totals>>

Tally(v) == Cardinality({c \in Cleaners : verdict[c] = v})

Summarise ==
  /\ totals = {} /\ open = {}
  /\ totals' = {<<v, Tally(v)>> : v \in Verdicts}
  /\ UNCHANGED <<open, verdict, faulty, worked>>

Next ==
  \/ \E c \in Cleaners : Begin(c) \/ Report(c) \/ Fail(c) \/ Decline(c)
  \/ \E c \in Cleaners, v \in Verdicts : Finish(c, v)
  \/ Summarise

Spec == Init /\ [][Next]_vars
============================================================================
