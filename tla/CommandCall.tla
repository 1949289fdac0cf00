---------------------------- MODULE CommandCall ----------------------------
(***************************************************************************)
(* What a caller of RunCommand relies on: lines are handed to it only      *)
(* while the call is under way, the answer is given once, a success means  *)
(* every line was handed over, and when the call reports that it was cut   *)
(* short, nothing of the command's process group is left.                  *)
(***************************************************************************)
EXTENDS Naturals

CONSTANT Streams

Answers == {"ok", "exit", "drain", "timeout", "canceled", "setup"}

VARIABLES
  phase,     \* "ready", "running", "returned"
  answer,    \* what the call returned
  lines,     \* lines[s]: lines of stream s handed to the caller
  unread,    \* the command's output is not handed over completely
  group      \* some process of the command's group is alive

vars == <<phase, answer, lines, unread, group>>

Init ==
  /\ phase = "ready" /\ answer = "none"
  /\ lines = [s \in Streams |-> 0]
  /\ unread = FALSE /\ group = FALSE

Launch ==
  /\ phase = "ready"
  /\ phase' = "running" /\ group' = TRUE
  /\ UNCHANGED <<answer, lines, unread>>

Refuse(a) ==
  /\ phase = "ready" /\ a \in {"setup", "canceled"}
  /\ phase' = "returned" /\ answer' = a
  /\ UNCHANGED <<lines, unread, group>>

\* The command writes, forks, dies; lines are handed over.
Work ==
  /\ phase = "running"
  /\ UNCHANGED <<phase, answer>>
  /\ \E s \in Streams : lines' \in {lines, [lines EXCEPT ![s] = @ + 1]}
  /\ unread' \in BOOLEAN
  /\ group' \in BOOLEAN

Return(a) ==
  /\ phase = "running" /\ a \in Answers
  /\ a = "ok" => ~unread
  /\ a \in {"timeout", "canceled"} => ~group
  /\ phase' = "returned" /\ answer' = a
  /\ UNCHANGED <<lines, unread, group>>

\* Background processes the command leaves behind go on without its pipes.
Afterwards ==
  /\ phase = "returned"
  /\ group' \in BOOLEAN
  /\ answer \in {"timeout", "canceled"} => ~group'
  /\ UNCHANGED <<phase, answer, lines, unread>>

Next ==
  \/ Launch \/ Work \/ Afterwards
  \/ \E a \in Answers : Refuse(a) \/ Return(a)

Spec == Init /\ [][Next]_vars
============================================================================
