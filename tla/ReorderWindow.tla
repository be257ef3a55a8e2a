--------------------------- MODULE ReorderWindow ---------------------------
(***************************************************************************)
(* What the completion coordinator promises its callers: terminal results  *)
(* of numbered jobs are recorded in any order inside a window of Capacity  *)
(* jobs and handed out one by one in job order.  A result outside the      *)
(* window is refused, and nobody offers it again.                          *)
(***************************************************************************)
EXTENDS Naturals

CONSTANTS
  Capacity,
  Jobs,        \* the job numbers
  FirstJobs    \* the job numbers an epoch may start from

VARIABLES
  next,       \* the job whose result is handed out next
  recorded    \* jobs whose result is in the window

windowVars == <<next, recorded>>

InWindow(job) == job >= next /\ job < next + Capacity

Start(first) ==
  /\ next = first
  /\ recorded = {}

Record(job) ==
  /\ InWindow(job)
  /\ job \notin recorded
  /\ recorded' = recorded \union {job}
  /\ UNCHANGED next

Deliver ==
  /\ next \in recorded
  /\ recorded' = recorded \ {next}
  /\ next' = next + 1

\* A new epoch: every result of the old one is forgotten.
Restart(first) ==
  /\ next' = first
  /\ recorded' = {}

Init == \E first \in FirstJobs : Start(first)

Next ==
  \/ \E job \in Jobs : Record(job)
  \/ Deliver
  \/ \E first \in FirstJobs : Restart(first)

Spec == Init /\ [][Next]_windowVars
=============================================================================
