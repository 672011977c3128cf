----------------------------- MODULE JobService -----------------------------
(***************************************************************************)
(* What the task queue promises to those who submit a task, without rows,  *)
(* channel, loader or worker: a submitted task may be attempted any number *)
(* of times; once it was served it stays served; it is given up only after *)
(* its whole budget of attempts failed, and may even then be taken up      *)
(* again.  JobQueue implements this, with any faults and any restarts.     *)
(***************************************************************************)
EXTENDS Naturals

CONSTANTS
  Tasks,   \* the tasks
  Tries    \* how many failed attempts a task is granted, a number for each

VARIABLES
  outcome,  \* what the submitter may be told about a task
  failed    \* failed attempts, counted up to the grant

vars == <<outcome, failed>>

Outcomes == {"unknown", "accepted", "served", "givenUp"}

Init ==
  /\ outcome = [t \in Tasks |-> "unknown"]
  /\ failed = [t \in Tasks |-> 0]

Move(t, from, to) ==
  /\ outcome[t] = from
  /\ outcome' = [outcome EXCEPT ![t] = to]
  /\ UNCHANGED failed

Accept(t) == Move(t, "unknown", "accepted")
Serve(t)  == Move(t, "accepted", "served")
GiveUp(t) == failed[t] = Tries[t] /\ Move(t, "accepted", "givenUp")
Resume(t) == Move(t, "givenUp", "accepted")

\* An attempt fails; a task that was served already may be attempted too.
Fail(t) ==
  /\ outcome[t] \in {"accepted", "served"}
  /\ failed[t] < Tries[t]
  /\ failed' = [failed EXCEPT ![t] = @ + 1]
  /\ UNCHANGED outcome

Next == \E t \in Tasks : Accept(t) \/ Serve(t) \/ GiveUp(t) \/ Resume(t) \/ Fail(t)

Spec == Init /\ [][Next]_vars
=============================================================================
