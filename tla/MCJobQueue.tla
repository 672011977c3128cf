----------------------------- MODULE MCJobQueue -----------------------------
(* Instances of JobQueue for TLC.                                          *)
EXTENDS JobQueue

\* Two tasks with one retry each.
OneRetryEach == [j \in 1 .. 2 |-> 1]

\* The first task may be retried, the second one may not.
OneThenNone == [j \in 1 .. 2 |-> IF j = 1 THEN 1 ELSE 0]

\* A single task with two retries.
TwoRetries == [j \in 1 .. 1 |-> 2]
=============================================================================
