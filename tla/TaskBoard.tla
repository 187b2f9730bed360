------------------------------ MODULE TaskBoard ------------------------------
(***************************************************************************)
(* What the thread pool of clagent (src/src/ca_threadpool.c) promises to   *)
(* those who hand it tasks, whatever its threads, counters and condition   *)
(* variables do: a task that was accepted is run at most once, by one      *)
(* thread, the most urgent first, or is dropped before it was started.     *)
(***************************************************************************)
EXTENDS Integers

CONSTANTS Tasks,        \* the tasks
          Priority      \* the priority of each; the smallest goes first

VARIABLE status         \* where each task stands

Statuses == {"new", "waiting", "running", "done", "dropped"}

Waiting == {k \in Tasks : status[k] = "waiting"}

BoardInit == status = [k \in Tasks |-> "new"]

Moves(k, from, to) == /\ status[k] = from
                      /\ status' = [status EXCEPT ![k] = to]

Start(k) == /\ \A j \in Waiting : Priority[k] <= Priority[j]
            /\ Moves(k, "waiting", "running")

\* All tasks that wait are dropped at once.
Drop == status' = [k \in Tasks |-> IF k \in Waiting THEN "dropped" ELSE status[k]]

BoardNext == \/ \E k \in Tasks : \/ Moves(k, "new", "waiting")
                                 \/ Start(k)
                                 \/ Moves(k, "running", "done")
             \/ Drop

BoardSpec == BoardInit /\ [][BoardNext]_status
=============================================================================
