------------------------------ MODULE TaskLifecycle ------------------------------
(***************************************************************************)
(* What the background task queue promises a client that polls              *)
(* get_task_status: each task id lives one life (accepted, run or           *)
(* cancelled, finished, forgotten), at most MaxConcurrent tasks run, and    *)
(* tasks start in the order in which they were accepted.                    *)
(* TaskQueue is shown to implement it.                                      *)
(***************************************************************************)
EXTENDS Integers, FiniteSets

CONSTANTS
  NumTasks,       \* bound: how many tasks are ever accepted, 1..NumTasks in this order
  MaxConcurrent   \* how many may run at once

Tasks == 1..NumTasks

(* BackgroundTaskStatus, and the two ways of being unknown to _tasks *)
Terminal == {"completed", "failed", "cancelled"}
States == {"absent", "queued", "running", "forgotten"} \cup Terminal

VARIABLE state    \* the state of each task, as a poll would report it

(* The states one step may take a task to from s. A task is accepted and started in
   one step when a slot is free; a shutdown may cancel and forget at once.     *)
Successors(s) ==
  {s} \cup CASE s = "absent"    -> {"queued", "running"}
             [] s = "queued"    -> {"running", "cancelled", "forgotten"}
             [] s = "running"   -> Terminal
             [] s \in Terminal  -> {"forgotten"}
             [] s = "forgotten" -> {}

InState(s) == {t \in Tasks : state[t] = s}

Init == state = [t \in Tasks |-> "absent"]

Next ==
  /\ state' \in [Tasks -> States]
  /\ \A t \in Tasks : state'[t] \in Successors(state[t])
  /\ Cardinality(InState("running")') <= MaxConcurrent
  /\ \A t \in InState("running")' \ InState("running") :
        \A u \in InState("queued")' : t < u
  /\ \A t \in InState("absent")' : \A u \in Tasks : u > t => state'[u] = "absent"

Spec == Init /\ [][Next]_state

==================================================================================
