-------------------------------- MODULE TaskQueue --------------------------------
(***************************************************************************)
(* TaskQueue (src/mem_graph/services/task_queue.py): the bounded in-memory  *)
(* queue behind the tools that return a task id.                            *)
(*                                                                          *)
(* Everything runs on one asyncio event loop and _lock is never held across *)
(* an await, so each locked region is one action here. What interleaves are *)
(* the asyncio tasks: a coroutine made by create_task takes its first step  *)
(* later, a cancelled coroutine sees CancelledError at its next step, and a  *)
(* caller of cancel_task or shutdown waits in gather while others run.      *)
(*                                                                          *)
(* Task ids are numbers in the order of acceptance (ids are fresh in the    *)
(* code). _handles and running are always written together and hold the     *)
(* same ids: `handles`. `completed` is the range of _completed_order.       *)
(***************************************************************************)
EXTENDS Integers, FiniteSets, Sequences, SequencesExt

CONSTANTS
  NumTasks,       \* bound: how many tasks are ever enqueued
  Clients,        \* requests that may be inside cancel_task at once
  MaxConcurrent,  \* max_concurrent
  MaxCompleted,   \* max_completed
  Endless         \* tasks whose runner never returns by itself (code_watch)

ASSUME ConfigAssumption ==
  /\ NumTasks \in Nat
  /\ MaxConcurrent \in Nat \ {0}
  /\ MaxCompleted \in Nat \ {0}
  /\ Endless \subseteq 1..NumTasks

Tasks == 1..NumTasks
Nobody == 0
Terminal == {"completed", "failed", "cancelled"}

VARIABLES
  next,       \* the id the next enqueued task gets
  queue,      \* self.queue
  handles,    \* keys of self._handles, and of self.running
  runners,    \* keys of self._runners
  known,      \* keys of self._tasks
  order,      \* self._completed_order
  task,       \* the Task records and the state of their asyncio tasks
  waiting,    \* the task whose handle each client awaits in cancel_task
  shut,       \* where shutdown is
  shutWait    \* running_handles of shutdown

vars == <<next, queue, handles, runners, known, order, task, waiting, shut, shutWait>>

(* A task as the queue sees it: status; step, the current_step of its progress;
   requested, its cancellation_requested; pc, where its _run_task coroutine is;
   cancel, a CancelledError is to be raised at its next step.                  *)
TaskRecord == [status : {"absent", "queued", "running"} \cup Terminal,
               step : {"absent", "queued", "running", "working", "cancelling"} \cup Terminal,
               requested : BOOLEAN,
               pc : {"none", "scheduled", "inRunner", "done"},
               cancel : BOOLEAN]

(* Operators named X_mutant... are X with a plausible bug in it. No definition uses
   them: each shows that a property fails when the code has that bug.          *)
NewTask_mutantPending == [status |-> "pending", step |-> "queued", requested |-> FALSE,
                          pc |-> "none", cancel |-> FALSE]

NewTask == [status |-> "queued", step |-> "queued", requested |-> FALSE,
            pc |-> "none", cancel |-> FALSE]

TypeOK ==
  /\ next \in 1..(NumTasks + 1)
  /\ queue \in Seq(Tasks)
  /\ handles \subseteq Tasks
  /\ runners \subseteq Tasks
  /\ known \subseteq Tasks
  /\ order \in Seq(Tasks)
  /\ task \in [Tasks -> TaskRecord]
  /\ waiting \in [Clients -> Tasks \cup {Nobody}]
  /\ shut \in {"up", "draining", "down"}
  /\ shutWait \subseteq Tasks

Init ==
  /\ next = 1
  /\ queue = <<>>
  /\ handles = {}
  /\ runners = {}
  /\ known = {}
  /\ order = <<>>
  /\ task = [t \in Tasks |-> [status |-> "absent", step |-> "absent", requested |-> FALSE,
                              pc |-> "none", cancel |-> FALSE]]
  /\ waiting = [c \in Clients |-> Nobody]
  /\ shut = "up"
  /\ shutWait = {}

---------------------------------------------------------------------------------
(* The steps shared by the handlers *)

SetEnd(tk, t, st) == [tk EXCEPT ![t].status = st, ![t].step = st]

(* The tasks that the first k ids of q would start: known and not cancelled. *)
Startable(q, k, kn, tk) ==
  {t \in {q[i] : i \in 1..k} : t \in kn /\ tk[t].status # "cancelled"}

(* _drain_locked on queue q, slots h, tasks kn and records tk: ids are popped until
   the queue is empty or every slot is taken, and create_task is called for each
   startable one.                                                              *)
Drain(q, h, kn, tk) ==
  \E k \in 0..Len(q) :
    /\ k < Len(q) => Cardinality(h \cup Startable(q, k, kn, tk)) >= MaxConcurrent
    /\ k > 0 => Cardinality(h \cup Startable(q, k - 1, kn, tk)) < MaxConcurrent
    /\ queue' = SubSeq(q, k + 1, Len(q))
    /\ handles' = h \cup Startable(q, k, kn, tk)
    /\ task' = [t \in Tasks |->
                  IF t \in Startable(q, k, kn, tk)
                  THEN [tk[t] EXCEPT !.status = "running", !.step = "running",
                                     !.pc = "scheduled"]
                  ELSE tk[t]]

(* forgets the oldest one task too early: len(...) >= max_completed *)
Remember_mutantEarly(s) ==
  LET all   == order \o s
      stale == IF Len(all) >= MaxCompleted THEN Len(all) - MaxCompleted + 1 ELSE 0
  IN  /\ order' = SubSeq(all, stale + 1, Len(all))
      /\ known' = known \ {all[i] : i \in 1..stale}

(* drops a stale id from _completed_order but not from _tasks *)
Remember_mutantLeak(s) ==
  LET all   == order \o s
      stale == IF Len(all) > MaxCompleted THEN Len(all) - MaxCompleted ELSE 0
  IN  /\ order' = SubSeq(all, stale + 1, Len(all))
      /\ known' = known

(* _remember_completed for each id of s: only the newest MaxCompleted finished
   tasks stay known.                                                           *)
Remember(s) ==
  LET all   == order \o s
      stale == IF Len(all) > MaxCompleted THEN Len(all) - MaxCompleted ELSE 0
  IN  /\ order' = SubSeq(all, stale + 1, Len(all))
      /\ known' = known \ {all[i] : i \in 1..stale}

---------------------------------------------------------------------------------
(* Requests *)

(* enqueue; the queue accepts tasks at any time, also during and after shutdown *)
Enqueue ==
  /\ next <= NumTasks
  /\ next' = next + 1
  /\ known' = known \cup {next}
  /\ runners' = runners \cup {next}
  /\ Drain(Append(queue, next), handles, known \cup {next}, [task EXCEPT ![next] = NewTask])
  /\ UNCHANGED <<order, waiting, shut, shutWait>>

(* cancel_task of a task still in the queue *)
CancelQueued ==
  \E i \in 1..Len(queue) :
    /\ queue' = RemoveAt(queue, i)
    /\ task' = SetEnd(task, queue[i], "cancelled")
    /\ runners' = runners \ {queue[i]}
    /\ Remember(<<queue[i]>>)
    /\ UNCHANGED <<next, handles, waiting, shut, shutWait>>

(* handle.cancel() for each task of ts: nothing happens to a finished one *)
Interrupt(tk, ts) ==
  [t \in Tasks |-> IF t \in ts /\ tk[t].pc # "done" THEN [tk[t] EXCEPT !.cancel = TRUE]
                   ELSE tk[t]]

(* records the task as cancelled before its coroutine has ended *)
CancelRunning_mutantMarks(c) ==
  /\ waiting[c] = Nobody
  /\ \E t \in handles \cap known :
       /\ task' = Interrupt([SetEnd(task, t, "cancelled") EXCEPT ![t].requested = TRUE], {t})
       /\ waiting' = [waiting EXCEPT ![c] = t]
  /\ UNCHANGED <<next, queue, handles, runners, known, order, shut, shutWait>>

(* cancel_task of a task that has a handle, up to its await of the handle *)
CancelRunning(c) ==
  /\ waiting[c] = Nobody
  /\ \E t \in handles \cap known :
       /\ task' = Interrupt([task EXCEPT ![t].requested = TRUE, ![t].step = "cancelling"], {t})
       /\ waiting' = [waiting EXCEPT ![c] = t]
  /\ UNCHANGED <<next, queue, handles, runners, known, order, shut, shutWait>>

(* waits until the record says the task has ended, not until its coroutine has *)
CancelReturn_mutantPoll(c) ==
  /\ waiting[c] # Nobody
  /\ waiting[c] \in known => task[waiting[c]].status \in Terminal
  /\ waiting' = [waiting EXCEPT ![c] = Nobody]
  /\ UNCHANGED <<next, queue, handles, runners, known, order, task, shut, shutWait>>

(* the gather of cancel_task is over: the client gets get_task(task_id) *)
CancelReturn(c) ==
  /\ waiting[c] # Nobody
  /\ task[waiting[c]].pc = "done"
  /\ waiting' = [waiting EXCEPT ![c] = Nobody]
  /\ UNCHANGED <<next, queue, handles, runners, known, order, task, shut, shutWait>>

(* the client's request is cancelled in gather, which cancels the handle again *)
CancelAbandoned(c) ==
  /\ waiting[c] # Nobody
  /\ waiting' = [waiting EXCEPT ![c] = Nobody]
  /\ task' = Interrupt(task, {waiting[c]})
  /\ UNCHANGED <<next, queue, handles, runners, known, order, shut, shutWait>>

(* shutdown, up to its await of the running handles *)
Shutdown ==
  /\ shut = "up"
  /\ shut' = "draining"
  /\ queue' = <<>>
  /\ runners' = runners \ Range(queue)
  /\ Remember(queue)
  /\ shutWait' = handles
  /\ task' = Interrupt([t \in Tasks |->
                          IF t \in Range(queue)
                          THEN [task[t] EXCEPT !.status = "cancelled", !.step = "cancelled"]
                          ELSE task[t]], handles)
  /\ UNCHANGED <<next, handles, waiting>>

(* waits until _handles is empty *)
ShutdownReturn_mutantEmpty ==
  /\ shut = "draining"
  /\ handles = {}
  /\ shut' = "down"
  /\ UNCHANGED <<next, queue, handles, runners, known, order, task, waiting, shutWait>>

ShutdownReturn ==
  /\ shut = "draining"
  /\ \A t \in shutWait : task[t].pc = "done"
  /\ shut' = "down"
  /\ UNCHANGED <<next, queue, handles, runners, known, order, task, waiting, shutWait>>

---------------------------------------------------------------------------------
(* The asyncio task of _run_task *)

(* the first step of _run_task: it looks up _tasks and _runners and enters the try *)
Start(t) ==
  /\ task[t].pc = "scheduled"
  /\ ~task[t].cancel
  /\ t \in known \cap runners
  /\ task' = [task EXCEPT ![t].pc = "inRunner"]
  /\ UNCHANGED <<next, queue, handles, runners, known, order, waiting, shut, shutWait>>

(* asyncio raises CancelledError into a coroutine that has not started: no line of
   _run_task runs, so neither its except clauses nor its finally do            *)
CancelledBeforeStart(t) ==
  /\ task[t].pc = "scheduled"
  /\ task[t].cancel
  /\ task' = [task EXCEPT ![t].pc = "done", ![t].cancel = FALSE]
  /\ UNCHANGED <<next, queue, handles, runners, known, order, waiting, shut, shutWait>>

(* the runner reports progress through its reporter *)
Progress(t) ==
  /\ task[t].pc = "inRunner"
  /\ task' = [task EXCEPT ![t].step = IF t \in known THEN "working" ELSE @]
  /\ UNCHANGED <<next, queue, handles, runners, known, order, waiting, shut, shutWait>>

(* frees the slot and leaves the queue to the next enqueue *)
Finish_mutantNoDrain(t, tk) ==
  /\ runners' = runners \ {t}
  /\ Remember(<<t>>)
  /\ handles' = handles \ {t}
  /\ task' = [tk EXCEPT ![t].pc = "done", ![t].cancel = FALSE]
  /\ UNCHANGED <<next, queue, waiting, shut, shutWait>>

(* the end of _run_task from the line that sets the final record through finally *)
Finish(t, tk) ==
  /\ runners' = runners \ {t}
  /\ Remember(<<t>>)
  /\ Drain(queue, handles \ {t}, known',
           [tk EXCEPT ![t].pc = "done", ![t].cancel = FALSE])
  /\ UNCHANGED <<next, waiting, shut, shutWait>>

(* the runner returns; one that is cancelled may catch CancelledError first *)
RunnerReturns(t) ==
  /\ task[t].pc = "inRunner"
  /\ Finish(t, IF task[t].status # "cancelled" THEN SetEnd(task, t, "completed") ELSE task)

(* the runner raises, or returns what TaskResult refuses *)
RunnerRaises(t) ==
  /\ task[t].pc = "inRunner"
  /\ Finish(t, SetEnd(task, t, "failed"))

(* the runner lets CancelledError through *)
RunnerCancelled(t) ==
  /\ task[t].pc = "inRunner"
  /\ task[t].cancel
  /\ Finish(t, [SetEnd(task, t, "cancelled") EXCEPT ![t].requested = FALSE])

RunnerEnds(t) == RunnerReturns(t) \/ RunnerRaises(t) \/ RunnerCancelled(t)

---------------------------------------------------------------------------------
Next ==
  \/ Enqueue
  \/ CancelQueued
  \/ \E c \in Clients : CancelRunning(c) \/ CancelReturn(c) \/ CancelAbandoned(c)
  \/ Shutdown
  \/ ShutdownReturn
  \/ \E t \in Tasks :
       \/ Start(t) \/ CancelledBeforeStart(t) \/ Progress(t)
       \/ RunnerReturns(t) \/ RunnerRaises(t) \/ RunnerCancelled(t)

Spec == Init /\ [][Next]_vars

(* The event loop runs every coroutine that can step; a runner that is not endless
   ends, and an endless one ends once it is cancelled.                         *)
Fairness ==
  /\ \A t \in Tasks :
       /\ WF_vars(Start(t) \/ CancelledBeforeStart(t))
       /\ WF_vars((t \in Endless => task[t].cancel) /\ RunnerEnds(t))
  /\ \A c \in Clients : WF_vars(CancelReturn(c))
  /\ WF_vars(ShutdownReturn)

FairSpec == Spec /\ Fairness

---------------------------------------------------------------------------------
(* Properties *)

(* The pool never runs more than MaxConcurrent tasks and never idles: while a task
   waits in the queue every slot is taken. Each of enqueue, cancel_task, shutdown
   and the finally of _run_task must keep it, whichever of them comes between a
   task's end and the next start.                                              *)
Pool ==
  /\ Cardinality(handles) <= MaxConcurrent
  /\ queue # <<>> => Cardinality(handles) = MaxConcurrent

(* Every known task is in exactly one of the queue, the slots and the history, once,
   with the status a poll of that place must show, and the closure of its runner is
   held exactly until it finishes: no id is lost, run twice, or kept for ever by
   the five dictionaries that each handler updates by hand. A coroutine that has
   not started finds its id in _tasks and _runners (a KeyError there would be
   raised outside the try).                                                    *)
Filed ==
  /\ known = Range(queue) \cup handles \cup Range(order)
  /\ runners = Range(queue) \cup handles
  /\ IsInjective(queue) /\ IsInjective(order) /\ Len(order) <= MaxCompleted
  /\ \A t \in Range(queue) : task[t].status = "queued" /\ task[t].pc = "none"
  /\ \A t \in handles : task[t].status = "running" /\ task[t].pc # "none"
  /\ \A t \in Range(order) : task[t].status \in Terminal /\ task[t].pc \in {"none", "done"}

(* A finished task stays pollable until MaxCompleted others finished after it:
   a task is forgotten only by a step that leaves the history full, and everything
   left in the history finished later.                                         *)
Retention ==
  [][\A t \in known \ known' :
       /\ Len(order') = MaxCompleted
       /\ \A i, j \in DOMAIN (order \o queue) :
             /\ (order \o queue)[i] = t
             /\ (order \o queue)[j] \in Range(order')
             => i < j]_vars

(* A slot whose coroutine was cancelled before its first step: _run_task's finally
   never ran, so nothing ever takes the id out of _handles.                    *)
SlotLost(t) == t \in handles /\ task[t].pc = "done"

(* What a get_task poll reports of each task *)
Polled == [t \in Tasks |-> IF t \in known THEN task[t].status
                           ELSE IF t < next THEN "forgotten" ELSE "absent"]

(* The queue implements the life of a task that clients are told of: see
   TaskLifecycle (statuses move forward only, tasks start in order of acceptance,
   bounded concurrency).                                                       *)
Lifecycle == INSTANCE TaskLifecycle WITH state <- Polled
ImplementsLifecycle == Lifecycle!Spec

(* A queued task starts or is cancelled, unless every slot is held by an endless
   runner or is lost: the two ways in which this queue starves.                *)
Starved ==
  /\ Cardinality(handles) = MaxConcurrent
  /\ \A t \in handles : SlotLost(t) \/ t \in Endless
QueuedLeaves == \A t \in Tasks : (t \in Range(queue)) ~> (t \notin Range(queue) \/ Starved)

(* A client inside cancel_task is answered, whatever the other clients do and
   whether the task started or not.                                            *)
CancelAnswered == \A c \in Clients : (waiting[c] # Nobody) ~> (waiting[c] = Nobody)

(* shutdown returns: no coroutine it awaits waits for something shutdown stopped. *)
ShutdownEnds == (shut = "draining") ~> (shut = "down")

(* "Clients ... may call cancel_task(task_id) while the task is queued or running"
   (docs/documentation/server.md): once the awaited handle is done, the record that
   cancel_task is about to return is no longer running. The code breaks it for a
   task that was given a slot and not yet its first step.                      *)
CancelReturnsTerminal ==
  \A c \in Clients :
    (waiting[c] \in known /\ task[waiting[c]].pc = "done") => task[waiting[c]].status \in Terminal
==================================================================================
