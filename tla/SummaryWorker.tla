------------------------------ MODULE SummaryWorker ------------------------------
(***************************************************************************)
(* The summary worker (src/mem_graph/services/summarizer.py, with the retry  *)
(* of embed_client.py), the tool that feeds it (memory_capture_session in    *)
(* tools/memory/conversation.py) and the part of the lifespan that starts    *)
(* and stops it.                                                             *)
(*                                                                          *)
(* _queue and _worker_task are module variables: they outlive a lifespan     *)
(* that is left and entered again in one process, and are lost in a crash.   *)
(* memory_capture_session has no await: it is one step, which may raise      *)
(* after the conversation was written. Ollama may answer, fail or never      *)
(* answer. stop_worker is not cancelled while it waits.                      *)
(***************************************************************************)
EXTENDS Integers, Sequences, SequencesExt

CONSTANTS
  Conversations,  \* ids of captured sessions: id_generate_v7 makes each fresh
  Sentinel,       \* the None that stop_worker puts into the queue
  Attempts,       \* max_retries of EmbedClientBase: 3 in the code
  MaxLifespans    \* bound: how often the lifespan is entered

ASSUME SummaryAssumption ==
  /\ Sentinel \notin Conversations
  /\ Attempts \in Nat \ {0}
  /\ MaxLifespans \in Nat

VARIABLES
  summary,     \* Conversation.summary_status in the graph, "absent" before
  torn,        \* sessions whose capture raised after the node was written
  jobs,        \* _queue
  unfinished,  \* _queue._unfinished_tasks, which join() waits for
  worker,      \* the task _worker_task refers to: where it is, job and attempt
  cancelled,   \* the worker was cancelled and does not know yet
  lifespan,    \* "out", "in", or what stop_worker waits for
  lifespans,   \* how often it was entered
  late,        \* history: sessions captured once the last stop_worker had begun
  givenUp      \* history: jobs lost with the process, cancelled, or raised

summaryVars == <<summary, torn, jobs, unfinished, worker, cancelled,
                 lifespan, lifespans, late, givenUp>>
graphVars == <<summary, torn>>
stopVars == <<lifespan, lifespans>>

NoWorker == [at |-> "none", job |-> Sentinel, attempt |-> 0]
WorkerAt(place) == [NoWorker EXCEPT !.at = place]
Busy == {"asking", "sleeping", "embedding"}
InHand == worker.at \in Busy
Stopping == {"joining", "joined", "exiting", "reaping"}

(* What a crash or a cancelled worker leaves without a summary. *)
Unsummarised(set) == {c \in set : summary[c] = "pending"}
Waiting == ToSet(jobs) \cap Conversations

SummaryInit ==
  /\ summary = [c \in Conversations |-> "absent"]
  /\ torn = {} /\ late = {} /\ givenUp = {}
  /\ jobs = <<>> /\ unfinished = 0
  /\ worker = NoWorker /\ cancelled = FALSE
  /\ lifespan = "out" /\ lifespans = 0

---------------------------------------------------------------------------
(* The lifespan enters: start_worker keeps a worker that is still alive. A   *)
(* later part of the start-up may raise: no shutdown code runs then.         *)

StartWorker ==
  IF worker.at \in {"none", "ended"}
  THEN worker' = WorkerAt("waiting") /\ cancelled' = FALSE
  ELSE UNCHANGED <<worker, cancelled>>

EnterLifespan(reached) ==
  /\ lifespan = "out"
  /\ lifespans < MaxLifespans
  /\ lifespans' = lifespans + 1
  /\ lifespan' = reached
  /\ StartWorker
  /\ late' = {}
  /\ UNCHANGED <<graphVars, jobs, unfinished, givenUp>>

Crash ==
  /\ lifespans > 0
  /\ lifespan' = "out"
  /\ jobs' = <<>> /\ unfinished' = 0
  /\ worker' = NoWorker /\ cancelled' = FALSE
  /\ givenUp' = givenUp \cup
       Unsummarised(Waiting \cup (IF InHand THEN {worker.job} ELSE {}))
  /\ UNCHANGED <<graphVars, lifespans, late>>

(* memory_capture_session; nothing refuses it while the server stops. *)
Capture(c) ==
  /\ lifespan # "out"
  /\ summary[c] = "absent"
  /\ summary' = [summary EXCEPT ![c] = "pending"]
  /\ late' = IF lifespan = "in" THEN late ELSE late \cup {c}
  /\ \/ /\ jobs' = Append(jobs, c)
        /\ unfinished' = unfinished + 1
        /\ UNCHANGED torn
     \/ torn' = torn \cup {c} /\ UNCHANGED <<jobs, unfinished>>
  /\ UNCHANGED <<worker, cancelled, stopVars, givenUp>>

---------------------------------------------------------------------------
(* The worker. task_done wakes join() when the last job is done; join()      *)
(* returns then, whatever was queued in between.                             *)

TaskDone ==
  /\ unfinished' = unfinished - 1
  /\ lifespan' = IF lifespan = "joining" /\ unfinished = 1 THEN "joined" ELSE lifespan

TakeJob ==
  /\ worker.at = "waiting" /\ ~cancelled
  /\ jobs # <<>> /\ Head(jobs) # Sentinel
  /\ jobs' = Tail(jobs)
  /\ worker' = [at |-> "asking", job |-> Head(jobs), attempt |-> 1]
  /\ UNCHANGED <<graphVars, unfinished, cancelled, stopVars, late, givenUp>>

(* Mutant: the sentinel is taken and never counted as done.                  *)
TakeSentinel_mutantNotDone ==
  /\ worker.at = "waiting" /\ ~cancelled
  /\ jobs # <<>> /\ Head(jobs) = Sentinel
  /\ jobs' = Tail(jobs)
  /\ worker' = WorkerAt("ended")
  /\ UNCHANGED <<graphVars, unfinished, lifespan, cancelled, lifespans, late, givenUp>>

(* Mutant: task_done in the branch of the sentinel and again in a finally.   *)
TakeSentinel_mutantTwice ==
  /\ worker.at = "waiting" /\ ~cancelled
  /\ jobs # <<>> /\ Head(jobs) = Sentinel
  /\ jobs' = Tail(jobs)
  /\ worker' = WorkerAt("ended")
  /\ unfinished' = unfinished - 2
  /\ UNCHANGED <<graphVars, lifespan, cancelled, lifespans, late, givenUp>>

TakeSentinel ==
  /\ worker.at = "waiting" /\ ~cancelled
  /\ jobs # <<>> /\ Head(jobs) = Sentinel
  /\ jobs' = Tail(jobs)
  /\ worker' = WorkerAt("ended")
  /\ TaskDone
  /\ UNCHANGED <<graphVars, cancelled, lifespans, late, givenUp>>

(* Mutant: the node is written only if there is a summary.                   *)
Persist_mutantOnlyOk(status) ==
  IF status = "ok"
  THEN /\ summary' = [summary EXCEPT ![worker.job] = status]
       /\ worker' = [worker EXCEPT !.at = "embedding"]
       /\ UNCHANGED <<givenUp, unfinished, lifespan>>
  ELSE /\ worker' = WorkerAt("waiting")
       /\ TaskDone
       /\ UNCHANGED <<summary, givenUp>>

(* _persist_summary: the statement may raise; "ok" goes on to the embedding. *)
Persist(status) ==
  \/ /\ summary' = [summary EXCEPT ![worker.job] = status]
     /\ UNCHANGED givenUp
     /\ IF status = "ok"
        THEN worker' = [worker EXCEPT !.at = "embedding"] /\ UNCHANGED <<unfinished, lifespan>>
        ELSE worker' = WorkerAt("waiting") /\ TaskDone
  \/ /\ givenUp' = givenUp \cup {worker.job}
     /\ worker' = WorkerAt("waiting")
     /\ TaskDone
     /\ UNCHANGED summary

OllamaAnswers ==
  /\ worker.at = "asking" /\ ~cancelled
  /\ Persist("ok")
  /\ UNCHANGED <<torn, jobs, cancelled, lifespans, late>>

OllamaFails ==
  /\ worker.at = "asking" /\ ~cancelled
  /\ IF worker.attempt < Attempts
     THEN /\ worker' = [worker EXCEPT !.at = "sleeping"]
          /\ UNCHANGED <<summary, unfinished, lifespan, givenUp>>
     ELSE Persist("failed")
  /\ UNCHANGED <<torn, jobs, cancelled, lifespans, late>>

SleepEnds ==
  /\ worker.at = "sleeping" /\ ~cancelled
  /\ worker' = [worker EXCEPT !.at = "asking", !.attempt = @ + 1]
  /\ UNCHANGED <<graphVars, jobs, unfinished, cancelled, stopVars, late, givenUp>>

(* The embedding is stored or its failure is logged: the job is done. *)
EmbeddingEnds ==
  /\ worker.at = "embedding" /\ ~cancelled
  /\ worker' = WorkerAt("waiting")
  /\ TaskDone
  /\ UNCHANGED <<graphVars, jobs, cancelled, lifespans, late, givenUp>>

(* CancelledError at the await the worker is in; the finally counts the job. *)
WorkerCancelled ==
  /\ cancelled
  /\ worker.at \in Busy \cup {"waiting"}
  /\ worker' = WorkerAt("ended")
  /\ cancelled' = FALSE
  /\ IF InHand
     THEN TaskDone /\ givenUp' = givenUp \cup Unsummarised({worker.job})
     ELSE UNCHANGED <<unfinished, lifespan, givenUp>>
  /\ UNCHANGED <<graphVars, jobs, lifespans, late>>

---------------------------------------------------------------------------
(* stop_worker. *)

PutSentinel ==
  /\ jobs' = Append(jobs, Sentinel)
  /\ unfinished' = unfinished + 1
  /\ lifespan' = "exiting"

(* Mutant: the sentinel is queued without a join() before it.                *)
StopBegins_mutantNoJoin ==
  /\ lifespan = "in"
  /\ PutSentinel
  /\ UNCHANGED <<graphVars, worker, cancelled, lifespans, late, givenUp>>

StopBegins ==
  /\ lifespan = "in"
  /\ IF unfinished = 0
     THEN PutSentinel
     ELSE lifespan' = "joining" /\ UNCHANGED <<jobs, unfinished>>
  /\ UNCHANGED <<graphVars, worker, cancelled, lifespans, late, givenUp>>

JoinReturns ==
  /\ lifespan = "joined"
  /\ PutSentinel
  /\ UNCHANGED <<graphVars, worker, cancelled, lifespans, late, givenUp>>

(* Mutant: no timeout on the worker's end.                                   *)
StopTimesOut_mutantJoinOnly ==
  /\ lifespan \in {"joining", "joined"}
  /\ lifespan' = "reaping"
  /\ cancelled' = (worker.at # "ended")
  /\ UNCHANGED <<graphVars, jobs, unfinished, worker, lifespans, late, givenUp>>

(* Neither join() within 30 s, nor the worker's end within 5 s. *)
StopTimesOut ==
  /\ \/ lifespan \in {"joining", "joined"}
     \/ lifespan = "exiting" /\ worker.at # "ended"
  /\ lifespan' = "reaping"
  /\ cancelled' = (worker.at # "ended")
  /\ UNCHANGED <<graphVars, jobs, unfinished, worker, lifespans, late, givenUp>>

StopReturns ==
  /\ lifespan \in {"exiting", "reaping"}
  /\ worker.at = "ended"
  /\ lifespan' = "out"
  /\ worker' = NoWorker
  /\ UNCHANGED <<graphVars, jobs, unfinished, cancelled, lifespans, late, givenUp>>

WorkerStep ==
  \/ TakeJob \/ TakeSentinel \/ OllamaAnswers \/ OllamaFails
  \/ SleepEnds \/ EmbeddingEnds \/ WorkerCancelled

StopStep == JoinReturns \/ StopTimesOut \/ StopReturns

SummaryNext ==
  \/ \E reached \in {"in", "out"} : EnterLifespan(reached)
  \/ Crash
  \/ \E c \in Conversations : Capture(c)
  \/ WorkerStep
  \/ StopBegins
  \/ StopStep

SummarySpec == SummaryInit /\ [][SummaryNext]_summaryVars

(* Timers fire and the event loop runs what is ready. Nothing makes Ollama    *)
(* answer, and nothing stops the server.                                     *)
SummaryFairness ==
  /\ WF_summaryVars(StopStep)
  /\ WF_summaryVars(WorkerCancelled)

---------------------------------------------------------------------------
SummaryTypeOK ==
  /\ summary \in [Conversations -> {"absent", "pending", "ok", "failed"}]
  /\ torn \subseteq Conversations
  /\ late \subseteq Conversations /\ givenUp \subseteq Conversations
  /\ jobs \in Seq(Conversations \cup {Sentinel})
  /\ unfinished \in Nat
  /\ worker.at \in Busy \cup {"none", "waiting", "ended"}
  /\ worker.job \in Conversations \cup {Sentinel}
  /\ worker.attempt \in 0 .. Attempts
  /\ cancelled \in BOOLEAN
  /\ lifespan \in {"out", "in"} \cup Stopping
  /\ lifespans \in 0 .. MaxLifespans

(* join() in stop_worker may neither return early nor wait for nothing: the   *)
(* counter it looks at is the queue and the job the worker has in hand, also  *)
(* after sentinels, cancelled jobs and a lifespan entered again.             *)
JoinCounter == unfinished = Len(jobs) + (IF InHand THEN 1 ELSE 0)

(* A conversation that still says summary_status 'pending' is queued or in    *)
(* hand, or its capture raised, or its job was lost with the process, with a  *)
(* cancelled worker or to a statement that raised in _persist_summary.        *)
PendingHasJob ==
  \A c \in Conversations : summary[c] = "pending" =>
    c \in Waiting \cup torn \cup givenUp \/ (InHand /\ worker.job = c)

(* "It drains the queue before exiting" (summarizer.py): a stop that did not   *)
(* time out leaves no job behind of a session captured before it began.      *)
DrainedStop ==
  [][StopReturns /\ lifespan = "exiting" => Waiting \subseteq late]_summaryVars

(* stop_worker returns, however long Ollama takes: the shutdown behind it      *)
(* (db_close_engine) is reached.                                             *)
StopEnds == lifespan \in Stopping ~> lifespan = "out"
=================================================================================
