------------------------ MODULE SummaryWorkerProof ------------------------
(***************************************************************************)
(* Proofs about SummaryWorker: for any number of conversations, attempts   *)
(* and lifespans, the counter that join() waits for is the queue and the   *)
(* job in hand.  JoinCounter alone is inductive once the shapes of queue   *)
(* and worker are known: TaskDone lowers the counter and every action that *)
(* contains it either takes one entry off the queue or lays the job down.  *)
(***************************************************************************)
EXTENDS SummaryWorker, TLAPS

WorkerPlaces == Busy \cup {"none", "waiting", "ended"}
JobEntries == Conversations \cup {Sentinel}

(* The shapes of queue, counter and worker. *)
WorkerShapes ==
  /\ jobs \in Seq(JobEntries)
  /\ unfinished \in Nat
  /\ worker \in [at : WorkerPlaces, job : JobEntries, attempt : Nat]

JoinInv == WorkerShapes /\ JoinCounter

---------------------------------------------------------------------------
(* A worker put somewhere is a worker, without a job. *)
LEMMA WorkerAtFacts ==
  ASSUME NEW place \in WorkerPlaces
  PROVE  /\ WorkerAt(place) \in [at : WorkerPlaces, job : JobEntries, attempt : Nat]
         /\ WorkerAt(place).at = place
  BY DEF WorkerAt, NoWorker, WorkerPlaces, JobEntries

(* Append makes a queue longer by one entry, Tail shorter. *)
LEMMA QueueFacts ==
  ASSUME NEW s \in Seq(JobEntries), NEW e \in JobEntries
  PROVE  /\ Append(s, e) \in Seq(JobEntries) /\ Len(Append(s, e)) = Len(s) + 1
         /\ s # <<>> => /\ Tail(s) \in Seq(JobEntries) /\ Len(Tail(s)) = Len(s) - 1
                        /\ Head(s) \in JobEntries
         /\ Len(s) \in Nat
         /\ s # <<>> => Len(s) > 0
  OBVIOUS

---------------------------------------------------------------------------
(* The queue starts empty, the counter at 0, and nobody has a job. *)
LEMMA InitJoin == SummaryInit => JoinInv
  BY DEF SummaryInit, JoinInv, WorkerShapes, JoinCounter, InHand, NoWorker, Busy, WorkerPlaces, JobEntries

(* The lifespan enters: a new worker has nothing in hand, nor had the old. *)
LEMMA EnterLifespanJoin ==
  ASSUME JoinInv, NEW reached \in {"in", "out"}, EnterLifespan(reached)
  PROVE  JoinInv'
<1>1. UNCHANGED <<jobs, unfinished>>
  BY DEF EnterLifespan, graphVars
<1>2. CASE worker.at \in {"none", "ended"}
  <2>1. worker' = WorkerAt("waiting")
    BY <1>2 DEF EnterLifespan, StartWorker
  <2>2. /\ WorkerAt("waiting") \in [at : WorkerPlaces, job : JobEntries, attempt : Nat]
        /\ WorkerAt("waiting").at = "waiting"
    BY WorkerAtFacts DEF WorkerPlaces
  <2>3. ~InHand /\ ~InHand'
    BY <1>2, <2>1, <2>2 DEF InHand, Busy
  <2> QED BY <1>1, <2>1, <2>2, <2>3 DEF JoinInv, WorkerShapes, JoinCounter
<1>3. CASE worker.at \notin {"none", "ended"}
  <2>1. UNCHANGED worker
    BY <1>3 DEF EnterLifespan, StartWorker
  <2> QED BY <1>1, <2>1 DEF JoinInv, WorkerShapes, JoinCounter, InHand
<1> QED BY <1>2, <1>3

(* A crash takes queue, counter and worker together. *)
LEMMA CrashJoin ==
  ASSUME JoinInv, Crash
  PROVE  JoinInv'
  BY DEF JoinInv, Crash, WorkerShapes, JoinCounter, InHand, NoWorker, Busy, WorkerPlaces, JobEntries

(* A captured session is queued and counted, or neither. *)
LEMMA CaptureJoin ==
  ASSUME JoinInv, NEW c \in Conversations, Capture(c)
  PROVE  JoinInv'
<1>1. UNCHANGED worker
  BY DEF Capture
<1>2. CASE jobs' = Append(jobs, c) /\ unfinished' = unfinished + 1
  <2>1. jobs' \in Seq(JobEntries) /\ Len(jobs') = Len(jobs) + 1 /\ Len(jobs) \in Nat
    BY <1>2, QueueFacts DEF JoinInv, WorkerShapes, JobEntries
  <2> QED BY <1>1, <1>2, <2>1 DEF JoinInv, WorkerShapes, JoinCounter, InHand
<1>3. CASE UNCHANGED <<jobs, unfinished>>
  BY <1>1, <1>3 DEF JoinInv, WorkerShapes, JoinCounter, InHand
<1> QED BY <1>2, <1>3 DEF Capture

---------------------------------------------------------------------------
(* A job done: the counter and the hands lose one, the queue stays. *)
LEMMA LayDown ==
  ASSUME JoinInv, InHand, TaskDone, UNCHANGED jobs,
         NEW place \in {"waiting", "ended"}, worker' = WorkerAt(place)
  PROVE  JoinInv'
<1>1. /\ WorkerAt(place) \in [at : WorkerPlaces, job : JobEntries, attempt : Nat]
      /\ WorkerAt(place).at = place
  BY WorkerAtFacts DEF WorkerPlaces
<1>2. ~InHand'
  BY <1>1 DEF InHand, Busy
<1>3. unfinished = Len(jobs) + 1 /\ unfinished' = unfinished - 1 /\ Len(jobs) \in Nat
  BY DEF JoinInv, JoinCounter, TaskDone, WorkerShapes
<1>4. unfinished' = Len(jobs') /\ unfinished' \in Nat
  BY <1>3
<1> QED BY <1>1, <1>2, <1>4 DEF JoinInv, WorkerShapes, JoinCounter

(* A job that goes on: queue and counter stay, and hands stay full. *)
LEMMA HoldOn ==
  ASSUME JoinInv, InHand, UNCHANGED <<jobs, unfinished>>, InHand',
         worker' \in [at : WorkerPlaces, job : JobEntries, attempt : Nat]
  PROVE  JoinInv'
  BY DEF JoinInv, WorkerShapes, JoinCounter

(* A job taken leaves the queue for the hands and stays counted. *)
LEMMA TakeJobJoin ==
  ASSUME JoinInv, TakeJob
  PROVE  JoinInv'
<1>1. /\ jobs # <<>> /\ jobs' = Tail(jobs) /\ unfinished' = unfinished
      /\ worker.at = "waiting"
      /\ worker' = [at |-> "asking", job |-> Head(jobs), attempt |-> 1]
  BY DEF TakeJob
<1>2. /\ jobs' \in Seq(JobEntries) /\ Len(jobs') = Len(jobs) - 1
      /\ Head(jobs) \in JobEntries /\ Len(jobs) \in Nat
  BY <1>1, QueueFacts DEF JoinInv, WorkerShapes, JobEntries
<1>3. ~InHand /\ InHand'
  BY <1>1 DEF InHand, Busy
<1>4. worker' \in [at : WorkerPlaces, job : JobEntries, attempt : Nat]
  BY <1>1, <1>2 DEF WorkerPlaces, Busy
<1>5. unfinished' = Len(jobs') + 1
  BY <1>1, <1>2, <1>3 DEF JoinInv, JoinCounter
<1> QED BY <1>1, <1>2, <1>3, <1>4, <1>5 DEF JoinInv, WorkerShapes, JoinCounter

(* The sentinel is counted like a job. *)
LEMMA TakeSentinelJoin ==
  ASSUME JoinInv, TakeSentinel
  PROVE  JoinInv'
<1>1. /\ jobs # <<>> /\ jobs' = Tail(jobs) /\ unfinished' = unfinished - 1
      /\ worker.at = "waiting" /\ worker' = WorkerAt("ended")
  BY DEF TakeSentinel, TaskDone
<1>2. /\ jobs' \in Seq(JobEntries) /\ Len(jobs') = Len(jobs) - 1
      /\ Len(jobs) \in Nat /\ Len(jobs) > 0
  BY <1>1, QueueFacts DEF JoinInv, WorkerShapes, JobEntries
<1>3. /\ WorkerAt("ended") \in [at : WorkerPlaces, job : JobEntries, attempt : Nat]
      /\ WorkerAt("ended").at = "ended"
  BY WorkerAtFacts DEF WorkerPlaces
<1>4. ~InHand /\ ~InHand'
  BY <1>1, <1>3 DEF InHand, Busy
<1>5. unfinished' = Len(jobs') /\ unfinished' \in Nat
  BY <1>1, <1>2, <1>4 DEF JoinInv, JoinCounter
<1> QED BY <1>1, <1>2, <1>3, <1>4, <1>5 DEF JoinInv, WorkerShapes, JoinCounter

(* Persist keeps the job for its embedding or lays it down. *)
LEMMA PersistJoin ==
  ASSUME JoinInv, InHand, UNCHANGED jobs,
         NEW status \in {"ok", "failed"}, Persist(status)
  PROVE  JoinInv'
<1>1. CASE worker' = [worker EXCEPT !.at = "embedding"] /\ UNCHANGED unfinished
  <2>1. worker' \in [at : WorkerPlaces, job : JobEntries, attempt : Nat]
    BY <1>1 DEF JoinInv, WorkerShapes, WorkerPlaces, Busy
  <2>2. worker'.at = "embedding"
    BY <1>1 DEF JoinInv, WorkerShapes
  <2>3. InHand'
    BY <2>2 DEF InHand, Busy
  <2> QED BY <1>1, <2>1, <2>3, HoldOn
<1>2. CASE worker' = WorkerAt("waiting") /\ TaskDone
  BY <1>2, LayDown
<1> QED BY <1>1, <1>2 DEF Persist

(* An answer or a failure of Ollama holds the job or lays it down. *)
LEMMA OllamaJoin ==
  ASSUME JoinInv, OllamaAnswers \/ OllamaFails
  PROVE  JoinInv'
<1>1. InHand /\ UNCHANGED jobs
  BY DEF OllamaAnswers, OllamaFails, InHand, Busy
<1>2. CASE OllamaAnswers
  BY <1>1, <1>2, PersistJoin DEF OllamaAnswers
<1>3. CASE OllamaFails /\ worker.attempt < Attempts
  <2>1. worker' = [worker EXCEPT !.at = "sleeping"] /\ UNCHANGED unfinished
    BY <1>3 DEF OllamaFails
  <2>2. /\ worker' \in [at : WorkerPlaces, job : JobEntries, attempt : Nat]
        /\ worker'.at = "sleeping"
    BY <2>1 DEF JoinInv, WorkerShapes, WorkerPlaces, Busy
  <2>3. InHand'
    BY <2>2 DEF InHand, Busy
  <2> QED BY <1>1, <2>1, <2>2, <2>3, HoldOn
<1>4. CASE OllamaFails /\ ~(worker.attempt < Attempts)
  BY <1>1, <1>4, PersistJoin DEF OllamaFails
<1> QED BY <1>2, <1>3, <1>4

(* The end of the back-off sleep keeps the job for its next attempt. *)
LEMMA SleepEndsJoin ==
  ASSUME JoinInv, SleepEnds
  PROVE  JoinInv'
<1>1. InHand /\ UNCHANGED <<jobs, unfinished>>
  BY DEF SleepEnds, InHand, Busy
<1>2. /\ worker \in [at : WorkerPlaces, job : JobEntries, attempt : Nat]
      /\ worker.attempt + 1 \in Nat
  BY DEF JoinInv, WorkerShapes
<1>3. worker' = [worker EXCEPT !.at = "asking", !.attempt = worker.attempt + 1]
  BY DEF SleepEnds
<1>4. "asking" \in WorkerPlaces
  BY DEF WorkerPlaces, Busy
<1>5. /\ worker' \in [at : WorkerPlaces, job : JobEntries, attempt : Nat]
      /\ worker'.at = "asking"
  BY <1>2, <1>3, <1>4
<1>6. InHand'
  BY <1>5 DEF InHand, Busy
<1> QED BY <1>1, <1>5, <1>6, HoldOn

(* The end of the embedding lays the job down. *)
LEMMA EmbeddingEndsJoin ==
  ASSUME JoinInv, EmbeddingEnds
  PROVE  JoinInv'
<1>1. InHand
  BY DEF EmbeddingEnds, InHand, Busy
<1> QED BY <1>1, LayDown DEF EmbeddingEnds

(* A cancelled worker counts the job in its hand, and no other. *)
LEMMA WorkerCancelledJoin ==
  ASSUME JoinInv, WorkerCancelled
  PROVE  JoinInv'
<1>1. UNCHANGED jobs /\ worker' = WorkerAt("ended")
  BY DEF WorkerCancelled
<1>2. CASE InHand
  BY <1>1, <1>2, LayDown DEF WorkerCancelled
<1>3. CASE ~InHand
  <2>1. UNCHANGED unfinished
    BY <1>3 DEF WorkerCancelled
  <2>2. /\ WorkerAt("ended") \in [at : WorkerPlaces, job : JobEntries, attempt : Nat]
        /\ WorkerAt("ended").at = "ended"
    BY WorkerAtFacts DEF WorkerPlaces
  <2>3. ~InHand'
    BY <1>1, <2>2 DEF InHand, Busy
  <2> QED BY <1>1, <1>3, <2>1, <2>2, <2>3 DEF JoinInv, WorkerShapes, JoinCounter
<1> QED BY <1>2, <1>3

---------------------------------------------------------------------------
(* stop_worker queues one sentinel and counts it, or changes neither. *)
LEMMA PutSentinelJoin ==
  ASSUME JoinInv, PutSentinel, UNCHANGED worker
  PROVE  JoinInv'
<1>1. /\ jobs' \in Seq(JobEntries) /\ Len(jobs') = Len(jobs) + 1 /\ Len(jobs) \in Nat
      /\ unfinished' = unfinished + 1
  BY QueueFacts DEF PutSentinel, JoinInv, WorkerShapes, JobEntries
<1>2. InHand' <=> InHand
  BY DEF InHand
<1> QED BY <1>1, <1>2 DEF JoinInv, WorkerShapes, JoinCounter

(* The steps of stop_worker touch the queue only by the sentinel. *)
LEMMA StopJoin ==
  ASSUME JoinInv, StopBegins \/ JoinReturns \/ StopTimesOut
  PROVE  JoinInv'
<1>1. UNCHANGED worker
  BY DEF StopBegins, JoinReturns, StopTimesOut
<1>2. PutSentinel \/ UNCHANGED <<jobs, unfinished>>
  BY DEF StopBegins, JoinReturns, StopTimesOut
<1>3. CASE PutSentinel
  BY <1>1, <1>3, PutSentinelJoin
<1>4. CASE UNCHANGED <<jobs, unfinished>>
  BY <1>1, <1>4 DEF JoinInv, WorkerShapes, JoinCounter, InHand
<1> QED BY <1>2, <1>3, <1>4

(* stop_worker returns when the worker has ended: its hands are empty. *)
LEMMA StopReturnsJoin ==
  ASSUME JoinInv, StopReturns
  PROVE  JoinInv'
  BY DEF JoinInv, StopReturns, WorkerShapes, JoinCounter, InHand, NoWorker, Busy, WorkerPlaces, JobEntries

---------------------------------------------------------------------------
(* Every step of worker, tool and lifespan keeps the invariant. *)
LEMMA StepJoin ==
  ASSUME JoinInv, [SummaryNext]_summaryVars
  PROVE  JoinInv'
<1>1. CASE UNCHANGED summaryVars
  BY <1>1 DEF summaryVars, JoinInv, WorkerShapes, JoinCounter, InHand
<1>2. CASE SummaryNext
  BY <1>2, EnterLifespanJoin, CrashJoin, CaptureJoin, TakeJobJoin, TakeSentinelJoin,
     OllamaJoin, SleepEndsJoin, EmbeddingEndsJoin, WorkerCancelledJoin, StopJoin,
     StopReturnsJoin
     DEF SummaryNext, WorkerStep, StopStep
<1> QED BY <1>1, <1>2

(* The counter of _queue.join() is the queue and the job in hand, in every    *)
(* behaviour of the worker, its stops, cancellations and crashes.            *)
THEOREM SummaryJoinCounter == SummarySpec => []JoinCounter
<1>1. JoinInv => JoinCounter
  BY DEF JoinInv
<1> QED BY <1>1, InitJoin, StepJoin, PTL DEF SummarySpec

---------------------------------------------------------------------------
(* What the worker's hands hold: a session; on the way to another attempt while  *)
(* it sleeps; with its summary stored while it embeds.                       *)
Hands ==
  /\ InHand => worker.job \in Conversations
  /\ worker.at = "sleeping" => worker.attempt < Attempts
  /\ worker.at = "embedding" => summary[worker.job] = "ok"

(* Once join() returned, or the sentinel is queued, only sessions captured since   *)
(* stop_worker began are in the queue: it was empty at that moment.           *)
Drained == lifespan \in {"joined", "exiting"} => Waiting \subseteq late

SummaryInv == JoinInv /\ SummaryTypeOK /\ Hands /\ PendingHasJob /\ Drained

(* What an appended entry and a removed head do to the set of entries. *)
LEMMA EntriesFacts ==
  ASSUME NEW s \in Seq(JobEntries), NEW e \in JobEntries
  PROVE  /\ ToSet(Append(s, e)) = ToSet(s) \cup {e}
         /\ s # <<>> => ToSet(s) = ToSet(Tail(s)) \cup {Head(s)}
         /\ Len(s) = 0 => ToSet(s) = {}
<1>1. DOMAIN s = 1 .. Len(s) /\ Len(s) \in Nat
  OBVIOUS
<1>2. ToSet(Append(s, e)) = ToSet(s) \cup {e}
  <2>1. DOMAIN Append(s, e) = 1 .. (Len(s) + 1)
    OBVIOUS
  <2>2. \A i \in 1 .. Len(s) : Append(s, e)[i] = s[i]
    OBVIOUS
  <2>3. Append(s, e)[Len(s) + 1] = e
    OBVIOUS
  <2>4. \A x : x \in ToSet(Append(s, e)) => x \in ToSet(s) \cup {e}
    BY <1>1, <2>1, <2>2, <2>3 DEF ToSet
  <2>5. \A x \in ToSet(s) : x \in ToSet(Append(s, e))
    BY <1>1, <2>1, <2>2 DEF ToSet
  <2>6. e \in ToSet(Append(s, e))
    BY <1>1, <2>1, <2>3 DEF ToSet
  <2> QED BY <2>4, <2>5, <2>6
<1>3. ASSUME s # <<>>
      PROVE  ToSet(s) = ToSet(Tail(s)) \cup {Head(s)}
  <2>1. Len(s) > 0 /\ DOMAIN Tail(s) = 1 .. (Len(s) - 1) /\ Head(s) = s[1]
    BY <1>3
  <2>2. \A i \in 1 .. (Len(s) - 1) : Tail(s)[i] = s[i + 1]
    BY <1>3
  <2>3. \A x \in ToSet(s) : x \in ToSet(Tail(s)) \cup {Head(s)}
    <3>1. TAKE x \in ToSet(s)
    <3>2. PICK i \in 1 .. Len(s) : s[i] = x
      BY <1>1 DEF ToSet
    <3>3. CASE i = 1
      BY <2>1, <3>2, <3>3
    <3>4. CASE i # 1
      <4>1. i - 1 \in 1 .. (Len(s) - 1) /\ (i - 1) + 1 = i
        BY <1>1, <3>2, <3>4
      <4>2. Tail(s)[i - 1] = x
        BY <2>2, <3>2, <4>1
      <4> QED BY <2>1, <4>1, <4>2 DEF ToSet
    <3> QED BY <3>3, <3>4
  <2>4. \A x \in ToSet(Tail(s)) : x \in ToSet(s)
    <3>1. TAKE x \in ToSet(Tail(s))
    <3>2. PICK i \in 1 .. (Len(s) - 1) : Tail(s)[i] = x
      BY <2>1 DEF ToSet
    <3>3. i + 1 \in 1 .. Len(s) /\ s[i + 1] = x
      BY <1>1, <2>2, <3>2
    <3> QED BY <1>1, <3>3 DEF ToSet
  <2>5. Head(s) \in ToSet(s)
    BY <1>1, <2>1 DEF ToSet
  <2> QED BY <2>3, <2>4, <2>5
<1>4. Len(s) = 0 => ToSet(s) = {}
  BY <1>1 DEF ToSet
<1> QED BY <1>2, <1>3, <1>4

(* An empty counter is an empty queue and empty hands. *)
LEMMA EmptyCounter == JoinInv /\ unfinished = 0 => ~InHand /\ Waiting = {}
<1> SUFFICES ASSUME JoinInv, unfinished = 0
             PROVE  ~InHand /\ Waiting = {}
  OBVIOUS
<1>1. jobs \in Seq(JobEntries) /\ Len(jobs) \in Nat
  BY DEF JoinInv, WorkerShapes
<1>2. ~InHand /\ Len(jobs) = 0
  BY <1>1 DEF JoinInv, JoinCounter
<1>3. Sentinel \in JobEntries
  BY DEF JobEntries
<1>4. ToSet(jobs) = {}
  BY <1>1, <1>2, <1>3, EntriesFacts
<1> QED BY <1>2, <1>4 DEF Waiting

---------------------------------------------------------------------------
(* At the start nothing is captured, queued or in hand. *)
LEMMA InitSummary == SummaryInit => SummaryInv
<1> SUFFICES ASSUME SummaryInit PROVE SummaryInv
  OBVIOUS
<1>1. worker.at = "none" /\ worker.job = Sentinel /\ worker.attempt = 0
  BY DEF SummaryInit, NoWorker
<1>2. Attempts \in Nat /\ MaxLifespans \in Nat
  BY SummaryAssumption DEF SummaryAssumption
<1>3. SummaryTypeOK
  <2>1. jobs \in Seq(Conversations \cup {Sentinel}) /\ unfinished \in Nat
    BY DEF SummaryInit
  <2>2. worker.attempt \in 0 .. Attempts /\ lifespans \in 0 .. MaxLifespans
    BY <1>1, <1>2 DEF SummaryInit
  <2> QED BY <1>1, <2>1, <2>2 DEF SummaryInit, SummaryTypeOK
<1>4. Hands
  BY <1>1 DEF Hands, InHand, Busy
<1>5. PendingHasJob
  BY DEF SummaryInit, PendingHasJob
<1>6. Drained
  BY DEF SummaryInit, Drained
<1> QED BY <1>3, <1>4, <1>5, <1>6, InitJoin DEF SummaryInv

(* A worker that lays its job down, or has none, holds nothing. *)
LEMMA IdleWorker ==
  ASSUME NEW place \in {"none", "waiting", "ended"}
  PROVE  /\ WorkerAt(place).at = place
         /\ WorkerAt(place).job = Sentinel
         /\ WorkerAt(place).attempt = 0
  BY DEF WorkerAt, NoWorker

(* Idle hands satisfy what is said of hands. *)
LEMMA IdleHands ==
  ASSUME NEW place \in {"none", "waiting", "ended"}, worker' = WorkerAt(place)
  PROVE  /\ ~InHand' /\ Hands'
         /\ worker'.at \in Busy \cup {"none", "waiting", "ended"}
         /\ worker'.job \in Conversations \cup {Sentinel}
         /\ worker'.attempt \in 0 .. Attempts
<1>1. worker'.at = place /\ worker'.job = Sentinel /\ worker'.attempt = 0
  BY IdleWorker
<1>2. worker'.at \notin Busy /\ worker'.at \notin {"sleeping", "embedding"}
  BY <1>1 DEF Busy
<1>3. Attempts \in Nat
  BY SummaryAssumption DEF SummaryAssumption
<1> QED BY <1>1, <1>2, <1>3 DEF Hands, InHand

(* The lifespan enters with the queue the last one left. *)
LEMMA EnterLifespanSummary ==
  ASSUME SummaryInv, NEW reached \in {"in", "out"}, EnterLifespan(reached)
  PROVE  SummaryInv'
<1>1. /\ UNCHANGED <<summary, torn, jobs, unfinished, givenUp>>
      /\ lifespan = "out" /\ lifespan' = reached
      /\ lifespans < MaxLifespans /\ lifespans' = lifespans + 1 /\ late' = {}
  BY DEF EnterLifespan, graphVars
<1>2. Drained'
  BY <1>1 DEF Drained
<1>3. lifespans' \in 0 .. MaxLifespans
  BY <1>1, SummaryAssumption DEF SummaryAssumption, SummaryInv, SummaryTypeOK
<1>4. CASE worker.at \in {"none", "ended"}
  <2>1. worker' = WorkerAt("waiting") /\ cancelled' = FALSE
    BY <1>4 DEF EnterLifespan, StartWorker
  <2>2. /\ ~InHand' /\ Hands'
        /\ worker'.at \in Busy \cup {"none", "waiting", "ended"}
        /\ worker'.job \in Conversations \cup {Sentinel}
        /\ worker'.attempt \in 0 .. Attempts
    BY <2>1, IdleHands
  <2>3. ~InHand
    BY <1>4 DEF InHand, Busy
  <2>4. PendingHasJob'
    BY <1>1, <2>3 DEF SummaryInv, PendingHasJob, Waiting
  <2>5. SummaryTypeOK'
    BY <1>1, <1>3, <2>1, <2>2 DEF SummaryInv, SummaryTypeOK
  <2> QED BY <1>2, <2>2, <2>4, <2>5, EnterLifespanJoin DEF SummaryInv
<1>5. CASE worker.at \notin {"none", "ended"}
  <2>1. UNCHANGED <<worker, cancelled>>
    BY <1>5 DEF EnterLifespan, StartWorker
  <2>2. Hands' /\ PendingHasJob'
    BY <1>1, <2>1 DEF SummaryInv, Hands, PendingHasJob, Waiting, InHand
  <2>3. SummaryTypeOK'
    BY <1>1, <1>3, <2>1 DEF SummaryInv, SummaryTypeOK
  <2> QED BY <1>2, <2>2, <2>3, EnterLifespanJoin DEF SummaryInv
<1> QED BY <1>4, <1>5

(* A crash takes the queue; what it held without a summary is given up. *)
LEMMA CrashSummary ==
  ASSUME SummaryInv, Crash
  PROVE  SummaryInv'
<1> DEFINE lost == Waiting \cup (IF InHand THEN {worker.job} ELSE {})
<1>1. /\ UNCHANGED <<summary, torn, lifespans, late>>
      /\ lifespan' = "out" /\ cancelled' = FALSE /\ jobs' = <<>> /\ unfinished' = 0
      /\ worker' = NoWorker /\ givenUp' = givenUp \cup Unsummarised(lost)
  BY DEF Crash, graphVars
<1>2. worker' = WorkerAt("none")
  BY <1>1 DEF WorkerAt, NoWorker
<1>3. /\ ~InHand' /\ Hands'
      /\ worker'.at \in Busy \cup {"none", "waiting", "ended"}
      /\ worker'.job \in Conversations \cup {Sentinel}
      /\ worker'.attempt \in 0 .. Attempts
  BY <1>2, IdleHands
<1>4. lost \subseteq Conversations
  BY DEF SummaryInv, Hands, Waiting
<1>5. Unsummarised(lost) \subseteq Conversations
  BY <1>4 DEF Unsummarised
<1>6. SummaryTypeOK'
  <2>1. jobs' \in Seq(Conversations \cup {Sentinel}) /\ unfinished' \in Nat
    BY <1>1
  <2>2. givenUp' \subseteq Conversations /\ lifespan' \in {"out", "in"} \cup Stopping
    BY <1>1, <1>5 DEF SummaryInv, SummaryTypeOK
  <2> QED BY <1>1, <1>3, <2>1, <2>2 DEF SummaryInv, SummaryTypeOK
<1>7. PendingHasJob'
  BY <1>1 DEF SummaryInv, PendingHasJob, Unsummarised
<1>8. Drained'
  BY <1>1 DEF Drained
<1> QED BY <1>3, <1>6, <1>7, <1>8, CrashJoin DEF SummaryInv

(* A capture queues what it makes pending, or raises; once stop_worker has begun *)
(* it is late.                                                               *)
LEMMA CaptureSummary ==
  ASSUME SummaryInv, NEW c \in Conversations, Capture(c)
  PROVE  SummaryInv'
<1>1. /\ UNCHANGED <<worker, cancelled, lifespan, lifespans, givenUp>>
      /\ summary[c] = "absent" /\ summary' = [summary EXCEPT ![c] = "pending"]
      /\ late' = (IF lifespan = "in" THEN late ELSE late \cup {c})
  BY DEF Capture, stopVars
<1>2. /\ summary \in [Conversations -> {"absent", "pending", "ok", "failed"}]
      /\ jobs \in Seq(JobEntries)
  BY DEF SummaryInv, SummaryTypeOK, JobEntries
<1>3. \A d \in Conversations : d # c => summary'[d] = summary[d]
  BY <1>1, <1>2
<1>4. Hands'
  <2>1. worker.at = "embedding" => worker.job \in Conversations /\ worker.job # c
    BY <1>1 DEF SummaryInv, Hands, InHand, Busy
  <2> QED BY <1>1, <1>3, <2>1 DEF SummaryInv, Hands, InHand
<1>5. CASE jobs' = Append(jobs, c) /\ unfinished' = unfinished + 1 /\ UNCHANGED torn
  <2>1. c \in JobEntries
    BY DEF JobEntries
  <2>2. jobs' \in Seq(JobEntries) /\ ToSet(jobs') = ToSet(jobs) \cup {c}
    BY <1>2, <1>5, <2>1, EntriesFacts
  <2>3. Waiting' = Waiting \cup {c}
    BY <2>2 DEF Waiting
  <2>4. SummaryTypeOK'
    BY <1>1, <1>2, <1>5, <2>2 DEF SummaryInv, SummaryTypeOK, JobEntries
  <2>5. PendingHasJob'
    BY <1>1, <1>3, <1>5, <2>3 DEF SummaryInv, PendingHasJob, InHand
  <2>6. Drained'
    BY <1>1, <2>3 DEF SummaryInv, Drained
  <2> QED BY <1>4, <2>4, <2>5, <2>6, CaptureJoin DEF SummaryInv
<1>6. CASE torn' = torn \cup {c} /\ UNCHANGED <<jobs, unfinished>>
  <2>1. SummaryTypeOK'
    BY <1>1, <1>2, <1>6 DEF SummaryInv, SummaryTypeOK
  <2>2. PendingHasJob'
    BY <1>1, <1>3, <1>6 DEF SummaryInv, PendingHasJob, InHand, Waiting
  <2>3. Drained'
    BY <1>1, <1>6 DEF SummaryInv, Drained, Waiting
  <2> QED BY <1>4, <2>1, <2>2, <2>3, CaptureJoin DEF SummaryInv
<1> QED BY <1>5, <1>6 DEF Capture

---------------------------------------------------------------------------
(* task_done lets join() return when the last job is done, and never else. *)
LEMMA TaskDoneDrained ==
  ASSUME JoinInv, JoinInv', SummaryTypeOK, Drained, TaskDone, UNCHANGED late,
         Waiting' \subseteq Waiting
  PROVE  Drained' /\ lifespan' \in {"out", "in"} \cup Stopping
<1>1. lifespan' \in {"out", "in"} \cup Stopping
  BY DEF TaskDone, SummaryTypeOK, Stopping
<1>2. CASE lifespan = "joining" /\ unfinished = 1
  <2>1. unfinished' = 0
    BY <1>2 DEF TaskDone
  <2>2. (JoinInv /\ unfinished = 0 => ~InHand /\ Waiting = {})'
    BY EmptyCounter, PTL
  <2> QED BY <1>1, <2>1, <2>2 DEF Drained
<1>3. CASE ~(lifespan = "joining" /\ unfinished = 1)
  BY <1>1, <1>3 DEF TaskDone, Drained
<1> QED BY <1>2, <1>3

(* A job laid down has a summary, or is given up. *)
LEMMA LayDownSummary ==
  ASSUME SummaryInv, InHand, TaskDone,
         NEW place \in {"waiting", "ended"}, worker' = WorkerAt(place),
         UNCHANGED <<torn, jobs, lifespans, late>>, cancelled' \in BOOLEAN,
         summary' \in [Conversations -> {"absent", "pending", "ok", "failed"}],
         givenUp \subseteq givenUp', givenUp' \subseteq Conversations,
         \A c \in Conversations : c # worker.job => summary'[c] = summary[c],
         summary'[worker.job] = "pending" => worker.job \in givenUp'
  PROVE  SummaryInv'
<1>1. JoinInv'
  BY LayDown DEF SummaryInv
<1>2. /\ ~InHand' /\ Hands'
      /\ worker'.at \in Busy \cup {"none", "waiting", "ended"}
      /\ worker'.job \in Conversations \cup {Sentinel}
      /\ worker'.attempt \in 0 .. Attempts
  BY IdleHands
<1>3. Waiting' = Waiting
  BY DEF Waiting
<1>4. Drained' /\ lifespan' \in {"out", "in"} \cup Stopping
  BY <1>1, <1>3, TaskDoneDrained DEF SummaryInv
<1>5. SummaryTypeOK'
  BY <1>1, <1>2, <1>4 DEF SummaryInv, SummaryTypeOK, JoinInv, WorkerShapes
<1>6. PendingHasJob'
  <2> SUFFICES ASSUME NEW c \in Conversations, summary'[c] = "pending"
               PROVE  \/ c \in Waiting' \cup torn' \cup givenUp'
                      \/ InHand' /\ worker'.job = c
    BY DEF PendingHasJob
  <2>2. CASE c = worker.job
    BY <2>2
  <2>3. CASE c # worker.job
    BY <1>3, <2>3 DEF SummaryInv, PendingHasJob
  <2> QED BY <2>2, <2>3
<1> QED BY <1>1, <1>2, <1>4, <1>5, <1>6 DEF SummaryInv

(* The head of the queue goes to the hands. *)
LEMMA TakeJobSummary ==
  ASSUME SummaryInv, TakeJob
  PROVE  SummaryInv'
<1>1. /\ jobs # <<>> /\ Head(jobs) # Sentinel /\ jobs' = Tail(jobs)
      /\ worker.at = "waiting"
      /\ worker' = [at |-> "asking", job |-> Head(jobs), attempt |-> 1]
      /\ UNCHANGED <<summary, torn, unfinished, cancelled, lifespan, lifespans, late, givenUp>>
  BY DEF TakeJob, graphVars, stopVars
<1>2. /\ worker'.at = "asking" /\ worker'.job = Head(jobs) /\ worker'.attempt = 1
  BY <1>1
<1>3. jobs \in Seq(JobEntries) /\ Sentinel \in JobEntries
  BY DEF SummaryInv, SummaryTypeOK, JobEntries
<1>4. /\ jobs' \in Seq(JobEntries) /\ Head(jobs) \in JobEntries
      /\ ToSet(jobs) = ToSet(jobs') \cup {Head(jobs)}
  BY <1>1, <1>3, QueueFacts, EntriesFacts
<1>5. Head(jobs) \in Conversations
  BY <1>1, <1>4 DEF JobEntries
<1>6. ~InHand /\ InHand'
  BY <1>1, <1>2 DEF InHand, Busy
<1>7. Waiting = Waiting' \cup {Head(jobs)}
  BY <1>4, <1>5 DEF Waiting
<1>8. Hands'
  BY <1>2, <1>5 DEF Hands
<1>9. PendingHasJob'
  BY <1>1, <1>2, <1>6, <1>7 DEF SummaryInv, PendingHasJob
<1>10. Drained'
  BY <1>1, <1>7 DEF SummaryInv, Drained
<1>11. worker'.attempt \in 0 .. Attempts
  BY <1>2, SummaryAssumption DEF SummaryAssumption
<1>12. SummaryTypeOK'
  BY <1>1, <1>2, <1>4, <1>5, <1>11 DEF SummaryInv, SummaryTypeOK, JobEntries, Busy
<1> QED BY <1>8, <1>9, <1>10, <1>12, TakeJobJoin DEF SummaryInv

(* A sentinel taken off the queue is no session. *)
LEMMA TakeSentinelSummary ==
  ASSUME SummaryInv, TakeSentinel
  PROVE  SummaryInv'
<1>1. /\ jobs # <<>> /\ Head(jobs) = Sentinel /\ jobs' = Tail(jobs)
      /\ worker.at = "waiting" /\ worker' = WorkerAt("ended") /\ TaskDone
      /\ UNCHANGED <<summary, torn, cancelled, lifespans, late, givenUp>>
  BY DEF TakeSentinel, graphVars
<1>2. /\ ~InHand' /\ Hands'
      /\ worker'.at \in Busy \cup {"none", "waiting", "ended"}
      /\ worker'.job \in Conversations \cup {Sentinel}
      /\ worker'.attempt \in 0 .. Attempts
  BY <1>1, IdleHands
<1>3. jobs \in Seq(JobEntries) /\ Sentinel \in JobEntries
  BY DEF SummaryInv, SummaryTypeOK, JobEntries
<1>4. jobs' \in Seq(JobEntries) /\ ToSet(jobs) = ToSet(jobs') \cup {Sentinel}
  BY <1>1, <1>3, QueueFacts, EntriesFacts
<1>5. Waiting' = Waiting
  BY <1>4, SummaryAssumption DEF Waiting, SummaryAssumption
<1>6. ~InHand
  BY <1>1 DEF InHand, Busy
<1>7. JoinInv'
  BY TakeSentinelJoin DEF SummaryInv
<1>8. Drained' /\ lifespan' \in {"out", "in"} \cup Stopping
  BY <1>1, <1>5, <1>7, TaskDoneDrained DEF SummaryInv
<1>9. PendingHasJob'
  BY <1>1, <1>5, <1>6 DEF SummaryInv, PendingHasJob
<1>10. SummaryTypeOK'
  BY <1>1, <1>2, <1>4, <1>7, <1>8 DEF SummaryInv, SummaryTypeOK, JobEntries, JoinInv, WorkerShapes
<1> QED BY <1>2, <1>7, <1>8, <1>9, <1>10 DEF SummaryInv

(* A job kept in hand keeps the queue, the counter and the lifespan. *)
LEMMA HoldOnSummary ==
  ASSUME SummaryInv, InHand, InHand', JoinInv', Hands',
         UNCHANGED <<torn, jobs, unfinished, cancelled, lifespan, lifespans, late, givenUp>>,
         summary' \in [Conversations -> {"absent", "pending", "ok", "failed"}],
         \A c \in Conversations : c # worker.job => summary'[c] = summary[c],
         worker'.job = worker.job, worker'.attempt \in 0 .. Attempts
  PROVE  SummaryInv'
<1>1. Waiting' = Waiting
  BY DEF Waiting
<1>2. Drained'
  BY <1>1 DEF SummaryInv, Drained
<1>3. PendingHasJob'
  <2> SUFFICES ASSUME NEW c \in Conversations, summary'[c] = "pending"
               PROVE  \/ c \in Waiting' \cup torn' \cup givenUp'
                      \/ InHand' /\ worker'.job = c
    BY DEF PendingHasJob
  <2>2. CASE c = worker.job
    BY <2>2
  <2>3. CASE c # worker.job
    BY <1>1, <2>3 DEF SummaryInv, PendingHasJob
  <2> QED BY <2>2, <2>3
<1>4. SummaryTypeOK'
  BY DEF SummaryInv, SummaryTypeOK, InHand
<1> QED BY <1>2, <1>3, <1>4 DEF SummaryInv

(* Persist stores a status for the job in hand, or gives the job up. *)
LEMMA PersistSummary ==
  ASSUME SummaryInv, InHand, NEW status \in {"ok", "failed"}, Persist(status),
         UNCHANGED <<torn, jobs, cancelled, lifespans, late>>
  PROVE  SummaryInv'
<1>1. /\ worker.job \in Conversations
      /\ summary \in [Conversations -> {"absent", "pending", "ok", "failed"}]
      /\ givenUp \subseteq Conversations /\ cancelled \in BOOLEAN
  BY DEF SummaryInv, Hands, SummaryTypeOK
<1>2. CASE summary' = [summary EXCEPT ![worker.job] = status] /\ UNCHANGED givenUp
  <2>1. /\ summary' \in [Conversations -> {"absent", "pending", "ok", "failed"}]
        /\ summary'[worker.job] = status
        /\ \A c \in Conversations : c # worker.job => summary'[c] = summary[c]
    BY <1>1, <1>2
  <2>2. CASE /\ status = "ok" /\ worker' = [worker EXCEPT !.at = "embedding"]
             /\ UNCHANGED <<unfinished, lifespan>>
    <3>1. /\ worker'.at = "embedding" /\ worker'.job = worker.job
          /\ worker'.attempt = worker.attempt
      BY <2>2 DEF SummaryInv, JoinInv, WorkerShapes
    <3>2. InHand' /\ Hands'
      BY <1>1, <2>1, <2>2, <3>1 DEF Hands, InHand, Busy
    <3>3. JoinInv'
      BY PersistJoin DEF SummaryInv
    <3>4. worker'.attempt \in 0 .. Attempts
      BY <3>1 DEF SummaryInv, SummaryTypeOK
    <3> QED BY <1>2, <2>1, <2>2, <3>1, <3>2, <3>3, <3>4, HoldOnSummary
  <2>3. CASE worker' = WorkerAt("waiting") /\ TaskDone
    <3>1. summary'[worker.job] # "pending"
      BY <2>1
    <3> QED BY <1>1, <1>2, <2>1, <2>3, <3>1, LayDownSummary
  <2> QED BY <1>2, <2>2, <2>3 DEF Persist
<1>3. CASE /\ givenUp' = givenUp \cup {worker.job} /\ worker' = WorkerAt("waiting")
           /\ TaskDone /\ UNCHANGED summary
  BY <1>1, <1>3, LayDownSummary
<1> QED BY <1>2, <1>3 DEF Persist

(* Ollama answers, or fails with or without another attempt left. *)
LEMMA OllamaSummary ==
  ASSUME SummaryInv, OllamaAnswers \/ OllamaFails
  PROVE  SummaryInv'
<1>1. /\ worker.at = "asking"
      /\ UNCHANGED <<torn, jobs, cancelled, lifespans, late>>
  BY DEF OllamaAnswers, OllamaFails
<1>2. InHand
  BY <1>1 DEF InHand, Busy
<1>3. CASE OllamaAnswers
  BY <1>1, <1>2, <1>3, PersistSummary DEF OllamaAnswers
<1>4. CASE OllamaFails /\ worker.attempt < Attempts
  <2>1. /\ worker' = [worker EXCEPT !.at = "sleeping"]
        /\ UNCHANGED <<summary, unfinished, lifespan, givenUp>>
    BY <1>4 DEF OllamaFails
  <2>2. /\ worker'.at = "sleeping" /\ worker'.job = worker.job
        /\ worker'.attempt = worker.attempt
    BY <2>1 DEF SummaryInv, JoinInv, WorkerShapes
  <2>3. InHand' /\ Hands'
    BY <1>2, <1>4, <2>2 DEF SummaryInv, Hands, InHand, Busy
  <2>4. JoinInv'
    BY OllamaJoin DEF SummaryInv
  <2>5. /\ worker'.attempt \in 0 .. Attempts
        /\ summary' \in [Conversations -> {"absent", "pending", "ok", "failed"}]
    BY <2>1, <2>2 DEF SummaryInv, SummaryTypeOK
  <2> QED BY <1>1, <1>2, <2>1, <2>2, <2>3, <2>4, <2>5, HoldOnSummary
<1>5. CASE OllamaFails /\ ~(worker.attempt < Attempts)
  BY <1>1, <1>2, <1>5, PersistSummary DEF OllamaFails
<1> QED BY <1>3, <1>4, <1>5

(* After its sleep the worker asks again, for the same session. *)
LEMMA SleepEndsSummary ==
  ASSUME SummaryInv, SleepEnds
  PROVE  SummaryInv'
<1>1. /\ worker.at = "sleeping"
      /\ worker' = [worker EXCEPT !.at = "asking", !.attempt = worker.attempt + 1]
      /\ UNCHANGED <<summary, torn, jobs, unfinished, cancelled, lifespan, lifespans,
                     late, givenUp>>
  BY DEF SleepEnds, graphVars, stopVars
<1>2. worker \in [at : WorkerPlaces, job : JobEntries, attempt : Nat]
  BY DEF SummaryInv, JoinInv, WorkerShapes
<1>3. worker'.at = "asking" /\ worker'.job = worker.job /\ worker'.attempt = worker.attempt + 1
  BY <1>1, <1>2
<1>4. InHand /\ InHand'
  BY <1>1, <1>3 DEF InHand, Busy
<1>5. Hands'
  BY <1>3, <1>4 DEF SummaryInv, Hands
<1>6. worker'.attempt \in 0 .. Attempts
  BY <1>1, <1>2, <1>3, SummaryAssumption DEF SummaryAssumption, SummaryInv, Hands
<1>7. JoinInv'
  BY SleepEndsJoin DEF SummaryInv
<1>8. summary' \in [Conversations -> {"absent", "pending", "ok", "failed"}]
  BY <1>1 DEF SummaryInv, SummaryTypeOK
<1> QED BY <1>1, <1>3, <1>4, <1>5, <1>6, <1>7, <1>8, HoldOnSummary

(* The job of an embedding that ended has its summary already. *)
LEMMA EmbeddingEndsSummary ==
  ASSUME SummaryInv, EmbeddingEnds
  PROVE  SummaryInv'
<1>1. /\ worker.at = "embedding" /\ worker' = WorkerAt("waiting") /\ TaskDone
      /\ UNCHANGED <<summary, torn, jobs, cancelled, lifespans, late, givenUp>>
  BY DEF EmbeddingEnds, graphVars
<1>2. InHand
  BY <1>1 DEF InHand, Busy
<1>3. summary'[worker.job] # "pending"
  BY <1>1 DEF SummaryInv, Hands
<1>4. /\ summary' \in [Conversations -> {"absent", "pending", "ok", "failed"}]
      /\ cancelled' \in BOOLEAN /\ givenUp' \subseteq Conversations
      /\ givenUp \subseteq givenUp'
  BY <1>1 DEF SummaryInv, SummaryTypeOK
<1> QED BY <1>1, <1>2, <1>3, <1>4, LayDownSummary

(* A cancelled worker gives up the job in its hand if it has no summary yet. *)
LEMMA WorkerCancelledSummary ==
  ASSUME SummaryInv, WorkerCancelled
  PROVE  SummaryInv'
<1>1. /\ worker' = WorkerAt("ended") /\ cancelled' = FALSE
      /\ UNCHANGED <<summary, torn, jobs, lifespans, late>>
  BY DEF WorkerCancelled, graphVars
<1>2. CASE InHand
  <2>1. TaskDone /\ givenUp' = givenUp \cup Unsummarised({worker.job})
    BY <1>2 DEF WorkerCancelled
  <2>2. /\ worker.job \in Conversations /\ givenUp \subseteq Conversations
        /\ summary' \in [Conversations -> {"absent", "pending", "ok", "failed"}]
    BY <1>1, <1>2 DEF SummaryInv, Hands, SummaryTypeOK
  <2>3. /\ givenUp' \subseteq Conversations /\ givenUp \subseteq givenUp'
        /\ summary'[worker.job] = "pending" => worker.job \in givenUp'
    BY <1>1, <2>1, <2>2 DEF Unsummarised
  <2> QED BY <1>1, <1>2, <2>1, <2>2, <2>3, LayDownSummary
<1>3. CASE ~InHand
  <2>1. UNCHANGED <<unfinished, lifespan, givenUp>>
    BY <1>3 DEF WorkerCancelled
  <2>2. /\ ~InHand' /\ Hands'
        /\ worker'.at \in Busy \cup {"none", "waiting", "ended"}
        /\ worker'.job \in Conversations \cup {Sentinel}
        /\ worker'.attempt \in 0 .. Attempts
    BY <1>1, IdleHands
  <2>3. SummaryTypeOK'
    BY <1>1, <2>1, <2>2 DEF SummaryInv, SummaryTypeOK
  <2>4. PendingHasJob' /\ Drained'
    BY <1>1, <1>3, <2>1 DEF SummaryInv, PendingHasJob, Drained, Waiting
  <2> QED BY <2>2, <2>3, <2>4, WorkerCancelledJoin DEF SummaryInv
<1> QED BY <1>2, <1>3

---------------------------------------------------------------------------
(* stop_worker puts its sentinel behind late sessions only, if it puts one. *)
LEMMA PutSentinelSummary ==
  ASSUME SummaryInv, PutSentinel, Waiting \subseteq late,
         UNCHANGED <<summary, torn, worker, cancelled, lifespans, late, givenUp>>
  PROVE  SummaryInv'
<1>1. jobs \in Seq(JobEntries) /\ Sentinel \in JobEntries
  BY DEF SummaryInv, SummaryTypeOK, JobEntries
<1>2. jobs' \in Seq(JobEntries) /\ ToSet(jobs') = ToSet(jobs) \cup {Sentinel}
  BY <1>1, EntriesFacts DEF PutSentinel
<1>3. Waiting' = Waiting
  BY <1>2, SummaryAssumption DEF Waiting, SummaryAssumption
<1>4. Drained'
  BY <1>3 DEF Drained
<1>5. PendingHasJob' /\ Hands'
  BY <1>3 DEF SummaryInv, PendingHasJob, Hands, InHand
<1>6. SummaryTypeOK'
  BY <1>2 DEF SummaryInv, SummaryTypeOK, PutSentinel, JobEntries, Stopping
<1> QED BY <1>4, <1>5, <1>6, PutSentinelJoin DEF SummaryInv

(* The steps of stop_worker before its return. *)
LEMMA StopSummary ==
  ASSUME SummaryInv, StopBegins \/ JoinReturns \/ StopTimesOut
  PROVE  SummaryInv'
<1>1. UNCHANGED <<summary, torn, worker, lifespans, late, givenUp>>
  BY DEF StopBegins, JoinReturns, StopTimesOut, graphVars
<1>2. CASE PutSentinel /\ UNCHANGED cancelled
  <2>1. Waiting \subseteq late
    <3>1. CASE StopBegins
      <4>1. unfinished = 0
        BY <1>2, <3>1 DEF StopBegins, PutSentinel
      <4> QED BY <4>1, EmptyCounter DEF SummaryInv
    <3>2. CASE JoinReturns
      BY <3>2 DEF JoinReturns, SummaryInv, Drained
    <3>3. CASE StopTimesOut
      BY <1>2, <3>3 DEF StopTimesOut, PutSentinel
    <3> QED BY <3>1, <3>2, <3>3
  <2> QED BY <1>1, <1>2, <2>1, PutSentinelSummary
<1>3. CASE /\ UNCHANGED <<jobs, unfinished>> /\ lifespan' \in {"joining", "reaping"}
           /\ cancelled' \in BOOLEAN
  <2>1. SummaryTypeOK'
    BY <1>1, <1>3 DEF SummaryInv, SummaryTypeOK, Stopping
  <2>2. Drained' /\ Hands' /\ PendingHasJob'
    BY <1>1, <1>3 DEF SummaryInv, Drained, Hands, PendingHasJob, Waiting, InHand
  <2> QED BY <2>1, <2>2, StopJoin DEF SummaryInv
<1>4. cancelled \in BOOLEAN
  BY DEF SummaryInv, SummaryTypeOK
<1> QED BY <1>2, <1>3, <1>4 DEF StopBegins, JoinReturns, StopTimesOut

(* stop_worker returns and forgets the worker that has ended. *)
LEMMA StopReturnsSummary ==
  ASSUME SummaryInv, StopReturns
  PROVE  SummaryInv'
<1>1. /\ worker.at = "ended" /\ lifespan' = "out" /\ worker' = NoWorker
      /\ UNCHANGED <<summary, torn, jobs, unfinished, cancelled, lifespans, late, givenUp>>
  BY DEF StopReturns, graphVars
<1>2. worker' = WorkerAt("none") /\ ~InHand
  BY <1>1 DEF WorkerAt, NoWorker, InHand, Busy
<1>3. /\ ~InHand' /\ Hands'
      /\ worker'.at \in Busy \cup {"none", "waiting", "ended"}
      /\ worker'.job \in Conversations \cup {Sentinel}
      /\ worker'.attempt \in 0 .. Attempts
  BY <1>2, IdleHands
<1>4. SummaryTypeOK'
  BY <1>1, <1>3 DEF SummaryInv, SummaryTypeOK
<1>5. PendingHasJob' /\ Drained'
  BY <1>1, <1>2 DEF SummaryInv, PendingHasJob, Drained, Waiting
<1> QED BY <1>3, <1>4, <1>5, StopReturnsJoin DEF SummaryInv

---------------------------------------------------------------------------
(* Every step keeps queue, hands, graph and the stop in agreement. *)
LEMMA StepSummary ==
  ASSUME SummaryInv, [SummaryNext]_summaryVars
  PROVE  SummaryInv'
<1>1. CASE UNCHANGED summaryVars
  <2>1. JoinInv'
    BY <1>1, StepJoin DEF SummaryInv
  <2> QED BY <1>1, <2>1 DEF summaryVars, SummaryInv, SummaryTypeOK, Hands, PendingHasJob,
             Drained, Waiting, InHand
<1>2. CASE SummaryNext
  BY <1>2, EnterLifespanSummary, CrashSummary, CaptureSummary, TakeJobSummary,
     TakeSentinelSummary, OllamaSummary, SleepEndsSummary, EmbeddingEndsSummary,
     WorkerCancelledSummary, StopSummary, StopReturnsSummary
     DEF SummaryNext, WorkerStep, StopStep
<1> QED BY <1>1, <1>2

(* The worker, its tool and its stop keep the strengthened invariant. *)
THEOREM SummaryInvariance == SummarySpec => []SummaryInv
  BY InitSummary, StepSummary, PTL DEF SummarySpec

(* Every variable keeps its type, the attempts of a job included: a worker sleeps  *)
(* only before an attempt that the limit of embed_client.py still allows.     *)
THEOREM SummaryTypes == SummarySpec => []SummaryTypeOK
<1>1. SummaryInv => SummaryTypeOK
  BY DEF SummaryInv
<1> QED BY SummaryInvariance, <1>1, PTL

(* No captured session says 'pending' without a job that will summarise it, or a    *)
(* listed reason why none will.                                              *)
THEOREM PendingIsQueued == SummarySpec => []PendingHasJob
<1>1. SummaryInv => PendingHasJob
  BY DEF SummaryInv
<1> QED BY SummaryInvariance, <1>1, PTL

(* A stop_worker that did not time out leaves no job behind of a session captured   *)
(* before it began, whatever sentinels earlier stops left in the queue.       *)
THEOREM StopDrains == SummarySpec => DrainedStop
<1>1. SummaryInv /\ StopReturns /\ lifespan = "exiting" => Waiting \subseteq late
  BY DEF SummaryInv, Drained
<1> QED BY SummaryInvariance, <1>1, PTL DEF DrainedStop

=============================================================================
