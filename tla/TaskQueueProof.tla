----------------------------- MODULE TaskQueueProof ------------------------------
(***************************************************************************)
(* Proofs about TaskQueue for every number of tasks, clients and slots.     *)
(***************************************************************************)
EXTENDS TaskQueue, TLAPS, FiniteSetTheorems, SequenceTheorems

USE ConfigAssumption

---------------------------------------------------------------------------------
(* Sequences without repetition *)

(* Every set of task ids is finite. *)
LEMMA TasksFinite ==
  ASSUME NEW S, S \subseteq Tasks
  PROVE  IsFiniteSet(S) /\ Cardinality(S) \in Nat
<1>1. IsFiniteSet(Tasks)  BY FS_Interval DEF Tasks
<1>2. QED  BY <1>1, FS_Subset, FS_CardinalityType

(* The two ways of being at most b. *)
LEMMA LeqCases == \A a, b \in Nat : a <= b => a = b \/ a < b
  OBVIOUS

(* The range of a sequence of tasks, in terms of its indices. *)
LEMMA RangeFacts ==
  ASSUME NEW s \in Seq(Tasks)
  PROVE  /\ DOMAIN s = 1..Len(s)
         /\ Len(s) \in Nat
         /\ Range(s) \subseteq Tasks
         /\ \A i \in 1..Len(s) : s[i] \in Tasks /\ s[i] \in Range(s)
         /\ \A t \in Range(s) : \E i \in 1..Len(s) : s[i] = t
         /\ s = <<>> <=> Len(s) = 0
<1>1. DOMAIN s = 1..Len(s) /\ Len(s) \in Nat  BY LenProperties
<1>2. \A i \in 1..Len(s) : s[i] \in Tasks  BY ElementOfSeq
<1>3. s = <<>> <=> Len(s) = 0  BY EmptySeq
<1>4. QED  BY <1>1, <1>2, <1>3 DEF Range

(* Taking the tail after position k. *)
LEMMA TailFacts ==
  ASSUME NEW s \in Seq(Tasks), NEW k \in 0..Len(s), IsInjective(s)
  PROVE  LET r == SubSeq(s, k + 1, Len(s))
         IN  /\ r \in Seq(Tasks)
             /\ Len(r) = Len(s) - k
             /\ \A i \in 1..Len(r) : r[i] = s[k + i]
             /\ IsInjective(r)
             /\ Range(r) = Range(s) \ {s[i] : i \in 1..k}
<1> DEFINE r == SubSeq(s, k + 1, Len(s))
<1>0. /\ Len(s) \in Nat /\ DOMAIN s = 1..Len(s) /\ k \in Nat /\ k <= Len(s)
      /\ \A i \in 1..Len(s) : s[i] \in Tasks
  BY RangeFacts
<1>1. \A i \in k + 1 .. Len(s) : s[i] \in Tasks  BY <1>0
<1>2. /\ r \in Seq(Tasks)
      /\ Len(r) = IF k + 1 <= Len(s) THEN Len(s) - (k + 1) + 1 ELSE 0
      /\ \A i \in 1..Len(s) - (k + 1) + 1 : r[i] = s[(k + 1) + i - 1]
  BY <1>0, <1>1, SubSeqProperties
<1> HIDE DEF r
<1>3. Len(r) = Len(s) - k
  <2>1. CASE k = Len(s)
    <3>1. ~(k + 1 <= Len(s)) /\ Len(s) - k = 0  BY <1>0, <2>1
    <3>2. QED  BY <1>2, <3>1
  <2>2. CASE k < Len(s)
    <3>1. k + 1 <= Len(s)  BY <1>0, <2>2
    <3>2. Len(s) - (k + 1) + 1 = Len(s) - k  BY <1>0
    <3>3. QED  BY <1>2, <3>1, <3>2
  <2>3. QED  BY <1>0, <2>1, <2>2, LeqCases
<1>4. \A i \in 1..Len(r) : r[i] = s[k + i]
  <2>1. Len(s) - (k + 1) + 1 = Len(s) - k  BY <1>0
  <2>2. \A i \in 1..Len(s) - k : (k + 1) + i - 1 = k + i  BY <1>0
  <2>3. QED  BY <1>2, <1>3, <2>1, <2>2
<1>5. DOMAIN r = 1..Len(r)  BY <1>2, RangeFacts
<1>6. IsInjective(r)
  <2> SUFFICES ASSUME NEW a \in 1..Len(r), NEW b \in 1..Len(r), r[a] = r[b]
               PROVE  a = b
    BY <1>5 DEF IsInjective
  <2>1. s[k + a] = s[k + b]  BY <1>4
  <2>2. k + a \in DOMAIN s /\ k + b \in DOMAIN s  BY <1>0, <1>3
  <2>3. k + a = k + b  BY <2>1, <2>2 DEF IsInjective
  <2>4. QED  BY <2>3, <1>0
<1>7. Range(r) \subseteq Range(s) \ {s[i] : i \in 1..k}
  <2> SUFFICES ASSUME NEW j \in 1..Len(r)
               PROVE  r[j] \in Range(s) /\ \A i \in 1..k : r[j] # s[i]
    BY <1>5 DEF Range
  <2>1. k + j \in 1..Len(s) /\ r[j] = s[k + j]  BY <1>0, <1>3, <1>4
  <2>2. r[j] \in Range(s)  BY <2>1, <1>0 DEF Range
  <2>3. ASSUME NEW i \in 1..k, r[j] = s[i]  PROVE FALSE
    <3>1. i \in DOMAIN s /\ k + j \in DOMAIN s  BY <1>0, <2>1
    <3>2. i = k + j  BY <3>1, <2>1, <2>3 DEF IsInjective
    <3>3. QED  BY <3>2, <1>0
  <2>4. QED  BY <2>2, <2>3
<1>8. Range(s) \ {s[i] : i \in 1..k} \subseteq Range(r)
  <2> SUFFICES ASSUME NEW i \in 1..Len(s), i \notin 1..k
               PROVE  s[i] \in Range(r)
    BY <1>0 DEF Range
  <2>1. i - k \in 1..Len(r) /\ s[i] = r[i - k]  BY <1>0, <1>3, <1>4
  <2>2. QED  BY <2>1, <1>5 DEF Range
<1>9. QED  BY <1>2, <1>3, <1>4, <1>6, <1>7, <1>8 DEF r

(* Joining two sequences that share nothing. *)
LEMMA JoinFacts ==
  ASSUME NEW s \in Seq(Tasks), NEW r \in Seq(Tasks), IsInjective(s), IsInjective(r),
         Range(s) \cap Range(r) = {}
  PROVE  /\ s \o r \in Seq(Tasks)
         /\ Len(s \o r) = Len(s) + Len(r)
         /\ IsInjective(s \o r)
         /\ Range(s \o r) = Range(s) \cup Range(r)
<1> DEFINE j == s \o r
<1>0. /\ Len(s) \in Nat /\ DOMAIN s = 1..Len(s)
      /\ Len(r) \in Nat /\ DOMAIN r = 1..Len(r)
  BY RangeFacts
<1>1. /\ j \in Seq(Tasks)
      /\ Len(j) = Len(s) + Len(r)
      /\ \A i \in 1 .. Len(s) + Len(r) : j[i] = IF i <= Len(s) THEN s[i] ELSE r[i - Len(s)]
  BY ConcatProperties
<1>2. DOMAIN j = 1..Len(s) + Len(r)  BY <1>1, RangeFacts
<1> HIDE DEF j
<1>3. ASSUME NEW a \in 1..Len(s) + Len(r)
      PROVE  \/ a \in 1..Len(s) /\ j[a] = s[a] /\ j[a] \in Range(s)
             \/ a - Len(s) \in 1..Len(r) /\ j[a] = r[a - Len(s)] /\ j[a] \in Range(r)
  <2>1. CASE a <= Len(s)
    <3>1. a \in 1..Len(s) /\ j[a] = s[a]  BY <2>1, <1>0, <1>1
    <3>2. QED  BY <3>1, <1>0 DEF Range
  <2>2. CASE ~(a <= Len(s))
    <3>1. a - Len(s) \in 1..Len(r) /\ j[a] = r[a - Len(s)]  BY <2>2, <1>0, <1>1
    <3>2. QED  BY <3>1, <1>0 DEF Range
  <2>3. QED  BY <2>1, <2>2
<1>4. IsInjective(j)
  <2> SUFFICES ASSUME NEW a \in 1..Len(s) + Len(r), NEW b \in 1..Len(s) + Len(r),
                      j[a] = j[b]
               PROVE  a = b
    BY <1>2 DEF IsInjective
  <2>1. CASE a \in 1..Len(s) /\ j[a] = s[a] /\ j[a] \in Range(s)
    <3>1. b \in 1..Len(s) /\ j[b] = s[b]  BY <2>1, <1>3
    <3>2. QED  BY <2>1, <3>1, <1>0 DEF IsInjective
  <2>2. CASE a - Len(s) \in 1..Len(r) /\ j[a] = r[a - Len(s)] /\ j[a] \in Range(r)
    <3>1. b - Len(s) \in 1..Len(r) /\ j[b] = r[b - Len(s)]  BY <2>2, <1>3
    <3>2. a - Len(s) = b - Len(s)  BY <2>2, <3>1, <1>0 DEF IsInjective
    <3>3. QED  BY <3>2, <1>0
  <2>3. QED  BY <1>3, <2>1, <2>2
<1>5. Range(j) \subseteq Range(s) \cup Range(r)  BY <1>2, <1>3 DEF Range
<1>6. ASSUME NEW i \in 1..Len(s)  PROVE s[i] \in Range(j)
  <2>1. i \in 1..Len(s) + Len(r) /\ j[i] = s[i]  BY <1>0, <1>1
  <2>2. QED  BY <2>1, <1>2 DEF Range
<1>7. ASSUME NEW i \in 1..Len(r)  PROVE r[i] \in Range(j)
  <2>1. Len(s) + i \in 1..Len(s) + Len(r)  BY <1>0
  <2>2. ~(Len(s) + i <= Len(s)) /\ Len(s) + i - Len(s) = i  BY <1>0
  <2>3. j[Len(s) + i] = r[i]  BY <2>1, <2>2, <1>1
  <2>4. QED  BY <2>1, <2>3, <1>2 DEF Range
<1>8. Range(s) \cup Range(r) \subseteq Range(j)
  <2>1. Range(s) = {s[i] : i \in 1..Len(s)}  BY <1>0 DEF Range
  <2>2. Range(r) = {r[i] : i \in 1..Len(r)}  BY <1>0 DEF Range
  <2>3. QED  BY <2>1, <2>2, <1>6, <1>7
<1>9. Range(j) = Range(s) \cup Range(r)  BY <1>5, <1>8
<1>10. QED  BY <1>1, <1>4, <1>9 DEF j

(* deque.remove: everything but the element at i, in order. *)
LEMMA RemoveAtFacts ==
  ASSUME NEW s \in Seq(Tasks), NEW i \in 1..Len(s), IsInjective(s)
  PROVE  /\ RemoveAt(s, i) \in Seq(Tasks)
         /\ IsInjective(RemoveAt(s, i))
         /\ Range(RemoveAt(s, i)) = Range(s) \ {s[i]}
<1> DEFINE l == SubSeq(s, 1, i - 1)
           r == SubSeq(s, i + 1, Len(s))
<1>0. /\ Len(s) \in Nat /\ DOMAIN s = 1..Len(s) /\ i \in Nat /\ 1 <= i /\ i <= Len(s)
      /\ \A m \in 1..Len(s) : s[m] \in Tasks
  BY RangeFacts
<1>1. /\ r \in Seq(Tasks) /\ IsInjective(r)
      /\ Range(r) = Range(s) \ {s[m] : m \in 1..i}
  <2>1. i \in 0..Len(s)  BY <1>0
  <2>2. QED  BY <2>1, TailFacts
<1>2. /\ l \in Seq(Tasks)
      /\ Len(l) = i - 1
      /\ \A m \in 1..i - 1 : l[m] = s[m]
  <2>1. \A m \in 1..i - 1 : s[m] \in Tasks  BY <1>0
  <2>2. /\ l \in Seq(Tasks)
        /\ Len(l) = IF 1 <= i - 1 THEN (i - 1) - 1 + 1 ELSE 0
        /\ \A m \in 1..(i - 1) - 1 + 1 : l[m] = s[1 + m - 1]
    BY <1>0, <2>1, SubSeqProperties
  <2>3. QED  BY <1>0, <2>2
<1>3. DOMAIN l = 1..i - 1  BY <1>2, RangeFacts
<1>4. IsInjective(l)
  <2> SUFFICES ASSUME NEW a \in 1..i - 1, NEW b \in 1..i - 1, l[a] = l[b]  PROVE a = b
    BY <1>3 DEF IsInjective
  <2>1. s[a] = s[b] /\ a \in DOMAIN s /\ b \in DOMAIN s  BY <1>0, <1>2
  <2>2. QED  BY <2>1 DEF IsInjective
<1>5. Range(l) = {s[m] : m \in 1..i - 1}  BY <1>2, <1>3 DEF Range
<1>6. /\ Range(l) \subseteq Range(s) /\ s[i] \notin Range(l)
      /\ Range(l) \cap Range(r) = {}
  <2>1. \A m \in 1..i - 1 : m \in 1..Len(s) /\ m \in 1..i /\ m # i  BY <1>0
  <2>2. Range(l) \subseteq Range(s)  BY <1>0, <1>5, <2>1 DEF Range
  <2>3. s[i] \notin Range(l)  BY <1>0, <1>5, <2>1 DEF IsInjective
  <2>4. QED  BY <1>1, <1>5, <2>1, <2>2, <2>3
<1>7. /\ l \o r \in Seq(Tasks) /\ IsInjective(l \o r) /\ Range(l \o r) = Range(l) \cup Range(r)
  BY <1>1, <1>2, <1>4, <1>6, JoinFacts
<1>8. Range(l) \cup Range(r) = Range(s) \ {s[i]}
  <2>1. {s[m] : m \in 1..i} = {s[m] : m \in 1..i - 1} \cup {s[i]}
    <3>1. 1..i = (1..i - 1) \cup {i}  BY <1>0
    <3>2. QED  BY <3>1
  <2>2. QED  BY <1>1, <1>5, <1>6, <2>1
<1>9. QED  BY <1>7, <1>8 DEF RemoveAt

---------------------------------------------------------------------------------
(* The two operators that the handlers share *)

(* The history keeps its newest entries, and a task leaves _tasks exactly when it
   leaves the history.                                                         *)
LEMMA RememberFacts ==
  ASSUME NEW s \in Seq(Tasks), order \in Seq(Tasks), IsInjective(order), IsInjective(s),
         Range(order) \cap Range(s) = {}, Remember(s)
  PROVE  /\ order' \in Seq(Tasks)
         /\ IsInjective(order')
         /\ Len(order') <= MaxCompleted
         /\ Range(order') \subseteq Range(order) \cup Range(s)
         /\ known' = known \ ((Range(order) \cup Range(s)) \ Range(order'))
<1> DEFINE all == order \o s
           stale == IF Len(all) > MaxCompleted THEN Len(all) - MaxCompleted ELSE 0
<1>1. /\ all \in Seq(Tasks) /\ IsInjective(all) /\ Range(all) = Range(order) \cup Range(s)
  BY JoinFacts
<1>2. Len(all) \in Nat /\ DOMAIN all = 1..Len(all)  BY <1>1, RangeFacts
<1>3. /\ order' = SubSeq(all, stale + 1, Len(all))
      /\ known' = known \ {all[i] : i \in 1..stale}
  BY DEF Remember
<1> HIDE DEF all
<1>4. stale \in 0..Len(all) /\ Len(all) - stale <= MaxCompleted
  BY <1>2 DEF ConfigAssumption
<1>5. stale \in Nat /\ stale <= Len(all)  BY <1>2, <1>4
<1> HIDE DEF stale
<1>6. /\ order' \in Seq(Tasks) /\ IsInjective(order') /\ Len(order') = Len(all) - stale
      /\ Range(order') = Range(all) \ {all[i] : i \in 1..stale}
  BY <1>1, <1>3, <1>4, TailFacts
<1>7. {all[i] : i \in 1..stale} \subseteq Range(all)
  BY <1>2, <1>5 DEF Range
<1>8. QED  BY <1>1, <1>3, <1>4, <1>6, <1>7

(* What _drain_locked does to a queue of queued tasks: it moves ids from the front
   of the queue to free slots until there is no id or no slot left.            *)
LEMMA DrainFacts ==
  ASSUME NEW q \in Seq(Tasks), NEW h \in SUBSET Tasks, NEW kn,
         NEW tk \in [Tasks -> TaskRecord],
         IsInjective(q), Range(q) \cap h = {}, Range(q) \subseteq kn,
         \A t \in Range(q) : tk[t].status = "queued",
         Cardinality(h) <= MaxConcurrent,
         Drain(q, h, kn, tk)
  PROVE  /\ queue' \in Seq(Tasks) /\ IsInjective(queue')
         /\ handles' \subseteq Tasks /\ h \subseteq handles'
         /\ Range(queue') \cup handles' = Range(q) \cup h
         /\ Range(queue') \cap handles' = {}
         /\ Cardinality(handles') <= MaxConcurrent
         /\ queue' # <<>> => Cardinality(handles') = MaxConcurrent
         /\ task' \in [Tasks -> TaskRecord]
         /\ \A t \in handles' \ h : task'[t].status = "running" /\ task'[t].pc = "scheduled"
         /\ \A t \in Tasks \ (handles' \ h) : task'[t] = tk[t]
<1> DEFINE First(k) == {q[i] : i \in 1..k}
<1>0. /\ Len(q) \in Nat /\ DOMAIN q = 1..Len(q) /\ Range(q) \subseteq Tasks
      /\ \A i \in 1..Len(q) : q[i] \in Tasks /\ q[i] \in Range(q)
  BY RangeFacts
<1>1. \A k \in 0..Len(q) : First(k) \subseteq Range(q)  BY <1>0
<1>2. \A k \in 0..Len(q) : Startable(q, k, kn, tk) = First(k)
  BY <1>1 DEF Startable
<1>3. PICK k \in 0..Len(q) :
        /\ k < Len(q) => Cardinality(h \cup Startable(q, k, kn, tk)) >= MaxConcurrent
        /\ k > 0 => Cardinality(h \cup Startable(q, k - 1, kn, tk)) < MaxConcurrent
        /\ queue' = SubSeq(q, k + 1, Len(q))
        /\ handles' = h \cup Startable(q, k, kn, tk)
        /\ task' = [t \in Tasks |->
                      IF t \in Startable(q, k, kn, tk)
                      THEN [tk[t] EXCEPT !.status = "running", !.step = "running",
                                         !.pc = "scheduled"]
                      ELSE tk[t]]
  BY DEF Drain
<1>4. k \in Nat /\ k <= Len(q) /\ Startable(q, k, kn, tk) = First(k)  BY <1>0, <1>2
<1>5. handles' = h \cup First(k) /\ First(k) \subseteq Range(q)  BY <1>1, <1>3, <1>4
<1>6. /\ queue' \in Seq(Tasks) /\ IsInjective(queue')
      /\ Len(queue') = Len(q) - k
      /\ Range(queue') = Range(q) \ First(k)
  BY <1>3, TailFacts
<1>7. handles' \subseteq Tasks  BY <1>0, <1>5
<1>8. Cardinality(handles') <= MaxConcurrent
  <2>1. CASE k = 0
    <3>1. First(k) = {}  BY <2>1
    <3>2. QED  BY <1>5, <3>1
  <2>2. CASE k > 0
    <3>1. k - 1 \in 0..Len(q) /\ k \in 1..Len(q)  BY <1>0, <1>4, <2>2
    <3> DEFINE hh == h \cup First(k - 1)
    <3>2. Cardinality(hh) < MaxConcurrent  BY <1>2, <1>3, <2>2, <3>1
    <3>3. 1..k = (1..k - 1) \cup {k}  BY <1>4, <2>2
    <3>4. handles' = hh \cup {q[k]}  BY <1>5, <3>3
    <3>5. hh \subseteq Tasks  BY <1>0, <1>1, <3>1
    <3>6. IsFiniteSet(hh) /\ Cardinality(hh) \in Nat  BY <3>5, TasksFinite
    <3> HIDE DEF hh
    <3>7. Cardinality(handles') = IF q[k] \in hh THEN Cardinality(hh) ELSE Cardinality(hh) + 1
      BY <3>4, <3>6, FS_AddElement
    <3>8. QED  BY <3>2, <3>6, <3>7 DEF ConfigAssumption
  <2>3. QED  BY <1>4, <2>1, <2>2
<1>9. queue' # <<>> => Cardinality(handles') = MaxConcurrent
  <2> SUFFICES ASSUME queue' # <<>>  PROVE Cardinality(handles') = MaxConcurrent
    OBVIOUS
  <2>1. Len(queue') # 0  BY <1>6, RangeFacts
  <2>2. k < Len(q)
    <3>1. ASSUME k = Len(q)  PROVE FALSE
      <4>1. Len(q) - k = 0  BY <1>0, <3>1
      <4>2. QED  BY <1>6, <2>1, <4>1
    <3>2. QED  BY <1>0, <1>4, <3>1, LeqCases
  <2>3. Cardinality(handles') >= MaxConcurrent  BY <1>3, <2>2
  <2>4. Cardinality(handles') \in Nat  BY <1>7, TasksFinite
  <2>5. QED  BY <1>8, <2>3, <2>4 DEF ConfigAssumption
<1>10. /\ task' \in [Tasks -> TaskRecord]
       /\ \A t \in First(k) : task'[t].status = "running" /\ task'[t].pc = "scheduled"
       /\ \A t \in Tasks \ First(k) : task'[t] = tk[t]
  <2>1. First(k) \subseteq Tasks  BY <1>0, <1>5
  <2> HIDE DEF First
  <2>2. task' = [t \in Tasks |-> IF t \in First(k)
                                 THEN [tk[t] EXCEPT !.status = "running", !.step = "running",
                                                    !.pc = "scheduled"]
                                 ELSE tk[t]]
    BY <1>3, <1>4
  <2>3. ASSUME NEW t \in Tasks
        PROVE  [tk[t] EXCEPT !.status = "running", !.step = "running", !.pc = "scheduled"]
                 \in TaskRecord
    <3>1. tk[t] \in TaskRecord  OBVIOUS
    <3>2. QED  BY <3>1 DEF TaskRecord
  <2>4. task' \in [Tasks -> TaskRecord]  BY <2>2, <2>3
  <2>5. ASSUME NEW t \in First(k)
        PROVE  task'[t].status = "running" /\ task'[t].pc = "scheduled"
    <3>1. task'[t] = [tk[t] EXCEPT !.status = "running", !.step = "running", !.pc = "scheduled"]
      BY <2>1, <2>2
    <3>2. tk[t] \in TaskRecord  BY <2>1
    <3>3. QED  BY <3>1, <3>2 DEF TaskRecord
  <2>6. QED  BY <2>2, <2>4, <2>5
<1>11. handles' \ h = First(k)  BY <1>5
<1>12. QED  BY <1>5, <1>6, <1>7, <1>8, <1>9, <1>10, <1>11

---------------------------------------------------------------------------------
(* The inductive invariant *)

(* Only a task in a slot has a live coroutine, and ids not given out yet are not
   known: what Filed needs to survive the end of a runner and an enqueue.      *)
Active == \A t \in Tasks : task[t].pc \in {"scheduled", "inRunner"} => t \in handles
Fresh == \A t \in known : t < next

IInv == TypeOK /\ Pool /\ Filed /\ Active /\ Fresh

(* The invariant holds before the first enqueue. *)
LEMMA InitIInv == Init => IInv
<1> SUFFICES ASSUME Init PROVE IInv  OBVIOUS
<1>1. <<>> \in Seq(Tasks) /\ Len(<<>>) = 0 /\ DOMAIN <<>> = {}  BY EmptySeq, RangeFacts
<1>2. Range(<<>>) = {} /\ IsInjective(<<>>)  BY <1>1 DEF Range, IsInjective
<1>3. TypeOK  BY <1>1 DEF Init, TypeOK, TaskRecord, Nobody, ConfigAssumption
<1>4. Pool  BY FS_EmptySet DEF Init, Pool, ConfigAssumption
<1>5. Filed  BY <1>1, <1>2 DEF Init, Filed, ConfigAssumption
<1>6. Active /\ Fresh  BY DEF Init, Active, Fresh
<1>7. QED  BY <1>3, <1>4, <1>5, <1>6 DEF IInv


---------------------------------------------------------------------------------
(* Consequences of the invariant, and of the operators on records *)

(* What the invariant says of the places of a task: the sequences and sets are sets of
   tasks, and no task is in two of them.                                       *)
LEMMA Places ==
  ASSUME IInv
  PROVE  /\ queue \in Seq(Tasks) /\ order \in Seq(Tasks)
         /\ IsInjective(queue) /\ IsInjective(order)
         /\ handles \in SUBSET Tasks /\ task \in [Tasks -> TaskRecord]
         /\ Range(queue) \subseteq Tasks /\ Range(order) \subseteq Tasks
         /\ Range(queue) \cap handles = {}
         /\ Range(queue) \cap Range(order) = {}
         /\ handles \cap Range(order) = {}
         /\ known = Range(queue) \cup handles \cup Range(order)
         /\ runners = Range(queue) \cup handles
<1>1. /\ queue \in Seq(Tasks) /\ order \in Seq(Tasks)
      /\ handles \in SUBSET Tasks /\ task \in [Tasks -> TaskRecord]
  BY DEF IInv, TypeOK
<1>2. Range(queue) \subseteq Tasks /\ Range(order) \subseteq Tasks  BY <1>1, RangeFacts
<1>3. QED  BY <1>1, <1>2 DEF IInv, Filed, Terminal

(* The history grows by one task at a time. *)
LEMMA Single ==
  ASSUME NEW t \in Tasks
  PROVE  <<t>> \in Seq(Tasks) /\ IsInjective(<<t>>) /\ Range(<<t>>) = {t}
BY DEF IsInjective, Range

(* A status and its progress step are written together; no other record changes. *)
LEMMA SetEndFacts ==
  ASSUME NEW tk \in [Tasks -> TaskRecord], NEW t \in Tasks, NEW st \in Terminal
  PROVE  /\ SetEnd(tk, t, st) \in [Tasks -> TaskRecord]
         /\ SetEnd(tk, t, st)[t].status = st
         /\ SetEnd(tk, t, st)[t].pc = tk[t].pc
         /\ \A u \in Tasks \ {t} : SetEnd(tk, t, st)[u] = tk[u]
<1>1. tk[t] \in TaskRecord  OBVIOUS
<1>2. [tk[t] EXCEPT !.status = st, !.step = st] \in TaskRecord
  BY <1>1 DEF TaskRecord
<1>3. SetEnd(tk, t, st) = [tk EXCEPT ![t] = [tk[t] EXCEPT !.status = st, !.step = st]]
  BY <1>1 DEF SetEnd, TaskRecord
<1>4. QED  BY <1>1, <1>2, <1>3 DEF TaskRecord

(* handle.cancel() only marks: no status and no coroutine changes at once. *)
LEMMA InterruptFacts ==
  ASSUME NEW tk \in [Tasks -> TaskRecord], NEW ts
  PROVE  /\ Interrupt(tk, ts) \in [Tasks -> TaskRecord]
         /\ \A t \in Tasks : /\ Interrupt(tk, ts)[t].status = tk[t].status
                             /\ Interrupt(tk, ts)[t].pc = tk[t].pc
<1> SUFFICES ASSUME NEW t \in Tasks
             PROVE  /\ Interrupt(tk, ts)[t] \in TaskRecord
                    /\ Interrupt(tk, ts)[t].status = tk[t].status
                    /\ Interrupt(tk, ts)[t].pc = tk[t].pc
  BY DEF Interrupt
<1>1. tk[t] \in TaskRecord  OBVIOUS
<1>2. /\ [tk[t] EXCEPT !.cancel = TRUE] \in TaskRecord
      /\ [tk[t] EXCEPT !.cancel = TRUE].status = tk[t].status
      /\ [tk[t] EXCEPT !.cancel = TRUE].pc = tk[t].pc
  BY <1>1 DEF TaskRecord
<1>3. Interrupt(tk, ts)[t] = tk[t] \/ Interrupt(tk, ts)[t] = [tk[t] EXCEPT !.cancel = TRUE]
  BY DEF Interrupt
<1>4. QED  BY <1>1, <1>2, <1>3

---------------------------------------------------------------------------------
(* One lemma per action *)

(* enqueue keeps the invariant: the new id is in no other place yet. *)
LEMMA EnqueueKeeps ==
  ASSUME IInv, Enqueue
  PROVE  IInv'
<1> DEFINE q == Append(queue, next)
           tk == [task EXCEPT ![next] = NewTask]
<1>1. /\ next \in Tasks /\ next \notin known
      /\ next' \in 1..(NumTasks + 1) /\ next' = next + 1
  BY DEF Enqueue, IInv, TypeOK, Fresh, Tasks, ConfigAssumption
<1>2. q \in Seq(Tasks) /\ IsInjective(q) /\ Range(q) = Range(queue) \cup {next}
  <2>1. q = queue \o <<next>>  BY <1>1, Places, AppendIsConcat
  <2>2. <<next>> \in Seq(Tasks) /\ IsInjective(<<next>>) /\ Range(<<next>>) = {next}
    BY <1>1, Single
  <2>3. queue \in Seq(Tasks) /\ IsInjective(queue) /\ Range(queue) \cap Range(<<next>>) = {}
    BY <1>1, <2>2, Places
  <2>4. /\ queue \o <<next>> \in Seq(Tasks) /\ IsInjective(queue \o <<next>>)
        /\ Range(queue \o <<next>>) = Range(queue) \cup Range(<<next>>)
    BY <2>2, <2>3, JoinFacts
  <2>5. QED  BY <2>1, <2>2, <2>4
<1>3. /\ NewTask \in TaskRecord /\ NewTask.status = "queued" /\ NewTask.pc = "none"
  BY DEF NewTask, TaskRecord
<1>4. /\ tk \in [Tasks -> TaskRecord] /\ tk[next] = NewTask
      /\ \A t \in Tasks \ {next} : tk[t] = task[t]
  BY <1>1, <1>3, Places
<1>5. Range(q) \cap handles = {} /\ Range(q) \subseteq known \cup {next}
  BY <1>1, <1>2, Places
<1>6. \A t \in Range(q) : tk[t].status = "queued" /\ tk[t].pc = "none"
  BY <1>1, <1>2, <1>3, <1>4, Places DEF IInv, Filed
<1>7. Cardinality(handles) <= MaxConcurrent  BY DEF IInv, Pool
<1>8. Drain(q, handles, known \cup {next}, tk)  BY DEF Enqueue
<1> HIDE DEF q, tk
<1>9. /\ queue' \in Seq(Tasks) /\ IsInjective(queue')
      /\ handles' \subseteq Tasks /\ handles \subseteq handles'
      /\ Range(queue') \cup handles' = Range(q) \cup handles
      /\ Range(queue') \cap handles' = {}
      /\ Cardinality(handles') <= MaxConcurrent
      /\ queue' # <<>> => Cardinality(handles') = MaxConcurrent
      /\ task' \in [Tasks -> TaskRecord]
      /\ \A t \in handles' \ handles : task'[t].status = "running" /\ task'[t].pc = "scheduled"
      /\ \A t \in Tasks \ (handles' \ handles) : task'[t] = tk[t]
  BY <1>2, <1>4, <1>5, <1>6, <1>7, <1>8, Places, DrainFacts
<1>10. /\ known' = known \cup {next} /\ runners' = runners \cup {next}
       /\ order' = order /\ UNCHANGED <<waiting, shut, shutWait>>
  BY DEF Enqueue
<1>11. handles' \ handles \subseteq Range(q) /\ Range(queue') \subseteq Range(q)
  BY <1>9
<1>12. TypeOK'  BY <1>1, <1>9, <1>10, Places DEF IInv, TypeOK
<1>13. Pool'  BY <1>9 DEF Pool
<1>14. Filed'
  <2>1. known' = Range(queue') \cup handles' \cup Range(order')
    BY <1>2, <1>9, <1>10, Places
  <2>2. runners' = Range(queue') \cup handles'  BY <1>2, <1>9, <1>10, Places
  <2>3. \A t \in Range(queue') : task'[t].status = "queued" /\ task'[t].pc = "none"
    BY <1>2, <1>6, <1>9, <1>11, RangeFacts
  <2>4. \A t \in handles' : task'[t].status = "running" /\ task'[t].pc # "none"
    <3> SUFFICES ASSUME NEW t \in handles'
                 PROVE  task'[t].status = "running" /\ task'[t].pc # "none"
      OBVIOUS
    <3>1. CASE t \in handles
      <4>1. t # next /\ t \in Tasks  BY <1>1, <3>1, Places
      <4>2. task'[t] = task[t]  BY <1>4, <1>9, <3>1, <4>1
      <4>3. QED  BY <3>1, <4>2 DEF IInv, Filed
    <3>2. CASE t \notin handles  BY <1>9, <3>2
    <3>3. QED  BY <3>1, <3>2
  <2>5. \A t \in Range(order') : task'[t] = task[t]
    BY <1>1, <1>2, <1>4, <1>9, <1>10, <1>11, Places
  <2>6. QED  BY <1>9, <1>10, <2>1, <2>2, <2>3, <2>4, <2>5 DEF IInv, Filed
<1>15. Active'
  <2> SUFFICES ASSUME NEW t \in Tasks, task'[t].pc \in {"scheduled", "inRunner"}, t \notin handles'
               PROVE  FALSE
    BY DEF Active
  <2>1. task'[t] = tk[t]  BY <1>9
  <2>2. t # next  BY <1>3, <1>4, <2>1
  <2>3. QED  BY <1>4, <1>9, <2>1, <2>2 DEF IInv, Active
<1>16. Fresh'
  <2>1. next \in Int /\ \A t \in known : t \in Int /\ t < next
    BY DEF IInv, TypeOK, Fresh, Tasks
  <2>2. QED  BY <1>1, <1>10, <2>1 DEF Fresh
<1>17. QED  BY <1>12, <1>13, <1>14, <1>15, <1>16 DEF IInv

(* cancel_task of a queued task moves one id from the queue to the history. *)
LEMMA CancelQueuedKeeps ==
  ASSUME IInv, CancelQueued
  PROVE  IInv'
<1>1. PICK i \in 1..Len(queue) :
        /\ queue' = RemoveAt(queue, i)
        /\ task' = SetEnd(task, queue[i], "cancelled")
        /\ runners' = runners \ {queue[i]}
        /\ Remember(<<queue[i]>>)
        /\ UNCHANGED <<next, handles, waiting, shut, shutWait>>
  BY DEF CancelQueued
<1> DEFINE t == queue[i]
<1>2. t \in Range(queue) /\ t \in Tasks  BY Places, RangeFacts
<1>3. /\ queue' \in Seq(Tasks) /\ IsInjective(queue') /\ Range(queue') = Range(queue) \ {t}
  BY <1>1, Places, RemoveAtFacts
<1>4. /\ order' \in Seq(Tasks) /\ IsInjective(order') /\ Len(order') <= MaxCompleted
      /\ Range(order') \subseteq Range(order) \cup {t}
      /\ known' = known \ ((Range(order) \cup {t}) \ Range(order'))
  <2>1. <<t>> \in Seq(Tasks) /\ IsInjective(<<t>>) /\ Range(<<t>>) = {t}  BY <1>2, Single
  <2>2. Range(order) \cap Range(<<t>>) = {}  BY <1>2, <2>1, Places
  <2>3. QED  BY <1>1, <2>1, <2>2, Places, RememberFacts
<1>5. /\ task' \in [Tasks -> TaskRecord] /\ task'[t].status = "cancelled"
      /\ task'[t].pc = task[t].pc
      /\ \A u \in Tasks \ {t} : task'[u] = task[u]
  BY <1>1, <1>2, Places, SetEndFacts DEF Terminal
<1>6. /\ handles' = handles /\ runners' = runners \ {t} /\ next' = next
      /\ UNCHANGED <<waiting, shut, shutWait>>
  BY <1>1
<1>7. queue # <<>>
  <2>1. Len(queue) # 0  BY Places, RangeFacts
  <2>2. QED  BY <2>1, Places, RangeFacts
<1> HIDE DEF t
<1>8. TypeOK'  BY <1>3, <1>4, <1>5, <1>6 DEF IInv, TypeOK
<1>9. Pool'  BY <1>6, <1>7 DEF IInv, Pool
<1>10. Filed'
  <2>1. known' = Range(queue') \cup handles' \cup Range(order')
    BY <1>2, <1>3, <1>4, <1>6, Places
  <2>2. runners' = Range(queue') \cup handles'  BY <1>2, <1>3, <1>6, Places
  <2>3. \A u \in Range(queue') \cup handles' : task'[u] = task[u]
    BY <1>2, <1>3, <1>5, <1>6, Places
  <2>4. \A u \in Range(order') : task'[u].status \in Terminal /\ task'[u].pc \in {"none", "done"}
    <3>1. task[t].pc = "none"  BY <1>2 DEF IInv, Filed
    <3>2. \A u \in Range(order) \ {t} : task'[u] = task[u]  BY <1>5, Places
    <3>3. \A u \in Range(order) : task[u].status \in Terminal /\ task[u].pc \in {"none", "done"}
      BY DEF IInv, Filed
    <3>4. QED  BY <1>4, <1>5, <3>1, <3>2, <3>3 DEF Terminal
  <2>5. QED  BY <1>3, <1>4, <1>6, <2>1, <2>2, <2>3, <2>4 DEF IInv, Filed
<1>11. Active'
  <2>1. \A u \in Tasks : task'[u].pc = task[u].pc  BY <1>5
  <2>2. QED  BY <1>6, <2>1 DEF IInv, Active
<1>12. Fresh'  BY <1>4, <1>6 DEF IInv, Fresh
<1>13. QED  BY <1>8, <1>9, <1>10, <1>11, <1>12 DEF IInv


(* Steps that leave the dictionaries and every status alone, and at most let a
   scheduled coroutine start or die.                                           *)
LEMMA SameStatus ==
  ASSUME IInv,
         UNCHANGED <<next, queue, handles, runners, known, order>>,
         task' \in [Tasks -> TaskRecord],
         \A t \in Tasks :
           /\ task'[t].status = task[t].status
           /\ \/ task'[t].pc = task[t].pc
              \/ task[t].pc = "scheduled" /\ task'[t].pc \in {"inRunner", "done"},
         waiting' \in [Clients -> Tasks \cup {Nobody}],
         shut' \in {"up", "draining", "down"},
         shutWait' \subseteq Tasks
  PROVE  IInv'
<1>1. TypeOK'  BY DEF IInv, TypeOK
<1>2. Pool'  BY DEF IInv, Pool
<1>3. Filed'
  <2>1. \A t \in Range(queue) : t \in Tasks /\ task'[t].status = "queued" /\ task'[t].pc = "none"
    BY Places DEF IInv, Filed
  <2>2. \A t \in handles : t \in Tasks /\ task'[t].status = "running" /\ task'[t].pc # "none"
    BY Places DEF IInv, Filed
  <2>3. \A t \in Range(order) : /\ task'[t].status \in Terminal
                                /\ task'[t].pc \in {"none", "done"}
    BY Places DEF IInv, Filed
  <2>4. QED  BY <2>1, <2>2, <2>3 DEF IInv, Filed
<1>4. Active'  BY DEF IInv, Active
<1>5. Fresh'  BY DEF IInv, Fresh
<1>6. QED  BY <1>1, <1>2, <1>3, <1>4, <1>5 DEF IInv

(* cancel_task of a running task only marks it. *)
LEMMA CancelRunningKeeps ==
  ASSUME IInv, NEW c \in Clients, CancelRunning(c)
  PROVE  IInv'
<1>1. PICK t \in handles \cap known :
        /\ task' = Interrupt([task EXCEPT ![t].requested = TRUE, ![t].step = "cancelling"], {t})
        /\ waiting' = [waiting EXCEPT ![c] = t]
  BY DEF CancelRunning
<1> DEFINE tk == [task EXCEPT ![t].requested = TRUE, ![t].step = "cancelling"]
<1>2. t \in Tasks /\ task[t] \in TaskRecord  BY Places
<1>3. /\ tk \in [Tasks -> TaskRecord]
      /\ \A u \in Tasks : tk[u].status = task[u].status /\ tk[u].pc = task[u].pc
  <2>1. tk = [task EXCEPT ![t] = [task[t] EXCEPT !.requested = TRUE, !.step = "cancelling"]]
    BY <1>2, Places DEF TaskRecord
  <2>2. [task[t] EXCEPT !.requested = TRUE, !.step = "cancelling"] \in TaskRecord
    BY <1>2 DEF TaskRecord
  <2>3. /\ [task[t] EXCEPT !.requested = TRUE, !.step = "cancelling"].status = task[t].status
        /\ [task[t] EXCEPT !.requested = TRUE, !.step = "cancelling"].pc = task[t].pc
    BY <1>2 DEF TaskRecord
  <2>4. QED  BY <1>2, <2>1, <2>2, <2>3, Places
<1> HIDE DEF tk
<1>4. /\ task' \in [Tasks -> TaskRecord]
      /\ \A u \in Tasks : task'[u].status = task[u].status /\ task'[u].pc = task[u].pc
  <2>1. task' = Interrupt(tk, {t})  BY <1>1 DEF tk
  <2>2. QED  BY <1>3, <2>1, InterruptFacts
<1>5. UNCHANGED <<next, queue, handles, runners, known, order, shut, shutWait>>
  BY DEF CancelRunning
<1>6. waiting' \in [Clients -> Tasks \cup {Nobody}]  BY <1>1, <1>2 DEF IInv, TypeOK
<1>7. shut' \in {"up", "draining", "down"} /\ shutWait' \subseteq Tasks
  BY <1>5 DEF IInv, TypeOK
<1>8. QED  BY <1>4, <1>5, <1>6, <1>7, SameStatus

(* The ends of cancel_task and shutdown keep the invariant. *)
LEMMA WaitersKeep ==
  ASSUME IInv,
         \/ \E c \in Clients : CancelReturn(c) \/ CancelAbandoned(c)
         \/ ShutdownReturn
  PROVE  IInv'
<1>1. ASSUME NEW c \in Clients, CancelReturn(c)  PROVE IInv'
  <2>1. /\ task' = task /\ waiting' = [waiting EXCEPT ![c] = Nobody]
        /\ UNCHANGED <<next, queue, handles, runners, known, order, shut, shutWait>>
    BY <1>1 DEF CancelReturn
  <2>2. QED  BY <2>1, SameStatus DEF IInv, TypeOK
<1>2. ASSUME NEW c \in Clients, CancelAbandoned(c)  PROVE IInv'
  <2>1. /\ waiting' = [waiting EXCEPT ![c] = Nobody]
        /\ task' = Interrupt(task, {waiting[c]})
        /\ UNCHANGED <<next, queue, handles, runners, known, order, shut, shutWait>>
    BY <1>2 DEF CancelAbandoned
  <2>2. /\ task' \in [Tasks -> TaskRecord]
        /\ \A t \in Tasks : task'[t].status = task[t].status /\ task'[t].pc = task[t].pc
    BY <2>1, Places, InterruptFacts
  <2>3. waiting' \in [Clients -> Tasks \cup {Nobody}]  BY <2>1 DEF IInv, TypeOK
  <2>4. shut' \in {"up", "draining", "down"} /\ shutWait' \subseteq Tasks
    BY <2>1 DEF IInv, TypeOK
  <2>5. QED  BY <2>1, <2>2, <2>3, <2>4, SameStatus
<1>3. ASSUME ShutdownReturn  PROVE IInv'
  <2>1. /\ shut' = "down"
        /\ UNCHANGED <<next, queue, handles, runners, known, order, task, waiting, shutWait>>
    BY <1>3 DEF ShutdownReturn
  <2>2. QED  BY <2>1, SameStatus DEF IInv, TypeOK
<1>4. QED  BY <1>1, <1>2, <1>3

(* The steps of a coroutine before its runner ends keep the invariant. *)
LEMMA CoroutineKeeps ==
  ASSUME IInv, NEW t \in Tasks, Start(t) \/ CancelledBeforeStart(t) \/ Progress(t)
  PROVE  IInv'
<1>0. task \in [Tasks -> TaskRecord] /\ task[t] \in TaskRecord  BY Places
<1>1. /\ UNCHANGED <<next, queue, handles, runners, known, order, waiting, shut, shutWait>>
  BY DEF Start, CancelledBeforeStart, Progress
<1>2. PICK r \in TaskRecord :
        /\ task' = [task EXCEPT ![t] = r]
        /\ r.status = task[t].status
        /\ \/ r.pc = task[t].pc
           \/ task[t].pc = "scheduled" /\ r.pc \in {"inRunner", "done"}
  <2>1. CASE Start(t)
    <3>1. /\ task' = [task EXCEPT ![t] = [task[t] EXCEPT !.pc = "inRunner"]]
          /\ task[t].pc = "scheduled"
      BY <2>1 DEF Start
    <3>2. [task[t] EXCEPT !.pc = "inRunner"] \in TaskRecord  BY <1>0 DEF TaskRecord
    <3>3. QED  BY <1>0, <3>1, <3>2 DEF TaskRecord
  <2>2. CASE CancelledBeforeStart(t)
    <3>1. /\ task' = [task EXCEPT ![t] = [task[t] EXCEPT !.pc = "done", !.cancel = FALSE]]
          /\ task[t].pc = "scheduled"
      BY <1>0, <2>2 DEF CancelledBeforeStart, TaskRecord
    <3>2. [task[t] EXCEPT !.pc = "done", !.cancel = FALSE] \in TaskRecord
      BY <1>0 DEF TaskRecord
    <3>3. QED  BY <1>0, <3>1, <3>2 DEF TaskRecord
  <2>3. CASE Progress(t)
    <3> DEFINE st == IF t \in known THEN "working" ELSE task[t].step
    <3>1. task' = [task EXCEPT ![t] = [task[t] EXCEPT !.step = st]]
      BY <1>0, <2>3 DEF Progress, TaskRecord
    <3>2. [task[t] EXCEPT !.step = st] \in TaskRecord
      BY <1>0 DEF TaskRecord
    <3>3. /\ [task[t] EXCEPT !.step = st].status = task[t].status
          /\ [task[t] EXCEPT !.step = st].pc = task[t].pc
      BY <1>0 DEF TaskRecord
    <3> HIDE DEF st
    <3>4. QED  BY <3>1, <3>2, <3>3
  <2>4. QED  BY <2>1, <2>2, <2>3
<1>3. task' \in [Tasks -> TaskRecord]  BY <1>0, <1>2
<1>4. \A u \in Tasks :
        /\ task'[u].status = task[u].status
        /\ \/ task'[u].pc = task[u].pc
           \/ task[u].pc = "scheduled" /\ task'[u].pc \in {"inRunner", "done"}
  BY <1>0, <1>2
<1>5. /\ waiting' \in [Clients -> Tasks \cup {Nobody}]
      /\ shut' \in {"up", "draining", "down"} /\ shutWait' \subseteq Tasks
  BY <1>1 DEF IInv, TypeOK
<1>6. QED  BY <1>1, <1>3, <1>4, <1>5, SameStatus

(* shutdown moves the whole queue to the history. *)
LEMMA ShutdownKeeps ==
  ASSUME IInv, Shutdown
  PROVE  IInv'
<1> DEFINE tk == [t \in Tasks |-> IF t \in Range(queue)
                                  THEN [task[t] EXCEPT !.status = "cancelled",
                                                       !.step = "cancelled"]
                                  ELSE task[t]]
<1>1. /\ shut' = "draining" /\ queue' = <<>> /\ runners' = runners \ Range(queue)
      /\ Remember(queue) /\ shutWait' = handles /\ task' = Interrupt(tk, handles)
      /\ UNCHANGED <<next, handles, waiting>>
  BY DEF Shutdown
<1>2. /\ queue' \in Seq(Tasks) /\ Range(queue') = {} /\ IsInjective(queue')
  <2>1. <<>> \in Seq(Tasks) /\ DOMAIN <<>> = {}  BY EmptySeq, RangeFacts
  <2>2. QED  BY <1>1, <2>1 DEF Range, IsInjective
<1>3. /\ order' \in Seq(Tasks) /\ IsInjective(order') /\ Len(order') <= MaxCompleted
      /\ Range(order') \subseteq Range(order) \cup Range(queue)
      /\ known' = known \ ((Range(order) \cup Range(queue)) \ Range(order'))
  BY <1>1, Places, RememberFacts
<1>4. /\ tk \in [Tasks -> TaskRecord]
      /\ \A t \in Tasks : /\ tk[t].pc = task[t].pc
                          /\ t \in Range(queue) => tk[t].status = "cancelled"
                          /\ t \notin Range(queue) => tk[t].status = task[t].status
  <2> SUFFICES ASSUME NEW t \in Tasks
               PROVE  /\ tk[t] \in TaskRecord
                      /\ tk[t].pc = task[t].pc
                      /\ t \in Range(queue) => tk[t].status = "cancelled"
                      /\ t \notin Range(queue) => tk[t].status = task[t].status
    OBVIOUS
  <2>1. task[t] \in TaskRecord  BY Places
  <2>2. [task[t] EXCEPT !.status = "cancelled", !.step = "cancelled"] \in TaskRecord
    BY <2>1 DEF TaskRecord, Terminal
  <2>3. CASE t \in Range(queue)
    <3>1. tk[t] = [task[t] EXCEPT !.status = "cancelled", !.step = "cancelled"]  BY <2>3
    <3>2. QED  BY <2>1, <2>2, <2>3, <3>1 DEF TaskRecord
  <2>4. CASE t \notin Range(queue)  BY <2>1, <2>4
  <2>5. QED  BY <2>3, <2>4
<1> HIDE DEF tk
<1>5. /\ task' \in [Tasks -> TaskRecord]
      /\ \A t \in Tasks : /\ task'[t].pc = task[t].pc
                          /\ t \in Range(queue) => task'[t].status = "cancelled"
                          /\ t \notin Range(queue) => task'[t].status = task[t].status
  BY <1>1, <1>4, InterruptFacts
<1>6. TypeOK'  BY <1>1, <1>2, <1>3, <1>5, Places DEF IInv, TypeOK
<1>7. Pool'  BY <1>1 DEF IInv, Pool
<1>8. Filed'
  <2>1. known' = Range(queue') \cup handles' \cup Range(order')
    BY <1>1, <1>2, <1>3, Places
  <2>2. runners' = Range(queue') \cup handles'  BY <1>1, <1>2, Places
  <2>3. \A t \in handles' : task'[t].status = "running" /\ task'[t].pc # "none"
    BY <1>1, <1>5, Places DEF IInv, Filed
  <2>4. ASSUME NEW t \in Range(order')
        PROVE  task'[t].status \in Terminal /\ task'[t].pc \in {"none", "done"}
    <3>1. CASE t \in Range(queue)  BY <1>5, <3>1, Places DEF IInv, Filed, Terminal
    <3>2. CASE t \in Range(order)  BY <1>5, <3>2, Places DEF IInv, Filed
    <3>3. QED  BY <1>3, <3>1, <3>2
  <2>5. QED  BY <1>2, <1>3, <2>1, <2>2, <2>3, <2>4 DEF Filed
<1>9. Active'  BY <1>1, <1>5 DEF IInv, Active
<1>10. Fresh'  BY <1>1, <1>3 DEF IInv, Fresh
<1>11. QED  BY <1>6, <1>7, <1>8, <1>9, <1>10 DEF IInv


(* The end of a coroutine, however its runner ended. *)
LEMMA FinishKeeps ==
  ASSUME IInv, NEW t \in Tasks, task[t].pc = "inRunner",
         NEW tk \in [Tasks -> TaskRecord], tk[t].status \in Terminal,
         \A u \in Tasks \ {t} : tk[u] = task[u],
         Finish(t, tk)
  PROVE  IInv'
<1> DEFINE h == handles \ {t}
           tk2 == [tk EXCEPT ![t].pc = "done", ![t].cancel = FALSE]
<1>1. t \in handles  BY DEF IInv, Active
<1>2. /\ runners' = runners \ {t} /\ Remember(<<t>>)
      /\ Drain(queue, h, known', tk2)
      /\ UNCHANGED <<next, waiting, shut, shutWait>>
  BY DEF Finish
<1>3. /\ order' \in Seq(Tasks) /\ IsInjective(order') /\ Len(order') <= MaxCompleted
      /\ Range(order') \subseteq Range(order) \cup {t}
      /\ known' = known \ ((Range(order) \cup {t}) \ Range(order'))
  <2>1. <<t>> \in Seq(Tasks) /\ IsInjective(<<t>>) /\ Range(<<t>>) = {t}  BY Single
  <2>2. Range(order) \cap Range(<<t>>) = {}  BY <1>1, <2>1, Places
  <2>3. QED  BY <1>2, <2>1, <2>2, Places, RememberFacts
<1>4. /\ tk2 \in [Tasks -> TaskRecord]
      /\ tk2[t].status \in Terminal /\ tk2[t].pc = "done"
      /\ \A u \in Tasks \ {t} : tk2[u] = task[u]
  <2>1. tk[t] \in TaskRecord  OBVIOUS
  <2>2. tk2 = [tk EXCEPT ![t] = [tk[t] EXCEPT !.pc = "done", !.cancel = FALSE]]
    BY <2>1 DEF TaskRecord
  <2>3. [tk[t] EXCEPT !.pc = "done", !.cancel = FALSE] \in TaskRecord
    BY <2>1 DEF TaskRecord
  <2>4. QED  BY <2>1, <2>2, <2>3 DEF TaskRecord
<1>5. h \in SUBSET Tasks /\ Cardinality(h) <= MaxConcurrent
  <2>1. /\ IsFiniteSet(handles) /\ Cardinality(handles) \in Nat
        /\ IsFiniteSet(h) /\ Cardinality(h) \in Nat /\ h \in SUBSET Tasks
    BY Places, TasksFinite
  <2>2. Cardinality(h) <= Cardinality(handles)  BY <2>1, FS_Subset
  <2>3. Cardinality(handles) <= MaxConcurrent  BY DEF IInv, Pool
  <2> HIDE DEF h
  <2>4. QED  BY <2>1, <2>2, <2>3 DEF ConfigAssumption
<1>6. /\ Range(queue) \cap h = {} /\ Range(queue) \subseteq known' /\ t \notin Range(queue)
  BY <1>1, <1>3, Places
<1>7. \A u \in Range(queue) : tk2[u] = task[u] /\ tk2[u].status = "queued"
  BY <1>4, <1>6, Places DEF IInv, Filed
<1> HIDE DEF tk2
<1>8. /\ queue' \in Seq(Tasks) /\ IsInjective(queue')
      /\ handles' \subseteq Tasks /\ h \subseteq handles'
      /\ Range(queue') \cup handles' = Range(queue) \cup h
      /\ Range(queue') \cap handles' = {}
      /\ Cardinality(handles') <= MaxConcurrent
      /\ queue' # <<>> => Cardinality(handles') = MaxConcurrent
      /\ task' \in [Tasks -> TaskRecord]
      /\ \A u \in handles' \ h : task'[u].status = "running" /\ task'[u].pc = "scheduled"
      /\ \A u \in Tasks \ (handles' \ h) : task'[u] = tk2[u]
  <2>1. /\ queue \in Seq(Tasks) /\ IsInjective(queue)
        /\ \A u \in Range(queue) : tk2[u].status = "queued"
    BY <1>7, Places
  <2> HIDE DEF h
  <2>2. QED  BY <1>2, <1>4, <1>5, <1>6, <2>1, DrainFacts
<1>9. /\ handles' \ h \subseteq Range(queue) /\ Range(queue') \subseteq Range(queue)
      /\ t \notin handles'
  BY <1>6, <1>8
<1>10. TypeOK'  BY <1>2, <1>3, <1>8, Places DEF IInv, TypeOK
<1>11. Pool'  BY <1>8 DEF Pool
<1>12. Filed'
  <2>1. known' = Range(queue') \cup handles' \cup Range(order')
    BY <1>1, <1>3, <1>6, <1>8, Places
  <2>2. runners' = Range(queue') \cup handles'  BY <1>1, <1>2, <1>6, <1>8, Places
  <2>3. ASSUME NEW u \in Range(queue')
        PROVE  task'[u].status = "queued" /\ task'[u].pc = "none"
    <3>1. u \in Range(queue) /\ u \in Tasks /\ u \notin handles'  BY <1>8, <1>9, Places
    <3>2. task'[u] = task[u]  BY <1>7, <1>8, <3>1
    <3>3. QED  BY <3>1, <3>2 DEF IInv, Filed
  <2>4. ASSUME NEW u \in handles'
        PROVE  task'[u].status = "running" /\ task'[u].pc # "none"
    <3>1. CASE u \in h
      <4>1. u \in handles /\ u # t /\ u \in Tasks  BY <3>1, Places
      <4>2. task'[u] = task[u]  BY <1>4, <1>8, <3>1, <4>1
      <4>3. QED  BY <4>1, <4>2 DEF IInv, Filed
    <3>2. CASE u \notin h  BY <1>8, <3>2
    <3>3. QED  BY <3>1, <3>2
  <2>5. ASSUME NEW u \in Range(order')
        PROVE  task'[u].status \in Terminal /\ task'[u].pc \in {"none", "done"}
    <3>1. CASE u = t
      <4>1. task'[t] = tk2[t]  BY <1>8, <1>9
      <4>2. QED  BY <1>4, <3>1, <4>1
    <3>2. CASE u \in Range(order) /\ u # t
      <4>1. u \in Tasks /\ u \notin handles' \ h  BY <1>9, <3>2, Places
      <4>2. task'[u] = task[u]  BY <1>4, <1>8, <3>2, <4>1
      <4>3. QED  BY <3>2, <4>2 DEF IInv, Filed
    <3>3. QED  BY <1>3, <3>1, <3>2
  <2>6. QED  BY <1>3, <1>8, <2>1, <2>2, <2>3, <2>4, <2>5 DEF Filed
<1>13. Active'
  <2> SUFFICES ASSUME NEW u \in Tasks, task'[u].pc \in {"scheduled", "inRunner"}, u \notin handles'
               PROVE  FALSE
    BY DEF Active
  <2>1. task'[u] = tk2[u]  BY <1>8
  <2>2. u # t  BY <1>4, <2>1
  <2>3. task'[u] = task[u]  BY <1>4, <2>1, <2>2
  <2>4. u \in handles  BY <2>3 DEF IInv, Active
  <2>5. QED  BY <1>8, <2>2, <2>4
<1>14. Fresh'  BY <1>2, <1>3 DEF IInv, Fresh
<1>15. QED  BY <1>10, <1>11, <1>12, <1>13, <1>14 DEF IInv

(* However a runner ends, its task moves from its slot to the history. *)
LEMMA RunnerKeeps ==
  ASSUME IInv, NEW t \in Tasks, RunnerReturns(t) \/ RunnerRaises(t) \/ RunnerCancelled(t)
  PROVE  IInv'
<1>0. /\ task \in [Tasks -> TaskRecord] /\ task[t] \in TaskRecord
      /\ task[t].pc = "inRunner"
  BY Places DEF RunnerReturns, RunnerRaises, RunnerCancelled
<1>1. t \in handles /\ task[t].status = "running"  BY <1>0 DEF IInv, Active, Filed
<1>2. CASE RunnerReturns(t)
  <2>1. Finish(t, SetEnd(task, t, "completed"))
    BY <1>1, <1>2 DEF RunnerReturns
  <2>2. QED  BY <1>0, <2>1, SetEndFacts, FinishKeeps DEF Terminal
<1>3. CASE RunnerRaises(t)
  <2>1. Finish(t, SetEnd(task, t, "failed"))  BY <1>3 DEF RunnerRaises
  <2>2. QED  BY <1>0, <2>1, SetEndFacts, FinishKeeps DEF Terminal
<1>4. CASE RunnerCancelled(t)
  <2> DEFINE se == SetEnd(task, t, "cancelled")
             tk == [se EXCEPT ![t].requested = FALSE]
  <2>1. /\ se \in [Tasks -> TaskRecord] /\ se[t].status = "cancelled"
        /\ \A u \in Tasks \ {t} : se[u] = task[u]
    BY <1>0, SetEndFacts DEF Terminal
  <2>2. Finish(t, tk)  BY <1>4 DEF RunnerCancelled
  <2> HIDE DEF se
  <2>3. se[t] \in TaskRecord  BY <2>1
  <2>4. tk = [se EXCEPT ![t] = [se[t] EXCEPT !.requested = FALSE]]
    BY <2>3 DEF TaskRecord
  <2>5. /\ [se[t] EXCEPT !.requested = FALSE] \in TaskRecord
        /\ [se[t] EXCEPT !.requested = FALSE].status = "cancelled"
    BY <2>1, <2>3 DEF TaskRecord
  <2>6. /\ tk \in [Tasks -> TaskRecord] /\ tk[t].status \in Terminal
        /\ \A u \in Tasks \ {t} : tk[u] = task[u]
    BY <2>1, <2>4, <2>5 DEF Terminal
  <2> HIDE DEF tk
  <2>7. QED  BY <1>0, <2>2, <2>6, FinishKeeps
<1>5. QED  BY <1>2, <1>3, <1>4

---------------------------------------------------------------------------------
(* The theorems *)

(* Every step keeps the invariant. *)
LEMMA NextIInv == IInv /\ [Next]_vars => IInv'
<1> SUFFICES ASSUME IInv, [Next]_vars  PROVE IInv'  OBVIOUS
<1>1. CASE Enqueue  BY <1>1, EnqueueKeeps
<1>2. CASE CancelQueued  BY <1>2, CancelQueuedKeeps
<1>3. CASE \E c \in Clients : CancelRunning(c) \/ CancelReturn(c) \/ CancelAbandoned(c)
  BY <1>3, CancelRunningKeeps, WaitersKeep
<1>4. CASE Shutdown  BY <1>4, ShutdownKeeps
<1>5. CASE ShutdownReturn  BY <1>5, WaitersKeep
<1>6. CASE \E t \in Tasks : Start(t) \/ CancelledBeforeStart(t) \/ Progress(t)
  BY <1>6, CoroutineKeeps
<1>7. CASE \E t \in Tasks : RunnerReturns(t) \/ RunnerRaises(t) \/ RunnerCancelled(t)
  BY <1>7, RunnerKeeps
<1>8. CASE UNCHANGED vars
  BY <1>8 DEF vars, IInv, TypeOK, Pool, Filed, Active, Fresh
<1>9. QED  BY <1>1, <1>2, <1>3, <1>4, <1>5, <1>6, <1>7, <1>8 DEF Next

(* The invariant holds in every reachable state. *)
LEMMA Invariance == Spec => []IInv
BY InitIInv, NextIInv, PTL DEF Spec

(* Every record, queue and counter keeps its type. *)
THEOREM TaskQueueTypes == Spec => []TypeOK
<1>1. IInv => TypeOK  BY DEF IInv
<1>2. QED  BY <1>1, Invariance, PTL

(* For any number of tasks, clients and slots: at most max_concurrent tasks hold a
   slot, and no slot is free while a task waits in the queue.                  *)
THEOREM TaskQueuePool == Spec => []Pool
<1>1. IInv => Pool  BY DEF IInv
<1>2. QED  BY <1>1, Invariance, PTL

(* For any number of tasks, clients and slots: the five dictionaries agree on where
   each task is, each task is in one place with the status of that place, and the
   history never outgrows max_completed.                                       *)
THEOREM TaskQueueFiled == Spec => []Filed
<1>1. IInv => Filed  BY DEF IInv
<1>2. QED  BY <1>1, Invariance, PTL

---------------------------------------------------------------------------------
(* The order of acceptance *)

Ascending(s) == \A i, j \in 1..Len(s) : i < j => s[i] < s[j]

(* The queue holds ids in the order in which they were given out. *)
Fifo == Ascending(queue)

(* What stays of a queue after its first k ids is in order, and younger than they. *)
LEMMA TailAscending ==
  ASSUME NEW s \in Seq(Tasks), NEW k \in 0..Len(s), IsInjective(s), Ascending(s)
  PROVE  LET r == SubSeq(s, k + 1, Len(s))
         IN  Ascending(r) /\ \A i \in 1..k, u \in Range(r) : s[i] < u
<1> DEFINE r == SubSeq(s, k + 1, Len(s))
<1>1. /\ r \in Seq(Tasks) /\ Len(r) = Len(s) - k
      /\ \A i \in 1..Len(r) : r[i] = s[k + i]
  BY TailFacts
<1> HIDE DEF r
<1>2. Len(s) \in Nat /\ k \in Nat /\ k <= Len(s)  BY RangeFacts
<1>3. Ascending(r)
  <2> SUFFICES ASSUME NEW i \in 1..Len(r), NEW j \in 1..Len(r), i < j
               PROVE  r[i] < r[j]
    BY DEF Ascending
  <2>1. k + i \in 1..Len(s) /\ k + j \in 1..Len(s) /\ k + i < k + j  BY <1>1, <1>2
  <2>2. QED  BY <1>1, <2>1 DEF Ascending
<1>4. ASSUME NEW i \in 1..k, NEW u \in Range(r)
      PROVE  s[i] < u
  <2>1. PICK j \in 1..Len(r) : r[j] = u  BY <1>1, RangeFacts
  <2>2. i \in 1..Len(s) /\ k + j \in 1..Len(s) /\ i < k + j  BY <1>1, <1>2
  <2>3. QED  BY <1>1, <2>1, <2>2 DEF Ascending
<1>5. QED  BY <1>3, <1>4 DEF r

(* Removing one id keeps the order of the others. *)
LEMMA RemoveAtAscending ==
  ASSUME NEW s \in Seq(Tasks), NEW i \in 1..Len(s), Ascending(s)
  PROVE  Ascending(RemoveAt(s, i))
<1> DEFINE l == SubSeq(s, 1, i - 1)
           r == SubSeq(s, i + 1, Len(s))
<1>0. /\ Len(s) \in Nat /\ i \in Nat /\ 1 <= i /\ i <= Len(s)
      /\ \A m \in 1..Len(s) : s[m] \in Tasks
  BY RangeFacts
<1>1. /\ l \in Seq(Tasks) /\ Len(l) = i - 1 /\ \A m \in 1..i - 1 : l[m] = s[m]
  <2>1. \A m \in 1..i - 1 : s[m] \in Tasks  BY <1>0
  <2>2. /\ l \in Seq(Tasks)
        /\ Len(l) = IF 1 <= i - 1 THEN (i - 1) - 1 + 1 ELSE 0
        /\ \A m \in 1..(i - 1) - 1 + 1 : l[m] = s[1 + m - 1]
    BY <1>0, <2>1, SubSeqProperties
  <2>3. QED  BY <1>0, <2>2
<1>2. /\ r \in Seq(Tasks) /\ Len(r) = Len(s) - i /\ \A m \in 1..Len(r) : r[m] = s[i + m]
  <2>1. \A m \in i + 1..Len(s) : s[m] \in Tasks  BY <1>0
  <2>2. /\ r \in Seq(Tasks)
        /\ Len(r) = IF i + 1 <= Len(s) THEN Len(s) - (i + 1) + 1 ELSE 0
        /\ \A m \in 1..Len(s) - (i + 1) + 1 : r[m] = s[(i + 1) + m - 1]
    BY <1>0, <2>1, SubSeqProperties
  <2>3. QED  BY <1>0, <2>2
<1> HIDE DEF l, r
<1>3. /\ Len(l \o r) = Len(s) - 1
      /\ \A m \in 1..Len(s) - 1 : (l \o r)[m] = IF m < i THEN s[m] ELSE s[m + 1]
  <2>1. /\ Len(l \o r) = Len(l) + Len(r)
        /\ \A m \in 1..Len(l) + Len(r) :
             (l \o r)[m] = IF m <= Len(l) THEN l[m] ELSE r[m - Len(l)]
    BY <1>1, <1>2, ConcatProperties
  <2>2. Len(l) + Len(r) = Len(s) - 1  BY <1>0, <1>1, <1>2
  <2>3. ASSUME NEW m \in 1..Len(s) - 1
        PROVE  (l \o r)[m] = IF m < i THEN s[m] ELSE s[m + 1]
    <3>1. CASE m < i
      <4>1. m <= Len(l) /\ m \in 1..i - 1 /\ m \in 1..Len(l) + Len(r)
        BY <1>0, <1>1, <2>2, <3>1
      <4>2. QED  BY <1>1, <2>1, <3>1, <4>1
    <3>2. CASE ~(m < i)
      <4>1. ~(m <= Len(l)) /\ m - Len(l) \in 1..Len(r) /\ m \in 1..Len(l) + Len(r)
        BY <1>0, <1>1, <1>2, <2>2, <3>2
      <4>2. i + (m - Len(l)) = m + 1  BY <1>0, <1>1
      <4>3. (l \o r)[m] = r[m - Len(l)]  BY <2>1, <4>1
      <4>4. r[m - Len(l)] = s[m + 1]  BY <1>2, <4>1, <4>2
      <4>5. QED  BY <3>2, <4>3, <4>4
    <3>3. QED  BY <3>1, <3>2
  <2>4. QED  BY <2>1, <2>2, <2>3
<1>4. RemoveAt(s, i) = l \o r  BY DEF RemoveAt, l, r
<1> DEFINE w == l \o r
<1> HIDE DEF w
<1>5. ASSUME NEW a \in 1..Len(w), NEW b \in 1..Len(w), a < b
      PROVE  w[a] < w[b]
  <2>1. /\ w[a] = IF a < i THEN s[a] ELSE s[a + 1]
        /\ w[b] = IF b < i THEN s[b] ELSE s[b + 1]
        /\ a \in 1..Len(s) /\ b \in 1..Len(s) /\ a + 1 \in 1..Len(s) /\ b + 1 \in 1..Len(s)
    BY <1>0, <1>3 DEF w
  <2>2. a < b + 1 /\ a + 1 < b + 1 /\ (~(a < i) => ~(b < i))  BY <1>0, <1>5
  <2>3. QED  BY <1>5, <2>1, <2>2 DEF Ascending
<1>6. QED  BY <1>4, <1>5 DEF Ascending, w

(* _drain_locked starts the oldest ids and leaves the others in order. *)
LEMMA DrainAscending ==
  ASSUME NEW q \in Seq(Tasks), NEW h \in SUBSET Tasks, NEW kn, NEW tk,
         IsInjective(q), Ascending(q), Drain(q, h, kn, tk)
  PROVE  /\ Ascending(queue')
         /\ \A t \in handles' \ h, u \in Range(queue') : t < u
<1>1. PICK k \in 0..Len(q) :
        /\ queue' = SubSeq(q, k + 1, Len(q))
        /\ handles' = h \cup Startable(q, k, kn, tk)
  BY DEF Drain
<1>2. /\ Ascending(queue')
      /\ \A i \in 1..k, u \in Range(queue') : q[i] < u
  BY <1>1, TailAscending
<1>3. handles' \ h \subseteq {q[i] : i \in 1..k}  BY <1>1 DEF Startable
<1>4. QED  BY <1>2, <1>3

(* The first id given out is in order, and so is every id appended. *)
LEMMA AppendAscending ==
  ASSUME IInv, Fifo, next \in Tasks
  PROVE  Ascending(Append(queue, next))
<1>1. queue \in Seq(Tasks) /\ Range(queue) \subseteq known  BY Places
<1>2. /\ Append(queue, next) \in Seq(Tasks)
      /\ Len(Append(queue, next)) = Len(queue) + 1
      /\ \A i \in 1..Len(queue) + 1 :
           Append(queue, next)[i] = IF i <= Len(queue) THEN queue[i] ELSE next
  BY <1>1, AppendProperties
<1>3. Len(queue) \in Nat /\ \A i \in 1..Len(queue) : queue[i] \in Range(queue)
  BY <1>1, RangeFacts
<1>4. \A i \in 1..Len(queue) : queue[i] < next  BY <1>1, <1>3 DEF IInv, Fresh
<1> DEFINE w == Append(queue, next)
<1> HIDE DEF w
<1>5. ASSUME NEW a \in 1..Len(w), NEW b \in 1..Len(w), a < b
      PROVE  w[a] < w[b]
  <2>1. a \in 1..Len(queue) /\ w[a] = queue[a]  BY <1>2, <1>3, <1>5 DEF w
  <2>2. CASE b <= Len(queue)
    <3>1. b \in 1..Len(queue) /\ w[b] = queue[b]  BY <1>2, <1>3, <2>2 DEF w
    <3>2. QED  BY <1>5, <2>1, <3>1 DEF Fifo, Ascending
  <2>3. CASE ~(b <= Len(queue))
    <3>1. w[b] = next  BY <1>2, <1>3, <2>3 DEF w
    <3>2. QED  BY <1>4, <2>1, <3>1
  <2>4. QED  BY <2>2, <2>3
<1>6. QED  BY <1>5 DEF Ascending, w

---------------------------------------------------------------------------------
(* The queue implements TaskLifecycle *)

(* What a step does to the places of a task, as far as a poll can tell. *)
Lives ==
  /\ Fifo'
  /\ next' = next \/ (next' = next + 1 /\ next \in known')
  /\ known' \subseteq known \cup {t \in Tasks : t = next /\ next' = next + 1 /\ t \notin Range(order')}
  /\ \A t \in Range(queue) \cap Range(order') : task'[t].status = "cancelled"
  /\ handles \subseteq handles' \cup Range(order')
  /\ \A t \in Range(order) \cap known' : t \in Range(order') /\ task'[t].status = task[t].status
  /\ \A t \in handles' \ handles, u \in Range(queue') : t < u

(* _remember_completed drops the oldest, and the newest never. *)
LEMMA RememberKeepsLast ==
  ASSUME NEW t \in Tasks, order \in Seq(Tasks), IsInjective(order), t \notin Range(order),
         Remember(<<t>>)
  PROVE  t \in Range(order')
<1> DEFINE all == order \o <<t>>
           stale == IF Len(all) > MaxCompleted THEN Len(all) - MaxCompleted ELSE 0
<1>1. <<t>> \in Seq(Tasks) /\ IsInjective(<<t>>) /\ Range(<<t>>) = {t} /\ Len(<<t>>) = 1 /\ <<t>>[1] = t
  BY Single
<1>2. /\ all \in Seq(Tasks) /\ IsInjective(all) /\ Len(all) = Len(order) + 1
      /\ \A i \in 1..Len(order) + 1 :
           all[i] = IF i <= Len(order) THEN order[i] ELSE <<t>>[i - Len(order)]
  <2>1. Range(order) \cap Range(<<t>>) = {}  BY <1>1
  <2>2. all \in Seq(Tasks) /\ IsInjective(all)  BY <1>1, <2>1, JoinFacts
  <2> HIDE DEF all
  <2>3. /\ Len(order \o <<t>>) = Len(order) + Len(<<t>>)
        /\ \A i \in 1..Len(order) + Len(<<t>>) :
             (order \o <<t>>)[i] = IF i <= Len(order) THEN order[i] ELSE <<t>>[i - Len(order)]
    BY <1>1, ConcatProperties
  <2>4. QED  BY <1>1, <2>2, <2>3 DEF all
<1>3. Len(order) \in Nat  BY RangeFacts
<1>4. all[Len(all)] = t
  <2>1. Len(all) \in 1..Len(order) + 1 /\ ~(Len(all) <= Len(order)) /\ Len(all) - Len(order) = 1
    BY <1>2, <1>3
  <2>2. QED  BY <1>1, <1>2, <2>1
<1>5. order' = SubSeq(all, stale + 1, Len(all))  BY DEF Remember
<1> HIDE DEF all
<1>6. stale \in 0..Len(all) - 1  BY <1>2, <1>3 DEF ConfigAssumption
<1> HIDE DEF stale
<1>7. /\ order' \in Seq(Tasks) /\ Len(order') = Len(all) - stale
      /\ \A i \in 1..Len(order') : order'[i] = all[stale + i]
  <2>1. stale \in 0..Len(all)  BY <1>2, <1>3, <1>6
  <2>2. QED  BY <1>2, <1>5, <2>1, TailFacts
<1>8. Len(order') \in 1..Len(order') /\ stale + Len(order') = Len(all)
  BY <1>2, <1>3, <1>6, <1>7
<1>9. order'[Len(order')] = t  BY <1>4, <1>7, <1>8
<1>10. QED  BY <1>7, <1>8, <1>9, RangeFacts

(* enqueue accepts the next id and starts the oldest ones. *)
LEMMA EnqueueLives ==
  ASSUME IInv, IInv', Fifo, Enqueue
  PROVE  Lives
<1> DEFINE q == Append(queue, next)
           tk == [task EXCEPT ![next] = NewTask]
<1>1. /\ next \in Tasks /\ next \notin known /\ next' = next + 1
  BY DEF Enqueue, IInv, TypeOK, Fresh, Tasks, ConfigAssumption
<1>2. q \in Seq(Tasks) /\ IsInjective(q) /\ Range(q) = Range(queue) \cup {next}
  <2>1. q = queue \o <<next>>  BY <1>1, Places, AppendIsConcat
  <2>2. <<next>> \in Seq(Tasks) /\ IsInjective(<<next>>) /\ Range(<<next>>) = {next}
    BY <1>1, Single
  <2>3. queue \in Seq(Tasks) /\ IsInjective(queue) /\ Range(queue) \cap Range(<<next>>) = {}
    BY <1>1, <2>2, Places
  <2>4. /\ queue \o <<next>> \in Seq(Tasks) /\ IsInjective(queue \o <<next>>)
        /\ Range(queue \o <<next>>) = Range(queue) \cup Range(<<next>>)
    BY <2>2, <2>3, JoinFacts
  <2>5. QED  BY <2>1, <2>2, <2>4
<1>3. Ascending(q)  BY <1>1, AppendAscending
<1>4. Drain(q, handles, known \cup {next}, tk)  BY DEF Enqueue
<1>5. /\ known' = known \cup {next} /\ order' = order
  BY DEF Enqueue
<1> HIDE DEF q
<1>6. /\ Ascending(queue')
      /\ \A t \in handles' \ handles, u \in Range(queue') : t < u
  <2>1. handles \in SUBSET Tasks  BY Places
  <2> HIDE DEF tk
  <2>2. QED  BY <1>2, <1>3, <1>4, <2>1, DrainAscending
<1>7. PICK k \in 0..Len(q) :
        /\ handles' = handles \cup Startable(q, k, known \cup {next}, tk)
        /\ task' = [t \in Tasks |->
                      IF t \in Startable(q, k, known \cup {next}, tk)
                      THEN [tk[t] EXCEPT !.status = "running", !.step = "running",
                                         !.pc = "scheduled"]
                      ELSE tk[t]]
  BY <1>4 DEF Drain
<1>8. ASSUME NEW t \in Range(order)
      PROVE  task'[t] = task[t]
  <2>1. t \in Tasks /\ t # next /\ t \notin Range(q)  BY <1>1, <1>2, Places
  <2>2. t \notin Startable(q, k, known \cup {next}, tk)
    <3>1. \A i \in 1..k : q[i] \in Range(q)  BY <1>2, RangeFacts
    <3>2. QED  BY <2>1, <3>1 DEF Startable
  <2>3. task'[t] = tk[t]  BY <1>7, <2>1, <2>2
  <2>4. QED  BY <2>1, <2>3, Places
<1>9. Range(queue) \cap Range(order') = {} /\ next \notin Range(order')
  BY <1>1, <1>5, Places
<1>10. handles \subseteq handles'  BY <1>7
<1>11. QED  BY <1>1, <1>5, <1>6, <1>8, <1>9, <1>10 DEF Lives, Fifo

(* cancel_task of a queued task: the others keep their order. *)
LEMMA CancelQueuedLives ==
  ASSUME IInv, IInv', Fifo, CancelQueued
  PROVE  Lives
<1>1. PICK i \in 1..Len(queue) :
        /\ queue' = RemoveAt(queue, i)
        /\ task' = SetEnd(task, queue[i], "cancelled")
        /\ Remember(<<queue[i]>>)
        /\ UNCHANGED <<next, handles>>
  BY DEF CancelQueued
<1> DEFINE t == queue[i]
<1>2. t \in Range(queue) /\ t \in Tasks  BY Places, RangeFacts
<1>3. Ascending(queue')  BY <1>1, Places, RemoveAtAscending DEF Fifo
<1>4. /\ Range(order') \subseteq Range(order) \cup {t}
      /\ known' = known \ ((Range(order) \cup {t}) \ Range(order'))
  <2>1. <<t>> \in Seq(Tasks) /\ IsInjective(<<t>>) /\ Range(<<t>>) = {t}  BY <1>2, Single
  <2>2. Range(order) \cap Range(<<t>>) = {}  BY <1>2, <2>1, Places
  <2>3. QED  BY <1>1, <2>1, <2>2, Places, RememberFacts
<1>5. /\ task'[t].status = "cancelled"
      /\ \A u \in Tasks \ {t} : task'[u] = task[u]
  BY <1>1, <1>2, Places, SetEndFacts DEF Terminal
<1> HIDE DEF t
<1>6. \A u \in Range(queue) \cap Range(order') : u = t  BY <1>4, Places
<1>7. \A u \in Range(order) \cap known' : u \in Range(order') /\ task'[u].status = task[u].status
  BY <1>2, <1>4, <1>5, Places
<1>8. QED  BY <1>1, <1>3, <1>4, <1>5, <1>6, <1>7 DEF Lives, Fifo

(* shutdown cancels the whole queue. *)
LEMMA ShutdownLives ==
  ASSUME IInv, IInv', Fifo, Shutdown
  PROVE  Lives
<1> DEFINE tk == [t \in Tasks |-> IF t \in Range(queue)
                                  THEN [task[t] EXCEPT !.status = "cancelled",
                                                       !.step = "cancelled"]
                                  ELSE task[t]]
<1>1. /\ queue' = <<>> /\ Remember(queue) /\ task' = Interrupt(tk, handles)
      /\ UNCHANGED <<next, handles>>
  BY DEF Shutdown
<1>2. Fifo'
  <2>1. Len(queue') = 0  BY <1>1, EmptySeq
  <2>2. \A i \in 1..Len(queue') : FALSE  BY <2>1
  <2>3. QED  BY <2>2 DEF Fifo, Ascending
<1>3. /\ Range(order') \subseteq Range(order) \cup Range(queue)
      /\ known' = known \ ((Range(order) \cup Range(queue)) \ Range(order'))
  BY <1>1, Places, RememberFacts
<1>4. /\ tk \in [Tasks -> TaskRecord]
      /\ \A t \in Tasks : /\ t \in Range(queue) => tk[t].status = "cancelled"
                          /\ t \notin Range(queue) => tk[t].status = task[t].status
  <2> SUFFICES ASSUME NEW t \in Tasks
               PROVE  /\ tk[t] \in TaskRecord
                      /\ t \in Range(queue) => tk[t].status = "cancelled"
                      /\ t \notin Range(queue) => tk[t].status = task[t].status
    OBVIOUS
  <2>1. task[t] \in TaskRecord  BY Places
  <2>2. CASE t \in Range(queue)
    <3>1. tk[t] = [task[t] EXCEPT !.status = "cancelled", !.step = "cancelled"]  BY <2>2
    <3>2. QED  BY <2>1, <2>2, <3>1 DEF TaskRecord, Terminal
  <2>3. CASE t \notin Range(queue)  BY <2>1, <2>3
  <2>4. QED  BY <2>2, <2>3
<1> HIDE DEF tk
<1>5. \A t \in Tasks : /\ t \in Range(queue) => task'[t].status = "cancelled"
                       /\ t \notin Range(queue) => task'[t].status = task[t].status
  BY <1>1, <1>4, InterruptFacts
<1>6. \A t \in Range(order) \cap known' : t \in Range(order') /\ task'[t].status = task[t].status
  BY <1>3, <1>5, Places
<1>7. \A t \in Range(queue) \cap Range(order') : task'[t].status = "cancelled"
  BY <1>5, Places
<1>8. QED  BY <1>1, <1>2, <1>3, <1>6, <1>7 DEF Lives

(* The end of a coroutine: its task goes to the history and frees its slot. *)
LEMMA FinishLives ==
  ASSUME IInv, IInv', Fifo, NEW t \in Tasks, task[t].pc = "inRunner",
         NEW tk \in [Tasks -> TaskRecord],
         \A u \in Tasks \ {t} : tk[u] = task[u],
         Finish(t, tk)
  PROVE  Lives
<1> DEFINE h == handles \ {t}
           tk2 == [tk EXCEPT ![t].pc = "done", ![t].cancel = FALSE]
<1>1. t \in handles /\ t \notin Range(order) /\ t \notin Range(queue)
  BY Places DEF IInv, Active
<1>2. /\ Remember(<<t>>) /\ Drain(queue, h, known', tk2) /\ next' = next
  BY DEF Finish
<1>3. /\ Range(order') \subseteq Range(order) \cup {t}
      /\ known' = known \ ((Range(order) \cup {t}) \ Range(order'))
      /\ t \in Range(order')
  <2>1. <<t>> \in Seq(Tasks) /\ IsInjective(<<t>>) /\ Range(<<t>>) = {t}  BY Single
  <2>2. Range(order) \cap Range(<<t>>) = {}  BY <1>1, <2>1
  <2>3. QED  BY <1>1, <1>2, <2>1, <2>2, Places, RememberFacts, RememberKeepsLast
<1>4. \A u \in Tasks \ {t} : tk2[u] = task[u]  OBVIOUS
<1> HIDE DEF tk2
<1>5. /\ Ascending(queue')
      /\ \A u \in handles' \ h, v \in Range(queue') : u < v
  <2>1. h \in SUBSET Tasks  BY Places
  <2> HIDE DEF h
  <2>2. QED  BY <1>2, <2>1, Places, DrainAscending DEF Fifo
<1>6. PICK k \in 0..Len(queue) :
        /\ handles' = h \cup Startable(queue, k, known', tk2)
        /\ task' = [u \in Tasks |->
                      IF u \in Startable(queue, k, known', tk2)
                      THEN [tk2[u] EXCEPT !.status = "running", !.step = "running",
                                          !.pc = "scheduled"]
                      ELSE tk2[u]]
  BY <1>2 DEF Drain
<1>7. Startable(queue, k, known', tk2) \subseteq Range(queue)
  <2>1. \A i \in 1..k : queue[i] \in Range(queue)  BY Places, RangeFacts
  <2>2. QED  BY <2>1 DEF Startable
<1>8. ASSUME NEW u \in Range(order)
      PROVE  task'[u] = task[u]
  <2>1. u \in Tasks /\ u # t /\ u \notin Startable(queue, k, known', tk2)
    BY <1>1, <1>7, Places
  <2>2. QED  BY <1>4, <1>6, <2>1
<1>9. handles \subseteq handles' \cup Range(order')  BY <1>3, <1>6
<1>10. Range(queue) \cap Range(order') = {}  BY <1>1, <1>3, Places
<1>11. \A u \in handles' \ handles, v \in Range(queue') : u < v  BY <1>5
<1>12. \A u \in Range(order) \cap known' : u \in Range(order') /\ task'[u].status = task[u].status
  BY <1>3, <1>8
<1>13. QED  BY <1>2, <1>3, <1>5, <1>9, <1>10, <1>11, <1>12 DEF Lives, Fifo

(* Every step moves each task along its life, and keeps the queue in order. *)
LEMMA NextLives ==
  ASSUME IInv, IInv', Fifo, [Next]_vars
  PROVE  Lives
<1>0. task \in [Tasks -> TaskRecord]  BY Places
<1>1. CASE Enqueue  BY <1>1, EnqueueLives
<1>2. CASE CancelQueued  BY <1>2, CancelQueuedLives
<1>3. CASE Shutdown  BY <1>3, ShutdownLives
<1>4. ASSUME UNCHANGED <<next, queue, handles, known, order>>,
             \A t \in Tasks : task'[t].status = task[t].status
      PROVE  Lives
  BY <1>4, Places DEF Lives, Fifo
<1>5. CASE ShutdownReturn \/ UNCHANGED vars
  BY <1>4, <1>5 DEF ShutdownReturn, vars
<1>6. ASSUME NEW c \in Clients, CancelRunning(c)  PROVE Lives
  <2>1. PICK t \in handles \cap known :
          task' = Interrupt([task EXCEPT ![t].requested = TRUE, ![t].step = "cancelling"], {t})
    BY <1>6 DEF CancelRunning
  <2> DEFINE tk == [task EXCEPT ![t].requested = TRUE, ![t].step = "cancelling"]
  <2>2. t \in Tasks /\ task[t] \in TaskRecord  BY Places
  <2>3. /\ tk \in [Tasks -> TaskRecord]
        /\ \A u \in Tasks : tk[u].status = task[u].status
    <3>1. tk = [task EXCEPT ![t] = [task[t] EXCEPT !.requested = TRUE, !.step = "cancelling"]]
      BY <2>2, Places DEF TaskRecord
    <3>2. [task[t] EXCEPT !.requested = TRUE, !.step = "cancelling"] \in TaskRecord
      BY <2>2 DEF TaskRecord
    <3>3. [task[t] EXCEPT !.requested = TRUE, !.step = "cancelling"].status = task[t].status
      BY <2>2 DEF TaskRecord
    <3>4. QED  BY <1>0, <2>2, <3>1, <3>2, <3>3
  <2> HIDE DEF tk
  <2>4. \A u \in Tasks : task'[u].status = task[u].status
    <3>1. task' = Interrupt(tk, {t})  BY <2>1 DEF tk
    <3>2. QED  BY <2>3, <3>1, InterruptFacts
  <2>5. QED  BY <1>4, <1>6, <2>4 DEF CancelRunning
<1>7. ASSUME NEW c \in Clients, CancelReturn(c) \/ CancelAbandoned(c)  PROVE Lives
  <2>1. \A t \in Tasks : task'[t].status = task[t].status
    BY <1>0, <1>7, InterruptFacts DEF CancelReturn, CancelAbandoned
  <2>2. QED  BY <1>4, <1>7, <2>1 DEF CancelReturn, CancelAbandoned
<1>8. ASSUME NEW t \in Tasks, Start(t) \/ CancelledBeforeStart(t) \/ Progress(t)  PROVE Lives
  <2>1. \A u \in Tasks : task[u] \in TaskRecord  BY <1>0
  <2>2. \A u \in Tasks : task'[u].status = task[u].status
    BY <1>0, <1>8, <2>1 DEF Start, CancelledBeforeStart, Progress, TaskRecord
  <2>3. QED  BY <1>4, <1>8, <2>2 DEF Start, CancelledBeforeStart, Progress
<1>9. ASSUME NEW t \in Tasks, RunnerReturns(t) \/ RunnerRaises(t) \/ RunnerCancelled(t)
      PROVE  Lives
  <2>1. task[t].pc = "inRunner"  BY <1>9 DEF RunnerReturns, RunnerRaises, RunnerCancelled
  <2>2. PICK tk \in [Tasks -> TaskRecord] : Finish(t, tk) /\ \A u \in Tasks \ {t} : tk[u] = task[u]
    <3>1. CASE RunnerReturns(t)
      <4>1. SetEnd(task, t, "completed") \in [Tasks -> TaskRecord]
            /\ \A u \in Tasks \ {t} : SetEnd(task, t, "completed")[u] = task[u]
        BY <1>0, SetEndFacts DEF Terminal
      <4>2. CASE task[t].status # "cancelled"
        <5>1. Finish(t, SetEnd(task, t, "completed"))  BY <3>1, <4>2 DEF RunnerReturns
        <5>2. QED  BY <4>1, <5>1
      <4>3. CASE task[t].status = "cancelled"
        <5>1. Finish(t, task)  BY <3>1, <4>3 DEF RunnerReturns
        <5>2. QED  BY <1>0, <5>1
      <4>4. QED  BY <4>2, <4>3
    <3>2. CASE RunnerRaises(t)
      <4>1. SetEnd(task, t, "failed") \in [Tasks -> TaskRecord]
            /\ \A u \in Tasks \ {t} : SetEnd(task, t, "failed")[u] = task[u]
        BY <1>0, SetEndFacts DEF Terminal
      <4>2. QED  BY <3>2, <4>1 DEF RunnerRaises
    <3>3. CASE RunnerCancelled(t)
      <4> DEFINE se == SetEnd(task, t, "cancelled")
      <4>1. se \in [Tasks -> TaskRecord] /\ \A u \in Tasks \ {t} : se[u] = task[u]
        BY <1>0, SetEndFacts DEF Terminal
      <4>2. Finish(t, [se EXCEPT ![t].requested = FALSE])  BY <3>3 DEF RunnerCancelled
      <4> HIDE DEF se
      <4>3. [se EXCEPT ![t].requested = FALSE] = [se EXCEPT ![t] = [se[t] EXCEPT !.requested = FALSE]]
        BY <4>1 DEF TaskRecord
      <4>4. [se[t] EXCEPT !.requested = FALSE] \in TaskRecord  BY <4>1 DEF TaskRecord
      <4>5. /\ [se EXCEPT ![t].requested = FALSE] \in [Tasks -> TaskRecord]
            /\ \A u \in Tasks \ {t} : [se EXCEPT ![t].requested = FALSE][u] = task[u]
        BY <4>1, <4>3, <4>4
      <4>6. QED  BY <4>2, <4>5
    <3>4. QED  BY <1>9, <3>1, <3>2, <3>3
  <2>3. QED  BY <2>1, <2>2, FinishLives
<1>10. QED  BY <1>1, <1>2, <1>3, <1>5, <1>6, <1>7, <1>8, <1>9 DEF Next

(* No task is in two places, before and after a step. *)
PlacesApart ==
  /\ known = Range(queue) \cup handles \cup Range(order)
  /\ Range(queue) \cap handles = {} /\ Range(queue) \cap Range(order) = {}

(* PlacesApart follows from the invariant. *)
LEMMA PlacesOfInvariant == IInv => PlacesApart
BY Places DEF PlacesApart

(* What a poll reports is where the task is. *)
PolledPlaces ==
  \A t \in Tasks :
    /\ Polled[t] \in Lifecycle!States
    /\ Polled[t] = "queued" <=> t \in Range(queue)
    /\ Polled[t] = "running" <=> t \in handles
    /\ t \in Range(order) => Polled[t] = task[t].status /\ Polled[t] \in Terminal
    /\ t \notin known /\ t < next => Polled[t] = "forgotten"
    /\ Polled[t] = "absent" <=> t \notin known /\ ~(t < next)

(* The invariant makes the report agree with the dictionaries. *)
LEMMA PolledFacts == IInv => PolledPlaces
<1> SUFFICES ASSUME IInv, NEW t \in Tasks
             PROVE  /\ Polled[t] \in Lifecycle!States
                    /\ Polled[t] = "queued" <=> t \in Range(queue)
                    /\ Polled[t] = "running" <=> t \in handles
                    /\ t \in Range(order) => Polled[t] = task[t].status /\ Polled[t] \in Terminal
                    /\ t \notin known /\ t < next => Polled[t] = "forgotten"
                    /\ Polled[t] = "absent" <=> t \notin known /\ ~(t < next)
  BY DEF PolledPlaces
<1>1. Polled[t] = IF t \in known THEN task[t].status
                  ELSE IF t < next THEN "forgotten" ELSE "absent"
  BY DEF Polled
<1>2. /\ t \in Range(queue) => task[t].status = "queued"
      /\ t \in handles => task[t].status = "running"
      /\ t \in Range(order) => task[t].status \in Terminal
  BY DEF IInv, Filed
<1>3. QED  BY <1>1, <1>2, Places DEF Terminal, Lifecycle!States, Lifecycle!Terminal

(* A step of the queue is a step of the life of its tasks. *)
LEMMA LivesLifecycle ==
  ASSUME IInv, IInv', Lives
  PROVE  Lifecycle!Next
<1>1. PolledPlaces  BY PolledFacts
<1>2. PolledPlaces'  BY PolledFacts, PTL
<1>3. Lifecycle!Tasks = Tasks  BY DEF Lifecycle!Tasks, Tasks
<1>4. Polled' \in [Tasks -> Lifecycle!States]
  <2>1. Polled' = [t \in Tasks |-> Polled'[t]]  BY DEF Polled
  <2>2. \A t \in Tasks : Polled'[t] \in Lifecycle!States  BY <1>2 DEF PolledPlaces
  <2>3. QED  BY <2>1, <2>2
<1>5. ASSUME NEW t \in Tasks
      PROVE  Polled'[t] \in Lifecycle!Successors(Polled[t])
  <2>0. /\ next \in Int /\ t \in Int /\ next' \in {next, next + 1}
        /\ known' = Range(queue') \cup handles' \cup Range(order')
        /\ Range(queue') \cap handles' = {} /\ Range(queue') \cap Range(order') = {}
    <3>1. next \in Int /\ t \in Int  BY DEF IInv, TypeOK, Tasks
    <3>3. PlacesApart'  BY PlacesOfInvariant, PTL
    <3>4. QED  BY <3>1, <3>3 DEF Lives, PlacesApart
  <2>1. CASE t \in Range(queue)
    <3>1. Polled[t] = "queued"  BY <1>1, <2>1 DEF PolledPlaces
    <3>2. t < next /\ t < next'
      <4>1. t \in known  BY <2>1, Places
      <4>2. QED  BY <2>0, <4>1 DEF IInv, Fresh
    <3>3. Polled'[t] \in {"queued", "running", "cancelled", "forgotten"}
      <4>1. CASE t \in Range(order')
        <5>1. task'[t].status = "cancelled"  BY <2>1, <4>1 DEF Lives
        <5>2. QED  BY <1>2, <4>1, <5>1 DEF PolledPlaces
      <4>2. CASE t \notin Range(order')
        BY <1>2, <2>0, <3>2, <4>2 DEF PolledPlaces
      <4>3. QED  BY <4>1, <4>2
    <3>4. QED  BY <3>1, <3>3 DEF Lifecycle!Successors, Lifecycle!Terminal
  <2>2. CASE t \in handles
    <3>1. Polled[t] = "running"  BY <1>1, <2>2 DEF PolledPlaces
    <3>2. t \in handles' \/ t \in Range(order')  BY <2>2 DEF Lives
    <3>3. Polled'[t] \in {"running"} \cup Terminal  BY <1>2, <3>2 DEF PolledPlaces
    <3>4. QED  BY <3>1, <3>3 DEF Lifecycle!Successors, Lifecycle!Terminal, Terminal
  <2>3. CASE t \in Range(order)
    <3>1. Polled[t] \in Terminal /\ Polled[t] = task[t].status  BY <1>1, <2>3 DEF PolledPlaces
    <3>2. t < next'
      <4>1. t \in known  BY <2>3, Places
      <4>2. QED  BY <2>0, <4>1 DEF IInv, Fresh
    <3>3. Polled'[t] \in {Polled[t], "forgotten"}
      <4>1. CASE t \in known'
        <5>1. t \in Range(order') /\ task'[t].status = task[t].status  BY <2>3, <4>1 DEF Lives
        <5>2. QED  BY <1>2, <3>1, <5>1 DEF PolledPlaces
      <4>2. CASE t \notin known'  BY <1>2, <3>2, <4>2 DEF PolledPlaces
      <4>3. QED  BY <4>1, <4>2
    <3>4. QED  BY <3>1, <3>3 DEF Lifecycle!Successors, Lifecycle!Terminal, Terminal
  <2>4. CASE t \notin known /\ t < next
    <3>1. Polled[t] = "forgotten"  BY <1>1, <2>4 DEF PolledPlaces
    <3>2. t \notin known' /\ t < next'  BY <2>0, <2>4 DEF Lives
    <3>3. Polled'[t] = "forgotten"  BY <1>2, <3>2 DEF PolledPlaces
    <3>4. QED  BY <3>1, <3>3 DEF Lifecycle!Successors, Lifecycle!Terminal
  <2>5. CASE t \notin known /\ ~(t < next)
    <3>1. Polled[t] = "absent"  BY <1>1, <2>5 DEF PolledPlaces
    <3>2. CASE t \in known'
      <4>1. t \notin Range(order')  BY <2>5, <3>2 DEF Lives
      <4>2. Polled'[t] \in {"queued", "running"}  BY <1>2, <2>0, <3>2, <4>1 DEF PolledPlaces
      <4>3. QED  BY <3>1, <4>2 DEF Lifecycle!Successors, Lifecycle!Terminal
    <3>3. CASE t \notin known'
      <4>1. ~(t < next')
        <5>1. t = next => next' = next  BY <3>3 DEF Lives
        <5>2. QED  BY <2>0, <2>5, <5>1
      <4>2. Polled'[t] = "absent"  BY <1>2, <3>3, <4>1 DEF PolledPlaces
      <4>3. QED  BY <3>1, <4>2 DEF Lifecycle!Successors, Lifecycle!Terminal
    <3>4. QED  BY <3>2, <3>3
  <2>6. QED  BY <2>1, <2>2, <2>3, <2>4, <2>5, Places
<1>6. Lifecycle!Cardinality(Lifecycle!InState("running")') <= MaxConcurrent
  <2>1. Lifecycle!InState("running")' = handles'
    <3>1. handles' \subseteq Tasks  BY DEF IInv, TypeOK
    <3>2. QED  BY <1>2, <1>3, <3>1 DEF Lifecycle!InState, PolledPlaces
  <2>2. Cardinality(handles') <= MaxConcurrent  BY DEF IInv, Pool
  <2>3. Lifecycle!Cardinality(handles') = Cardinality(handles')
    BY DEF Lifecycle!Cardinality, Cardinality, Lifecycle!IsFiniteSet, IsFiniteSet
  <2>4. QED  BY <2>1, <2>2, <2>3
<1>7. ASSUME NEW t \in Lifecycle!InState("running")' \ Lifecycle!InState("running"),
             NEW u \in Lifecycle!InState("queued")'
      PROVE  t < u
  <2>1. t \in handles' \ handles /\ u \in Range(queue')
    BY <1>1, <1>2, <1>3, <1>7 DEF Lifecycle!InState, PolledPlaces
  <2>2. QED  BY <2>1 DEF Lives
<1>8. ASSUME NEW t \in Lifecycle!InState("absent")', NEW u \in Tasks, u > t
      PROVE  Polled'[u] = "absent"
  <2>1. t \in Tasks /\ ~(t < next')
    BY <1>2, <1>3, <1>8 DEF Lifecycle!InState, PolledPlaces
  <2>2. next' \in Int /\ t \in Int /\ u \in Int  BY <2>1 DEF IInv, TypeOK, Tasks
  <2>3. ~(u < next')  BY <1>8, <2>1, <2>2
  <2>4. u \notin known'  BY <2>3 DEF IInv, Fresh
  <2>5. QED  BY <1>2, <2>3, <2>4 DEF PolledPlaces
<1>9. QED  BY <1>3, <1>4, <1>5, <1>6, <1>7, <1>8 DEF Lifecycle!Next

(* The queue starts with every task absent, and in order. *)
LEMMA InitLifecycle == Init => Lifecycle!Init /\ Fifo
<1> SUFFICES ASSUME Init  PROVE Lifecycle!Init /\ Fifo  OBVIOUS
<1>1. known = {} /\ next = 1 /\ queue = <<>>  BY DEF Init
<1>2. \A t \in Tasks : ~(t < 1)  BY DEF Tasks
<1>3. Polled = [t \in Tasks |-> "absent"]  BY <1>1, <1>2 DEF Polled
<1>4. Fifo
  <2>1. Len(queue) = 0  BY <1>1, EmptySeq
  <2>2. \A i \in 1..Len(queue) : FALSE  BY <2>1
  <2>3. QED  BY <2>2 DEF Fifo, Ascending
<1>5. QED  BY <1>3, <1>4 DEF Lifecycle!Init, Lifecycle!Tasks, Tasks

(* The queue always holds ids in the order of acceptance. *)
THEOREM QueueIsFifo == Spec => []Fifo
<1>1. Init => Fifo  BY InitLifecycle
<1>2. IInv /\ IInv' /\ Fifo /\ [Next]_vars => Fifo'  BY NextLives DEF Lives
<1>3. QED  BY <1>1, <1>2, Invariance, PTL DEF Spec

(* The task queue implements the life of a task that clients are told of: each id is
   accepted in order, starts in that order or is cancelled, ends and is forgotten,
   and no step takes it back; at most max_concurrent run.                      *)
THEOREM TaskQueueImplementsLifecycle == Spec => ImplementsLifecycle
<1>1. Init => Lifecycle!Init  BY InitLifecycle
<1>2. IInv /\ IInv' /\ Fifo /\ [Next]_vars => Lifecycle!Next
  BY NextLives, LivesLifecycle
<1>3. QED
  BY <1>1, <1>2, Invariance, QueueIsFifo, PTL DEF Spec, ImplementsLifecycle, Lifecycle!Spec

---------------------------------------------------------------------------------
(* How long a finished task stays pollable *)

(* _remember_completed forgets only while the history is full, and only what finished
   before everything it keeps: the position of an id is its age.               *)
LEMMA RememberForgets ==
  ASSUME NEW s \in Seq(Tasks), order \in Seq(Tasks), IsInjective(order), IsInjective(s),
         Range(order) \cap Range(s) = {}, Remember(s),
         NEW t \in known \ known'
  PROVE  /\ Len(order') = MaxCompleted
         /\ \E m \in 1..Len(order \o s) :
              /\ (order \o s)[m] = t
              /\ m + MaxCompleted <= Len(order \o s)
              /\ \A n \in 1..Len(order \o s) : (order \o s)[n] \in Range(order') => m < n
<1> DEFINE all == order \o s
           stale == IF Len(all) > MaxCompleted THEN Len(all) - MaxCompleted ELSE 0
<1>1. all \in Seq(Tasks) /\ IsInjective(all)  BY JoinFacts
<1>2. /\ order' = SubSeq(all, stale + 1, Len(all))
      /\ known' = known \ {all[i] : i \in 1..stale}
  BY DEF Remember
<1>3. Len(all) \in Nat /\ DOMAIN all = 1..Len(all)  BY <1>1, RangeFacts
<1> HIDE DEF all
<1>4. PICK m \in 1..stale : all[m] = t  BY <1>2
<1>5. stale = Len(all) - MaxCompleted /\ stale \in 0..Len(all) /\ stale \in Nat
  <2>1. MaxCompleted \in Nat  BY DEF ConfigAssumption
  <2>2. Len(all) > MaxCompleted
    <3>1. ASSUME ~(Len(all) > MaxCompleted)  PROVE FALSE
      <4>1. stale = 0  BY <3>1
      <4>2. QED  BY <1>4, <4>1
    <3>2. QED  BY <3>1
  <2>3. QED  BY <1>3, <2>1, <2>2
<1> HIDE DEF stale
<1>6. /\ Len(order') = Len(all) - stale
      /\ Range(order') = Range(all) \ {all[i] : i \in 1..stale}
  BY <1>1, <1>2, <1>5, TailFacts
<1>7. Len(order') = MaxCompleted
  BY <1>3, <1>5, <1>6 DEF ConfigAssumption
<1>8. m \in 1..Len(all) /\ m + MaxCompleted <= Len(all)
  BY <1>3, <1>4, <1>5 DEF ConfigAssumption
<1>9. ASSUME NEW n \in 1..Len(all), all[n] \in Range(order')
      PROVE  m < n
  <2>1. n \notin 1..stale  BY <1>6, <1>9
  <2>2. QED  BY <1>3, <1>4, <1>5, <2>1
<1>10. QED  BY <1>4, <1>7, <1>8, <1>9 DEF all

(* Where an id of order \o queue is. *)
LEMMA AgeFacts ==
  ASSUME IInv
  PROVE  /\ order \o queue \in Seq(Tasks) /\ IsInjective(order \o queue)
         /\ DOMAIN (order \o queue) = 1..Len(order \o queue)
         /\ Len(order \o queue) = Len(order) + Len(queue)
         /\ Len(order) \in Nat /\ Len(queue) \in Nat
         /\ \A i \in 1..Len(order) : (order \o queue)[i] = order[i] /\ i \in 1..Len(order \o queue)
         /\ \A i \in 1..Len(order \o queue) :
              \/ i \in 1..Len(order) /\ (order \o queue)[i] \in Range(order)
              \/ i > Len(order) /\ (order \o queue)[i] \in Range(queue)
<1>1. /\ order \o queue \in Seq(Tasks) /\ IsInjective(order \o queue)
      /\ Len(order \o queue) = Len(order) + Len(queue)
  BY Places, JoinFacts
<1>2. \A i \in 1..Len(order) + Len(queue) :
        (order \o queue)[i] = IF i <= Len(order) THEN order[i] ELSE queue[i - Len(order)]
  BY Places, ConcatProperties
<1>3. /\ Len(order) \in Nat /\ Len(queue) \in Nat
      /\ \A i \in 1..Len(order) : order[i] \in Range(order)
      /\ \A i \in 1..Len(queue) : queue[i] \in Range(queue)
  BY Places, RangeFacts
<1>4. DOMAIN (order \o queue) = 1..Len(order \o queue)  BY <1>1, RangeFacts
<1>5. ASSUME NEW i \in 1..Len(order) + Len(queue)
      PROVE  \/ i \in 1..Len(order) /\ (order \o queue)[i] \in Range(order)
             \/ i > Len(order) /\ (order \o queue)[i] \in Range(queue)
  <2>1. CASE i <= Len(order)
    <3>1. i \in 1..Len(order) /\ (order \o queue)[i] = order[i]  BY <1>2, <1>3, <2>1
    <3>2. QED  BY <1>3, <3>1
  <2>2. CASE ~(i <= Len(order))
    <3>1. /\ i > Len(order) /\ i - Len(order) \in 1..Len(queue)
          /\ (order \o queue)[i] = queue[i - Len(order)]
      BY <1>2, <1>3, <2>2
    <3>2. QED  BY <1>3, <3>1
  <2>3. QED  BY <2>1, <2>2
<1>6. \A i \in 1..Len(order) : (order \o queue)[i] = order[i] /\ i \in 1..Len(order) + Len(queue)
  BY <1>2, <1>3
<1>7. QED  BY <1>1, <1>3, <1>4, <1>5, <1>6

Forgets(t) ==
  /\ Len(order') = MaxCompleted
  /\ \A i, j \in DOMAIN (order \o queue) :
        /\ (order \o queue)[i] = t
        /\ (order \o queue)[j] \in Range(order')
        => i < j

(* One task that ends pushes out at most the oldest entry. *)
LEMMA OneForgets ==
  ASSUME IInv, NEW u \in Tasks, u \notin Range(order), Remember(<<u>>), NEW t \in known \ known'
  PROVE  Forgets(t)
<1> DEFINE one == order \o <<u>>
           age == order \o queue
<1>1. /\ <<u>> \in Seq(Tasks) /\ IsInjective(<<u>>) /\ Range(<<u>>) = {u} /\ Len(<<u>>) = 1
      /\ order \in Seq(Tasks) /\ IsInjective(order)
  BY Single, Places
<1>2. /\ Len(order') = MaxCompleted
      /\ \E m \in 1..Len(one) :
           /\ one[m] = t /\ m + MaxCompleted <= Len(one)
           /\ \A n \in 1..Len(one) : one[n] \in Range(order') => m < n
  <2>1. Range(order) \cap Range(<<u>>) = {}  BY <1>1
  <2> HIDE DEF one
  <2>2. QED  BY <1>1, <2>1, RememberForgets DEF one
<1>3. PICK m \in 1..Len(one) :
        /\ one[m] = t /\ m + MaxCompleted <= Len(one)
        /\ \A n \in 1..Len(one) : one[n] \in Range(order') => m < n
  BY <1>2
<1>4. /\ Len(one) = Len(order) + 1 /\ Len(order) \in Nat
      /\ \A i \in 1..Len(order) : one[i] = order[i] /\ i \in 1..Len(one)
  <2>1. /\ Len(one) = Len(order) + Len(<<u>>)
        /\ \A i \in 1..Len(order) + Len(<<u>>) :
             one[i] = IF i <= Len(order) THEN order[i] ELSE <<u>>[i - Len(order)]
    BY <1>1, ConcatProperties
  <2>2. Len(order) \in Nat  BY <1>1, RangeFacts
  <2> HIDE DEF one
  <2>3. Len(one) = Len(order) + 1  BY <1>1, <2>1
  <2>4. \A i \in 1..Len(order) : i <= Len(order) /\ i \in 1..Len(order) + Len(<<u>>)
    BY <1>1, <2>2
  <2>5. \A i \in 1..Len(order) : i \in 1..Len(one)  BY <2>2, <2>3
  <2>6. QED  BY <2>1, <2>2, <2>3, <2>4, <2>5
<1> HIDE DEF one
<1>5. m \in 1..Len(order) /\ order[m] = t
  BY <1>3, <1>4 DEF ConfigAssumption
<1>6. /\ IsInjective(age) /\ DOMAIN age = 1..Len(age) /\ age[m] = t /\ m \in DOMAIN age
      /\ \A i \in 1..Len(order) : age[i] = order[i]
      /\ \A i \in 1..Len(age) : i \in 1..Len(order) \/ i > Len(order)
  BY <1>5, AgeFacts
<1> HIDE DEF age
<1>7. ASSUME NEW i \in DOMAIN age, NEW j \in DOMAIN age, age[i] = t, age[j] \in Range(order')
      PROVE  i < j
  <2>1. i = m  BY <1>6, <1>7 DEF IsInjective
  <2>2. CASE j \in 1..Len(order)
    <3>1. one[j] \in Range(order') /\ j \in 1..Len(one)  BY <1>4, <1>6, <1>7, <2>2
    <3>2. QED  BY <1>3, <2>1, <3>1
  <2>3. CASE j > Len(order)  BY <1>4, <1>5, <2>1, <2>3
  <2>4. QED  BY <1>6, <2>2, <2>3
<1>8. QED  BY <1>2, <1>7 DEF Forgets, age

(* Every step that forgets a task leaves a full history of younger ones. *)
LEMMA NextForgets ==
  ASSUME IInv, [Next]_vars, NEW t \in known \ known'
  PROVE  Forgets(t)
<1>1. CASE Enqueue  BY <1>1 DEF Enqueue
<1>2. CASE CancelQueued
  <2>1. PICK i \in 1..Len(queue) : Remember(<<queue[i]>>)  BY <1>2 DEF CancelQueued
  <2>2. queue[i] \in Tasks /\ queue[i] \notin Range(order)  BY Places, RangeFacts
  <2>3. QED  BY <2>1, <2>2, OneForgets
<1>3. CASE Shutdown
  <2> DEFINE age == order \o queue
  <2>1. Remember(queue)  BY <1>3 DEF Shutdown
  <2>2. /\ Len(order') = MaxCompleted
        /\ \E m \in 1..Len(age) :
             /\ age[m] = t /\ m + MaxCompleted <= Len(age)
             /\ \A n \in 1..Len(age) : age[n] \in Range(order') => m < n
    BY <2>1, Places, RememberForgets
  <2>3. IsInjective(age) /\ DOMAIN age = 1..Len(age)  BY AgeFacts
  <2> HIDE DEF age
  <2>4. \A i, j \in DOMAIN age : age[i] = t /\ age[j] \in Range(order') => i < j
    BY <2>2, <2>3 DEF IsInjective
  <2>5. QED  BY <2>2, <2>4 DEF Forgets, age
<1>4. ASSUME NEW u \in Tasks, RunnerReturns(u) \/ RunnerRaises(u) \/ RunnerCancelled(u)
      PROVE  Forgets(t)
  <2>1. Remember(<<u>>) /\ task[u].pc = "inRunner"
    BY <1>4 DEF RunnerReturns, RunnerRaises, RunnerCancelled, Finish
  <2>2. u \notin Range(order)  BY <2>1, Places DEF IInv, Active
  <2>3. QED  BY <2>1, <2>2, OneForgets
<1>5. ASSUME known' = known  PROVE Forgets(t)
  BY <1>5
<1>6. CASE \/ \E c \in Clients : CancelRunning(c) \/ CancelReturn(c) \/ CancelAbandoned(c)
           \/ ShutdownReturn
           \/ \E u \in Tasks : Start(u) \/ CancelledBeforeStart(u) \/ Progress(u)
           \/ UNCHANGED vars
  BY <1>5, <1>6 DEF CancelRunning, CancelReturn, CancelAbandoned, ShutdownReturn, Start,
     CancelledBeforeStart, Progress, vars
<1>7. QED  BY <1>1, <1>2, <1>3, <1>4, <1>6 DEF Next

(* A finished task stays pollable until max_completed others finished after it. *)
THEOREM FinishedStayPollable == Spec => Retention
<1>1. IInv /\ [Next]_vars =>
        [\A t \in known \ known' :
           /\ Len(order') = MaxCompleted
           /\ \A i, j \in DOMAIN (order \o queue) :
                 /\ (order \o queue)[i] = t
                 /\ (order \o queue)[j] \in Range(order')
                 => i < j]_vars
  BY NextForgets DEF Forgets
<1>2. QED  BY <1>1, Invariance, PTL DEF Spec, Retention

==================================================================================
