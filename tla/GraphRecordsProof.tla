------------------------- MODULE GraphRecordsProof -------------------------
(***************************************************************************)
(* Proofs about what the services keep in the graph database, for every    *)
(* value of the constants: work items (WorkItems), violations               *)
(* (ViolationRecords), embeddings and their indexes (EmbeddingIndex) and    *)
(* the code index (CodeIndex).                                              *)
(***************************************************************************)
EXTENDS WorkItems, ViolationRecords, EmbeddingIndex, CodeIndex, SequenceTheorems,
        FiniteSetTheorems, TLAPS

(***************************************************************************)
(* Tasks and decisions: for any tasks, decisions and projects, a superseded *)
(* decision has a stored successor.  Beside the shapes of the variables the *)
(* induction needs only that nothing takes a stored item or a relation      *)
(* away, which is what Grows says of a step.                                *)
(***************************************************************************)

WorkItem == Tasks \cup Decisions

(* Both halves of the graph hold what decision_get reads: the status of    *)
(* every item, and relations between stored decisions.                     *)
LineageInv ==
  /\ item \in [WorkItem -> TaskStatuses \cup DecisionStatuses \cup {"none", "awaited"}]
  /\ SupersededHasSuccessor

(* No item is deleted, no relation and no mark of a raised statement.      *)
Grows ==
  /\ \A i \in WorkItem : Stored(i) => Stored(i)'
  /\ supersedes \subseteq supersedes'
  /\ onlyMarked \subseteq onlyMarked'

---------------------------------------------------------------------------
(* A step that supersedes no decision keeps the lineage of the others.     *)
LEMMA LineageKept ==
  ASSUME LineageInv, Grows,
         item' \in [WorkItem -> TaskStatuses \cup DecisionStatuses \cup {"none", "awaited"}],
         \A d \in Decisions : item'[d] = "superseded" => item[d] = "superseded"
  PROVE  LineageInv'
<1> SUFFICES ASSUME NEW d \in Decisions, item'[d] = "superseded", d \notin onlyMarked'
             PROVE  \E new \in Decisions : Stored(new)' /\ <<new, d>> \in supersedes'
  BY DEF LineageInv, SupersededHasSuccessor, StoredOf
<1>1. item[d] = "superseded" /\ d \notin onlyMarked
  BY DEF Grows
<1>2. PICK new \in Decisions : Stored(new) /\ <<new, d>> \in supersedes
  BY <1>1 DEF LineageInv, SupersededHasSuccessor, StoredOf
<1> QED BY <1>2 DEF Grows, WorkItem

(* What tool calls write before and instead of a node: no decision of it    *)
(* is superseded, and nothing stored is lost.                              *)
LEMMA WriteKeepsLineage ==
  ASSUME LineageInv, NEW i \in WorkItem,
         NEW status \in (TaskStatuses \cup {"active", "none", "awaited"}),
         status \in {"none", "awaited"} => ~Stored(i),
         item' = [item EXCEPT ![i] = status],
         UNCHANGED <<supersedes, onlyMarked>>
  PROVE  LineageInv'
<1>1. item' \in [WorkItem -> TaskStatuses \cup DecisionStatuses \cup {"none", "awaited"}]
  BY DEF LineageInv, DecisionStatuses
<1>2. \A j \in WorkItem : item'[j] = IF j = i THEN status ELSE item[j]
  BY DEF LineageInv
<1>3. status # "superseded"
  BY DEF TaskStatuses
<1>4. \A d \in Decisions : item'[d] = "superseded" => item[d] = "superseded"
  BY <1>2, <1>3 DEF WorkItem
<1>5. Grows
  BY <1>2 DEF Grows, Stored
<1> QED BY <1>1, <1>4, <1>5, LineageKept

(* decision_supersede: a successor that is stored and related, or a mark.   *)
LEMMA SupersedeKeepsLineage ==
  ASSUME LineageInv, NEW old \in Decisions, NEW new \in Decisions, Supersede(old, new)
  PROVE  LineageInv'
<1>1. item' = [item EXCEPT ![old] = "superseded"] /\ Stored(old)
  BY DEF Supersede
<1>2. item' \in [WorkItem -> TaskStatuses \cup DecisionStatuses \cup {"none", "awaited"}]
  BY <1>1 DEF LineageInv, DecisionStatuses
<1>3. \A j \in WorkItem : item'[j] = IF j = old THEN "superseded" ELSE item[j]
  BY <1>1 DEF LineageInv
<1>4. Grows
  BY <1>3 DEF Grows, Stored, Supersede
<1>5. SUFFICES ASSUME NEW d \in Decisions, item'[d] = "superseded", d \notin onlyMarked'
               PROVE  \E n \in Decisions : Stored(n)' /\ <<n, d>> \in supersedes'
  BY <1>2 DEF LineageInv, SupersededHasSuccessor, StoredOf
<1>6. CASE d = old
  <2>1. Stored(new) /\ <<new, old>> \in supersedes'
    BY <1>5, <1>6 DEF Supersede
  <2> QED BY <1>4, <1>6, <2>1 DEF Grows, WorkItem
<1>7. CASE d # old
  <2>1. item[d] = "superseded" /\ d \notin onlyMarked
    BY <1>3, <1>4, <1>5, <1>7 DEF Grows, WorkItem
  <2>2. PICK n \in Decisions : Stored(n) /\ <<n, d>> \in supersedes
    BY <2>1 DEF LineageInv, SupersededHasSuccessor, StoredOf
  <2> QED BY <1>4, <2>2 DEF Grows, WorkItem
<1> QED BY <1>6, <1>7

(* Every tool of tasks.py and decisions.py keeps the lineage.               *)
LEMMA StepKeepsLineage ==
  ASSUME LineageInv, [WorkNext]_workVars
  PROVE  LineageInv'
<1>1. CASE UNCHANGED <<item, supersedes, onlyMarked>>
  BY <1>1 DEF LineageInv, SupersededHasSuccessor, StoredOf, Stored
<1>2. ASSUME NEW i \in WorkItem, AskFails(i) \/ \E p \in Owners : Ask(i, p)
      PROVE  LineageInv'
  BY <1>2, WriteKeepsLineage DEF AskFails, Ask, Stored, edges
<1>3. ASSUME NEW t \in Tasks, CreateTask(t)
      PROVE  LineageInv'
  BY <1>3, WriteKeepsLineage DEF CreateTask, Store, edges, WorkItem, TaskStatuses
<1>4. ASSUME NEW t \in Tasks, NEW status \in TaskStatuses, UpdateTask(t, status)
      PROVE  LineageInv'
  <2>1. /\ item' = [item EXCEPT ![t] = status] /\ UNCHANGED <<supersedes, onlyMarked>>
        /\ status \notin {"none", "awaited"}
    BY <1>4 DEF UpdateTask, edges, TaskStatuses
  <2> QED BY <2>1, WriteKeepsLineage DEF WorkItem
<1>5. ASSUME NEW d \in Decisions, RecordDecision(d)
      PROVE  LineageInv'
  BY <1>5, WriteKeepsLineage DEF RecordDecision, Store, edges, WorkItem
<1>6. ASSUME NEW t \in Tasks, \/ \E by \in Tasks : BlockTask(t, by)
                              \/ \E d \in Decisions : LinkDecision(t, d)
      PROVE  UNCHANGED <<item, supersedes, onlyMarked>>
  BY <1>6 DEF BlockTask, LinkDecision
<1>7. CASE UNCHANGED workVars
  BY <1>1, <1>7 DEF workVars, edges
<1> QED BY <1>1, <1>2, <1>3, <1>4, <1>5, <1>6, <1>7, SupersedeKeepsLineage DEF WorkNext, WorkItem

(* A superseded decision has a stored successor unless the tool was given    *)
(* an unknown id or its second statement raised, in every behaviour of the   *)
(* work tools.                                                               *)
THEOREM LineageTheorem == WorkSpec => []SupersededHasSuccessor
<1>1. WorkInit => LineageInv
  BY DEF WorkInit, LineageInv, SupersededHasSuccessor, WorkItem
<1>2. LineageInv => SupersededHasSuccessor
  BY DEF LineageInv
<1> QED BY <1>1, <1>2, StepKeepsLineage, PTL DEF WorkSpec

(* Shapes hold of tasks and decisions apart, which their ids keep apart:     *)
(* a step on a task is no step on a decision.                               *)
LEMMA StepKeepsWorkTypes ==
  ASSUME WorkTypeOK, DOMAIN item = WorkItem, [WorkNext]_workVars
  PROVE  WorkTypeOK' /\ DOMAIN item' = WorkItem
<1> USE DEF WorkTypeOK, WorkItem
<1>0. Tasks \cap Decisions = {} /\ RealOwners \subseteq Owners
  BY WorkItemsAssumption DEF WorkItemsAssumption
<1>1. CASE UNCHANGED workVars
  BY <1>1 DEF workVars, edges
<1>2. ASSUME NEW i \in WorkItem, NEW status, item' = [item EXCEPT ![i] = status],
             i \in Tasks => status \in TaskStatuses \cup {"none", "awaited"},
             i \in Decisions => status \in DecisionStatuses \cup {"none", "awaited"}
      PROVE  /\ \A t \in Tasks : item'[t] \in TaskStatuses \cup {"none", "awaited"}
             /\ \A d \in Decisions : item'[d] \in DecisionStatuses \cup {"none", "awaited"}
             /\ DOMAIN item' = WorkItem
  <2>1. DOMAIN item' = WorkItem /\ \A j \in WorkItem : item'[j] = IF j = i THEN status ELSE item[j]
    BY <1>2
  <2> QED BY <1>2, <2>1
<1>3. ASSUME NEW i \in WorkItem, \/ AskFails(i)
                                 \/ CreateTask(i) /\ i \in Tasks
                                 \/ RecordDecision(i) /\ i \in Decisions
                                 \/ \E p \in Owners : Ask(i, p)
      PROVE  WorkTypeOK' /\ DOMAIN item' = WorkItem
  <2>1. PICK status : /\ item' = [item EXCEPT ![i] = status]
                      /\ i \in Tasks => status \in TaskStatuses \cup {"none", "awaited"}
                      /\ i \in Decisions => status \in DecisionStatuses \cup {"none", "awaited"}
    BY <1>0, <1>3 DEF AskFails, CreateTask, RecordDecision, Ask, Store, TaskStatuses, DecisionStatuses
  <2>2. UNCHANGED <<completed, edges, onlyMarked>>
    BY <1>3 DEF AskFails, CreateTask, RecordDecision, Ask, Store
  <2>3. \E p \in Owners \cup {NoOwner} : owner' = [owner EXCEPT ![i] = p]
    BY <1>0, <1>3 DEF AskFails, CreateTask, RecordDecision, Ask, Store
  <2>4. owner' \in [Tasks \cup Decisions -> Owners \cup {NoOwner}]
    BY <2>3
  <2> QED BY <1>2, <2>1, <2>2, <2>4 DEF edges
<1>4. ASSUME NEW t \in Tasks, NEW status \in TaskStatuses, UpdateTask(t, status)
      PROVE  WorkTypeOK' /\ DOMAIN item' = WorkItem
  <2>1. /\ item' = [item EXCEPT ![t] = status] /\ completed' \subseteq Tasks
        /\ UNCHANGED <<owner, edges, onlyMarked>>
    BY <1>4 DEF UpdateTask
  <2> QED BY <1>0, <1>2, <2>1 DEF edges
<1>5. ASSUME NEW old \in Decisions, NEW new \in Decisions, Supersede(old, new)
      PROVE  WorkTypeOK' /\ DOMAIN item' = WorkItem
  <2>1. /\ item' = [item EXCEPT ![old] = "superseded"]
        /\ supersedes' \subseteq Decisions \X Decisions /\ onlyMarked' \subseteq Decisions
        /\ UNCHANGED <<owner, completed, blocks, taskDecision>>
    BY <1>5 DEF Supersede
  <2> QED BY <1>0, <1>2, <2>1 DEF DecisionStatuses
<1>6. ASSUME NEW t \in Tasks, \/ \E by \in Tasks : BlockTask(t, by)
                              \/ \E d \in Decisions : LinkDecision(t, d)
      PROVE  WorkTypeOK' /\ DOMAIN item' = WorkItem
  BY <1>6 DEF BlockTask, LinkDecision
<1> QED BY <1>1, <1>3, <1>4, <1>5, <1>6 DEF WorkNext

(* Tasks and decisions keep statuses of their own, and every relation is    *)
(* between nodes of the right kind.                                         *)
THEOREM WorkTypes == WorkSpec => []WorkTypeOK
<1>1. WorkInit => WorkTypeOK /\ DOMAIN item = WorkItem
  BY DEF WorkInit, WorkTypeOK, WorkItem
<1>2. (WorkTypeOK /\ DOMAIN item = WorkItem) /\ [WorkNext]_workVars
        => (WorkTypeOK /\ DOMAIN item = WorkItem)'
  BY StepKeepsWorkTypes
<1> QED BY <1>1, <1>2, PTL DEF WorkSpec

(***************************************************************************)
(* Violations, for any projects, fingerprints and tool calls: a finding has *)
(* at most one live node in its project, and a resolved node stays          *)
(* resolved.  The first is proved as the statement that two live nodes of   *)
(* one finding are one; the sequence of nodes changes in two ways only, by  *)
(* an entry appended and by an entry replaced.                              *)
(***************************************************************************)

ANode == [status : Live \cup {"resolved"}, fingerprint : Fingerprints \cup {NoFingerprint},
          project : Known \cup {Nowhere}, sightings : Int]

(* A live node of a finding.                                               *)
Reports(node, p, f) ==
  node.status # "resolved" /\ node.project = p /\ node.fingerprint = f

OneNode ==
  \A p \in Known, f \in Fingerprints : \A u, v \in Ids :
    Reports(violations[u], p, f) /\ Reports(violations[v], p, f) => u = v

NodesInv == violations \in Seq(ANode) /\ OneNode

---------------------------------------------------------------------------
(* An appended node changes no other and has the next number.               *)
LEMMA AppendFacts ==
  ASSUME violations \in Seq(ANode), NEW node \in ANode,
         violations' = Append(violations, node)
  PROVE  /\ violations' \in Seq(ANode)
         /\ Ids' = Ids \cup {Len(violations) + 1} /\ Len(violations) + 1 \notin Ids
         /\ violations'[Len(violations) + 1] = node
         /\ \A v \in Ids : violations'[v] = violations[v]
  BY DEF Ids

(* A replaced node changes no other and no number.                          *)
LEMMA ReplaceFacts ==
  ASSUME violations \in Seq(ANode), NEW v \in Ids, NEW node \in ANode,
         violations' = [violations EXCEPT ![v] = node]
  PROVE  /\ violations' \in Seq(ANode)
         /\ Ids' = Ids
         /\ violations'[v] = node
         /\ \A u \in Ids \ {v} : violations'[u] = violations[u]
<1>1. /\ DOMAIN violations = 1 .. Len(violations) /\ Len(violations) \in Nat
      /\ violations \in [1 .. Len(violations) -> ANode]
  OBVIOUS
<1>2. violations' \in [1 .. Len(violations) -> ANode]
  BY <1>1 DEF Ids
<1>3. violations' \in Seq(ANode) /\ Len(violations') = Len(violations)
  BY <1>1, <1>2
<1> QED BY <1>1, <1>3 DEF Ids

(* A new node of a finding that has no live one.                            *)
LEMMA AppendKeeps ==
  ASSUME NodesInv, NEW node \in ANode, violations' = Append(violations, node),
         \A p \in Known, f \in Fingerprints :
           Reports(node, p, f) => \A v \in Ids : ~Reports(violations[v], p, f)
  PROVE  NodesInv'
<1>1. /\ violations' \in Seq(ANode)
      /\ Ids' = Ids \cup {Len(violations) + 1} /\ Len(violations) + 1 \notin Ids
      /\ violations'[Len(violations) + 1] = node
      /\ \A v \in Ids : violations'[v] = violations[v]
  BY AppendFacts DEF NodesInv
<1>2. ASSUME NEW p \in Known, NEW f \in Fingerprints, NEW u \in Ids', NEW v \in Ids',
             Reports(violations'[u], p, f), Reports(violations'[v], p, f)
      PROVE  u = v
  <2>1. CASE u \in Ids /\ v \in Ids
    BY <1>1, <1>2, <2>1 DEF NodesInv, OneNode
  <2>2. CASE u \in Ids /\ v \notin Ids
    BY <1>1, <1>2, <2>2
  <2>3. CASE u \notin Ids /\ v \in Ids
    BY <1>1, <1>2, <2>3
  <2>4. CASE u \notin Ids /\ v \notin Ids
    BY <1>1, <2>4
  <2> QED BY <2>1, <2>2, <2>3, <2>4
<1> QED BY <1>1, <1>2 DEF NodesInv, OneNode

(* A node replaced by one that is live only for what it was live for.       *)
LEMMA ReplaceKeeps ==
  ASSUME NodesInv, NEW v \in Ids, NEW node \in ANode,
         violations' = [violations EXCEPT ![v] = node],
         \A p \in Known, f \in Fingerprints : Reports(node, p, f) => Reports(violations[v], p, f)
  PROVE  NodesInv'
<1>1. /\ violations' \in Seq(ANode) /\ Ids' = Ids
      /\ violations'[v] = node
      /\ \A u \in Ids \ {v} : violations'[u] = violations[u]
  BY ReplaceFacts DEF NodesInv
<1>2. ASSUME NEW p \in Known, NEW f \in Fingerprints, NEW u \in Ids,
             Reports(violations'[u], p, f)
      PROVE  Reports(violations[u], p, f)
  BY <1>1, <1>2
<1> QED BY <1>1, <1>2 DEF NodesInv, OneNode

---------------------------------------------------------------------------
(* What Create appends is a node, in the project it was asked for or none.    *)
LEMMA CreateFacts ==
  ASSUME NEW status \in Live, NEW fingerprint \in Fingerprints \cup {NoFingerprint},
         NEW project, Create(status, fingerprint, project)
  PROVE  \E node \in ANode :
           /\ violations' = Append(violations, node)
           /\ node.project \in {project, Nowhere}
           /\ node.fingerprint = fingerprint
<1>1. PICK linked \in {project, Nowhere} :
        /\ linked \in Known \cup {Nowhere}
        /\ violations' = Append(violations, Violation(status, fingerprint, linked))
  BY DEF Create
<1>2. /\ Violation(status, fingerprint, linked) \in ANode
      /\ Violation(status, fingerprint, linked).project = linked
      /\ Violation(status, fingerprint, linked).fingerprint = fingerprint
  BY <1>1 DEF Violation, ANode
<1> QED BY <1>1, <1>2

(* write_violations creates a node only where it has found none, and marks     *)
(* only a node that is live.                                                  *)
LEMMA WriteFindingKeeps ==
  ASSUME NodesInv, NEW f \in Fingerprints, WriteFinding(f)
  PROVE  NodesInv'
<1> DEFINE existing == FindByFingerprint(audit.project, f)
<1>1. CASE existing # {}
  <2>1. PICK v \in existing : MarkRecurrence(v)
    BY <1>1 DEF WriteFinding
  <2>2. v \in Ids /\ violations[v].status # "resolved"
    BY DEF FindByFingerprint, Live
  <2>3. violations[v] \in ANode
    BY <2>2 DEF NodesInv, Ids
  <2> DEFINE node == [violations[v] EXCEPT !.status = "recurrence",
                                           !.sightings = violations[v].sightings + 1]
  <2>4. violations' = [violations EXCEPT ![v] = node]
    BY <2>1 DEF MarkRecurrence
  <2>5. violations[v].sightings + 1 \in Int /\ "recurrence" \in Live
    BY <2>3 DEF ANode, Live
  <2>6. /\ node \in ANode
        /\ node.project = violations[v].project
        /\ node.fingerprint = violations[v].fingerprint
    BY <2>3, <2>5 DEF ANode
  <2> HIDE DEF node
  <2> QED BY <2>2, <2>4, <2>6, ReplaceKeeps DEF Reports
<1>2. CASE existing = {}
  <2>1. Create("open", f, audit.project)
    BY <1>2 DEF WriteFinding
  <2>2. PICK node \in ANode : /\ violations' = Append(violations, node)
                              /\ node.project \in {audit.project, Nowhere}
                              /\ node.fingerprint = f
    BY <2>1, CreateFacts DEF Live
  <2>3. ASSUME NEW p \in Known, NEW g \in Fingerprints, Reports(node, p, g),
               NEW v \in Ids, Reports(violations[v], p, g)
        PROVE  FALSE
    <3>1. p = audit.project /\ g = f
      BY <2>2, <2>3, ViolationAssumption DEF Reports
    <3>2. violations[v] \in ANode
      BY DEF NodesInv, Ids
    <3>3. violations[v].status \in Live
      BY <2>3, <3>2 DEF Reports, ANode
    <3>4. v \in existing
      BY <2>3, <3>1, <3>3 DEF FindByFingerprint, Reports
    <3> QED BY <1>2, <3>4
  <2> QED BY <2>2, <2>3, AppendKeeps
<1> QED BY <1>1, <1>2

(* The tools store no fingerprint.                                            *)
LEMMA ToolsKeep ==
  ASSUME NodesInv, NEW a \in Askers, Record(a) \/ Recur(a)
  PROVE  NodesInv'
<1>1. PICK status \in Live : \E project : Create(status, NoFingerprint, project)
  BY DEF Record, Recur, Live
<1>2. PICK node \in ANode : /\ violations' = Append(violations, node)
                            /\ node.fingerprint = NoFingerprint
  BY <1>1, CreateFacts
<1> QED BY <1>2, AppendKeeps, ViolationAssumption DEF Reports

(* A resolved node is live for nothing.                                        *)
LEMMA ResolveKeeps ==
  ASSUME NodesInv, NEW v \in Ids, Resolve(v)
  PROVE  NodesInv'
<1> DEFINE node == [violations[v] EXCEPT !.status = "resolved"]
<1>1. violations[v] \in ANode
  BY DEF NodesInv, Ids
<1>2. node \in ANode /\ node.status = "resolved"
  BY <1>1 DEF ANode
<1>3. violations' = [violations EXCEPT ![v] = node]
  BY DEF Resolve
<1> HIDE DEF node
<1> QED BY <1>2, <1>3, ReplaceKeeps DEF Reports

(* Every step of the writer and of the tools keeps the nodes apart.            *)
LEMMA StepKeepsNodes ==
  ASSUME NodesInv, [ViolationNext]_violationVars
  PROVE  NodesInv'
<1>1. CASE UNCHANGED violations
  BY <1>1 DEF NodesInv, OneNode, Ids
<1>2. CASE ~UNCHANGED violations
  <2>1. ~UNCHANGED violationVars
    BY <1>2 DEF violationVars
  <2>2. \/ \E f \in Fingerprints : WriteFinding(f)
        \/ \E a \in Askers : Record(a) \/ Recur(a)
        \/ \E v \in Ids : Resolve(v)
    BY <1>2, <2>1 DEF ViolationNext, StartAudit, EndAudit, AskRecord, AskRecur, GiveUp
  <2> QED BY <2>2, WriteFindingKeeps, ToolsKeep, ResolveKeeps
<1> QED BY <1>1, <1>2

(* Two live nodes that are one are counted once.                               *)
LEMMA OneNodeIsOne == OneNode => OneLiveNode
<1> SUFFICES ASSUME OneNode, NEW p \in Known, NEW f \in Fingerprints
             PROVE  Cardinality({v \in Ids : /\ violations[v].status # "resolved"
                                             /\ violations[v].project = p
                                             /\ violations[v].fingerprint = f}) <= 1
  BY DEF OneLiveNode
<1> DEFINE nodes == {v \in Ids : /\ violations[v].status # "resolved"
                                 /\ violations[v].project = p
                                 /\ violations[v].fingerprint = f}
<1>1. \A u, v \in nodes : u = v
  BY DEF OneNode, Reports
<1>2. Cardinality(nodes) \in {0, 1}
  <2>1. CASE nodes = {}
    BY <2>1, FS_EmptySet
  <2>2. CASE nodes # {}
    <3>1. PICK v : v \in nodes
      BY <2>2
    <3>2. nodes = {v}
      BY <1>1, <3>1
    <3>3. Cardinality({v}) = 1
      BY FS_Singleton
    <3> QED BY <3>2, <3>3
  <2> QED BY <2>1, <2>2
<1> HIDE DEF nodes
<1>3. Cardinality(nodes) <= 1
  BY <1>2
<1> QED BY <1>3 DEF nodes

(* There are no nodes at first.                                                *)
LEMMA InitNodes == ViolationInit => NodesInv
  BY DEF ViolationInit, NodesInv, OneNode, Ids

(* A finding is one live node of its project, over any number of audits and    *)
(* whatever violation_record, violation_recur and violation_resolve do.         *)
THEOREM FindingIsOneNode == ViolationSpec => []OneLiveNode
<1>1. NodesInv => OneLiveNode
  BY OneNodeIsOne DEF NodesInv
<1> QED BY <1>1, InitNodes, StepKeepsNodes, PTL DEF ViolationSpec

---------------------------------------------------------------------------
(* No step of writer or tool takes "resolved" back from a node.                *)
LEMMA StepKeepsResolved ==
  ASSUME NodesInv, [ViolationNext]_violationVars, NEW v \in Ids,
         violations[v].status = "resolved"
  PROVE  violations'[v].status = "resolved"
<1>1. CASE UNCHANGED violations
  BY <1>1
<1>2. ASSUME NEW status \in Live, NEW fingerprint \in Fingerprints \cup {NoFingerprint},
             NEW project, Create(status, fingerprint, project)
      PROVE  violations'[v].status = "resolved"
  BY <1>2, CreateFacts, AppendFacts DEF NodesInv
<1>3. ASSUME NEW u \in Ids, MarkRecurrence(u), violations[u].status \in Live
      PROVE  violations'[v].status = "resolved"
  <2>1. u # v
    BY <1>3 DEF Live
  <2>2. violations'[v] = violations[v]
    BY <1>3, <2>1 DEF MarkRecurrence, NodesInv, Ids
  <2> QED BY <2>2
<1>4. ASSUME NEW u \in Ids, Resolve(u)
      PROVE  violations'[v].status = "resolved"
  <2>1. violations[v] \in ANode /\ v \in DOMAIN violations
    BY DEF NodesInv, Ids
  <2>2. CASE u = v
    <3>1. violations'[v] = [violations[v] EXCEPT !.status = "resolved"]
      BY <1>4, <2>1, <2>2 DEF Resolve
    <3> QED BY <2>1, <3>1 DEF ANode
  <2>3. CASE u # v
    BY <1>4, <2>1, <2>3 DEF Resolve
  <2> QED BY <2>2, <2>3
<1>5. ASSUME NEW f \in Fingerprints, WriteFinding(f)
      PROVE  violations'[v].status = "resolved"
  <2>1. \/ Create("open", f, audit.project)
        \/ \E u \in FindByFingerprint(audit.project, f) : MarkRecurrence(u)
    BY <1>5 DEF WriteFinding
  <2> QED BY <2>1, <1>2, <1>3 DEF FindByFingerprint, Live
<1>6. ASSUME NEW a \in Askers, Record(a) \/ Recur(a)
      PROVE  violations'[v].status = "resolved"
  BY <1>2, <1>6 DEF Record, Recur, Live
<1>7. CASE ~UNCHANGED violations
  <2>1. ~UNCHANGED violationVars
    BY <1>7 DEF violationVars
  <2> QED BY <1>4, <1>5, <1>6, <1>7, <2>1
          DEF ViolationNext, StartAudit, EndAudit, AskRecord, AskRecur, GiveUp
<1> QED BY <1>1, <1>7

(* "re-opened with a new record linked to the original": no audit and no tool   *)
(* brings a resolved node back to life.                                         *)
THEOREM ResolvedForGood == ViolationSpec => ResolvedStays
<1>1. NodesInv /\ [ViolationNext]_violationVars =>
        [\A v \in Ids : violations[v].status = "resolved"
                          => violations'[v].status = "resolved"]_violationVars
  BY StepKeepsResolved
<1> QED BY <1>1, InitNodes, StepKeepsNodes, PTL DEF ViolationSpec, ResolvedStays

---------------------------------------------------------------------------
(* A call of violation_recur holds the id it has read, and ids stay.         *)
ViolationTypes ==
  /\ ViolationTypeOK
  /\ \A a \in Askers : asking[a].tool = "recur" => asking[a].original \in Ids

ANodeOnRecord == [status : Live \cup {"resolved"},
                  fingerprint : Fingerprints \cup {NoFingerprint},
                  project : Known \cup {Nowhere}, sightings : 0 .. MaxSightings]

(* A created node is of the right shape and its number is new.               *)
LEMMA CreateTypes ==
  ASSUME ViolationTypes, NEW status \in Live,
         NEW fingerprint \in Fingerprints \cup {NoFingerprint},
         NEW project, Create(status, fingerprint, project)
  PROVE  /\ violations' \in Seq(ANodeOnRecord) /\ Len(violations') <= MaxViolations
         /\ Len(violations') \in Ids' /\ Ids \subseteq Ids'
<1>1. PICK linked \in {project, Nowhere} :
        /\ linked \in Known \cup {Nowhere}
        /\ violations' = Append(violations, Violation(status, fingerprint, linked))
  BY DEF Create
<1>2. Violation(status, fingerprint, linked) \in ANodeOnRecord
  <2>1. 0 \in 0 .. MaxSightings /\ 1 \in 0 .. MaxSightings
    BY ViolationAssumption DEF ViolationAssumption
  <2> QED BY <1>1, <2>1 DEF Violation, ANodeOnRecord
<1>3. violations \in Seq(ANodeOnRecord)
  BY DEF ViolationTypes, ViolationTypeOK, ANodeOnRecord
<1>4. violations' \in Seq(ANodeOnRecord) /\ Len(violations') = Len(violations) + 1
      /\ Len(violations) \in Nat
  BY <1>1, <1>2, <1>3
<1>5. Len(violations) < MaxViolations /\ MaxViolations \in Nat
  BY ViolationAssumption DEF Create, ViolationAssumption
<1> QED BY <1>4, <1>5 DEF Ids

(* Every step of the writer and of the tools keeps the types.                *)
LEMMA StepKeepsViolationTypes ==
  ASSUME ViolationTypes, [ViolationNext]_violationVars
  PROVE  ViolationTypes'
<1> DEFINE ACall == [tool : {"none", "record", "recur"},
                     project : Projects \cup {Nowhere}, original : 0 .. MaxViolations]
<1>0. /\ violations \in Seq(ANodeOnRecord) /\ Len(violations) <= MaxViolations
      /\ recurs \subseteq Ids \X Ids
      /\ audit \in [project : Projects \cup {Nowhere}, seen : SUBSET Fingerprints]
      /\ asking \in [Askers -> ACall]
      /\ \A a \in Askers : asking[a].tool = "recur" => asking[a].original \in Ids
      /\ Len(violations) \in Nat /\ MaxViolations \in Nat
  BY ViolationAssumption DEF ViolationTypes, ViolationTypeOK, ANodeOnRecord, ViolationAssumption
<1>1. SUFFICES /\ violations' \in Seq(ANodeOnRecord) /\ Len(violations') <= MaxViolations
               /\ Ids \subseteq Ids'
               /\ recurs' \subseteq Ids' \X Ids'
               /\ audit' \in [project : Projects \cup {Nowhere}, seen : SUBSET Fingerprints]
               /\ asking' \in [Askers -> ACall]
               /\ \A a \in Askers : asking'[a].tool = "recur" => asking'[a].original \in Ids'
  BY DEF ViolationTypes, ViolationTypeOK, ANodeOnRecord
<1>2. Silent \in ACall /\ Silent.tool = "none"
  BY <1>0 DEF Silent
<1>3. ASSUME UNCHANGED violations PROVE Ids' = Ids
  BY <1>3 DEF Ids
<1>4. CASE UNCHANGED violationVars
  BY <1>0, <1>3, <1>4 DEF violationVars
<1>5. ASSUME \/ EndAudit \/ \E p \in Projects : StartAudit(p)
      PROVE  /\ audit' \in [project : Projects \cup {Nowhere}, seen : SUBSET Fingerprints]
             /\ UNCHANGED <<violations, recurs, asking>>
  BY <1>5 DEF EndAudit, StartAudit, NoAudit
<1>6. ASSUME NEW f \in Fingerprints, WriteFinding(f)
      PROVE  /\ violations' \in Seq(ANodeOnRecord) /\ Len(violations') <= MaxViolations
             /\ Ids \subseteq Ids'
             /\ audit' \in [project : Projects \cup {Nowhere}, seen : SUBSET Fingerprints]
             /\ UNCHANGED <<recurs, asking>>
  <2>1. audit' \in [project : Projects \cup {Nowhere}, seen : SUBSET Fingerprints]
    <3>1. audit' = [audit EXCEPT !.seen = audit.seen \cup {f}]
      BY <1>6 DEF WriteFinding
    <3> QED BY <1>0, <3>1
  <2>2. CASE Create("open", f, audit.project)
    <3>1. "open" \in Live
      BY DEF Live
    <3> QED BY <1>6, <2>1, <2>2, <3>1, CreateTypes DEF WriteFinding
  <2>3. ASSUME NEW v \in FindByFingerprint(audit.project, f), MarkRecurrence(v)
        PROVE  violations' \in Seq(ANodeOnRecord) /\ Len(violations') = Len(violations)
    <3>1. v \in 1 .. Len(violations)
      BY DEF FindByFingerprint, Ids
    <3>2. violations[v] \in ANodeOnRecord
      BY <1>0, <3>1, ElementOfSeq
    <3> DEFINE node == [violations[v] EXCEPT !.status = "recurrence",
                                             !.sightings = violations[v].sightings + 1]
    <3>3. violations' = [violations EXCEPT ![v] = node]
      BY <2>3 DEF MarkRecurrence
    <3>4. violations[v].sightings + 1 \in 0 .. MaxSightings
      <4>1. violations[v].sightings < MaxSightings /\ violations[v].sightings \in 0 .. MaxSightings
            /\ MaxSightings \in Nat
        BY <2>3, <3>2, ViolationAssumption DEF MarkRecurrence, ANodeOnRecord, ViolationAssumption
      <4> QED BY <4>1
    <3>5. node \in ANodeOnRecord
      BY <3>2, <3>4 DEF ANodeOnRecord, Live
    <3> HIDE DEF node
    <3> QED BY <1>0, <3>1, <3>3, <3>5
  <2>4. \/ Create("open", f, audit.project)
        \/ \E v \in FindByFingerprint(audit.project, f) : MarkRecurrence(v)
    BY <1>6 DEF WriteFinding
  <2>5. UNCHANGED <<recurs, asking>>
    BY <1>6 DEF WriteFinding
  <2>6. CASE \E v \in FindByFingerprint(audit.project, f) : MarkRecurrence(v)
    <3>1. violations' \in Seq(ANodeOnRecord) /\ Len(violations') = Len(violations)
      BY <2>3, <2>6
    <3>2. Ids' = Ids
      BY <3>1 DEF Ids
    <3> QED BY <1>0, <2>1, <2>5, <3>1, <3>2
  <2> QED BY <2>2, <2>4, <2>6
<1>7. ASSUME NEW a \in Askers, \/ GiveUp(a) \/ \E p \in Projects : AskRecord(a, p)
                               \/ \E v \in Ids : AskRecur(a, v)
      PROVE  /\ UNCHANGED <<violations, recurs, audit>>
             /\ asking' \in [Askers -> ACall]
             /\ \A b \in Askers : asking'[b].tool = "recur" => asking'[b].original \in Ids
  <2>1. PICK call \in ACall : /\ asking' = [asking EXCEPT ![a] = call]
                              /\ call.tool = "recur" => call.original \in Ids
    <3>1. CASE GiveUp(a)
      BY <1>2, <3>1 DEF GiveUp
    <3>2. ASSUME NEW p \in Projects, AskRecord(a, p)
          PROVE  \E call \in ACall : /\ asking' = [asking EXCEPT ![a] = call]
                                     /\ call.tool = "recur" => call.original \in Ids
      <4>1. [tool |-> "record", project |-> p, original |-> 0] \in ACall
        BY <1>0
      <4> QED BY <3>2, <4>1 DEF AskRecord
    <3>3. ASSUME NEW v \in Ids, AskRecur(a, v)
          PROVE  \E call \in ACall : /\ asking' = [asking EXCEPT ![a] = call]
                                     /\ call.tool = "recur" => call.original \in Ids
      <4>1. v \in 0 .. MaxViolations
        BY <1>0 DEF Ids
      <4>2. [tool |-> "recur", project |-> Nowhere, original |-> v] \in ACall
        BY <4>1
      <4> QED BY <3>3, <4>2 DEF AskRecur
    <3> QED BY <1>7, <3>1, <3>2, <3>3
  <2>2. UNCHANGED <<violations, recurs, audit>>
    BY <1>7 DEF GiveUp, AskRecord, AskRecur
  <2> HIDE DEF ACall
  <2>3. asking' \in [Askers -> ACall]
    BY <1>0, <2>1
  <2>4. \A b \in Askers : asking'[b] = IF b = a THEN call ELSE asking[b]
    BY <1>0, <2>1
  <2> QED BY <1>0, <2>1, <2>2, <2>3, <2>4
<1>8. ASSUME NEW a \in Askers, asking' = [asking EXCEPT ![a] = Silent],
             NEW status \in Live, NEW project, Create(status, NoFingerprint, project)
      PROVE  /\ violations' \in Seq(ANodeOnRecord) /\ Len(violations') <= MaxViolations
             /\ Len(violations') \in Ids' /\ Ids \subseteq Ids'
             /\ asking' \in [Askers -> ACall]
             /\ \A b \in Askers : asking'[b].tool = "recur" => asking'[b].original \in Ids'
  <2>1. /\ violations' \in Seq(ANodeOnRecord) /\ Len(violations') <= MaxViolations
        /\ Len(violations') \in Ids' /\ Ids \subseteq Ids'
    BY <1>8, CreateTypes
  <2> HIDE DEF ACall
  <2>2. asking' \in [Askers -> ACall]
    BY <1>0, <1>2, <1>8
  <2>3. \A b \in Askers : asking'[b] = IF b = a THEN Silent ELSE asking[b]
    BY <1>0, <1>8
  <2> QED BY <1>0, <1>2, <2>1, <2>2, <2>3
<1>9. ASSUME NEW a \in Askers, Record(a) \/ Recur(a)
      PROVE  /\ violations' \in Seq(ANodeOnRecord) /\ Len(violations') <= MaxViolations
             /\ Ids \subseteq Ids' /\ recurs' \subseteq Ids' \X Ids'
             /\ UNCHANGED audit /\ asking' \in [Askers -> ACall]
             /\ \A b \in Askers : asking'[b].tool = "recur" => asking'[b].original \in Ids'
  <2> DEFINE original == asking[a].original
  <2>1. /\ asking' = [asking EXCEPT ![a] = Silent] /\ UNCHANGED audit
        /\ \E status \in Live : \E project : Create(status, NoFingerprint, project)
    BY <1>9 DEF Record, Recur, Live
  <2>2. /\ violations' \in Seq(ANodeOnRecord) /\ Len(violations') <= MaxViolations
        /\ Len(violations') \in Ids' /\ Ids \subseteq Ids'
        /\ asking' \in [Askers -> ACall]
        /\ \A b \in Askers : asking'[b].tool = "recur" => asking'[b].original \in Ids'
    BY <1>8, <2>1
  <2>3. \/ recurs' = recurs
        \/ original \in Ids /\ recurs' = recurs \cup {<<original, Len(violations')>>}
    BY <1>0, <1>9 DEF Record, Recur
  <2>4. recurs' \subseteq Ids' \X Ids'
    BY <1>0, <2>2, <2>3
  <2> QED BY <2>1, <2>2, <2>4
<1>10. ASSUME NEW v \in Ids, Resolve(v)
       PROVE  /\ violations' \in Seq(ANodeOnRecord) /\ Len(violations') = Len(violations)
              /\ UNCHANGED <<recurs, audit, asking>>
  <2>1. v \in 1 .. Len(violations)
    BY DEF Ids
  <2>2. violations[v] \in ANodeOnRecord
    BY <1>0, <2>1, ElementOfSeq
  <2> DEFINE node == [violations[v] EXCEPT !.status = "resolved"]
  <2>3. node \in ANodeOnRecord
    BY <2>2 DEF ANodeOnRecord
  <2>4. violations' = [violations EXCEPT ![v] = node] /\ UNCHANGED <<recurs, audit, asking>>
    BY <1>10 DEF Resolve
  <2> HIDE DEF node
  <2> QED BY <1>0, <2>1, <2>3, <2>4
<1> HIDE DEF ACall
<1>11. CASE \/ EndAudit \/ \E p \in Projects : StartAudit(p)
  BY <1>0, <1>3, <1>5, <1>11
<1>12. CASE \E f \in Fingerprints : WriteFinding(f)
  BY <1>0, <1>6, <1>12
<1>13. CASE \E a \in Askers : \/ GiveUp(a) \/ \E p \in Projects : AskRecord(a, p)
                              \/ \E v \in Ids : AskRecur(a, v)
  BY <1>0, <1>3, <1>7, <1>13
<1>14. CASE \E a \in Askers : Record(a) \/ Recur(a)
  BY <1>0, <1>9, <1>14
<1>15. CASE \E v \in Ids : Resolve(v)
  <2>1. Ids' = Ids
    BY <1>10, <1>15 DEF Ids
  <2> QED BY <1>0, <1>10, <1>15, <2>1
<1> QED BY <1>4, <1>11, <1>12, <1>13, <1>14, <1>15 DEF ViolationNext

(* Violation nodes keep their types, and a relation of recurrence links two *)
(* nodes that exist.                                                        *)
THEOREM ViolationShapes == ViolationSpec => []ViolationTypeOK
<1>1. ViolationInit => ViolationTypes
  <2>1. 0 \in 0 .. MaxViolations /\ 0 <= MaxViolations
    BY ViolationAssumption DEF ViolationAssumption
  <2> QED BY <2>1 DEF ViolationInit, ViolationTypes, ViolationTypeOK, NoAudit, Silent, Ids
<1>2. ViolationTypes => ViolationTypeOK
  BY DEF ViolationTypes
<1> QED BY <1>1, <1>2, StepKeepsViolationTypes, PTL DEF ViolationSpec

(***************************************************************************)
(* Embeddings, for any files, issues, texts, overlapping calls and number   *)
(* of raising statements: an index that is missing on a running server was  *)
(* taken away by a raising statement, and a stored hash is the hash of what *)
(* was embedded, but for the nodes on record.                               *)
(***************************************************************************)

EmbeddedNode == [hash : Value, embedding : Value]
ARequest == [on : Nodes, source : Sources, previous : Value]

IndexShapes ==
  /\ present \subseteq Indexes
  /\ unmade \subseteq Indexes
  /\ stored \in [Nodes -> EmbeddedNode]
  /\ request \in [Requests -> ARequest \cup {NoRequest}]

IndexInv == IndexShapes /\ IndexAccounted /\ HashMeansEmbedding

---------------------------------------------------------------------------
(* A call in progress names a node and a text: that of an idle one is none. *)
LEMMA RequestFacts ==
  ASSUME IndexShapes, NEW r \in Requests, request[r].on \in Nodes
  PROVE  request[r] \in ARequest
  BY EmbeddingAssumption DEF IndexShapes, NoRequest, Nodes

(* The end of a call keeps the other calls in shape.                        *)
LEMMA RequestDone ==
  ASSUME IndexShapes, NEW r \in Requests, request' = [request EXCEPT ![r] = NoRequest]
  PROVE  request' \in [Requests -> ARequest \cup {NoRequest}]
  BY DEF IndexShapes

(* An index that is lost is put on record.                                    *)
LEMMA LossIsRecorded ==
  ASSUME present \subseteq Indexes, unmade \subseteq Indexes, IndexAccounted, UNCHANGED ready,
         NEW lost \in SUBSET Indexes, Lose(lost)
  PROVE  present' \subseteq Indexes /\ unmade' \subseteq Indexes /\ IndexAccounted'
  BY DEF Lose, IndexAccounted

(* What the two ways to write a node may lose is an index of the graph.       *)
LEMMA LossesAreIndexes ==
  /\ TextLosses \subseteq SUBSET Indexes
  /\ \A table \in VectorIndexes : \A outcome : Dropped(table, outcome) \in SUBSET Indexes
  BY DEF TextLosses, Indexes, Dropped

(* A node rewritten with one text in both places, or on record as suspect:   *)
(* the others stay as they are.                                              *)
LEMMA NodeKeepsHash ==
  ASSUME stored \in [Nodes -> EmbeddedNode], HashMeansEmbedding,
         NEW n \in Nodes, NEW value \in EmbeddedNode, stored' = [stored EXCEPT ![n] = value],
         \/ value.hash = value.embedding /\ suspect' \in {suspect, suspect \ {n}}
         \/ suspect' = suspect \cup {n}
  PROVE  stored' \in [Nodes -> EmbeddedNode] /\ HashMeansEmbedding'
<1>1. stored' \in [Nodes -> EmbeddedNode]
  OBVIOUS
<1>2. ASSUME NEW m \in Nodes, m \notin suspect' PROVE stored'[m].hash = stored'[m].embedding
  <2>1. CASE m = n
    <3>1. value.hash = value.embedding
      BY <1>2, <2>1
    <3> QED BY <2>1, <3>1
  <2>2. CASE m # n
    <3>1. m \notin suspect
      BY <1>2, <2>2
    <3>2. stored'[m] = stored[m]
      BY <2>2
    <3> QED BY <3>1, <3>2 DEF HashMeansEmbedding
  <2> QED BY <2>1, <2>2
<1> QED BY <1>1, <1>2 DEF HashMeansEmbedding

---------------------------------------------------------------------------
(* A bootstrap that lets the server come up has made every index.            *)
LEMMA BootstrapKeeps ==
  ASSUME IndexInv, Bootstrap
  PROVE  IndexInv'
<1>1. PICK made \in SUBSET (Indexes \ present) :
        /\ present' = present \cup made
        /\ IF present' = Indexes
           THEN unmade' = {} /\ (ready' = TRUE \/ UNCHANGED ready)
           ELSE UNCHANGED <<ready, unmade>>
        /\ UNCHANGED <<stored, request, suspect>>
  BY DEF Bootstrap
<1>2. present' \subseteq Indexes /\ unmade' \subseteq Indexes
  BY <1>1 DEF IndexInv, IndexShapes
<1>3. IndexAccounted'
  <2>1. CASE present' = Indexes
    BY <1>1, <2>1 DEF IndexAccounted
  <2>2. CASE present' # Indexes
    BY <1>1, <1>2, <2>2 DEF IndexAccounted, IndexInv
  <2> QED BY <2>1, <2>2
<1> QED BY <1>1, <1>2, <1>3 DEF IndexInv, IndexShapes, HashMeansEmbedding

(* The start of a call, a failing embedding, the end of the server, and the   *)
(* batches of the code index store no embedding.                             *)
LEMMA NothingStored ==
  ASSUME IndexInv,
         \/ StopServer
         \/ CodeIngest
         \/ \E r \in Requests :
              NoEmbedding(r) \/ \E n \in Nodes, source \in Sources : ReadSource(r, n, source)
  PROVE  IndexInv'
<1>1. CASE StopServer
  BY <1>1 DEF StopServer, IndexInv, IndexShapes, IndexAccounted, HashMeansEmbedding
<1>2. ASSUME NEW r \in Requests, NoEmbedding(r) PROVE IndexInv'
  BY <1>2 DEF NoEmbedding, IndexInv, IndexShapes, IndexAccounted, HashMeansEmbedding
<1>3. ASSUME NEW r \in Requests, NEW n \in Nodes, NEW source \in Sources,
             ReadSource(r, n, source)
      PROVE  IndexInv'
  <2> DEFINE previous == IF n \in Issues THEN stored[n].hash ELSE NoSource
             asked == [on |-> n, source |-> source, previous |-> previous]
  <2>1. previous \in Value
    BY DEF IndexInv, IndexShapes, EmbeddedNode, Value
  <2>2. request' = [request EXCEPT ![r] = asked]
    BY <1>3 DEF ReadSource
  <2>3. asked \in ARequest
    BY <2>1 DEF ARequest
  <2> HIDE DEF previous, asked
  <2>4. request' \in [Requests -> ARequest \cup {NoRequest}]
    BY <2>2, <2>3 DEF IndexInv, IndexShapes
  <2> QED BY <1>3, <2>4 DEF ReadSource, IndexInv, IndexShapes, IndexAccounted, HashMeansEmbedding
<1>4. CASE CodeIngest
  <2>1. {"text"} \in SUBSET Indexes
    BY DEF Indexes
  <2>2. UNCHANGED <<ready, stored, request, suspect>> /\ Lose({"text"})
    BY <1>4 DEF CodeIngest
  <2> QED BY <2>1, <2>2, LossIsRecorded DEF IndexInv, IndexShapes, HashMeansEmbedding
<1> QED BY <1>1, <1>2, <1>3, <1>4

(* upsert_code_file.                                                         *)
LEMMA StoreFileKeeps ==
  ASSUME IndexInv, NEW r \in Requests, StoreFile(r)
  PROVE  IndexInv'
<1> DEFINE n == request[r].on
           source == request[r].source
           old == stored[n]
           Hash(ingested) == IF ingested THEN source ELSE old.hash
           Written(ingested, outcome) ==
             [hash |-> Hash(ingested),
              embedding |-> IF WasSet(outcome) /\ Hash(ingested) # NoSource
                            THEN source ELSE old.embedding]
<1>1. n \in Files /\ n \in Nodes /\ request' = [request EXCEPT ![r] = NoRequest] /\ UNCHANGED ready
  BY DEF StoreFile, Nodes
<1>2. source \in Sources /\ source \in Value /\ source # NoSource
  BY <1>1, RequestFacts, EmbeddingAssumption DEF ARequest, Value, IndexInv
<1>3. old \in EmbeddedNode
  BY <1>1 DEF IndexInv, IndexShapes
<1>4. request' \in [Requests -> ARequest \cup {NoRequest}]
  BY <1>1, RequestDone DEF IndexInv
<1>5. ASSUME NEW textLost \in TextLosses, UNCHANGED <<stored, suspect>>, Lose(textLost)
      PROVE  IndexInv'
  BY <1>1, <1>4, <1>5, LossIsRecorded, LossesAreIndexes DEF IndexInv, IndexShapes, HashMeansEmbedding
<1>6. ASSUME NEW ingested \in BOOLEAN, NEW outcome \in Outcomes("CodeFile"),
             NEW textLost \in TextLosses,
             Lose(textLost \cup Dropped("CodeFile", outcome)),
             stored' = [stored EXCEPT ![n] = Written(ingested, outcome)],
             suspect' = IF ingested /\ WasSet(outcome) THEN suspect \ {n} ELSE suspect \cup {n}
      PROVE  IndexInv'
  <2>1. present' \subseteq Indexes /\ unmade' \subseteq Indexes /\ IndexAccounted'
    <3>1. textLost \cup Dropped("CodeFile", outcome) \in SUBSET Indexes
      BY LossesAreIndexes DEF VectorIndexes
    <3> QED BY <1>1, <1>6, <3>1, LossIsRecorded DEF IndexInv, IndexShapes
  <2>2. Hash(ingested) \in Value
    BY <1>2, <1>3 DEF EmbeddedNode
  <2>3. Written(ingested, outcome) \in EmbeddedNode
    BY <1>2, <1>3, <2>2 DEF EmbeddedNode
  <2>4. ingested /\ WasSet(outcome) =>
          Written(ingested, outcome).hash = Written(ingested, outcome).embedding
    BY <1>2
  <2> HIDE DEF Written, Hash, old, source
  <2>5. stored' \in [Nodes -> EmbeddedNode] /\ HashMeansEmbedding'
    <3>1. CASE ingested /\ WasSet(outcome)
      BY <1>1, <1>6, <2>3, <2>4, <3>1, NodeKeepsHash DEF IndexInv, IndexShapes
    <3>2. CASE ~(ingested /\ WasSet(outcome))
      BY <1>1, <1>6, <2>3, <3>2, NodeKeepsHash DEF IndexInv, IndexShapes
    <3> QED BY <3>1, <3>2
  <2> QED BY <1>4, <2>1, <2>5 DEF IndexInv, IndexShapes
<1> QED BY <1>5, <1>6 DEF StoreFile

(* upsert_issue without a node: both values are of one text.                  *)
LEMMA CreateIssueKeeps ==
  ASSUME IndexInv, NEW r \in Requests, CreateIssue(r)
  PROVE  IndexInv'
<1> DEFINE n == request[r].on
           value == [hash |-> request[r].source, embedding |-> request[r].source]
<1>1. n \in Nodes /\ request' = [request EXCEPT ![r] = NoRequest]
  BY DEF CreateIssue, Nodes
<1>2. value \in EmbeddedNode /\ value.hash = value.embedding
  BY <1>1, RequestFacts DEF ARequest, Value, EmbeddedNode, IndexInv
<1>3. request' \in [Requests -> ARequest \cup {NoRequest}]
  BY <1>1, RequestDone DEF IndexInv
<1>4. UNCHANGED <<present, unmade, ready, suspect>>
  BY DEF CreateIssue
<1>5. stored' = [stored EXCEPT ![n] = value] \/ UNCHANGED stored
  BY DEF CreateIssue
<1> HIDE DEF value
<1>6. CASE stored' = [stored EXCEPT ![n] = value]
  <2>1. stored' \in [Nodes -> EmbeddedNode] /\ HashMeansEmbedding'
    BY <1>1, <1>2, <1>4, <1>6, NodeKeepsHash DEF IndexInv, IndexShapes
  <2> QED BY <1>3, <1>4, <2>1 DEF IndexInv, IndexShapes, IndexAccounted
<1>7. CASE UNCHANGED stored
  BY <1>3, <1>4, <1>7 DEF IndexInv, IndexShapes, IndexAccounted, HashMeansEmbedding
<1> QED BY <1>5, <1>6, <1>7

(* upsert_issue with a node: the hash read before the await may be old.       *)
LEMMA UpdateIssueKeeps ==
  ASSUME IndexInv, NEW r \in Requests, UpdateIssue(r)
  PROVE  IndexInv'
<1> DEFINE n == request[r].on
           source == request[r].source
           previous == request[r].previous
           old == stored[n]
           Written(outcome) ==
             [hash |-> source,
              embedding |-> IF WasSet(outcome) THEN source ELSE old.embedding]
<1>1. n \in Nodes /\ request' = [request EXCEPT ![r] = NoRequest] /\ UNCHANGED ready
  BY DEF UpdateIssue, Nodes
<1>2. source \in Value
  BY <1>1, RequestFacts DEF ARequest, Value, IndexInv
<1>3. old \in EmbeddedNode
  BY <1>1 DEF IndexInv, IndexShapes
<1>4. request' \in [Requests -> ARequest \cup {NoRequest}]
  BY <1>1, RequestDone DEF IndexInv
<1>5. CASE previous = source
  <2> DEFINE value == [hash |-> source, embedding |-> old.embedding]
  <2>1. stored' = [stored EXCEPT ![n].hash = source] /\ KeepIndex
        /\ suspect' = IF old.hash = previous THEN suspect ELSE suspect \cup {n}
    BY <1>5 DEF UpdateIssue
  <2>2. stored' = [stored EXCEPT ![n] = value]
    <3>1. [old EXCEPT !.hash = source] = value
      BY <1>3 DEF EmbeddedNode
    <3> QED BY <2>1, <3>1
  <2>3. value \in EmbeddedNode /\ value.hash = source /\ value.embedding = old.embedding
    BY <1>2, <1>3 DEF EmbeddedNode
  <2> HIDE DEF value
  <2>4. CASE n \notin suspect /\ old.hash = previous
    <3>1. value.hash = value.embedding
      BY <1>1, <1>5, <2>3, <2>4 DEF IndexInv, HashMeansEmbedding
    <3> QED BY <1>1, <1>4, <2>1, <2>2, <2>3, <2>4, <3>1, NodeKeepsHash
            DEF IndexInv, IndexShapes, KeepIndex, IndexAccounted
  <2>5. CASE n \in suspect \/ old.hash # previous
    <3>1. suspect' = suspect \cup {n}
      BY <2>1, <2>5
    <3>2. stored' \in [Nodes -> EmbeddedNode] /\ HashMeansEmbedding'
      BY <1>1, <2>2, <2>3, <3>1, NodeKeepsHash DEF IndexInv, IndexShapes
    <3> QED BY <1>1, <1>4, <2>1, <3>2 DEF IndexInv, IndexShapes, KeepIndex, IndexAccounted
  <2> QED BY <2>4, <2>5
<1>6. CASE previous # source
  <2>1. PICK outcome \in Outcomes("JinaIssue") :
          /\ Lose(Dropped("JinaIssue", outcome))
          /\ stored' = [stored EXCEPT ![n] =
               [hash |-> source,
                embedding |-> IF WasSet(outcome) THEN source ELSE @.embedding]]
          /\ suspect' = IF WasSet(outcome) THEN suspect \ {n} ELSE suspect \cup {n}
    BY <1>6 DEF UpdateIssue
  <2>2. stored' = [stored EXCEPT ![n] = Written(outcome)]
    BY <2>1
  <2>3. present' \subseteq Indexes /\ unmade' \subseteq Indexes /\ IndexAccounted'
    <3>1. Dropped("JinaIssue", outcome) \in SUBSET Indexes
      BY LossesAreIndexes DEF VectorIndexes
    <3> QED BY <1>1, <2>1, <3>1, LossIsRecorded DEF IndexInv, IndexShapes
  <2>4. /\ Written(outcome) \in EmbeddedNode
        /\ WasSet(outcome) => Written(outcome).hash = Written(outcome).embedding
    BY <1>2, <1>3 DEF EmbeddedNode
  <2> HIDE DEF Written, old, source
  <2>5. stored' \in [Nodes -> EmbeddedNode] /\ HashMeansEmbedding'
    <3>1. CASE WasSet(outcome)
      BY <1>1, <2>1, <2>2, <2>4, <3>1, NodeKeepsHash DEF IndexInv, IndexShapes
    <3>2. CASE ~WasSet(outcome)
      BY <1>1, <2>1, <2>2, <2>4, <3>2, NodeKeepsHash DEF IndexInv, IndexShapes
    <3> QED BY <3>1, <3>2
  <2> QED BY <1>4, <2>3, <2>5 DEF IndexInv, IndexShapes
<1> QED BY <1>5, <1>6

---------------------------------------------------------------------------
(* Every step of bootstrap, server and calls keeps the invariant.             *)
LEMMA StepKeepsIndex ==
  ASSUME IndexInv, [EmbeddingNext]_embeddingVars
  PROVE  IndexInv'
<1>1. CASE UNCHANGED embeddingVars
  BY <1>1 DEF embeddingVars, IndexInv, IndexShapes, IndexAccounted, HashMeansEmbedding
<1>2. CASE EmbeddingNext
  BY <1>2, BootstrapKeeps, NothingStored, StoreFileKeeps, CreateIssueKeeps, UpdateIssueKeeps
     DEF EmbeddingNext
<1> QED BY <1>1, <1>2

(* The graph starts without nodes and without a server.                       *)
LEMMA InitIndex == EmbeddingInit => IndexInv
  BY DEF EmbeddingInit, IndexInv, IndexShapes, IndexAccounted, HashMeansEmbedding, EmptyNode,
     EmbeddedNode, Value, Nodes

(* An index missing on a running server was lost to a raising statement of     *)
(* db_update_embedding or ingest_batch since the last complete bootstrap.      *)
THEOREM IndexesAccounted == EmbeddingSpec => []IndexAccounted
<1>1. IndexInv => IndexAccounted
  BY DEF IndexInv
<1> QED BY <1>1, InitIndex, StepKeepsIndex, PTL DEF EmbeddingSpec

(* The hash that decides whether to embed again is the hash of what was        *)
(* embedded, but for nodes written with a raising statement or a stale hash.   *)
THEOREM StoredHash == EmbeddingSpec => []HashMeansEmbedding
<1>1. IndexInv => HashMeansEmbedding
  BY DEF IndexInv
<1> QED BY <1>1, InitIndex, StepKeepsIndex, PTL DEF EmbeddingSpec

(* Only known nodes are suspect, and no more statements raise than allowed.  *)
LEMMA StepKeepsEmbeddingTypes ==
  ASSUME IndexInv, ready \in BOOLEAN, suspect \subseteq Nodes, faults \in 0 .. MaxFaults,
         [EmbeddingNext]_embeddingVars
  PROVE  ready' \in BOOLEAN /\ suspect' \subseteq Nodes /\ faults' \in 0 .. MaxFaults
<1>0. MaxFaults \in Nat /\ \A n \in {0, 1, 2} : Raise(n) => faults' \in 0 .. MaxFaults
  BY EmbeddingAssumption DEF EmbeddingAssumption, Raise
<1>1. CASE UNCHANGED embeddingVars
  BY <1>1 DEF embeddingVars
<1>2. CASE Bootstrap
  <2>1. ready' \in BOOLEAN /\ UNCHANGED suspect
    BY <1>2 DEF Bootstrap
  <2>2. Raise(1) \/ UNCHANGED faults
    BY <1>2 DEF Bootstrap
  <2> QED BY <1>0, <2>1, <2>2
<1>3. CASE \/ StopServer \/ CodeIngest
           \/ \E r \in Requests :
                NoEmbedding(r) \/ \E n \in Nodes, source \in Sources : ReadSource(r, n, source)
  BY <1>0, <1>3 DEF StopServer, CodeIngest, NoEmbedding, ReadSource
<1>4. ASSUME NEW r \in Requests, StoreFile(r)
      PROVE  ready' \in BOOLEAN /\ suspect' \subseteq Nodes /\ faults' \in 0 .. MaxFaults
  <2> DEFINE n == request[r].on
  <2>1. n \in Nodes /\ UNCHANGED ready
    BY <1>4 DEF StoreFile, Nodes
  <2>2. suspect' \in {suspect, suspect \ {n}, suspect \cup {n}}
    BY <1>4 DEF StoreFile
  <2>3. \E k \in {0, 1, 2} : Raise(k)
    <3>1. PICK ingested \in BOOLEAN, textLost \in TextLosses :
            \/ Raise(IF ingested /\ textLost = {} THEN 0 ELSE 1)
            \/ \E outcome \in Outcomes("CodeFile") :
                  Raise((IF ingested /\ textLost = {} THEN 0 ELSE 1) + Raised(outcome))
      BY <1>4 DEF StoreFile
    <3>2. \A outcome : Raised(outcome) \in {0, 1}
      BY DEF Raised
    <3>3. \A outcome : (IF ingested /\ textLost = {} THEN 0 ELSE 1) + Raised(outcome) \in {0, 1, 2}
      BY <3>2
    <3>4. (IF ingested /\ textLost = {} THEN 0 ELSE 1) \in {0, 1, 2}
      OBVIOUS
    <3> QED BY <3>1, <3>3, <3>4
  <2> HIDE DEF n
  <2> QED BY <1>0, <2>1, <2>2, <2>3
<1>5. ASSUME NEW r \in Requests, CreateIssue(r)
      PROVE  ready' \in BOOLEAN /\ suspect' \subseteq Nodes /\ faults' \in 0 .. MaxFaults
  BY <1>5 DEF CreateIssue
<1>6. ASSUME NEW r \in Requests, UpdateIssue(r)
      PROVE  ready' \in BOOLEAN /\ suspect' \subseteq Nodes /\ faults' \in 0 .. MaxFaults
  <2> DEFINE n == request[r].on
  <2>1. n \in Nodes /\ UNCHANGED ready
    BY <1>6 DEF UpdateIssue, Nodes
  <2>2. suspect' \in {suspect, suspect \ {n}, suspect \cup {n}}
    BY <1>6 DEF UpdateIssue
  <2>3. UNCHANGED faults \/ \E outcome : Raise(Raised(outcome))
    BY <1>6 DEF UpdateIssue
  <2>4. \A outcome : Raised(outcome) \in {0, 1}
    BY DEF Raised
  <2>5. faults' \in 0 .. MaxFaults
    BY <1>0, <2>3, <2>4
  <2> HIDE DEF n
  <2> QED BY <2>1, <2>2, <2>5
<1> QED BY <1>1, <1>2, <1>3, <1>4, <1>5, <1>6 DEF EmbeddingNext

(* Indexes, stored values and calls keep their types, and the raising       *)
(* statements their bound.                                                   *)
THEOREM EmbeddingTypes == EmbeddingSpec => []EmbeddingTypeOK
<1> DEFINE Rest == ready \in BOOLEAN /\ suspect \subseteq Nodes /\ faults \in 0 .. MaxFaults
<1>1. EmbeddingInit => Rest
  <2>1. 0 \in 0 .. MaxFaults
    BY EmbeddingAssumption DEF EmbeddingAssumption
  <2> QED BY <2>1 DEF EmbeddingInit
<1>2. IndexInv /\ Rest /\ [EmbeddingNext]_embeddingVars => Rest'
  BY StepKeepsEmbeddingTypes
<1>3. IndexInv /\ Rest => EmbeddingTypeOK
  BY DEF IndexInv, IndexShapes, EmbeddingTypeOK, ARequest, NoRequest, EmbeddedNode, Value
<1> HIDE DEF Rest
<1> QED BY <1>1, <1>2, <1>3, InitIndex, StepKeepsIndex, PTL DEF EmbeddingSpec

(***************************************************************************)
(* The code index: for any paths, texts and commands, the watcher loses no   *)
(* save. StagedIsFresh says nothing of a path while the watcher has it in     *)
(* hand or a command writes it, so the induction has to say what is in hand:  *)
(* of a clean path every command has what is on disk now, a command that is   *)
(* about to unlink has it in the graph, and nobody shares an open entry; the  *)
(* watcher has what is on disk, or the file has been saved again and is       *)
(* noticed, or it is gone.                                                   *)
(***************************************************************************)

Hand == {NoWork} \cup [at : Steps, path : Paths, entry : Batch]
StageEntries == {NoEntry, Torn} \cup Batch
CodeNodes == [hash : Texts \cup {NoText}, symbols : SUBSET Texts]

(* A writer that did not find the entry open has it alone, and empty. *)
WritesAlone ==
  \A a \in Actors : work[a].at = "writing" =>
    staged[work[a].path] = Torn /\ Writers(work[a].path) = {a}

(* What the watcher read first is what it will read now, or it is told again. *)
WatcherIsCurrent ==
  /\ ~watching => work[Watcher] = NoWork
  /\ LET w == work[Watcher] IN
       w.at # "idle" /\ w.path \notin noticed /\ file[w.path] # NoText =>
         IF w.at = "parsed" THEN w.entry.symbols = file[w.path]
         ELSE Holds(w.entry, file[w.path])

Fresh(p) ==
  \/ Holds(staged[p], file[p])
  \/ staged[p] = NoEntry /\ InGraph(p, file[p])

(* What a command has in hand of a path does no harm to it. *)
FreshHand(w, p) ==
  /\ w.at # "sharing"
  /\ w.at = "parsed" => w.entry.symbols = file[p]
  /\ w.at \in {"hashed", "writing", "loaded", "unlinking"} => Holds(w.entry, file[p])
  /\ w.at = "unlinking" => InGraph(p, file[p])

FreshAt(p) ==
  /\ \A c \in Commands : work[c].path = p => FreshHand(work[c], p)
  /\ Writers(p) = {} => Fresh(p)

Clean(p) ==
  /\ watching /\ p \in touched \ (noticed \cup unparsed \cup spoiled)
  /\ file[p] # NoText /\ work[Watcher].path # p

CleanIsFresh == \A p \in Paths : Clean(p) => FreshAt(p)

CodeInv == CodeTypeOK /\ WritesAlone /\ WatcherIsCurrent /\ CleanIsFresh

---------------------------------------------------------------------------
(* One that has begun has a path and a batch in hand. *)
LEMMA HandFacts ==
  ASSUME CodeTypeOK, NEW a \in Actors
  PROVE  /\ work[a] \in Hand /\ work[a].at \in Steps \cup {"idle"}
         /\ work[a].at \in Steps => work[a].path \in Paths /\ work[a].entry \in Batch
         /\ work[a].at \in Steps => work[a].entry.symbols \in Texts
         /\ work[a].at \notin Steps => work[a] = NoWork
<1>1. work[a] \in Hand
  BY DEF CodeTypeOK, Hand
<1>2. NoWork.at = "idle" /\ "idle" \notin Steps
  BY DEF NoWork, At, Steps
<1>3. CASE work[a] = NoWork
  BY <1>1, <1>2, <1>3
<1>4. CASE work[a] \in [at : Steps, path : Paths, entry : Batch]
  <2>1. work[a].at \in Steps /\ work[a].path \in Paths /\ work[a].entry \in Batch
    BY <1>4
  <2> QED BY <1>1, <2>1 DEF Batch
<1> QED BY <1>1, <1>3, <1>4 DEF Hand

(* A step of one actor leaves the hands of the others. *)
LEMMA GoesFacts ==
  ASSUME CodeTypeOK, NEW a \in Actors, NEW w \in Hand, Goes(a, w)
  PROVE  /\ work' \in [Actors -> Hand] /\ work'[a] = w
         /\ \A b \in Actors : b # a => work'[b] = work[b]
<1>1. work \in [Actors -> Hand] /\ work' = [work EXCEPT ![a] = w]
  BY DEF CodeTypeOK, Hand, Goes
<1> QED BY <1>1

(* What is in hand at each step is of its type. *)
LEMMA AtFacts ==
  ASSUME NEW step \in Steps, NEW p \in Paths, NEW entry \in Batch
  PROVE  /\ At(step, p, entry) \in Hand
         /\ At(step, p, entry).at = step /\ At(step, p, entry).path = p
         /\ At(step, p, entry).entry = entry
  BY DEF At, Hand

(* An idle hand is of its type, writes nothing and spoils nothing. *)
LEMMA IdleFacts ==
  /\ NoWork \in Hand /\ NoWork.at = "idle" /\ NoWork.entry = NoEntry
  /\ \A p : ~Writing(NoWork, p)
  /\ \A p : FreshHand(NoWork, p) /\ FreshHand(NoWork, p)'
  BY DEF NoWork, At, Hand, Writing, FreshHand

(* A batch has symbols and a hash: it is neither an absent nor a torn entry. *)
LEMMA EntryFacts ==
  ASSUME NEW symbols \in Texts, NEW hash \in Texts \cup {NoText}
  PROVE  /\ Entry(symbols, hash) \in Batch
         /\ Entry(symbols, hash).symbols = symbols /\ Entry(symbols, hash).hash = hash
  BY DEF Entry, Batch

(* Nobody opened or closed an entry: those that have one alone still do. *)
LEMMA StillAlone ==
  ASSUME WritesAlone, UNCHANGED staged,
         \A a \in Actors : work'[a] = work[a] \/ work'[a].at \notin {"writing", "sharing"}
  PROVE  WritesAlone'
<1> SUFFICES ASSUME NEW a \in Actors, work'[a].at = "writing"
             PROVE  /\ staged'[work'[a].path] = Torn
                    /\ Writers(work[a].path)' = {a}
  BY DEF WritesAlone
<1>1. work'[a] = work[a]
  OBVIOUS
<1>2. staged[work[a].path] = Torn /\ Writers(work[a].path) = {a}
  BY <1>1 DEF WritesAlone
<1>3. \A b \in Actors : Writing(work'[b], work[a].path) => Writing(work[b], work[a].path)
  BY DEF Writing
<1>4. Writing(work'[a], work'[a].path)
  BY DEF Writing
<1> QED BY <1>1, <1>2, <1>3, <1>4 DEF Writers

(* Nothing of a path has changed but hands that do no harm to it. *)
LEMMA StillFresh ==
  ASSUME NEW q \in Paths, FreshAt(q), file'[q] = file[q], staged'[q] = staged[q],
         InGraph(q, file[q]) => InGraph(q, file[q])',
         \A a \in Actors : \/ work'[a] = work[a]
                           \/ /\ ~Writing(work[a], q) /\ ~Writing(work'[a], q)
                              /\ a \in Commands /\ work'[a].path = q => FreshHand(work[a], q)'
  PROVE  FreshAt(q)'
<1>1. ASSUME NEW c \in Commands, work'[c].path = q
      PROVE  FreshHand(work[c], q)'
  <2>1. c \in Actors
    BY DEF Actors
  <2>2. CASE work'[c] = work[c]
    <3>1. FreshHand(work[c], q)
      BY <1>1, <2>2 DEF FreshAt
    <3> QED BY <2>2, <3>1 DEF FreshHand, InGraph
  <2> QED BY <1>1, <2>1, <2>2
<1>2. Writers(q)' = {} => Writers(q) = {}
  BY DEF Writers
<1>3. Fresh(q) => Fresh(q)'
  BY DEF Fresh, InGraph
<1> QED BY <1>1, <1>2, <1>3 DEF FreshAt

---------------------------------------------------------------------------
(* Nothing is watched, in hand or staged at the first start. *)
LEMMA InitCode == CodeInit => CodeInv
<1> SUFFICES ASSUME CodeInit PROVE CodeInv
  OBVIOUS
<1>1. MaxEdits \in Nat
  BY CodeIndexAssumption DEF CodeIndexAssumption
<1>2. /\ edits \in 0 .. MaxEdits /\ echo \in 0 .. 2
      /\ watching \in BOOLEAN /\ grammar \in BOOLEAN /\ ~watching
  <2>1. edits = 0 /\ echo = 0
    BY DEF CodeInit
  <2>2. watching \in BOOLEAN /\ grammar \in BOOLEAN /\ ~watching
    BY DEF CodeInit
  <2> QED BY <1>1, <2>1, <2>2
<1>3. /\ file \in [Paths -> Texts \cup {NoText}] /\ indexed \in [Paths -> CodeNodes]
      /\ staged \in [Paths -> StageEntries]
  BY DEF CodeInit, CodeNodes, StageEntries
<1>4. work \in [Actors -> Hand] /\ \A a \in Actors : work[a] = NoWork
  BY DEF CodeInit, Hand
<1>5. CodeTypeOK
  BY <1>2, <1>3, <1>4 DEF CodeInit, CodeTypeOK, Hand, CodeNodes, StageEntries
<1>6. WritesAlone
  BY <1>4, IdleFacts DEF WritesAlone
<1>7. work[Watcher] = NoWork
  BY <1>4 DEF Actors
<1>8. WatcherIsCurrent
  BY <1>7, IdleFacts DEF WatcherIsCurrent
<1>9. CleanIsFresh
  BY <1>2 DEF CleanIsFresh, Clean
<1> QED BY <1>5, <1>6, <1>8, <1>9 DEF CodeInv

(* A save while the watcher runs is noticed; a removal leaves nothing to index. *)
LEMMA EditCode ==
  ASSUME CodeInv, NEW p \in Paths, NEW text \in Texts \cup {NoText}, Edit(p, text)
  PROVE  CodeInv'
<1>1. /\ edits < MaxEdits /\ edits' = edits + 1 /\ file' = [file EXCEPT ![p] = text]
      /\ UNCHANGED <<watching, unparsed, spoiled, grammar, echo, work, staged, indexed>>
  BY DEF Edit
<1>2. /\ file \in [Paths -> Texts \cup {NoText}] /\ edits \in 0 .. MaxEdits
      /\ noticed \subseteq Paths /\ touched \subseteq Paths
  BY DEF CodeInv, CodeTypeOK
<1>3. \/ noticed' = noticed \cup {p} /\ touched' = touched \cup {p}
      \/ (~watching \/ text = NoText) /\ UNCHANGED <<noticed, touched>>
  BY DEF Edit
<1>4. /\ file' \in [Paths -> Texts \cup {NoText}] /\ file'[p] = text
      /\ \A q \in Paths : q # p => file'[q] = file[q]
  BY <1>1, <1>2
<1>5. /\ noticed' \subseteq Paths /\ touched' \subseteq Paths
      /\ noticed \subseteq noticed'
      /\ \A q \in touched' : q # p => q \in touched
      /\ watching /\ text # NoText => p \in noticed'
  BY <1>2, <1>3
<1>6. edits' \in 0 .. MaxEdits
  BY <1>1, <1>2, CodeIndexAssumption DEF CodeIndexAssumption
<1>7. CodeTypeOK'
  BY <1>1, <1>4, <1>5, <1>6 DEF CodeInv, CodeTypeOK
<1>8. WritesAlone'
  BY <1>1, StillAlone DEF CodeInv
<1>9. WatcherIsCurrent'
  <2>1. work[Watcher].at # "idle" => work[Watcher].path \in Paths /\ watching
    BY HandFacts, IdleFacts DEF CodeInv, Actors, WatcherIsCurrent
  <2>2. CASE work[Watcher].path = p
    BY <1>1, <1>4, <1>5, <2>1, <2>2 DEF CodeInv, WatcherIsCurrent
  <2>3. CASE work[Watcher].path # p
    BY <1>1, <1>4, <1>5, <2>1, <2>3 DEF CodeInv, WatcherIsCurrent
  <2> QED BY <2>2, <2>3
<1>10. CleanIsFresh'
  <2> SUFFICES ASSUME NEW q \in Paths, Clean(q)'
               PROVE  FreshAt(q)'
    BY DEF CleanIsFresh
  <2>1. q # p
    BY <1>1, <1>4, <1>5 DEF Clean
  <2>2. Clean(q)
    BY <1>1, <1>4, <1>5, <2>1 DEF Clean
  <2>3. FreshAt(q)
    BY <2>2 DEF CodeInv, CleanIsFresh
  <2> QED BY <1>1, <1>4, <2>1, <2>3, StillFresh DEF InGraph
<1> QED BY <1>7, <1>8, <1>9, <1>10 DEF CodeInv

(* A watcher begins with nothing in hand, and what it had is forgotten. *)
LEMMA WatchingCode ==
  ASSUME CodeInv,
         StopWatching \/ \E installed \in BOOLEAN : StartWatching(installed)
  PROVE  CodeInv'
<1>1. /\ noticed' = {} /\ touched' = {} /\ unparsed' = {} /\ spoiled' = {} /\ echo' = 0
      /\ watching' \in BOOLEAN /\ grammar' \in BOOLEAN
      /\ UNCHANGED <<file, edits, staged, indexed>>
  BY DEF StopWatching, StartWatching, diskVars
<1>2. work' \in [Actors -> Hand] /\ work'[Watcher] = NoWork
      /\ \A a \in Actors : work'[a] = work[a] \/ work'[a] = NoWork
  <2>1. CASE StopWatching
    BY <2>1, GoesFacts, IdleFacts DEF StopWatching, CodeInv, Actors
  <2>2. CASE \E installed \in BOOLEAN : StartWatching(installed)
    BY <2>2 DEF StartWatching, CodeInv, CodeTypeOK, WatcherIsCurrent, Hand
  <2> QED BY <2>1, <2>2
<1>3. CodeTypeOK'
  <2>1. echo' \in 0 .. 2
    BY <1>1
  <2> QED BY <1>1, <1>2, <2>1 DEF CodeInv, CodeTypeOK, Hand
<1>4. WritesAlone'
  BY <1>1, <1>2, IdleFacts, StillAlone DEF CodeInv
<1>5. WatcherIsCurrent'
  BY <1>2, IdleFacts DEF WatcherIsCurrent
<1>6. CleanIsFresh'
  BY <1>1 DEF CleanIsFresh, Clean
<1> QED BY <1>3, <1>4, <1>5, <1>6 DEF CodeInv

---------------------------------------------------------------------------
(* The first read takes the symbols of the text on disk. *)
LEMMA FirstReadFacts ==
  ASSUME CodeInv, NEW a \in Actors, NEW p \in Paths, FirstRead(a, p)
  PROVE  /\ work' \in [Actors -> Hand]
         /\ work'[a].at = "parsed" /\ work'[a].path = p
         /\ work'[a].entry.symbols = file[p] /\ ~\E q : Writing(work'[a], q)
         /\ \A b \in Actors : b # a => work'[b] = work[b]
<1>1. file[p] \in Texts
  BY DEF FirstRead, CodeInv, CodeTypeOK
<1>2. /\ Entry(file[p], NoText) \in Batch /\ Entry(file[p], NoText).symbols = file[p]
      /\ "parsed" \in Steps
  BY <1>1, EntryFacts DEF Steps
<1>3. At("parsed", p, Entry(file[p], NoText)) \in Hand
  BY <1>2, AtFacts
<1>4. /\ work' \in [Actors -> Hand] /\ work'[a] = At("parsed", p, Entry(file[p], NoText))
      /\ \A b \in Actors : b # a => work'[b] = work[b]
  BY <1>3, GoesFacts DEF FirstRead, CodeInv
<1>5. work'[a].at = "parsed" /\ work'[a].path = p /\ work'[a].entry.symbols = file[p]
  BY <1>2, <1>4, AtFacts
<1> QED BY <1>4, <1>5 DEF Writing

(* A step of a command that opens and closes no entry keeps the invariant if  *)
(* what it has in hand afterwards is of the text on disk, for a clean path.  *)
LEMMA CommandStep ==
  ASSUME CodeInv, NEW c \in Commands,
         UNCHANGED <<file, edits, watching, noticed, touched, unparsed, grammar, staged>>,
         spoiled \subseteq spoiled', spoiled' \subseteq Paths, echo' \in 0 .. 2,
         indexed' \in [Paths -> CodeNodes],
         work' \in [Actors -> Hand], \A b \in Actors : b # c => work'[b] = work[b],
         work'[c].at \notin {"writing", "sharing"},
         \A q \in Paths : Clean(q)' /\ FreshAt(q) =>
           /\ InGraph(q, file[q]) => InGraph(q, file[q])'
           /\ ~Writing(work[c], q)
           /\ work'[c].path = q => FreshHand(work[c], q)'
  PROVE  CodeInv'
<1>1. c \in Actors /\ Watcher \in Actors /\ c # Watcher
  BY CodeIndexAssumption DEF CodeIndexAssumption, Actors
<1>2. CodeTypeOK'
  BY DEF CodeInv, CodeTypeOK, Hand, CodeNodes
<1>3. WritesAlone'
  BY <1>1, StillAlone DEF CodeInv
<1>4. work'[Watcher] = work[Watcher]
  BY <1>1
<1>5. WatcherIsCurrent'
  BY <1>4 DEF CodeInv, WatcherIsCurrent
<1>6. CleanIsFresh'
  <2> SUFFICES ASSUME NEW q \in Paths, Clean(q)'
               PROVE  FreshAt(q)'
    BY DEF CleanIsFresh
  <2>1. Clean(q)
    BY <1>4 DEF Clean
  <2>2. FreshAt(q)
    BY <2>1 DEF CodeInv, CleanIsFresh
  <2>3. ~Writing(work'[c], q)
    BY DEF Writing
  <2> QED BY <1>1, <2>2, <2>3, StillFresh
<1> QED BY <1>2, <1>3, <1>5, <1>6 DEF CodeInv

(* A command reads a file. *)
LEMMA PrepareCode ==
  ASSUME CodeInv, NEW c \in Commands, NEW p \in Paths, Prepare(c, p)
  PROVE  CodeInv'
<1>1. /\ work[c] = NoWork /\ FirstRead(c, p) /\ c \in Actors
      /\ UNCHANGED <<file, edits, watching, noticed, touched, unparsed, spoiled, grammar, echo,
                     staged, indexed>>
  BY DEF Prepare, diskVars, watchVars, Actors
<1>2. /\ work' \in [Actors -> Hand]
      /\ work'[c].at = "parsed" /\ work'[c].path = p /\ work'[c].entry.symbols = file[p]
      /\ \A b \in Actors : b # c => work'[b] = work[b]
  BY <1>1, FirstReadFacts
<1>3. FreshHand(work[c], p)'
  BY <1>1, <1>2 DEF FreshHand
<1>4. spoiled' \subseteq Paths /\ echo' \in 0 .. 2 /\ indexed' \in [Paths -> CodeNodes]
  BY <1>1 DEF CodeInv, CodeTypeOK, CodeNodes
<1> QED BY <1>1, <1>2, <1>3, <1>4, IdleFacts, CommandStep DEF InGraph

(* The watcher takes a path from its queue: it has it in hand, or no batch. *)
LEMMA WatcherLooksCode ==
  ASSUME CodeInv, NEW p \in Paths, WatcherLooks(p)
  PROVE  CodeInv'
<1>1. /\ watching /\ work[Watcher] = NoWork /\ noticed' = noticed \ {p} /\ Watcher \in Actors
      /\ UNCHANGED <<file, edits, watching, touched, spoiled, grammar, echo, staged, indexed>>
  BY DEF WatcherLooks, diskVars, Actors
<1>2. \/ FirstRead(Watcher, p) /\ unparsed' = unparsed \ {p}
      \/ unparsed' = unparsed \cup {p} /\ UNCHANGED work
  BY DEF WatcherLooks
<1>3. /\ work' \in [Actors -> Hand] /\ \A b \in Actors : b # Watcher => work'[b] = work[b]
      /\ \/ /\ work'[Watcher].at = "parsed" /\ work'[Watcher].path = p
            /\ work'[Watcher].entry.symbols = file[p]
            /\ unparsed' = unparsed \ {p}
         \/ unparsed' = unparsed \cup {p} /\ work'[Watcher] = NoWork
  <2>1. CASE FirstRead(Watcher, p) /\ unparsed' = unparsed \ {p}
    BY <1>1, <2>1, FirstReadFacts
  <2>2. CASE unparsed' = unparsed \cup {p} /\ UNCHANGED work
    BY <1>1, <2>2 DEF CodeInv, CodeTypeOK, Hand
  <2> QED BY <1>2, <2>1, <2>2
<1>4. work'[Watcher].at \notin {"writing", "sharing"}
  BY <1>3, IdleFacts
<1>5. CodeTypeOK'
  BY <1>1, <1>3 DEF CodeInv, CodeTypeOK, Hand
<1>6. WritesAlone'
  BY <1>1, <1>3, <1>4, StillAlone DEF CodeInv
<1>7. WatcherIsCurrent'
  BY <1>1, <1>3, IdleFacts DEF CodeInv, WatcherIsCurrent
<1>8. CleanIsFresh'
  <2> SUFFICES ASSUME NEW q \in Paths, Clean(q)'
               PROVE  FreshAt(q)'
    BY DEF CleanIsFresh
  <2>1. q # p
    BY <1>3 DEF Clean
  <2>2. work[Watcher].path # q
    BY <1>1, CodeIndexAssumption DEF CodeIndexAssumption, NoWork, At
  <2>3. Clean(q)
    BY <1>1, <1>3, <2>1, <2>2 DEF Clean
  <2>4. FreshAt(q)
    BY <2>3 DEF CodeInv, CleanIsFresh
  <2>5. ~Writing(work[Watcher], q) /\ ~Writing(work'[Watcher], q)
    BY <1>1, <1>4, IdleFacts DEF Writing
  <2> QED BY <1>1, <1>3, <2>4, <2>5, StillFresh, CodeIndexAssumption
      DEF CodeIndexAssumption, InGraph
<1> QED BY <1>5, <1>6, <1>7, <1>8 DEF CodeInv

(* The second read: the batch is of the text on disk, unless the symbols are of *)
(* another; then the path was saved again and is noticed, or the file is gone.  *)
LEMMA SecondReadCode ==
  ASSUME CodeInv, NEW a \in Actors, SecondRead(a)
  PROVE  CodeInv'
<1> DEFINE p == work[a].path
           batch == Entry(work[a].entry.symbols, file[p])
<1>1. /\ work[a].at = "parsed" /\ Goes(a, At("hashed", p, batch))
      /\ UNCHANGED <<file, edits, watching, noticed, touched, unparsed, spoiled, grammar, echo,
                     staged, indexed>>
  BY DEF SecondRead, diskVars, watchVars
<1>2. p \in Paths /\ work[a].entry.symbols \in Texts
  BY <1>1, HandFacts DEF CodeInv, Steps
<1>3. batch \in Batch /\ (work[a].entry.symbols = file[p] => Holds(batch, file[p]))
  <2>1. file[p] \in Texts \cup {NoText}
    BY <1>2 DEF CodeInv, CodeTypeOK
  <2> QED BY <1>2, <2>1, EntryFacts DEF Holds
<1> HIDE DEF batch
<1>4. /\ At("hashed", p, batch) \in Hand /\ At("hashed", p, batch).at = "hashed"
      /\ At("hashed", p, batch).path = p /\ At("hashed", p, batch).entry = batch
  BY <1>2, <1>3, AtFacts DEF Steps
<1>5. /\ work' \in [Actors -> Hand] /\ work'[a].at = "hashed" /\ work'[a].path = p
      /\ work'[a].entry = batch /\ \A b \in Actors : b # a => work'[b] = work[b]
  BY <1>1, <1>4, GoesFacts DEF CodeInv
<1>6. CASE a \in Commands
  <2>1. spoiled' \subseteq Paths /\ echo' \in 0 .. 2 /\ indexed' \in [Paths -> CodeNodes]
    BY <1>1 DEF CodeInv, CodeTypeOK, CodeNodes
  <2>2. ASSUME NEW q \in Paths, FreshAt(q)
        PROVE  ~Writing(work[a], q) /\ (work'[a].path = q => FreshHand(work[a], q)')
    <3>1. ~Writing(work[a], q)
      BY <1>1 DEF Writing
    <3>2. p = q => work[a].entry.symbols = file[q]
      BY <1>1, <1>6, <2>2 DEF FreshAt, FreshHand
    <3> QED BY <1>1, <1>3, <1>5, <3>1, <3>2 DEF FreshHand, Holds
  <2> QED BY <1>1, <1>5, <1>6, <2>1, <2>2, CommandStep DEF InGraph
<1>7. CASE a = Watcher
  <2>1. CodeTypeOK'
    BY <1>1, <1>5 DEF CodeInv, CodeTypeOK, Hand
  <2>2. WritesAlone'
    BY <1>1, <1>5, StillAlone DEF CodeInv
  <2>3. WatcherIsCurrent'
    <3>1. watching
      BY <1>1, <1>7, IdleFacts DEF CodeInv, WatcherIsCurrent
    <3> QED BY <1>1, <1>3, <1>5, <1>7, <3>1 DEF CodeInv, WatcherIsCurrent, Holds
  <2>4. CleanIsFresh'
    <3> SUFFICES ASSUME NEW q \in Paths, Clean(q)'
                 PROVE  FreshAt(q)'
      BY DEF CleanIsFresh
    <3>1. FreshAt(q)
      BY <1>1, <1>5, <1>7 DEF CodeInv, CleanIsFresh, Clean
    <3>2. ~Writing(work[a], q) /\ ~Writing(work'[a], q) /\ a \notin Commands
      BY <1>1, <1>5, <1>7, CodeIndexAssumption DEF CodeIndexAssumption, Writing
    <3> QED BY <1>1, <1>5, <3>1, <3>2, StillFresh DEF InGraph
  <2> QED BY <2>1, <2>2, <2>3, <2>4 DEF CodeInv
<1> QED BY <1>6, <1>7 DEF Actors

---------------------------------------------------------------------------
(* An entry opened alone is torn until it is closed; one that two have open is *)
(* spoiled for the watcher.                                                  *)
LEMMA OpenEntryCode ==
  ASSUME CodeInv, NEW a \in Actors, OpenEntry(a)
  PROVE  CodeInv'
<1>0. PICK p \in Paths : work[a].path = p
  BY HandFacts DEF CodeInv, OpenEntry, Steps
<1>1. /\ work[a].at = "hashed" /\ staged' = [staged EXCEPT ![p] = Torn]
      /\ echo' = (IF watching /\ echo = 0 THEN 1 ELSE echo)
      /\ UNCHANGED <<file, edits, watching, noticed, touched, unparsed, grammar, indexed>>
  BY <1>0 DEF OpenEntry, Echoes, diskVars, watchVars
<1>2. p \in Paths /\ work[a].entry \in Batch
  BY <1>1, HandFacts DEF CodeInv, Steps
<1>3. /\ staged' \in [Paths -> StageEntries] /\ staged'[p] = Torn
      /\ \A q \in Paths : q # p => staged'[q] = staged[q]
  <2>1. staged \in [Paths -> StageEntries]
    BY DEF CodeInv, CodeTypeOK, StageEntries
  <2> QED BY <1>1, <1>2, <2>1 DEF StageEntries
<1>4. /\ work' \in [Actors -> Hand] /\ spoiled' \in {spoiled, spoiled \cup {p}}
      /\ work'[a].path = p /\ work'[a].entry = work[a].entry
      /\ \A b \in Actors : b \notin Writers(p) \cup {a} => work'[b] = work[b]
      /\ \A b \in Writers(p) : /\ work'[b].at = "sharing" /\ work'[b].path = p
                               /\ work'[b].entry = work[b].entry
      /\ \/ Writers(p) = {} /\ work'[a].at = "writing"
         \/ Writers(p) # {} /\ work'[a].at = "sharing" /\ p \in spoiled'
  <2>1. CASE /\ Writers(p) = {} /\ Goes(a, At("writing", p, work[a].entry)) /\ UNCHANGED spoiled
    <3>1. /\ At("writing", p, work[a].entry) \in Hand
          /\ At("writing", p, work[a].entry).at = "writing"
          /\ At("writing", p, work[a].entry).path = p
          /\ At("writing", p, work[a].entry).entry = work[a].entry
      BY <1>2, AtFacts DEF Steps
    <3> QED BY <2>1, <3>1, GoesFacts DEF CodeInv
  <2>2. CASE /\ Writers(p) # {}
             /\ work' = [b \in Actors |-> IF b \in Writers(p) \cup {a}
                                          THEN At("sharing", p, work[b].entry) ELSE work[b]]
             /\ spoiled' = spoiled \cup {p}
    <3>1. ASSUME NEW b \in Writers(p) \cup {a}
          PROVE  /\ At("sharing", p, work[b].entry) \in Hand
                 /\ At("sharing", p, work[b].entry).at = "sharing"
                 /\ At("sharing", p, work[b].entry).path = p
                 /\ At("sharing", p, work[b].entry).entry = work[b].entry
      <4>1. b \in Actors /\ work[b].at \in Steps
        BY <1>1 DEF Writers, Writing, Steps
      <4>2. work[b].entry \in Batch
        BY <4>1, HandFacts DEF CodeInv
      <4> QED BY <1>2, <4>2, AtFacts DEF Steps
    <3>2. \A b \in Actors : work[b] \in Hand
      BY HandFacts DEF CodeInv
    <3>3. Writers(p) \subseteq Actors
      BY DEF Writers
    <3> QED BY <2>2, <3>1, <3>2, <3>3
  <2> QED BY <1>0, <2>1, <2>2 DEF OpenEntry
<1>5. \A b \in Actors : b \in Writers(p) <=> Writing(work[b], p)
  BY DEF Writers
<1>6. CodeTypeOK'
  <2>1. spoiled' \subseteq Paths /\ echo' \in 0 .. 2
    BY <1>1, <1>2, <1>4 DEF CodeInv, CodeTypeOK
  <2> QED BY <1>1, <1>3, <1>4, <2>1 DEF CodeInv, CodeTypeOK, Hand, StageEntries
<1>7. WritesAlone'
  <2> SUFFICES ASSUME NEW b \in Actors, work'[b].at = "writing"
               PROVE  /\ staged'[work'[b].path] = Torn
                      /\ Writers(work[b].path)' = {b}
    BY DEF WritesAlone
  <2>1. CASE b = a
    <3>1. Writers(p) = {} /\ work'[a].path = p
      BY <1>4, <2>1
    <3>2. \A c \in Actors : Writing(work'[c], p) <=> c = a
      BY <1>4, <1>5, <2>1, <3>1 DEF Writing
    <3> QED BY <1>3, <2>1, <3>1, <3>2 DEF Writers
  <2>2. CASE b # a
    <3>1. work'[b] = work[b] /\ b \notin Writers(p)
      BY <1>4, <2>2
    <3>2. work[b].path # p
      BY <1>5, <3>1 DEF Writing
    <3>3. staged[work[b].path] = Torn /\ Writers(work[b].path) = {b} /\ work[b].path \in Paths
      BY <3>1, HandFacts DEF CodeInv, WritesAlone, Steps
    <3>4. \A c \in Actors : Writing(work'[c], work[b].path) <=> Writing(work[c], work[b].path)
      BY <1>1, <1>4, <1>5, <3>2 DEF Writing
    <3> QED BY <1>3, <3>1, <3>2, <3>3, <3>4 DEF Writers
  <2> QED BY <2>1, <2>2
<1>8. WatcherIsCurrent'
  <2>1. /\ work'[Watcher].path = work[Watcher].path /\ work'[Watcher].entry = work[Watcher].entry
        /\ work[Watcher].at # work'[Watcher].at =>
             /\ work[Watcher].at \in {"hashed", "writing", "sharing"}
             /\ work'[Watcher].at \in {"writing", "sharing"}
        /\ work[Watcher].at = work'[Watcher].at \/ Watcher = a \/ Watcher \in Writers(p)
    BY <1>0, <1>1, <1>4, <1>5 DEF Writing, Actors
  <2>2. ~watching => work'[Watcher] = work[Watcher]
    BY <1>1, <1>4, <1>5, IdleFacts DEF CodeInv, WatcherIsCurrent, Writing, Actors
  <2> QED BY <1>1, <2>1, <2>2 DEF CodeInv, WatcherIsCurrent, Holds
<1>9. CleanIsFresh'
  <2> SUFFICES ASSUME NEW q \in Paths, Clean(q)'
               PROVE  FreshAt(q)'
    BY DEF CleanIsFresh
  <2>1. work'[Watcher].path = work[Watcher].path
    BY <1>0, <1>1, <1>4, <1>5 DEF Writing, Actors
  <2>2. FreshAt(q)
    BY <1>1, <1>4, <2>1 DEF CodeInv, CleanIsFresh, Clean
  <2>3. CASE q # p
    <3>1. \A b \in Actors : \/ work'[b] = work[b]
                            \/ /\ ~Writing(work[b], q) /\ ~Writing(work'[b], q)
                               /\ work'[b].path # q
      BY <1>1, <1>4, <1>5, <2>3 DEF Writing
    <3> QED BY <1>1, <1>3, <2>2, <2>3, <3>1, StillFresh DEF InGraph
  <2>4. CASE q = p
    <3>1. Writers(p) = {} /\ work'[a].at = "writing"
      BY <1>4, <2>4 DEF Clean
    <3>2. a \in Commands /\ FreshHand(work[a], p)
      BY <1>0, <2>1, <1>4, <2>2, <2>4 DEF Clean, FreshAt, Actors
    <3>3. Holds(work'[a].entry, file'[p])
      BY <1>1, <1>4, <3>2 DEF FreshHand, Holds
    <3>4. FreshHand(work[a], p)'
      BY <3>1, <3>3 DEF FreshHand, Holds
    <3>5. ASSUME NEW c \in Commands, work'[c].path = p, c # a
          PROVE  FreshHand(work[c], p)'
      <4>1. work'[c] = work[c]
        BY <1>4, <3>1, <3>5 DEF Actors
      <4>2. FreshHand(work[c], p)
        BY <2>2, <2>4, <3>5, <4>1 DEF FreshAt
      <4> QED BY <1>1, <4>1, <4>2 DEF FreshHand, Holds, InGraph
    <3>6. a \in Writers(p)'
      BY <1>4, <3>1 DEF Writers, Writing
    <3> QED BY <2>4, <3>4, <3>5, <3>6 DEF FreshAt
  <2> QED BY <2>3, <2>4
<1> QED BY <1>6, <1>7, <1>8, <1>9 DEF CodeInv

(* A closed entry: of a clean path what a command wrote is of the text on disk, *)
(* and a path is clean after the watcher's write only if it wrote alone, and no  *)
(* command has older data.                                                   *)
LEMMA CloseEntryCode ==
  ASSUME CodeInv, NEW a \in Actors, CloseEntry(a)
  PROVE  CodeInv'
<1>0. PICK p \in Paths : work[a].path = p
  BY HandFacts DEF CodeInv, CloseEntry, Steps
<1>1. /\ work[a].at \in {"writing", "sharing", "orphan"} /\ Goes(a, NoWork)
      /\ echo' = (IF watching /\ echo = 0 THEN 1 ELSE echo)
      /\ UNCHANGED <<file, edits, watching, noticed, touched, unparsed, grammar, indexed>>
  BY DEF CloseEntry, Echoes, diskVars, watchVars
<1>2. PICK content \in Closed(work[a]) : staged' = [staged EXCEPT ![p] = content]
  BY <1>0 DEF CloseEntry
<1>3. work[a].entry \in Batch /\ staged \in [Paths -> StageEntries]
  BY <1>1, HandFacts DEF CodeInv, CodeTypeOK, Steps, StageEntries
<1>4. /\ content \in StageEntries
      /\ work[a].at = "writing" => content = work[a].entry
      /\ work[a].at = "orphan" => content = staged[p]
  BY <1>0, <1>1, <1>2, <1>3 DEF Closed, StageEntries
<1>5. /\ staged' \in [Paths -> StageEntries] /\ staged'[p] = content
      /\ \A q \in Paths : q # p => staged'[q] = staged[q]
  BY <1>2, <1>3, <1>4
<1>6. /\ work' \in [Actors -> Hand] /\ work'[a] = NoWork
      /\ \A b \in Actors : b # a => work'[b] = work[b]
  BY <1>1, GoesFacts, IdleFacts DEF CodeInv
<1>7. /\ a # Watcher => spoiled' = spoiled
      /\ \A q \in Paths \ {p} : q \in spoiled' <=> q \in spoiled
      /\ a = Watcher /\ p \notin spoiled' =>
           work[a].at = "writing" /\ \A c \in Commands : work[c].path # p
      /\ spoiled' \subseteq Paths
  BY <1>0 DEF CloseEntry, CodeInv, CodeTypeOK
<1>8. CodeTypeOK'
  <2>1. echo' \in 0 .. 2
    BY <1>1 DEF CodeInv, CodeTypeOK
  <2> QED BY <1>1, <1>5, <1>6, <1>7, <2>1 DEF CodeInv, CodeTypeOK, Hand, StageEntries
<1>9. WritesAlone'
  <2> SUFFICES ASSUME NEW b \in Actors, work'[b].at = "writing"
               PROVE  /\ staged'[work'[b].path] = Torn
                      /\ Writers(work[b].path)' = {b}
    BY DEF WritesAlone
  <2>1. b # a /\ work'[b] = work[b] /\ work[b].at = "writing"
    BY <1>6, IdleFacts
  <2>2. staged[work[b].path] = Torn /\ Writers(work[b].path) = {b} /\ work[b].path \in Paths
    BY <2>1, HandFacts DEF CodeInv, WritesAlone, Steps
  <2>3. work[b].path = p => work[a].at = "orphan"
    BY <1>0, <1>1, <2>1, <2>2 DEF Writers, Writing
  <2>4. staged'[work[b].path] = Torn
    BY <1>4, <1>5, <2>2, <2>3
  <2>5. \A c \in Actors : Writing(work'[c], work[b].path) => Writing(work[c], work[b].path)
    BY <1>6, IdleFacts
  <2>6. Writing(work'[b], work'[b].path)
    BY DEF Writing
  <2> QED BY <2>1, <2>2, <2>4, <2>5, <2>6 DEF Writers
<1>10. WatcherIsCurrent'
  BY <1>1, <1>6, IdleFacts DEF CodeInv, WatcherIsCurrent, Actors
<1>11. CleanIsFresh'
  <2> SUFFICES ASSUME NEW q \in Paths, Clean(q)'
               PROVE  FreshAt(q)'
    BY DEF CleanIsFresh
  <2>0. work'[a].path # q /\ ~Writing(work'[a], q)
    BY <1>6, IdleFacts, CodeIndexAssumption DEF CodeIndexAssumption, NoWork, At
  <2>1. CASE q # p
    <3>1. FreshAt(q)
      BY <1>0, <1>1, <1>6, <1>7, <2>1 DEF CodeInv, CleanIsFresh, Clean, Actors
    <3>2. ~Writing(work[a], q)
      BY <1>0, <2>1 DEF Writing
    <3> QED BY <1>1, <1>5, <1>6, <2>0, <2>1, <3>1, <3>2, StillFresh DEF InGraph
  <2>2. ASSUME q = p, work[a].at = "writing", Holds(work[a].entry, file[p]),
               \A c \in Commands : c # a /\ work[c].path = p => FreshHand(work[c], p)
        PROVE  FreshAt(q)'
    <3>1. Fresh(p)'
      BY <1>1, <1>4, <1>5, <2>2 DEF Fresh, Holds
    <3>2. ASSUME NEW c \in Commands, work'[c].path = p
          PROVE  FreshHand(work[c], p)'
      <4>1. work'[c] = work[c] /\ FreshHand(work[c], p)
        BY <1>6, <2>0, <2>2, <3>2 DEF Actors
      <4> QED BY <1>1, <4>1 DEF FreshHand, Holds, InGraph
    <3> QED BY <2>2, <3>1, <3>2 DEF FreshAt
  <2>3. CASE q = p /\ a = Watcher
    <3>1. work[a].at = "writing" /\ \A c \in Commands : work[c].path # p
      BY <1>7, <2>3 DEF Clean
    <3>2. Holds(work[a].entry, file[p])
      BY <1>0, <1>1, <2>3, <3>1 DEF CodeInv, WatcherIsCurrent, Clean
    <3> QED BY <2>2, <2>3, <3>1, <3>2
  <2>4. CASE q = p /\ a \in Commands
    <3>1. FreshAt(p) /\ FreshHand(work[a], p)
      <4>1. a # Watcher
        BY <2>4, CodeIndexAssumption DEF CodeIndexAssumption
      <4>2. Clean(p)
        BY <1>1, <1>6, <1>7, <2>4, <4>1 DEF Clean, Actors
      <4> QED BY <1>0, <2>4, <4>2 DEF CodeInv, CleanIsFresh, FreshAt
    <3>2. CASE work[a].at = "writing"
      <4>1. Holds(work[a].entry, file[p])
        BY <3>1, <3>2 DEF FreshHand
      <4> QED BY <2>2, <2>4, <3>1, <3>2, <4>1 DEF FreshAt
    <3>3. CASE work[a].at = "orphan"
      <4>1. staged'[p] = staged[p] /\ ~Writing(work[a], p)
        BY <1>4, <1>5, <3>3 DEF Writing
      <4> QED BY <1>1, <1>6, <2>0, <2>4, <3>1, <4>1, StillFresh DEF InGraph
    <3> QED BY <1>1, <3>1, <3>2, <3>3 DEF FreshHand
  <2> QED BY <2>1, <2>3, <2>4 DEF Actors
<1> QED BY <1>8, <1>9, <1>10, <1>11 DEF CodeInv

(* The watcher's own entry: noticed, staged again, or not. *)
LEMMA StageEchoCode ==
  ASSUME CodeInv, StageEcho
  PROVE  CodeInv'
<1>1. /\ echo > 0 /\ echo' = (IF grammar THEN 3 - echo ELSE 0)
      /\ UNCHANGED <<file, edits, watching, noticed, touched, unparsed, spoiled, grammar, work,
                     staged, indexed>>
  BY DEF StageEcho, diskVars, watchVars
<1>2. echo' \in 0 .. 2
  BY <1>1 DEF CodeInv, CodeTypeOK
<1>3. CodeTypeOK'
  BY <1>1, <1>2 DEF CodeInv, CodeTypeOK
<1> QED BY <1>1, <1>3 DEF CodeInv, WritesAlone, Writers, WatcherIsCurrent, CleanIsFresh, Clean,
           FreshAt, FreshHand, Fresh, InGraph

---------------------------------------------------------------------------
(* A batch that succeeded is in the graph: its hash, and its symbols beside  *)
(* those that were there. One that did not changed nothing, or all of it.    *)
LEMMA IngestFacts ==
  ASSUME CodeInv, NEW c \in Actors, work[c].at \in Steps,
         NEW succeeded \in BOOLEAN, Ingest(work[c], succeeded)
  PROVE  /\ indexed' \in [Paths -> CodeNodes]
         /\ \A q \in Paths : q # work[c].path => indexed'[q] = indexed[q]
         /\ \/ ~succeeded /\ UNCHANGED indexed
            \/ /\ indexed'[work[c].path].hash = work[c].entry.hash
               /\ work[c].entry.symbols \in indexed'[work[c].path].symbols
<1>0. PICK p \in Paths : work[c].path = p
  BY HandFacts DEF CodeInv
<1>1. indexed \in [Paths -> CodeNodes]
  BY DEF CodeInv, CodeTypeOK, CodeNodes
<1>2. work[c].entry.symbols \in Texts /\ work[c].entry.hash \in Texts \cup {NoText}
  BY HandFacts DEF CodeInv, Batch
<1>3. CASE indexed' = Merged(p, work[c].entry)
  <2> DEFINE node == [hash |-> work[c].entry.hash,
                      symbols |-> indexed[p].symbols \cup {work[c].entry.symbols}]
  <2>1. indexed' = [indexed EXCEPT ![p] = node]
    BY <1>3 DEF Merged
  <2>2. node \in CodeNodes
    BY <1>1, <1>2 DEF CodeNodes
  <2>3. node.hash = work[c].entry.hash /\ work[c].entry.symbols \in node.symbols
    OBVIOUS
  <2> HIDE DEF node
  <2> QED BY <1>0, <1>1, <2>1, <2>2, <2>3
<1>4. CASE ~succeeded /\ UNCHANGED indexed
  BY <1>1, <1>4
<1> QED BY <1>0, <1>3, <1>4 DEF Ingest

(* A batch of the text on disk that goes to the graph keeps what is there of it. *)
LEMMA IngestKeeps ==
  ASSUME CodeInv, NEW c \in Commands, work[c].at \in {"hashed", "loaded"},
         NEW succeeded \in BOOLEAN, Ingest(work[c], succeeded), UNCHANGED file,
         NEW q \in Paths, FreshAt(q)
  PROVE  /\ InGraph(q, file[q]) => InGraph(q, file[q])'
         /\ work[c].path = q /\ succeeded => InGraph(q, file[q])'
<1>1. c \in Actors /\ work[c].at \in Steps
  BY DEF Actors, Steps
<1>2. CASE work[c].path = q
  <2>1. Holds(work[c].entry, file[q])
    BY <1>2 DEF FreshAt, FreshHand
  <2>2. work[c].entry.symbols = file[q] /\ work[c].entry.hash = file[q]
    BY <2>1 DEF Holds, Entry
  <2>3. \/ ~succeeded /\ UNCHANGED indexed
        \/ indexed'[q].hash = file[q] /\ file[q] \in indexed'[q].symbols
    BY <1>1, <1>2, <2>2, IngestFacts
  <2> QED BY <1>2, <2>3 DEF InGraph
<1>3. CASE work[c].path # q
  BY <1>1, <1>3, IngestFacts DEF InGraph
<1> QED BY <1>2, <1>3

(* A direct batch leaves a clean path's graph as fresh as it was. *)
LEMMA IndexBatchCode ==
  ASSUME CodeInv, NEW c \in Commands, IndexBatch(c)
  PROVE  CodeInv'
<1>1. /\ work[c].at = "hashed" /\ Ingest(work[c], FALSE) /\ Goes(c, NoWork)
      /\ UNCHANGED <<file, edits, watching, noticed, touched, unparsed, spoiled, grammar, echo,
                     staged>>
      /\ c \in Actors /\ work[c].at \in Steps
  BY DEF IndexBatch, diskVars, watchVars, Actors, Steps
<1>2. /\ work' \in [Actors -> Hand] /\ work'[c] = NoWork
      /\ \A b \in Actors : b # c => work'[b] = work[b]
  BY <1>1, GoesFacts, IdleFacts DEF CodeInv
<1>3. indexed' \in [Paths -> CodeNodes]
  BY <1>1, IngestFacts
<1>4. spoiled' \subseteq Paths /\ echo' \in 0 .. 2
  BY <1>1 DEF CodeInv, CodeTypeOK
<1>5. ASSUME NEW q \in Paths, FreshAt(q)
      PROVE  /\ InGraph(q, file[q]) => InGraph(q, file[q])'
             /\ ~Writing(work[c], q)
             /\ FreshHand(work[c], q)'
  <2>1. FreshHand(work[c], q)'
    BY <1>2, IdleFacts DEF FreshHand
  <2> QED BY <1>1, <1>5, <2>1, IngestKeeps DEF Writing
<1> QED BY <1>1, <1>2, <1>3, <1>4, <1>5, IdleFacts, CommandStep

(* What commit-index loads of a clean path is of the text on disk: nobody has *)
(* the entry open, for then it would be torn.                                *)
LEMMA LoadEntriesCode ==
  ASSUME CodeInv, NEW c \in Commands, NEW p \in Paths, LoadEntries(c, p)
  PROVE  CodeInv'
<1>1. /\ work[c] = NoWork /\ staged[p] # Torn /\ staged[p] # NoEntry
      /\ Goes(c, At("loaded", p, staged[p])) /\ c \in Actors
      /\ UNCHANGED <<file, edits, watching, noticed, touched, unparsed, spoiled, grammar, echo,
                     staged, indexed>>
  BY DEF LoadEntries, diskVars, watchVars, Actors
<1>2. staged[p] \in Batch
  BY <1>1 DEF CodeInv, CodeTypeOK
<1>3. /\ At("loaded", p, staged[p]) \in Hand /\ At("loaded", p, staged[p]).at = "loaded"
      /\ At("loaded", p, staged[p]).path = p /\ At("loaded", p, staged[p]).entry = staged[p]
  BY <1>2, AtFacts DEF Steps
<1>4. /\ work' \in [Actors -> Hand] /\ work'[c].at = "loaded" /\ work'[c].path = p
      /\ work'[c].entry = staged[p] /\ \A b \in Actors : b # c => work'[b] = work[b]
  BY <1>1, <1>3, GoesFacts DEF CodeInv
<1>5. spoiled' \subseteq Paths /\ echo' \in 0 .. 2 /\ indexed' \in [Paths -> CodeNodes]
  BY <1>1 DEF CodeInv, CodeTypeOK, CodeNodes
<1>6. ASSUME Clean(p)', FreshAt(p)
      PROVE  FreshHand(work[c], p)'
  <2>1. work[Watcher].path # p
    BY <1>4, <1>6, CodeIndexAssumption DEF CodeIndexAssumption, Clean, Actors
  <2>2. ASSUME NEW b \in Writers(p)
        PROVE  FALSE
    <3>1. b \in Commands /\ Writing(work[b], p) /\ b \in Actors
      BY <2>1, <2>2 DEF Writers, Writing, Actors
    <3>2. work[b].at = "writing"
      BY <1>6, <3>1 DEF FreshAt, FreshHand, Writing
    <3> QED BY <1>1, <3>1, <3>2 DEF CodeInv, WritesAlone, Writing
  <2>3. Holds(staged[p], file[p])
    BY <1>1, <1>6, <2>2 DEF FreshAt, Fresh
  <2>4. Holds(work'[c].entry, file'[p])
    BY <1>1, <1>4, <2>3 DEF Holds
  <2> QED BY <1>4, <2>4 DEF FreshHand, Holds
<1>7. \A q \in Paths : /\ InGraph(q, file[q]) => InGraph(q, file[q])'
                       /\ ~Writing(work[c], q)
                       /\ work'[c].path = q => q = p
  BY <1>1, <1>4, IdleFacts DEF InGraph
<1> QED BY <1>1, <1>4, <1>5, <1>6, <1>7, CommandStep

(* A batch that went to the graph may be unlinked: it was of the text on disk. *)
LEMMA CommitBatchCode ==
  ASSUME CodeInv, NEW c \in Commands, CommitBatch(c)
  PROVE  CodeInv'
<1>1. /\ work[c].at = "loaded" /\ c \in Actors /\ work[c].at \in Steps
      /\ UNCHANGED <<file, edits, watching, noticed, touched, unparsed, spoiled, grammar, echo,
                     staged>>
  BY DEF CommitBatch, diskVars, watchVars, Actors, Steps
<1>0. PICK p \in Paths : work[c].path = p
  BY <1>1, HandFacts DEF CodeInv
<1>2. PICK succeeded \in BOOLEAN :
        /\ Ingest(work[c], succeeded)
        /\ Goes(c, IF succeeded THEN At("unlinking", p, work[c].entry) ELSE NoWork)
  BY <1>0 DEF CommitBatch
<1>3. /\ At("unlinking", p, work[c].entry) \in Hand
      /\ At("unlinking", p, work[c].entry).at = "unlinking"
      /\ At("unlinking", p, work[c].entry).path = p
      /\ At("unlinking", p, work[c].entry).entry = work[c].entry
  BY <1>1, HandFacts, AtFacts DEF CodeInv, Steps
<1>4. /\ work' \in [Actors -> Hand] /\ \A b \in Actors : b # c => work'[b] = work[b]
      /\ \/ ~succeeded /\ work'[c] = NoWork
         \/ /\ succeeded /\ work'[c].at = "unlinking" /\ work'[c].path = p
            /\ work'[c].entry = work[c].entry
  <2>1. CASE succeeded
    BY <1>1, <1>2, <1>3, <2>1, GoesFacts DEF CodeInv
  <2>2. CASE ~succeeded
    BY <1>1, <1>2, <2>2, GoesFacts, IdleFacts DEF CodeInv
  <2> QED BY <2>1, <2>2
<1>5. indexed' \in [Paths -> CodeNodes]
  BY <1>1, <1>2, IngestFacts
<1>6. spoiled' \subseteq Paths /\ echo' \in 0 .. 2
  BY <1>1 DEF CodeInv, CodeTypeOK
<1>7. ASSUME NEW q \in Paths, FreshAt(q)
      PROVE  /\ InGraph(q, file[q]) => InGraph(q, file[q])'
             /\ ~Writing(work[c], q)
             /\ work'[c].path = q => FreshHand(work[c], q)'
  <2>1. /\ InGraph(q, file[q]) => InGraph(q, file[q])'
        /\ work[c].path = q /\ succeeded => InGraph(q, file[q])'
    BY <1>1, <1>2, <1>7, IngestKeeps
  <2>2. CASE ~succeeded /\ work'[c] = NoWork
    BY <1>1, <2>1, <2>2, IdleFacts DEF Writing, FreshHand
  <2>3. CASE /\ succeeded /\ work'[c].at = "unlinking" /\ work'[c].path = p
             /\ work'[c].entry = work[c].entry
    <3>1. p = q => Holds(work[c].entry, file[q])
      BY <1>0, <1>1, <1>7 DEF FreshAt, FreshHand
    <3> QED BY <1>0, <1>1, <2>1, <2>3, <3>1 DEF Writing, FreshHand, Holds
  <2> QED BY <1>4, <2>2, <2>3
<1>8. work'[c].at \notin {"writing", "sharing"}
  BY <1>4, IdleFacts
<1> QED BY <1>1, <1>4, <1>5, <1>6, <1>7, <1>8, CommandStep

(* What is unlinked of a clean path is in the graph. *)
LEMMA UnlinkCode ==
  ASSUME CodeInv, NEW c \in Commands, Unlink(c)
  PROVE  CodeInv'
<1>1. /\ work[c].at = "unlinking" /\ c \in Actors /\ work[c].at \in Steps /\ c # Watcher
      /\ UNCHANGED <<file, edits, watching, noticed, touched, unparsed, spoiled, grammar, echo,
                     indexed>>
  BY CodeIndexAssumption DEF CodeIndexAssumption, Unlink, diskVars, watchVars, Actors, Steps
<1>0. PICK p \in Paths : work[c].path = p
  BY <1>1, HandFacts DEF CodeInv
<1>2. /\ staged' = [staged EXCEPT ![p] = NoEntry]
      /\ work' = [a \in Actors |-> CASE a = c -> NoWork
                                     [] a \in Writers(p) -> At("orphan", p, work[a].entry)
                                     [] OTHER -> work[a]]
      /\ c \notin Writers(p)
  BY <1>0, <1>1 DEF Unlink, Writers, Writing
<1>3. /\ staged' \in [Paths -> StageEntries] /\ staged'[p] = NoEntry
      /\ \A q \in Paths : q # p => staged'[q] = staged[q]
  <2>1. staged \in [Paths -> StageEntries]
    BY DEF CodeInv, CodeTypeOK, StageEntries
  <2> QED BY <1>2, <2>1 DEF StageEntries
<1>4. ASSUME NEW b \in Writers(p)
      PROVE  /\ b \in Actors /\ b # c /\ work[b].path = p /\ work[b].at \in {"writing", "sharing"}
             /\ At("orphan", p, work[b].entry) \in Hand
             /\ work'[b].at = "orphan" /\ work'[b].path = p /\ work'[b].entry = work[b].entry
             /\ work'[b] \in Hand
  <2>1. /\ b \in Actors /\ b # c /\ work[b].path = p /\ work[b].at \in {"writing", "sharing"}
        /\ work[b].at \in Steps
    BY <1>2, <1>4 DEF Writers, Writing, Steps
  <2>2. /\ At("orphan", p, work[b].entry) \in Hand /\ At("orphan", p, work[b].entry).at = "orphan"
        /\ At("orphan", p, work[b].entry).path = p
        /\ At("orphan", p, work[b].entry).entry = work[b].entry
    BY <2>1, HandFacts, AtFacts DEF CodeInv, Steps
  <2>3. work'[b] = At("orphan", p, work[b].entry)
    BY <1>2, <1>4, <2>1
  <2> QED BY <2>1, <2>2, <2>3
<1>5. /\ work'[c] = NoWork
      /\ \A b \in Actors : b # c /\ b \notin Writers(p) => work'[b] = work[b]
  BY <1>1, <1>2
<1>6. work' \in [Actors -> Hand]
  <2>1. \A b \in Actors : work'[b] \in Hand
    BY <1>4, <1>5, HandFacts, IdleFacts DEF CodeInv
  <2>2. work' = [b \in Actors |-> work'[b]]
    BY <1>2
  <2> QED BY <2>1, <2>2
<1>7. \A b \in Actors : b \in Writers(p) <=> Writing(work[b], p)
  BY DEF Writers
<1>8. CodeTypeOK'
  BY <1>1, <1>3, <1>6 DEF CodeInv, CodeTypeOK, Hand, StageEntries
<1>9. WritesAlone'
  <2> SUFFICES ASSUME NEW b \in Actors, work'[b].at = "writing"
               PROVE  /\ staged'[work'[b].path] = Torn
                      /\ Writers(work[b].path)' = {b}
    BY DEF WritesAlone
  <2>1. b # c /\ b \notin Writers(p) /\ work'[b] = work[b]
    BY <1>4, <1>5, IdleFacts
  <2>2. work[b].path # p
    BY <1>7, <2>1 DEF Writing
  <2>3. staged[work[b].path] = Torn /\ Writers(work[b].path) = {b} /\ work[b].path \in Paths
    BY <2>1, HandFacts DEF CodeInv, WritesAlone, Steps
  <2>4. \A a \in Actors : Writing(work'[a], work[b].path) => Writing(work[a], work[b].path)
    BY <1>4, <1>5, <2>2, IdleFacts DEF Writing
  <2>5. Writing(work'[b], work'[b].path)
    BY DEF Writing
  <2> QED BY <1>3, <2>1, <2>2, <2>3, <2>4, <2>5 DEF Writers
<1>10. /\ work'[Watcher].path = work[Watcher].path /\ work'[Watcher].entry = work[Watcher].entry
       /\ \/ work'[Watcher] = work[Watcher]
          \/ /\ work[Watcher].at \in {"writing", "sharing"} /\ work'[Watcher].at = "orphan"
  BY <1>1, <1>4, <1>5 DEF Actors
<1>11. WatcherIsCurrent'
  <2>1. ~watching => work'[Watcher] = work[Watcher]
    BY <1>10, IdleFacts DEF CodeInv, WatcherIsCurrent
  <2> QED BY <1>1, <1>10, <2>1 DEF CodeInv, WatcherIsCurrent, Holds
<1>12. CleanIsFresh'
  <2> SUFFICES ASSUME NEW q \in Paths, Clean(q)'
               PROVE  FreshAt(q)'
    BY DEF CleanIsFresh
  <2>1. FreshAt(q)
    BY <1>1, <1>10 DEF CodeInv, CleanIsFresh, Clean
  <2>2. CASE q # p
    <3>1. ASSUME NEW b \in Actors
          PROVE  \/ work'[b] = work[b]
                 \/ /\ ~Writing(work[b], q) /\ ~Writing(work'[b], q)
                    /\ work'[b].path # q
      <4>1. CASE b = c
        <5>1. work'[b].path # q
          BY <1>5, <4>1, CodeIndexAssumption DEF CodeIndexAssumption, NoWork, At
        <5> QED BY <1>1, <4>1, <5>1 DEF Writing
      <4>2. CASE b \in Writers(p)
        BY <1>4, <2>2, <4>2 DEF Writing
      <4> QED BY <1>5, <4>1, <4>2
    <3> QED BY <1>1, <1>3, <2>1, <2>2, <3>1, StillFresh DEF InGraph
  <2>3. CASE q = p
    <3>1. InGraph(p, file[p]) /\ UNCHANGED <<file, indexed>>
      BY <1>0, <1>1, <2>1, <2>3 DEF FreshAt, FreshHand
    <3>2. Fresh(p)'
      BY <1>3, <3>1 DEF Fresh, InGraph
    <3>3. ASSUME NEW b \in Commands, work'[b].path = p
          PROVE  FreshHand(work[b], p)'
      <4>1. CASE b \in Writers(p)
        BY <1>4, <4>1 DEF FreshHand
      <4>2. CASE b = c
        BY <1>5, <4>2, IdleFacts DEF FreshHand
      <4>3. CASE b # c /\ b \notin Writers(p)
        <5>1. work'[b] = work[b] /\ FreshHand(work[b], p)
          BY <1>5, <2>1, <2>3, <3>3, <4>3 DEF FreshAt, Actors
        <5> QED BY <3>1, <5>1 DEF FreshHand, Holds, InGraph
      <4> QED BY <4>1, <4>2, <4>3
    <3> QED BY <2>3, <3>2, <3>3 DEF FreshAt
  <2> QED BY <2>2, <2>3
<1> QED BY <1>8, <1>9, <1>11, <1>12 DEF CodeInv

(* A command that dies while it writes has spoiled the path for the watcher. *)
LEMMA DiesCode ==
  ASSUME CodeInv, NEW c \in Commands, Dies(c)
  PROVE  CodeInv'
<1>1. /\ work[c] # NoWork /\ Goes(c, NoWork) /\ c \in Actors
      /\ spoiled' = (IF work[c].at \in {"writing", "sharing"}
                     THEN spoiled \cup {work[c].path} ELSE spoiled)
      /\ UNCHANGED <<file, edits, watching, noticed, touched, unparsed, grammar, echo, staged,
                     indexed>>
  BY DEF Dies, diskVars, watchVars, Actors
<1>2. work[c].path \in Paths
  BY <1>1, HandFacts DEF CodeInv
<1>3. /\ work' \in [Actors -> Hand] /\ work'[c] = NoWork
      /\ \A b \in Actors : b # c => work'[b] = work[b]
  BY <1>1, GoesFacts, IdleFacts DEF CodeInv
<1>4. /\ spoiled \subseteq spoiled' /\ spoiled' \subseteq Paths /\ echo' \in 0 .. 2
      /\ indexed' \in [Paths -> CodeNodes]
  BY <1>1, <1>2 DEF CodeInv, CodeTypeOK, CodeNodes
<1>5. ASSUME NEW q \in Paths, Clean(q)'
      PROVE  /\ InGraph(q, file[q]) => InGraph(q, file[q])'
             /\ ~Writing(work[c], q)
             /\ FreshHand(work[c], q)'
  BY <1>1, <1>3, <1>5, IdleFacts DEF InGraph, Writing, Clean, FreshHand
<1> QED BY <1>1, <1>3, <1>4, <1>5, IdleFacts, CommandStep

---------------------------------------------------------------------------
(* Every step of developer, watcher and commands keeps the invariant.        *)
LEMMA StepCode ==
  ASSUME CodeInv, [CodeNext]_codeVars
  PROVE  CodeInv'
<1>1. CASE UNCHANGED codeVars
  BY <1>1 DEF codeVars, CodeInv, CodeTypeOK, WritesAlone, Writers, WatcherIsCurrent,
     CleanIsFresh, Clean, FreshAt, FreshHand, Fresh, InGraph
<1>2. CASE CodeNext
  BY <1>2, EditCode, WatchingCode, PrepareCode, LoadEntriesCode, WatcherLooksCode,
     SecondReadCode, OpenEntryCode, CloseEntryCode, StageEchoCode, IndexBatchCode,
     CommitBatchCode, UnlinkCode, DiesCode DEF CodeNext
<1> QED BY <1>1, <1>2

(* The index, its stage and its watcher keep the strengthened invariant. *)
THEOREM CodeInvariance == CodeSpec => []CodeInv
  BY InitCode, StepCode, PTL DEF CodeSpec

(* Files, stage and graph keep their types: what a commit reads is a whole  *)
(* entry, and every hash and symbol of the graph is one of some saved text.  *)
THEOREM CodeTypes == CodeSpec => []CodeTypeOK
<1>1. CodeInv => CodeTypeOK
  BY DEF CodeInv
<1> QED BY CodeInvariance, <1>1, PTL

(* The watcher loses no save, beside any number of commands in processes of   *)
(* their own: what it wrote while no command had older data in hand is       *)
(* staged, or committed, with the symbols and the hash of the text on disk.  *)
THEOREM WatcherLosesNothing == CodeSpec => []StagedIsFresh
<1>1. ASSUME CodeInv, watching, NEW p \in touched \ (noticed \cup unparsed \cup spoiled),
             file[p] # NoText, work[Watcher].path # p, Writers(p) = {}
      PROVE  Fresh(p)
  <2>1. p \in Paths /\ Clean(p)
    BY <1>1 DEF CodeInv, CodeTypeOK, Clean
  <2> QED BY <1>1, <2>1 DEF CodeInv, CleanIsFresh, FreshAt
<1>2. CodeInv => StagedIsFresh
  BY <1>1 DEF StagedIsFresh, Fresh
<1> QED BY CodeInvariance, <1>2, PTL

============================================================================
