--------------------------------- MODULE WorkItems ---------------------------------
(***************************************************************************)
(* Tasks and decisions (src/mem_graph/tools/work/tasks.py and decisions.py). *)
(*                                                                          *)
(* task_create and decision_record await an embedding, then create the node  *)
(* and link it to its project; the other tools do not await. Every statement *)
(* commits by itself, so a tool that raises half way leaves its first part.  *)
(***************************************************************************)
EXTENDS Integers, FiniteSets

CONSTANTS
  Tasks,      \* task ids: id_generate_v7 makes each fresh
  Decisions,  \* decision ids, the same
  Owners,     \* project ids a caller may name
  RealOwners, \* those with a node
  NoOwner     \* not linked

ASSUME WorkItemsAssumption ==
  /\ Tasks \cap Decisions = {}
  /\ RealOwners \subseteq Owners /\ NoOwner \notin Owners

VARIABLES
  item,        \* status of each task or decision: "none", "awaited", or stored
  owner,       \* the project asked for, then the project linked
  completed,   \* tasks with completed_at
  blocks,      \* TASK_BLOCKS
  taskDecision,\* TASK_DECISION
  supersedes,  \* SUPERSEDES: <<new, old>>
  onlyMarked   \* history: superseded by an unknown id, or the second statement raised

workVars == <<item, owner, completed, blocks, taskDecision, supersedes, onlyMarked>>
edges == <<blocks, taskDecision, supersedes>>

TaskStatuses == {"open", "in_progress", "blocked", "done", "cancelled"}
DecisionStatuses == {"active", "superseded"}
Stored(i) == item[i] \notin {"none", "awaited"}
StoredOf(set) == {i \in set : Stored(i)}

WorkInit ==
  /\ item = [i \in Tasks \cup Decisions |-> "none"]
  /\ owner = [i \in Tasks \cup Decisions |-> NoOwner]
  /\ completed = {} /\ onlyMarked = {}
  /\ blocks = {} /\ taskDecision = {} /\ supersedes = {}

---------------------------------------------------------------------------
(* task_create and decision_record up to the embedding. *)
Ask(i, p) ==
  /\ item[i] = "none"
  /\ item' = [item EXCEPT ![i] = "awaited"]
  /\ owner' = [owner EXCEPT ![i] = p]
  /\ UNCHANGED <<completed, edges, onlyMarked>>

(* The call ends with an exception before it has written anything. *)
AskFails(i) ==
  /\ item[i] = "awaited"
  /\ item' = [item EXCEPT ![i] = "none"]
  /\ owner' = [owner EXCEPT ![i] = NoOwner]
  /\ UNCHANGED <<completed, edges, onlyMarked>>

(* The node; then the link, which matches no unknown project and may raise. *)
Store(i, status) ==
  /\ item[i] = "awaited"
  /\ item' = [item EXCEPT ![i] = status]
  /\ \E linked \in {owner[i], NoOwner} :
       /\ linked \in RealOwners \cup {NoOwner}
       /\ owner' = [owner EXCEPT ![i] = linked]
  /\ UNCHANGED <<completed, edges, onlyMarked>>

CreateTask(t) == Store(t, "open")
RecordDecision(d) == Store(d, "active")

(* task_update: any status follows any other; completed_at is never taken back. *)
UpdateTask(t, status) ==
  /\ Stored(t)
  /\ item' = [item EXCEPT ![t] = status]
  /\ completed' = IF status = "done" THEN completed \cup {t} ELSE completed
  /\ UNCHANGED <<owner, edges, onlyMarked>>

BlockTask(t, by) ==
  /\ Stored(t) /\ Stored(by)
  /\ blocks' = blocks \cup {<<by, t>>}
  /\ UNCHANGED <<item, owner, completed, taskDecision, supersedes, onlyMarked>>

LinkDecision(t, d) ==
  /\ Stored(t) /\ Stored(d)
  /\ taskDecision' = taskDecision \cup {<<t, d>>}
  /\ UNCHANGED <<item, owner, completed, blocks, supersedes, onlyMarked>>

(* Mutant: the relation is drawn the wrong way round.                        *)
Supersede_mutantSwapped(old, new) ==
  /\ Stored(old)
  /\ item' = [item EXCEPT ![old] = "superseded"]
  /\ \/ /\ Stored(new)
        /\ supersedes' = supersedes \cup {<<old, new>>}
        /\ UNCHANGED onlyMarked
     \/ onlyMarked' = onlyMarked \cup {old} /\ UNCHANGED supersedes
  /\ UNCHANGED <<owner, completed, blocks, taskDecision>>

(* decision_supersede: the old one is marked first. The relation needs both    *)
(* nodes; nothing keeps a decision from superseding itself, or one before.   *)
Supersede(old, new) ==
  /\ Stored(old)
  /\ item' = [item EXCEPT ![old] = "superseded"]
  /\ \/ /\ Stored(new)
        /\ supersedes' = supersedes \cup {<<new, old>>}
        /\ UNCHANGED onlyMarked
     \/ onlyMarked' = onlyMarked \cup {old} /\ UNCHANGED supersedes
  /\ UNCHANGED <<owner, completed, blocks, taskDecision>>

WorkNext ==
  \/ \E i \in Tasks \cup Decisions :
       AskFails(i) \/ \E p \in Owners : Ask(i, p)
  \/ \E t \in Tasks :
       \/ CreateTask(t)
       \/ \E status \in TaskStatuses : UpdateTask(t, status)
       \/ \E by \in Tasks : BlockTask(t, by)
       \/ \E d \in Decisions : LinkDecision(t, d)
  \/ \E d \in Decisions :
       RecordDecision(d) \/ \E new \in Decisions : Supersede(d, new)

WorkSpec == WorkInit /\ [][WorkNext]_workVars

---------------------------------------------------------------------------
WorkTypeOK ==
  /\ \A t \in Tasks : item[t] \in TaskStatuses \cup {"none", "awaited"}
  /\ \A d \in Decisions : item[d] \in DecisionStatuses \cup {"none", "awaited"}
  /\ owner \in [Tasks \cup Decisions -> Owners \cup {NoOwner}]
  /\ completed \subseteq Tasks /\ onlyMarked \subseteq Decisions
  /\ blocks \subseteq Tasks \X Tasks
  /\ taskDecision \subseteq Tasks \X Decisions
  /\ supersedes \subseteq Decisions \X Decisions

(* decision_get shows the lineage of a decision, and decision_review leaves    *)
(* superseded ones out: a superseded decision has a successor that is stored, *)
(* unless the tool was given an unknown id or its second statement raised.   *)
SupersededHasSuccessor ==
  \A d \in Decisions : item[d] = "superseded" =>
    d \in onlyMarked \/ \E new \in StoredOf(Decisions) : <<new, d>> \in supersedes
=================================================================================
