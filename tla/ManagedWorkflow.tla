----------------------------- MODULE ManagedWorkflow -----------------------------
(***************************************************************************)
(* The managed workflow graph (agents/workflow_graph.py) inside its runtime  *)
(* (workflows/runtime/managed_workflow_runtime.py), as the tool              *)
(* run_subagent_workflow runs it: with execute_agents. Each of four stages   *)
(* awaits one agent; the nodes between two of them do not await, so a step    *)
(* goes from one agent's end to the next agent's start.                      *)
(***************************************************************************)
EXTENDS WorkflowSandbox

CONSTANTS
  ManagedRuns,   \* the runs that are managed workflows
  MaxRetries     \* effective max_retries of each run

ASSUME ManagedAssumption ==
  /\ ManagedRuns \subseteq Runs
  /\ MaxRetries \in [Runs -> Nat]

VARIABLES
  retries,    \* retry_count of each run
  blocked,    \* blockers is not empty
  flagged,    \* the stats of audit_output ask for a retry
  audited     \* history: audit_output is newer than the last implementation

managedVars == <<blocked, flagged, audited>>

ManagedTypeOK ==
  /\ retries \in [Runs -> Nat] /\ \A r \in Runs : retries[r] <= MaxRetries[r]
  /\ blocked \in [Runs -> BOOLEAN]
  /\ flagged \in [Runs -> BOOLEAN]
  /\ audited \in [Runs -> BOOLEAN]

ManagedInit ==
  /\ retries = [r \in Runs |-> 0]
  /\ blocked = [r \in Runs |-> FALSE]
  /\ flagged = [r \in Runs |-> FALSE]
  /\ audited = [r \in Runs |-> FALSE]

StartManaged(r) ==
  /\ Ensure(r, "implementation")
  /\ UNCHANGED <<retries, managedVars>>

At(r, stage) == LoopFree /\ r \in ManagedRuns /\ pc[r] = stage
Goto(r, stage) ==
  /\ pc' = Put(pc, r, stage)
  /\ UNCHANGED <<trees, session, calls, removed, sweeping, plan, merge, moves, history>>

(* an agent ends: every node catches what its agent raises and goes on *)
AgentEnds(r, ok) ==
  blocked' = Put(blocked, r, blocked[r] \/ ~ok)

Implement(r) ==
  /\ At(r, "implementation")
  /\ \E ok \in BOOLEAN : AgentEnds(r, ok)
  /\ audited' = Put(audited, r, FALSE)
  /\ Goto(r, "audit")
  /\ UNCHANGED <<retries, flagged>>

(* retries without counting *)
Route_mutantEndless(r) ==
  /\ retries' = retries
  /\ IF flagged'[r] /\ ~blocked'[r] THEN Goto(r, "implementation")
                                         ELSE Goto(r, "documentation")

(* DebugOrValidationNode *)
Route(r) ==
  IF flagged'[r] /\ ~blocked'[r] /\ retries[r] < MaxRetries[r]
  THEN retries' = Put(retries, r, retries[r] + 1) /\ Goto(r, "implementation")
  ELSE retries' = retries /\ Goto(r, "documentation")

(* AuditNode, then the routing *)
AuditEnds(r) ==
  /\ At(r, "audit")
  /\ \E ok, flag \in BOOLEAN :
       /\ ok \/ ~flag
       /\ AgentEnds(r, ok)
       /\ flagged' = IF ok THEN Put(flagged, r, flag) ELSE flagged
       /\ audited' = Put(audited, r, ok)
  /\ Route(r)

Document(r) ==
  /\ At(r, "documentation")
  /\ \E ok \in BOOLEAN : AgentEnds(r, ok)
  /\ Goto(r, "context_map")
  /\ UNCHANGED <<retries, flagged, audited>>

(* takes validation_output.status, which is older than the stage that just ended *)
MapContext_mutantStale(r) ==
  /\ At(r, "context_map")
  /\ \E ok \in BOOLEAN : AgentEnds(r, ok)
  /\ Finalize(r, ~blocked[r])
  /\ UNCHANGED <<retries, flagged, audited>>

(* ContextMapUpdateNode, the memory sync and the final report, and the runtime's
   finalize with validation_passed = not state.blockers                        *)
MapContext(r) ==
  /\ At(r, "context_map")
  /\ \E ok \in BOOLEAN : AgentEnds(r, ok)
  /\ Finalize(r, ~blocked'[r])
  /\ UNCHANGED <<retries, flagged, audited>>

ManagedStep(r) ==
  r \in ManagedRuns /\ (StartManaged(r) \/ Implement(r) \/ AuditEnds(r) \/ Document(r)
                        \/ MapContext(r))

(* What the runtime hands to finalize as validation_passed: no stage failed in any
   attempt, and the audit that let the run pass was stored after its last
   implementation; neither a blocker of a late stage nor the output of an earlier
   attempt may be overlooked. That audit may still have findings that ask for a retry
   if no retry was left.                                                        *)
ManagedValidated(r) ==
  /\ ~blocked[r] /\ audited[r]
  /\ flagged[r] => retries[r] = MaxRetries[r]
==================================================================================
