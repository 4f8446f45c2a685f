-------------------------------- MODULE Autopilot --------------------------------
(***************************************************************************)
(* The autopilot graph (agents/orchestrator_graph.py) inside its runtime     *)
(* (workflows/runtime/orchestrator_runtime.py), beside managed workflows on  *)
(* the same host tree. The logic and style drafts run one worker per batch   *)
(* of files at once; the first worker to raise cancels the others and the run *)
(* is aborted. The patches stay in memory: the guard checks the repository.  *)
(***************************************************************************)
EXTENDS ManagedWorkflow

CONSTANTS
  MaxWorkers   \* bound: batches of target files, each with a worker of its own

ASSUME AutopilotAssumption ==
  /\ MaxWorkers \in Nat
  /\ \A r \in Runs \ ManagedRuns : MaxRetries[r] > 0

VARIABLES
  working,   \* how many workers of the draft have not ended
  approved   \* success, and validation_status is "approved"

autopilotVars == <<working, approved>>
vars == <<sandboxVars, retries, managedVars, autopilotVars>>

AutopilotRuns == Runs \ ManagedRuns

TypeOK ==
  /\ SandboxTypeOK
  /\ ManagedTypeOK
  /\ working \in [Runs -> 0..MaxWorkers]
  /\ approved \in [Runs -> BOOLEAN]

Init ==
  /\ SandboxInit
  /\ ManagedInit
  /\ working = [r \in Runs |-> 0]
  /\ approved = [r \in Runs |-> FALSE]

(* ContextGatherNode and SentryNode await the graph service and one agent *)
StartAutopilot(r) ==
  /\ Ensure(r, "context")
  /\ UNCHANGED <<retries, autopilotVars>>

AtNode(r, stage) == LoopFree /\ pc[r] = stage

Gather(r) ==
  /\ AtNode(r, "context")
  /\ Goto(r, "sentry")
  /\ UNCHANGED <<retries, autopilotVars>>

(* the task group of a draft has n workers left *)
Draft(r, stage, n) ==
  /\ working' = Put(working, r, n)
  /\ Goto(r, stage)

(* LogicDraftNode starts one worker per batch of files; without target files there is
   none, nothing is patched and nothing is styled                              *)
DraftLogic(r) == \E n \in 0..MaxWorkers : Draft(r, IF n = 0 THEN "guard" ELSE "logic", n)

(* SentryNode *)
PlanTests(r) ==
  /\ AtNode(r, "sentry")
  /\ DraftLogic(r)
  /\ UNCHANGED <<retries, approved>>

(* One worker ends; the last one of a task group moves the graph on. The style draft
   has a batch for what was patched, so possibly none.                         *)
WorkerEnds(r) ==
  /\ LoopFree
  /\ \/ /\ pc[r] \in {"logic", "style"} /\ working[r] > 1
        /\ Draft(r, pc[r], working[r] - 1)
     \/ /\ pc[r] = "logic" /\ working[r] = 1
        /\ \E n \in 0..MaxWorkers : Draft(r, IF n = 0 THEN "guard" ELSE "style", n)
     \/ /\ pc[r] = "style" /\ working[r] = 1
        /\ Draft(r, "guard", 0)
  /\ UNCHANGED <<retries, approved>>

(* gives the draft one retry more than the limit *)
Guard_mutantOnceMore(r) ==
  /\ AtNode(r, "guard")
  /\ \/ /\ approved' = Put(approved, r, TRUE)
        /\ Finalize(r, TRUE)
        /\ UNCHANGED <<retries, working>>
     \/ /\ approved' = Put(approved, r, FALSE)
        /\ retries' = Put(retries, r, retries[r] + 1)
        /\ IF retries'[r] > MaxRetries[r]
           THEN Finalize(r, FALSE) /\ UNCHANGED working
           ELSE DraftLogic(r)

(* GuardNode, MemorySyncNode and the runtime's finalize *)
Guard(r) ==
  /\ AtNode(r, "guard")
  /\ \/ /\ approved' = Put(approved, r, TRUE)
        /\ Finalize(r, TRUE)
        /\ UNCHANGED <<retries, working>>
     \/ /\ approved' = Put(approved, r, FALSE)
        /\ retries' = Put(retries, r, retries[r] + 1)
        /\ IF retries'[r] >= MaxRetries[r]
           THEN Finalize(r, FALSE) /\ UNCHANGED working
           ELSE DraftLogic(r)

(* an agent, a query or the start of a CLI check raises: the runtime aborts *)
GraphRaises(r) ==
  /\ LoopFree
  /\ pc[r] \in {"context", "sentry", "logic", "style", "guard"}
  /\ Abort(r)
  /\ working' = Put(working, r, 0)
  /\ UNCHANGED <<retries, approved>>

AutopilotStep(r) ==
  r \in AutopilotRuns /\ (StartAutopilot(r) \/ Gather(r) \/ PlanTests(r) \/ WorkerEnds(r)
                          \/ Guard(r) \/ GraphRaises(r))

---------------------------------------------------------------------------------
Next ==
  \/ SandboxNext /\ UNCHANGED <<retries, managedVars, autopilotVars>>
  \/ \E r \in Runs : \/ ManagedStep(r) /\ UNCHANGED autopilotVars
                     \/ AutopilotStep(r) /\ UNCHANGED managedVars

Spec == Init /\ [][Next]_vars

(* Agents, CLI checks, file copies and `compose down` end; nobody has to cancel. *)
Fairness ==
  \A r \in Runs :
    /\ WF_vars(pc[r] # "idle" /\ ManagedStep(r) /\ UNCHANGED autopilotVars)
    /\ WF_vars(pc[r] # "idle" /\ AutopilotStep(r) /\ UNCHANGED managedVars)
    /\ WF_vars((Copy(r) \/ DestroyReturns(r)) /\ UNCHANGED <<retries, managedVars, autopilotVars>>)

FairSpec == Spec /\ Fairness

---------------------------------------------------------------------------------
(* A run that is copying or merged passed what its runtime calls validation, and it
   still holds: for a managed run ManagedValidated, for an autopilot that its last
   guard, which checks the repository and not the workspace, approved.         *)
MergedWasValidated ==
  \A r \in Runs :
    (pc[r] = "copying" \/ merge[r] = "merged")
      => IF r \in ManagedRuns THEN ManagedValidated(r) ELSE approved[r]

(* "Failed sandbox validation prevents merge-back"
   (docs/planning/tasks/archived/028-sandbox.md): no managed run merges work whose last
   audit asked for a retry. The code asks only for blockers, and an audit whose
   findings outlasted the retries adds none.                                   *)
FailedAuditBlocksMerge ==
  \A r \in ManagedRuns : pc[r] = "copying" \/ merge[r] = "merged" => ~flagged[r]

(* Every run that starts ends, whatever the audits, the guard, the other runs and the
   sweeps do: the two retry loops are bounded and no await is left unanswered. *)
RunsEnd == \A r \in Runs : (pc[r] # "idle") ~> (pc[r] \in Ended)
==================================================================================
