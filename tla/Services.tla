------------------------------ MODULE Services ------------------------------
(***************************************************************************)
(* The services of the server beside its task queue and its sandboxes, in  *)
(* one specification.  They share no variable and no lock, so a behaviour  *)
(* of one is possible whatever the others do; each behaviour therefore     *)
(* follows one of them, the focus, chosen at the start, and the states to  *)
(* explore are the sum of theirs and not the product.  What they share in  *)
(* the program, the graph database, is split between them by node type:    *)
(* conversations, embedded nodes, code index, violations, work items.      *)
(***************************************************************************)
EXTENDS SummaryWorker, EmbeddingIndex, EmbeddingCache, CodeBridge, CodeIndex,
        ViolationRecords, WorkItems, PackageAudit, Orchestrator

VARIABLE focus

servicesVars == <<summaryVars, embeddingVars, cacheVars, bridgeVars, codeVars,
                  violationVars, workVars, packageVars, orchestratorVars, focus>>

Components == {"summary", "embedding", "cache", "bridge", "code",
               "violations", "work", "package", "orchestrator"}

ServicesTypeOK ==
    /\ focus \in Components
    /\ SummaryTypeOK /\ EmbeddingTypeOK /\ EmbedTypeOK /\ BridgeTypeOK
    /\ CodeTypeOK /\ ViolationTypeOK /\ WorkTypeOK /\ PackageTypeOK
    /\ OrchestratorTypeOK

ServicesInit ==
    /\ focus \in Components
    /\ SummaryInit /\ EmbeddingInit /\ EmbedInit /\ BridgeInit /\ CodeInit
    /\ ViolationInit /\ WorkInit /\ PackageInit /\ OrchestratorInit
    /\ focus # "cache" => maxSize = CHOOSE size \in CacheSizes : TRUE
    /\ focus # "orchestrator" => merging = "listed"
    /\ focus # "code" => file = [p \in Paths |-> NoText]

ServicesNext ==
    /\ UNCHANGED focus
    /\ \/ /\ focus = "summary" /\ SummaryNext
          /\ UNCHANGED <<embeddingVars, cacheVars, bridgeVars, codeVars,
                         violationVars, workVars, packageVars, orchestratorVars>>
       \/ /\ focus = "embedding" /\ EmbeddingNext
          /\ UNCHANGED <<summaryVars, cacheVars, bridgeVars, codeVars,
                         violationVars, workVars, packageVars, orchestratorVars>>
       \/ /\ focus = "cache" /\ EmbedNext
          /\ UNCHANGED <<summaryVars, embeddingVars, bridgeVars, codeVars,
                         violationVars, workVars, packageVars, orchestratorVars>>
       \/ /\ focus = "bridge" /\ BridgeNext
          /\ UNCHANGED <<summaryVars, embeddingVars, cacheVars, codeVars,
                         violationVars, workVars, packageVars, orchestratorVars>>
       \/ /\ focus = "code" /\ CodeNext
          /\ UNCHANGED <<summaryVars, embeddingVars, cacheVars, bridgeVars,
                         violationVars, workVars, packageVars, orchestratorVars>>
       \/ /\ focus = "violations" /\ ViolationNext
          /\ UNCHANGED <<summaryVars, embeddingVars, cacheVars, bridgeVars, codeVars,
                         workVars, packageVars, orchestratorVars>>
       \/ /\ focus = "work" /\ WorkNext
          /\ UNCHANGED <<summaryVars, embeddingVars, cacheVars, bridgeVars, codeVars,
                         violationVars, packageVars, orchestratorVars>>
       \/ /\ focus = "package" /\ PackageNext
          /\ UNCHANGED <<summaryVars, embeddingVars, cacheVars, bridgeVars, codeVars,
                         violationVars, workVars, orchestratorVars>>
       \/ /\ focus = "orchestrator" /\ OrchestratorNext
          /\ UNCHANGED <<summaryVars, embeddingVars, cacheVars, bridgeVars, codeVars,
                         violationVars, workVars, packageVars>>

(***************************************************************************)
(* Fairness is each component's own.  A component that is not the focus    *)
(* never moves, so its fairness can only ask for steps that are enabled    *)
(* in its initial state: there are none.                                   *)
(***************************************************************************)
ServicesSpec ==
    /\ ServicesInit /\ [][ServicesNext]_servicesVars
    /\ SummaryFairness /\ BridgeFairness /\ CodeFairness
=============================================================================
