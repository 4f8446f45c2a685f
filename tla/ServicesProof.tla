--------------------------- MODULE ServicesProof ---------------------------
(***************************************************************************)
(* Proofs about Services: what is proved of a service alone holds in their *)
(* composition.  A step of the composition is a step of one service, and   *)
(* a stutter of every other, so its behaviours are behaviours of each      *)
(* service's own specification; the theorems about those carry over.       *)
(***************************************************************************)
EXTENDS Services, SummaryWorkerProof, CodeBridgeProof, GraphRecordsProof, BatchesProof

(* A step of the services is a step or a stutter of each one.              *)
LEMMA ServiceSteps ==
  ASSUME [ServicesNext]_servicesVars
  PROVE  /\ [SummaryNext]_summaryVars
         /\ [EmbeddingNext]_embeddingVars
         /\ [BridgeNext]_bridgeVars
         /\ [ViolationNext]_violationVars
         /\ [WorkNext]_workVars
         /\ [CodeNext]_codeVars
         /\ [EmbedNext]_cacheVars
         /\ [PackageNext]_packageVars
         /\ [OrchestratorNext]_orchestratorVars
<1>1. CASE UNCHANGED servicesVars
  BY <1>1 DEF servicesVars
<1>2. CASE ServicesNext
  BY <1>2 DEF ServicesNext
<1> QED BY <1>1, <1>2

(* The summary worker among the services is the summary worker alone:       *)
(* lifespan, capture tool and worker share nothing with the others.         *)
THEOREM ServicesRunSummary == ServicesSpec => SummarySpec
<1>1. ServicesInit => SummaryInit
  BY DEF ServicesInit
<1> QED BY <1>1, ServiceSteps, PTL DEF ServicesSpec, SummarySpec

(* The same of the embeddings in the graph: db.py and the embed services.   *)
THEOREM ServicesRunEmbedding == ServicesSpec => EmbeddingSpec
<1>1. ServicesInit => EmbeddingInit
  BY DEF ServicesInit
<1> QED BY <1>1, ServiceSteps, PTL DEF ServicesSpec, EmbeddingSpec

(* The same of the bridge of provider.py.                                   *)
THEOREM ServicesRunBridge == ServicesSpec => BridgeSpec
<1>1. ServicesInit => BridgeInit
  BY DEF ServicesInit
<1> QED BY <1>1, ServiceSteps, PTL DEF ServicesSpec, BridgeSpec

(* The same of violations: violation_writer.py and its tools.               *)
THEOREM ServicesRunViolations == ServicesSpec => ViolationSpec
<1>1. ServicesInit => ViolationInit
  BY DEF ServicesInit
<1> QED BY <1>1, ServiceSteps, PTL DEF ServicesSpec, ViolationSpec

(* The same of tasks and decisions: tasks.py and decisions.py.              *)
THEOREM ServicesRunWork == ServicesSpec => WorkSpec
<1>1. ServicesInit => WorkInit
  BY DEF ServicesInit
<1> QED BY <1>1, ServiceSteps, PTL DEF ServicesSpec, WorkSpec

(* The same of the code index and its watcher.                              *)
THEOREM ServicesRunCode == ServicesSpec => CodeSpec
<1>1. ServicesInit => CodeInit
  BY DEF ServicesInit
<1> QED BY <1>1, ServiceSteps, PTL DEF ServicesSpec, CodeSpec

(* The same of the cache of the embedding client.                           *)
THEOREM ServicesRunCache == ServicesSpec => EmbedSpec
<1>1. ServicesInit => EmbedInit
  BY DEF ServicesInit
<1> QED BY <1>1, ServiceSteps, PTL DEF ServicesSpec, EmbedSpec

(* The same of package_audit_runtime.py.                                    *)
THEOREM ServicesRunPackage == ServicesSpec => PackageSpec
<1>1. ServicesInit => PackageInit
  BY DEF ServicesInit
<1> QED BY <1>1, ServiceSteps, PTL DEF ServicesSpec, PackageSpec

(* The same of orchestrator_agent.py.                                       *)
THEOREM ServicesRunOrchestrator == ServicesSpec => OrchestratorSpec
<1>1. ServicesInit => OrchestratorInit
  BY DEF ServicesInit
<1> QED BY <1>1, ServiceSteps, PTL DEF ServicesSpec, OrchestratorSpec

(* Every service keeps its types beside the others, and the focus stays.    *)
THEOREM ServicesTypes == ServicesSpec => []ServicesTypeOK
<1>1. ServicesSpec => [](focus \in Components)
  <2>1. ServicesInit => focus \in Components
    BY DEF ServicesInit
  <2>2. focus \in Components /\ [ServicesNext]_servicesVars => (focus \in Components)'
    BY DEF ServicesNext, servicesVars
  <2> QED BY <2>1, <2>2, PTL DEF ServicesSpec
<1>2. /\ focus \in Components
      /\ SummaryTypeOK /\ EmbeddingTypeOK /\ EmbedTypeOK /\ BridgeTypeOK
      /\ CodeTypeOK /\ ViolationTypeOK /\ WorkTypeOK /\ PackageTypeOK
      /\ OrchestratorTypeOK
      => ServicesTypeOK
  BY DEF ServicesTypeOK
<1>3. ServicesSpec => []SummaryTypeOK /\ []EmbeddingTypeOK /\ []EmbedTypeOK
  BY ServicesRunSummary, SummaryTypes, ServicesRunEmbedding, EmbeddingTypes,
     ServicesRunCache, CacheTypes, PTL
<1>4. ServicesSpec => []BridgeTypeOK /\ []CodeTypeOK /\ []ViolationTypeOK
  BY ServicesRunBridge, BridgeTypes, ServicesRunCode, CodeTypes,
     ServicesRunViolations, ViolationShapes, PTL
<1>5. ServicesSpec => []WorkTypeOK /\ []PackageTypeOK /\ []OrchestratorTypeOK
  BY ServicesRunWork, WorkTypes, ServicesRunPackage, PackageTypes,
     ServicesRunOrchestrator, OrchestratorTypes, PTL
<1> QED BY <1>1, <1>2, <1>3, <1>4, <1>5, PTL

(* What the run of the services checks on a small instance, for every value *)
(* of the constants: the counter and the jobs of the summary worker, the     *)
(* indexes and hashes of the graph, the cache, tools that run once, symbols  *)
(* of the text on disk, one live node per finding, the lineage of decisions, *)
(* audits and batches that leave no file out.                                *)
THEOREM ServicesAreSound ==
  ServicesSpec => [](/\ JoinCounter /\ PendingHasJob /\ IndexAccounted
                     /\ HashMeansEmbedding /\ CacheIsRecent /\ CallsRunOnce
                     /\ StagedIsFresh /\ OneLiveNode /\ SupersededHasSuccessor
                     /\ AuditedOnce /\ ReportIsWhole)
<1>1. ServicesSpec => [](JoinCounter /\ PendingHasJob /\ IndexAccounted /\ HashMeansEmbedding)
  BY ServicesRunSummary, SummaryJoinCounter, PendingIsQueued,
     ServicesRunEmbedding, IndexesAccounted, StoredHash, PTL
<1>2. ServicesSpec => [](CacheIsRecent /\ CallsRunOnce /\ StagedIsFresh)
  BY ServicesRunCache, CacheKeepsRecent, ServicesRunBridge, ToolRunsOnce,
     ServicesRunCode, WatcherLosesNothing, PTL
<1>3. ServicesSpec => [](OneLiveNode /\ SupersededHasSuccessor)
  BY ServicesRunViolations, FindingIsOneNode, ServicesRunWork, LineageTheorem, PTL
<1>4. ServicesSpec => [](AuditedOnce /\ ReportIsWhole)
  BY ServicesRunPackage, AuditsAreWhole, ServicesRunOrchestrator, ReportsAreWhole, PTL
<1> QED BY <1>1, <1>2, <1>3, <1>4, PTL

(* A worker that stopped in the composition had no job left, as alone.       *)
THEOREM ServicesDrain == ServicesSpec => DrainedStop
  BY ServicesRunSummary, StopDrains

(* "re-opened with a new record linked to the original" (violations.py), in   *)
(* the composition of the services.                                          *)
THEOREM ServicesKeepResolved == ServicesSpec => ResolvedStays
  BY ServicesRunViolations, ResolvedForGood
=============================================================================
