---------------------------- MODULE Orchestrator ----------------------------
(***************************************************************************)
(* The orchestrator agent (agents/orchestrator_agent.py).  One set of      *)
(* dependencies, OrchestratorDependencies, is shared by two drivers:       *)
(* run_orchestrator_batches, which lists the files and gives them to the   *)
(* sub-agent batch by batch, and a model that calls process_batch and      *)
(* finalize as tools, several process_batch calls at a time if it likes.   *)
(* A batch that times out or raises is recorded as failed and adds nothing *)
(* to the aggregate; what another adds depends on the sub-agent's name.    *)
(* The output of a sub-agent is modelled by the files it was asked about.  *)
(***************************************************************************)
EXTENDS Integers, FiniteSets, Sequences, SequencesExt, Listing

CONSTANTS
    TreeFiles,     \* the source files, numbered in the order of their names
    BatchSizes,    \* the values of batch_size a caller passes
    ToolCalls,     \* process_batch calls that may overlap
    MaxResults     \* bound on the batches of a model-driven run

ASSUME OrchestratorAssumption ==
    /\ TreeFiles \subseteq Nat /\ IsFiniteSet(TreeFiles)
    /\ BatchSizes \subseteq Int /\ BatchSizes # {}
    /\ IsFiniteSet(ToolCalls) /\ ToolCalls # {}
    /\ MaxResults \in Nat

VARIABLES
    merging,        \* what _merge_into_aggregate does for the subagent_name
    batchSize,      \* batch_size of the dependencies
    driver,         \* who drives the batches, or how the last run ended
    batches,        \* the batches of run_orchestrator_batches
    batchCalls,     \* per call, the batch it works on
    batchResults,   \* deps.batch_results
    aggregate,      \* deps.aggregate: the outputs merged so far
    report          \* what the run under way, or the last one, returned

orchestratorVars == <<merging, batchSize, driver, batches, batchCalls, batchResults,
                      aggregate, report>>

NoCall == [open |-> FALSE, index |-> 0, files |-> <<>>]
NoReport == [total |-> 0, failed |-> 0, results |-> <<>>, aggregate |-> <<>>]

(* audit, map and decision extend lists; a project helper answers with a     *)
(* payload of the same keys for each batch, and update() keeps the last;    *)
(* the reports of security_audit, bug_audit and smell_audit match no branch. *)
Mergings == {"listed", "keyed", "ignored"}

(* _merge_into_aggregate of the output of a batch that did not fail.       *)
Merge(outputs, files) ==
    CASE merging = "listed"  -> Append(outputs, files)
      [] merging = "keyed"   -> <<files>>
      [] merging = "ignored" -> outputs

FailedAmong(results) == Cardinality({i \in DOMAIN results : results[i].failed})

(* The outputs of the batches that did not fail, in order, and what of them *)
(* the aggregate has.                                                      *)
OutputsOf(results) == LET good == Sorted({i \in DOMAIN results : ~ results[i].failed})
                      IN  [i \in DOMAIN good |-> results[good[i]].files]
Kept(outputs) ==
    CASE merging = "listed"  -> outputs
      [] merging = "keyed"   -> IF outputs = <<>> THEN <<>> ELSE <<Last(outputs)>>
      [] merging = "ignored" -> <<>>

OrchestratorTypeOK ==
    /\ merging \in Mergings
    /\ batchSize \in BatchSizes
    /\ driver \in {"idle", "python", "model", "reported", "finalized", "stopped"}
    /\ \A i \in DOMAIN batches : batches[i] \in Seq(TreeFiles)
    /\ \A c \in ToolCalls : /\ batchCalls[c].open \in BOOLEAN
                            /\ batchCalls[c].index \in Nat
                            /\ batchCalls[c].files \in Seq(TreeFiles)
    /\ \A i \in DOMAIN batchResults : batchResults[i].failed \in BOOLEAN
    /\ \A i \in DOMAIN aggregate : aggregate[i] \in Seq(TreeFiles)
    /\ report.total \in Nat

OrchestratorInit ==
    /\ merging \in Mergings
    /\ batchSize = CHOOSE size \in BatchSizes : TRUE
    /\ driver = "idle"
    /\ batches = <<>>
    /\ batchCalls = [c \in ToolCalls |-> NoCall]
    /\ batchResults = <<>>
    /\ aggregate = <<>>
    /\ report = NoReport

(* A size below one counts as one.                                         *)
SplitBatches(paths, size) == Slices(paths, IF size < 1 THEN 1 ELSE size)

(* finalize and the end of run_orchestrator_batches: the counts are taken  *)
(* from the recorded results.                                              *)
ReportNow ==
    report' = [total |-> Len(FlattenSeq([i \in DOMAIN batchResults |-> batchResults[i].files])),
               failed |-> FailedAmong(batchResults),
               results |-> batchResults,
               aggregate |-> aggregate]

-----------------------------------------------------------------------------
Idle == driver \in {"idle", "reported", "finalized", "stopped"}

(* Mutant: only the results of the run before are cleared.                 *)
RunBatches_mutantKeeps(files, size) ==
    /\ Idle /\ \A c \in ToolCalls : ~ batchCalls[c].open
    /\ driver' = "python"
    /\ batchSize' = size
    /\ batches' = SplitBatches(Sorted(files), size)
    /\ batchResults' = <<>>
    /\ report' = NoReport
    /\ UNCHANGED <<merging, batchCalls, aggregate>>

(* The files under package_path are listed once, at the start; what an     *)
(* earlier run left in the dependencies is cleared.  The runs on one set   *)
(* of dependencies do not overlap: an agent's run ends after its last tool *)
(* call.                                                                   *)
RunBatches(files, size) ==
    /\ Idle /\ \A c \in ToolCalls : ~ batchCalls[c].open
    /\ driver' = "python"
    /\ batchSize' = size
    /\ batches' = SplitBatches(Sorted(files), size)
    /\ batchResults' = <<>>
    /\ aggregate' = <<>>
    /\ report' = NoReport
    /\ UNCHANGED <<merging, batchCalls>>

(* The model starts on the dependencies as they are.                       *)
RunModel(size) ==
    /\ driver = "idle"
    /\ driver' = "model"
    /\ batchSize' = size
    /\ UNCHANGED <<merging, batches, batchCalls, batchResults,
                   aggregate, report>>

OpenCall(c, index, files) ==
    /\ ~ batchCalls[c].open
    /\ batchCalls' = [batchCalls EXCEPT ![c] =
                        [open |-> TRUE, index |-> index, files |-> files]]
    /\ UNCHANGED <<merging, batchSize, driver, batches, batchResults, aggregate, report>>

(* One batch at a time, in order.                                          *)
NextBatch(c) ==
    /\ driver = "python"
    /\ \A d \in ToolCalls : ~ batchCalls[d].open
    /\ Len(batchResults) < Len(batches)
    /\ OpenCall(c, Len(batchResults), batches[Len(batchResults) + 1])

(* process_batch takes its index before it waits for files and sub-agent:  *)
(* overlapping calls take the same one.  More than batch_size files are    *)
(* refused.                                                                *)
ProcessBatch(c, files) ==
    /\ driver = "model"
    /\ Cardinality(files) <= batchSize
    /\ Len(batchResults) + Cardinality({d \in ToolCalls : batchCalls[d].open}) < MaxResults
    /\ OpenCall(c, Len(batchResults), Sorted(files))

(* The sub-agent answers (failed = FALSE), or raises or runs into the      *)
(* timeout; the result is recorded and merged without a wait in between.   *)
EndBatch(c, failed) ==
    /\ driver \in {"python", "model", "finalized"}
    /\ batchCalls[c].open
    /\ batchResults' = Append(batchResults,
            [index |-> batchCalls[c].index, files |-> batchCalls[c].files, failed |-> failed])
    /\ aggregate' = IF failed THEN aggregate ELSE Merge(aggregate, batchCalls[c].files)
    /\ batchCalls' = [batchCalls EXCEPT ![c] = NoCall]
    /\ UNCHANGED <<merging, batchSize, driver, batches, report>>

RunReports ==
    /\ driver = "python"
    /\ \A c \in ToolCalls : ~ batchCalls[c].open
    /\ Len(batchResults) = Len(batches)
    /\ ReportNow
    /\ driver' = "reported"
    /\ UNCHANGED <<merging, batchSize, batches, batchCalls, batchResults, aggregate>>

(* Nothing makes finalize wait for the batches under way.                  *)
Finalize ==
    /\ driver = "model"
    /\ ReportNow
    /\ driver' = "finalized"
    /\ UNCHANGED <<merging, batchSize, batches, batchCalls, batchResults, aggregate>>

(* The job is cancelled, or its progress callback raises: what was done    *)
(* stays in the dependencies, the calls under way are gone.                *)
StopRun ==
    /\ driver \in {"python", "model"}
    /\ driver' = "stopped"
    /\ batchCalls' = [c \in ToolCalls |-> NoCall]
    /\ UNCHANGED <<merging, batchSize, batches, batchResults, aggregate, report>>

OrchestratorNext ==
    \/ \E size \in BatchSizes :
          \/ \E files \in SUBSET TreeFiles : RunBatches(files, size)
          \/ RunModel(size)
    \/ RunReports \/ Finalize \/ StopRun
    \/ \E c \in ToolCalls :
          \/ NextBatch(c)
          \/ \E files \in SUBSET TreeFiles : ProcessBatch(c, files)
          \/ \E failed \in BOOLEAN : EndBatch(c, failed)

OrchestratorSpec == OrchestratorInit /\ [][OrchestratorNext]_orchestratorVars

-----------------------------------------------------------------------------
(***************************************************************************)
(* A report of run_orchestrator_batches is about its own run only: its     *)
(* batches are the listing it started from, whole, in order and numbered   *)
(* from zero, whatever an earlier run left behind, failed or aborted. Its  *)
(* aggregate is made of the outputs of its batches that did not fail: for  *)
(* audit, map and decision all of them, in order; for a project helper the *)
(* last one; for the three named audits, whose findings no report has,     *)
(* nothing.                                                                *)
(***************************************************************************)
ReportIsWhole ==
    driver = "reported" =>
        /\ [i \in DOMAIN report.results |-> report.results[i].files] = batches
        /\ \A i \in DOMAIN report.results : report.results[i].index = i - 1
        /\ report.aggregate = Kept(OutputsOf(report.results))
        /\ report.failed = Len(report.results) - Len(OutputsOf(report.results))
        /\ report.total = Cardinality(UNION {ToSet(batches[i]) : i \in DOMAIN batches})
=============================================================================
