---------------------------- MODULE PackageAudit ----------------------------
(***************************************************************************)
(* The package audit (workflows/runtime/package_audit_runtime.py): a graph *)
(* of four nodes that lists the files of each package, cuts each list into *)
(* chunks, hands the chunks one after the other to the audit agent and     *)
(* counts what it did.  The agent's answer is not kept: _analyze_chunk     *)
(* reads a field `violations' that the agent's AuditReport does not have,  *)
(* so a chunk adds no finding, answered or failed.  Packages may be nested *)
(* in one another; their lists then share files.                           *)
(*                                                                         *)
(* Restriction: file_extensions is one extension, as the default [".py"]   *)
(* that every caller in the repository leaves in place.  With several,     *)
(* _discover_package_files sorts the files of each extension by themselves *)
(* and lists a file under each extension it ends in; that is not modelled. *)
(***************************************************************************)
EXTENDS Integers, FiniteSets, Sequences, SequencesExt, Listing

CONSTANTS
    Packages,    \* the package paths of the request
    PackageFiles,     \* the files under them, numbered in the order of their names
    ChunkSizes   \* the values of chunk_size a caller passes

ASSUME PackageAssumption ==
    /\ IsFiniteSet(Packages) /\ IsFiniteSet(PackageFiles)
    /\ PackageFiles \subseteq Nat
    /\ ChunkSizes \subseteq Int /\ ChunkSizes # {}

VARIABLES
    listing,      \* per package, the files in scope on disk
    chunkSize,    \* chunk_size, fixed for the run
    node,         \* the node of the graph that runs next, or how it ended
    container,    \* the workflow sandbox of a run that executes agents
    discovered,   \* discovered_files: per package with files, their list
    chunks,       \* per such package, its list cut up
    analysed,     \* per such package, the chunks handed to the agent so far
    processed,    \* total_chunks_processed
    auditReport   \* totals of the final report

packageVars == <<listing, chunkSize, node, container, discovered, chunks,
                 analysed, processed, auditReport>>

GraphNodes == {"discover", "chunk", "analyze", "aggregate"}
NoTotals == [packages |-> 0, files |-> 0, chunks |-> 0]

PackageTypeOK ==
    /\ listing \in [Packages -> SUBSET PackageFiles]
    /\ chunkSize \in ChunkSizes
    /\ node \in GraphNodes \cup {"idle", "reported", "failed"}
    /\ container \in {"none", "open", "finalized", "aborted"}
    /\ DOMAIN discovered \subseteq Packages
    /\ \A p \in DOMAIN discovered : discovered[p] \in Seq(listing[p])
    /\ DOMAIN chunks \subseteq DOMAIN discovered
    /\ DOMAIN analysed = DOMAIN chunks
    /\ processed \in Nat
    /\ DOMAIN auditReport = DOMAIN NoTotals

PackageInit ==
    /\ listing = [p \in Packages |-> {}]
    /\ chunkSize = CHOOSE size \in ChunkSizes : TRUE
    /\ node = "idle"
    /\ container = "none"
    /\ discovered = <<>> /\ chunks = <<>> /\ analysed = <<>>
    /\ processed = 0
    /\ auditReport = NoTotals

(* Mutant: only whole chunks are made.                                     *)
ChunkFiles_mutantWhole(files, size) ==
    [k \in 1 .. (IF size > 0 THEN Len(files) \div size ELSE 0) |->
        SubSeq(files, (k - 1) * size + 1, k * size)]

(***************************************************************************)
(* [files[i : i + size] for i in range(0, len(files), size)]: nothing for  *)
(* a negative size.  A size of 0 raises, see Chunk.                        *)
(***************************************************************************)
ChunkFiles(files, size) == IF size > 0 THEN Slices(files, size) ELSE <<>>

-----------------------------------------------------------------------------
(* A request for some packages and a chunk size.  ensure_workflow_sandbox  *)
(* only when it executes agents, and it may answer that there is none.     *)
StartAudits ==
    /\ node = "idle"
    /\ listing' \in [Packages -> SUBSET PackageFiles]
    /\ chunkSize' \in ChunkSizes
    /\ container' \in {"none", "open"}
    /\ node' = "discover"
    /\ UNCHANGED <<discovered, chunks, analysed, processed, auditReport>>

(* The files of the one extension, sorted, without those excluded, which   *)
(* `listing' leaves out.  A package without files is left out of all that  *)
(* follows.                                                                *)
Discover ==
    /\ node = "discover"
    /\ discovered' = [p \in {q \in Packages : listing[q] # {}} |->
                        Sorted(listing[p])]
    /\ node' = "chunk"
    /\ UNCHANGED <<listing, chunkSize, container, chunks, analysed, processed,
                   auditReport>>

Chunk ==
    /\ node = "chunk"
    /\ chunkSize # 0 \/ DOMAIN discovered = {}
    /\ chunks' = [p \in DOMAIN discovered |-> ChunkFiles(discovered[p], chunkSize)]
    /\ analysed' = [p \in DOMAIN discovered |-> <<>>]
    /\ node' = "analyze"
    /\ UNCHANGED <<listing, chunkSize, container, discovered, processed, auditReport>>

(* The package whose chunks are being handed out: one is finished before   *)
(* the next, in an order that nothing else depends on.                     *)
Current(p) ==
    /\ p \in DOMAIN chunks
    /\ Len(analysed[p]) < Len(chunks[p])
    /\ \A q \in DOMAIN chunks \ {p} : analysed[q] # <<>> => analysed[q] = chunks[q]

(* One chunk: a failing agent counts like one that answered.               *)
Analyze(p) ==
    /\ node = "analyze"
    /\ Current(p)
    /\ analysed' = [analysed EXCEPT ![p] = Append(@, chunks[p][Len(@) + 1])]
    /\ processed' = processed + 1
    /\ UNCHANGED <<listing, chunkSize, node, container, discovered, chunks, auditReport>>

Analyzed ==
    /\ node = "analyze"
    /\ \A p \in DOMAIN chunks : ~ Current(p)
    /\ node' = "aggregate"
    /\ UNCHANGED <<listing, chunkSize, container, discovered, chunks, analysed,
                   processed, auditReport>>

(* The end of the graph; its finally hands the sandbox back, unvalidated.  *)
Aggregate ==
    /\ node = "aggregate"
    /\ auditReport' = [packages |-> Cardinality(DOMAIN chunks),
                       files |-> TotalLen([p \in DOMAIN chunks |-> discovered[p]]),
                       chunks |-> processed]
    /\ node' = "reported"
    /\ container' = IF container = "open" THEN "finalized" ELSE container
    /\ UNCHANGED <<listing, chunkSize, discovered, chunks, analysed, processed>>

(* range() refuses a step of 0: the sandbox is aborted, then finalized.    *)
ChunkRaises ==
    /\ node = "chunk"
    /\ chunkSize = 0 /\ DOMAIN discovered # {}
    /\ node' = "failed"
    /\ container' = IF container = "open" THEN "aborted" ELSE container
    /\ UNCHANGED <<listing, chunkSize, discovered, chunks, analysed, processed,
                   auditReport>>

(* A cancelled request leaves through finally only.                        *)
CancelAudit ==
    /\ node = "analyze"
    /\ \E p \in DOMAIN chunks : Current(p)
    /\ node' = "failed"
    /\ container' = IF container = "open" THEN "finalized" ELSE container
    /\ UNCHANGED <<listing, chunkSize, discovered, chunks, analysed, processed,
                   auditReport>>

PackageNext ==
    \/ StartAudits \/ Discover \/ Chunk \/ ChunkRaises
    \/ \E p \in Packages : Analyze(p)
    \/ Analyzed \/ CancelAudit \/ Aggregate

PackageSpec == PackageInit /\ [][PackageNext]_packageVars

-----------------------------------------------------------------------------
(***************************************************************************)
(* For every chunk size above zero, a reported audit handed every file of  *)
(* every package to the agent exactly once, in order and never more than   *)
(* chunk_size at a time, and the totals of its report are those of the     *)
(* chunks it handed out.                                                   *)
(***************************************************************************)
AuditedOnce ==
    node = "reported" /\ chunkSize > 0 =>
        /\ \A p \in Packages :
              listing[p] # {} =>
                 /\ p \in DOMAIN analysed
                 /\ FlattenSeq(analysed[p]) = Sorted(listing[p])
                 /\ \A k \in DOMAIN analysed[p] : Len(analysed[p][k]) \in 1 .. chunkSize
        /\ auditReport.files =
              Cardinality({pf \in Packages \X PackageFiles : pf[2] \in listing[pf[1]]})
        /\ auditReport.chunks = TotalLen(analysed)
=============================================================================
