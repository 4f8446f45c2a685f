----------------------------- MODULE ViolationRecords -----------------------------
(***************************************************************************)
(* Violation nodes: the writer that follows an audit                         *)
(* (src/mem_graph/services/audit/violation_writer.py, which creates nodes    *)
(* through services/graph/graph_writer_service.py) and the tools of          *)
(* tools/work/violations.py.                                                 *)
(*                                                                          *)
(* The writer does not await: a run of it is not interrupted, and is a few   *)
(* steps here only to take its findings one by one. The tools await an       *)
(* embedding before they write. Every statement commits by itself, so an     *)
(* exception leaves what was written before it.                              *)
(***************************************************************************)
EXTENDS Integers, FiniteSets, Sequences

CONSTANTS
  Projects,       \* project ids callers name
  Known,          \* those that have a node
  Fingerprints,   \* of findings
  NoFingerprint,  \* tools store none
  Nowhere,        \* no project
  Askers,         \* calls of the tools that may be in progress at once
  MaxViolations,  \* bound: violation nodes
  MaxSightings    \* bound: audits that report one node

ASSUME ViolationAssumption ==
  /\ Known \subseteq Projects
  /\ NoFingerprint \notin Fingerprints /\ Nowhere \notin Projects
  /\ MaxViolations \in Nat /\ MaxSightings \in Nat \ {0}

VARIABLES
  violations,  \* the nodes, in the order they were created
  recurs,      \* VIOLATION_RECURS: <<original, new>>
  audit,       \* the project of the writer's run, and run_seen
  asking       \* what each tool call writes when its embedding is there

violationVars == <<violations, recurs, audit, asking>>

Ids == 1 .. Len(violations)
Live == {"open", "recurrence"}

Violation(status, fingerprint, project) ==
  [status |-> status, fingerprint |-> fingerprint, project |-> project,
   sightings |-> IF fingerprint = NoFingerprint THEN 0 ELSE 1]

NoAudit == [project |-> Nowhere, seen |-> {}]
Silent == [tool |-> "none", project |-> Nowhere, original |-> 0]

ViolationInit ==
  /\ violations = <<>>
  /\ recurs = {}
  /\ audit = NoAudit
  /\ asking = [a \in Askers |-> Silent]

(* CREATE, then MATCH the project and CREATE the relation. The second finds    *)
(* nothing without a project node, and may raise.                            *)
Create(status, fingerprint, project) ==
  /\ Len(violations) < MaxViolations
  /\ \E linked \in {project, Nowhere} :
       /\ linked \in Known \cup {Nowhere}
       /\ violations' = Append(violations, Violation(status, fingerprint, linked))

---------------------------------------------------------------------------
(* write_violations. *)

StartAudit(p) ==
  /\ audit = NoAudit
  /\ audit' = [project |-> p, seen |-> {}]
  /\ UNCHANGED <<violations, recurs, asking>>

(* An exception ends a run early; _maybe_persist reports it. *)
EndAudit ==
  /\ audit # NoAudit
  /\ audit' = NoAudit
  /\ UNCHANGED <<violations, recurs, asking>>

(* Mutant: only open nodes are looked for.                                   *)
FindByFingerprint_mutantOpen(p, f) ==
  {v \in Ids : /\ violations[v].project = p
               /\ violations[v].fingerprint = f
               /\ violations[v].status = "open"}

(* Mutant: the status is not looked at.                                      *)
FindByFingerprint_mutantAny(p, f) ==
  {v \in Ids : violations[v].project = p /\ violations[v].fingerprint = f}

FindByFingerprint(p, f) ==
  {v \in Ids : /\ violations[v].project = p
               /\ violations[v].fingerprint = f
               /\ violations[v].status \in Live}

MarkRecurrence(v) ==
  /\ violations[v].sightings < MaxSightings
  /\ violations' = [violations EXCEPT ![v].status = "recurrence", ![v].sightings = @ + 1]

(* A fingerprint that this run has seen is skipped. *)
WriteFinding(f) ==
  /\ audit # NoAudit
  /\ f \notin audit.seen
  /\ audit' = [audit EXCEPT !.seen = @ \cup {f}]
  /\ LET existing == FindByFingerprint(audit.project, f) IN
     IF existing # {}
     THEN \E v \in existing : MarkRecurrence(v)
     ELSE Create("open", f, audit.project)
  /\ UNCHANGED <<recurs, asking>>

---------------------------------------------------------------------------
(* The tools. *)

AskRecord(a, p) ==
  /\ audit = NoAudit
  /\ asking[a] = Silent
  /\ asking' = [asking EXCEPT ![a] = [tool |-> "record", project |-> p, original |-> 0]]
  /\ UNCHANGED <<violations, recurs, audit>>

(* violation_recur reads the original first; an unknown id ends the call. *)
AskRecur(a, v) ==
  /\ audit = NoAudit
  /\ asking[a] = Silent
  /\ asking' = [asking EXCEPT ![a] = [tool |-> "recur", project |-> Nowhere, original |-> v]]
  /\ UNCHANGED <<violations, recurs, audit>>

GiveUp(a) ==
  /\ audit = NoAudit
  /\ asking[a] # Silent
  /\ asking' = [asking EXCEPT ![a] = Silent]
  /\ UNCHANGED <<violations, recurs, audit>>

Record(a) ==
  /\ audit = NoAudit
  /\ asking[a].tool = "record"
  /\ asking' = [asking EXCEPT ![a] = Silent]
  /\ Create("open", NoFingerprint, asking[a].project)
  /\ UNCHANGED <<recurs, audit>>

(* The node, the relation to the original, and the original's project. *)
Recur(a) ==
  LET original == asking[a].original IN
  /\ audit = NoAudit
  /\ asking[a].tool = "recur"
  /\ asking' = [asking EXCEPT ![a] = Silent]
  /\ Create("recurrence", NoFingerprint, violations[original].project)
  /\ \/ recurs' = recurs \cup {<<original, Len(violations')>>}
     \/ violations'[Len(violations')].project = Nowhere /\ UNCHANGED recurs
  /\ UNCHANGED audit

Resolve(v) ==
  /\ audit = NoAudit
  /\ violations' = [violations EXCEPT ![v].status = "resolved"]
  /\ UNCHANGED <<recurs, audit, asking>>

ViolationNext ==
  \/ \E p \in Projects : StartAudit(p)
  \/ EndAudit
  \/ \E f \in Fingerprints : WriteFinding(f)
  \/ \E a \in Askers :
       \/ \E p \in Projects : AskRecord(a, p)
       \/ \E v \in Ids : AskRecur(a, v)
       \/ GiveUp(a) \/ Record(a) \/ Recur(a)
  \/ \E v \in Ids : Resolve(v)

ViolationSpec == ViolationInit /\ [][ViolationNext]_violationVars

---------------------------------------------------------------------------
ViolationTypeOK ==
  /\ violations \in Seq([status : Live \cup {"resolved"},
                         fingerprint : Fingerprints \cup {NoFingerprint},
                         project : Known \cup {Nowhere},
                         sightings : 0 .. MaxSightings])
  /\ Len(violations) <= MaxViolations
  /\ recurs \subseteq Ids \X Ids
  /\ audit \in [project : Projects \cup {Nowhere}, seen : SUBSET Fingerprints]
  /\ asking \in [Askers -> [tool : {"none", "record", "recur"},
                            project : Projects \cup {Nowhere}, original : 0 .. MaxViolations]]

(* A finding is one live node of its project, over any number of audits and    *)
(* whatever the tools do in between: the writer either finds the node of the *)
(* fingerprint or there is none. Nodes without a project are not counted.    *)
OneLiveNode ==
  \A p \in Known, f \in Fingerprints :
    Cardinality({v \in Ids : /\ violations[v].status # "resolved"
                             /\ violations[v].project = p
                             /\ violations[v].fingerprint = f}) <= 1

(* "re-opened with a new record linked to the original" (violations.py): no    *)
(* audit and no tool brings a resolved node back to life.                    *)
ResolvedStays ==
  [][\A v \in Ids : violations[v].status = "resolved"
                      => violations'[v].status = "resolved"]_violationVars
=================================================================================
