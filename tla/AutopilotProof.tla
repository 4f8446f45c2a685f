----------------------------- MODULE AutopilotProof -----------------------------
(***************************************************************************)
(* Proofs about Autopilot, the two workflow graphs on one host tree, for   *)
(* every number of runs, files, workers and retries.                        *)
(***************************************************************************)
EXTENDS Autopilot, TLAPS

USE SandboxAssumption, ManagedAssumption, AutopilotAssumption DEF calls

(* The inductive invariant, run by run. The session is made by the first step, and
   swept or executed in only once it is made.                                  *)
Untouched(r) ==
  /\ pc[r] = "idle" => session[r] = "none"
  /\ session[r] = "none" => ~sweeping[r] /\ start[r] = "none"

(* A run in its graph has not been merged, skipped or aborted. *)
Undecided(r) == pc[r] \in {"idle"} \cup Stages => merge[r] = ""

(* A guard that rejects the last draft lets it go: an autopilot in its graph has
   a retry left.                                                               *)
RetryLeft(r) ==
  r \in AutopilotRuns /\ pc[r] \in {"idle"} \cup Stages => retries[r] < MaxRetries[r]

(* Behind the audit loop of a managed run nothing blocks only if the audit was
   stored after the last implementation, with findings only if no retry is left. *)
AuditStored(r) ==
  r \in ManagedRuns /\ pc[r] \in {"documentation", "context_map"}
    => blocked[r] \/ ManagedValidated(r)

(* MergedWasValidated and SessionGivenUp of one run. *)
Validated(r) ==
  pc[r] = "copying" \/ merge[r] = "merged"
    => IF r \in ManagedRuns THEN ManagedValidated(r) ELSE approved[r]

GivenUp(r) ==
  pc[r] \in {"returned", "raised"} /\ merge[r] # "conflict" /\ start[r] # "late"
    => session[r] \in {"none", "terminated", "failed"} \/ sweeping[r]

(* While a run copies, each file of its plan is as conflict detection left it, or
   the developer wrote it since.                                               *)
Free(r, f) ==
  host[f] = repo[r][f] \/ author[f] = Developer \/ repo[r][f] = Absent \/ host[f] = Absent
Planned(r) == pc[r] = "copying" => \A f \in plan[r] : Free(r, f)

RunInv(r) ==
  /\ Untouched(r) /\ Undecided(r) /\ RetryLeft(r) /\ AuditStored(r)
  /\ Validated(r) /\ GivenUp(r) /\ Planned(r)

(* merge_back has the event loop for itself. *)
OneCopies == \A q, r \in Runs : pc[q] = "copying" /\ pc[r] = "copying" => q = r

IInv == TypeOK /\ OneCopies /\ \A r \in Runs : RunInv(r)

---------------------------------------------------------------------------------
(* The steps that actions share *)

(* Where a session may be *)
Statuses == {"none", "created", "active", "terminating", "terminated", "failed"}

(* A step of the session of run r: the trees of the others stay. *)
SessionOnly(r) ==
  /\ session' \in [Runs -> Statuses]
  /\ repo' \in [Runs -> Tree] /\ workspace' \in [Runs -> Tree]
  /\ removed' \in [Runs -> BOOLEAN]
  /\ \A q \in Runs \ {r} : session'[q] = session[q] /\ repo'[q] = repo[q]

(* The end of a stop leaves the session ended, and all others as they were. *)
LEMMA CleanUpFacts ==
  ASSUME TypeOK, NEW r \in Runs, CleanUp(r)
  PROVE  SessionOnly(r) /\ session'[r] \in {"terminated", "failed"}
<1>1. NoTree \in Tree
  BY DEF NoTree, Tree
<1>2. /\ repo \in [Runs -> Tree] /\ workspace \in [Runs -> Tree]
      /\ session \in [Runs -> Statuses] /\ removed \in [Runs -> BOOLEAN]
  BY DEF TypeOK, SandboxTypeOK, Statuses
<1>3. /\ session' \in [Runs -> Statuses] /\ session'[r] \in {"terminated", "failed"}
      /\ \A q \in Runs \ {r} : session'[q] = session[q]
  BY <1>2 DEF CleanUp, Put, Statuses
<1>4. CASE UNCHANGED <<repo, workspace, removed>>
  BY <1>2, <1>3, <1>4 DEF SessionOnly
<1>5. CASE AllRemoved(r)
  BY <1>1, <1>2, <1>3, <1>5 DEF AllRemoved, Put, SessionOnly
<1>6. CASE PartRemoved(r)
  <2>1. PICK s, w \in Tree : repo' = Put(repo, r, s) /\ workspace' = Put(workspace, r, w)
    BY <1>6 DEF PartRemoved
  <2>2. removed' = removed \/ removed' = Put(removed, r, TRUE)
    BY <1>6 DEF PartRemoved
  <2> QED BY <1>2, <1>3, <2>1, <2>2 DEF Put, SessionOnly
<1> QED BY <1>4, <1>5, <1>6 DEF CleanUp

(* The same of a stop that may have failed. *)
LEMMA StoppedFacts ==
  ASSUME TypeOK, NEW r \in Runs, Stopped(r)
  PROVE  SessionOnly(r) /\ session'[r] \in {"terminated", "failed"}
<1>1. CASE CleanUp(r)
  BY <1>1, CleanUpFacts
<1>2. CASE session' = Put(session, r, "failed") /\ UNCHANGED <<repo, workspace, removed>>
  BY <1>2 DEF Put, SessionOnly, TypeOK, SandboxTypeOK, Statuses
<1> QED BY <1>1, <1>2 DEF Stopped

(* destroy_session either waits for the container or has given the session up. *)
LEMMA DestroyFacts ==
  ASSUME TypeOK, NEW r \in Runs, NEW waits, NEW next, Destroy(r, waits, next)
  PROVE  /\ SessionOnly(r) /\ session'[r] # "none"
         /\ \/ pc' = [pc EXCEPT ![r] = waits]
            \/ pc' = [pc EXCEPT ![r] = next] /\ session'[r] \in {"terminated", "failed"}
<1>1. CASE session[r] = "terminated" /\ pc' = Put(pc, r, next) /\ UNCHANGED <<session, repo, workspace, removed>>
  BY <1>1 DEF Put, SessionOnly, TypeOK, SandboxTypeOK, Statuses
<1>2. CASE /\ session' = Put(session, r, "terminating")
           /\ pc' = Put(pc, r, waits)
           /\ UNCHANGED <<repo, workspace, removed>>
  BY <1>2 DEF Put, SessionOnly, TypeOK, SandboxTypeOK, Statuses
<1>3. CASE CleanUp(r) /\ pc' = Put(pc, r, next)
  BY <1>3, CleanUpFacts DEF Put
<1> QED BY <1>1, <1>2, <1>3 DEF Destroy

(* finalize_workflow_sandbox: it copies what nothing on the host contradicts, or
   ends with a conflict, or destroys the session.                              *)
LEMMA FinalizeFacts ==
  ASSUME TypeOK, NEW r \in Runs, NEW passed \in BOOLEAN, Finalize(r, passed)
  PROVE  /\ SessionOnly(r)
         /\ UNCHANGED <<host, calls, sweeping, moves, history>>
         /\ plan' \in [Runs -> SUBSET Files] /\ \A q \in Runs \ {r} : plan'[q] = plan[q]
         /\ \E p, m : /\ pc' = [pc EXCEPT ![r] = p] /\ merge' = [merge EXCEPT ![r] = m]
                      /\ \/ /\ passed /\ p = "copying" /\ m = merge[r] /\ UNCHANGED <<repo, session>>
                            /\ \A f \in plan'[r] : Free(r, f)
                         \/ p = "returned" /\ m = "conflict" /\ session' = session
                         \/ p = "stopping" /\ m = "skipped" /\ session'[r] # "none"
                         \/ /\ p = "returned" /\ m = "skipped"
                            /\ session'[r] \in {"terminated", "failed"}
<1>0. /\ plan \in [Runs -> SUBSET Files] /\ pc \in [Runs -> {"idle"} \cup Stages \cup Teardown \cup Ended]
      /\ merge \in [Runs -> {"", "skipped", "merged", "conflict", "aborted"}]
      /\ repo \in [Runs -> Tree] /\ workspace \in [Runs -> Tree] /\ session \in [Runs -> Statuses]
      /\ removed \in [Runs -> BOOLEAN]
  BY DEF TypeOK, SandboxTypeOK, Statuses
<1>1. UNCHANGED <<host, calls, sweeping, moves, history>>
  BY DEF Finalize
<1>2. CASE /\ passed /\ Conflicts(r) = {}
           /\ plan' = Put(plan, r, Changed(r))
           /\ pc' = Put(pc, r, "copying")
           /\ UNCHANGED <<session, repo, workspace, removed, merge>>
  <2>1. plan' = [plan EXCEPT ![r] = Changed(r)] /\ Changed(r) \subseteq Files
    BY <1>2 DEF Put, Changed
  <2>2. \A f \in Changed(r) : Free(r, f)
    BY <1>2 DEF Conflicts, Free, Changed
  <2>3. SessionOnly(r)
    BY <1>0, <1>2 DEF SessionOnly
  <2>4. plan' \in [Runs -> SUBSET Files] /\ \A q \in Runs \ {r} : plan'[q] = plan[q]
    BY <1>0, <2>1
  <2>5. /\ pc' = [pc EXCEPT ![r] = "copying"] /\ merge' = [merge EXCEPT ![r] = merge[r]]
        /\ passed /\ UNCHANGED <<repo, session>> /\ \A f \in plan'[r] : Free(r, f)
    BY <1>0, <1>2, <2>1, <2>2 DEF Put
  <2> QED BY <1>1, <2>3, <2>4, <2>5
<1>3. CASE /\ merge' = Put(merge, r, "conflict")
           /\ pc' = Put(pc, r, "returned")
           /\ UNCHANGED <<session, repo, workspace, removed, plan>>
  BY <1>0, <1>1, <1>3 DEF Put, SessionOnly
<1>4. CASE /\ merge' = Put(merge, r, "skipped")
           /\ Destroy(r, "stopping", "returned")
           /\ UNCHANGED plan
  BY <1>0, <1>1, <1>4, DestroyFacts DEF Put
<1> QED BY <1>2, <1>3, <1>4 DEF Finalize

(* What the invariant says of a run that no step touches. *)
Others(r) ==
  \A q \in Runs \ {r} :
    /\ pc'[q] = pc[q] /\ session'[q] = session[q] /\ repo'[q] = repo[q]
    /\ merge'[q] = merge[q] /\ plan'[q] = plan[q] /\ sweeping'[q] = sweeping[q]
    /\ start'[q] = start[q] /\ flagged'[q] = flagged[q]
    /\ retries'[q] = retries[q] /\ blocked'[q] = blocked[q] /\ audited'[q] = audited[q]
    /\ approved'[q] = approved[q]

(* A step of one run that keeps what the invariant says of it keeps the invariant,
   if it starts or ends a copy only while no other run copies.                 *)
LEMMA OneRun ==
  ASSUME IInv, NEW r \in Runs, TypeOK', RunInv(r)', Others(r),
         UNCHANGED <<host, author>> \/ pc[r] = "copying",
         pc'[r] = "copying" => pc[r] = "copying" \/ LoopFree
  PROVE  IInv'
<1>1. ASSUME NEW q \in Runs, q # r
      PROVE  RunInv(q)'
  <2>1. RunInv(q) /\ q \in Runs \ {r}
    BY <1>1 DEF IInv
  <2>2. /\ pc'[q] = pc[q] /\ session'[q] = session[q] /\ repo'[q] = repo[q]
        /\ merge'[q] = merge[q] /\ plan'[q] = plan[q] /\ sweeping'[q] = sweeping[q]
        /\ start'[q] = start[q] /\ flagged'[q] = flagged[q]
        /\ retries'[q] = retries[q] /\ blocked'[q] = blocked[q] /\ audited'[q] = audited[q]
        /\ approved'[q] = approved[q]
    BY <2>1 DEF Others
  <2>3. Untouched(q)' /\ Undecided(q)' /\ RetryLeft(q)' /\ AuditStored(q)' /\ GivenUp(q)'
    BY <2>1, <2>2 DEF RunInv, Untouched, Undecided, RetryLeft, AuditStored, ManagedValidated, GivenUp
  <2>4. Validated(q)'
    BY <2>1, <2>2 DEF RunInv, Validated, ManagedValidated
  <2>5. Planned(q)'
    <3>1. CASE UNCHANGED <<host, author>>
      BY <2>1, <2>2, <3>1 DEF RunInv, Planned, Free
    <3>2. CASE pc[r] = "copying"
      BY <1>1, <2>2, <3>2 DEF IInv, OneCopies, Planned
    <3> QED BY <3>1, <3>2
  <2> QED BY <2>3, <2>4, <2>5 DEF RunInv
<1>2. OneCopies'
  <2> SUFFICES ASSUME NEW p \in Runs, NEW q \in Runs, pc'[p] = "copying", pc'[q] = "copying", p # q
               PROVE  FALSE
    BY DEF OneCopies
  <2>1. \A t \in Runs \ {r} : pc'[t] = pc[t]
    BY DEF Others
  <2> QED BY <2>1 DEF IInv, OneCopies, LoopFree
<1> QED BY <1>1, <1>2 DEF IInv

---------------------------------------------------------------------------------
(* The steps of the event loop and of other processes *)

Graphs == <<retries, managedVars, autopilotVars>>

(* A developer's edit makes the developer the file's author. *)
LEMMA DeveloperKeeps ==
  ASSUME IInv, DeveloperWrites, UNCHANGED Graphs
  PROVE  IInv'
<1>1. PICK f \in Files, c \in Contents \cup {Absent} :
        host' = [host EXCEPT ![f] = c] /\ author' = [author EXCEPT ![f] = Developer]
  BY DEF DeveloperWrites, Put
<1>2. /\ UNCHANGED <<repo, workspace, session, calls, removed, sweeping, pc, plan, merge, written>>
      /\ moves' = moves + 1 /\ moves < MaxMoves
  BY DEF DeveloperWrites, Move
<1>3. host \in Tree /\ author \in [Files -> Runs \cup {Developer}] /\ moves \in 0..MaxMoves
  BY DEF IInv, TypeOK, SandboxTypeOK
<1>4. host' \in Tree /\ author' \in [Files -> Runs \cup {Developer}] /\ moves' \in 0..MaxMoves
  BY <1>1, <1>2, <1>3 DEF Tree
<1>5. TypeOK'
  BY <1>2, <1>4 DEF IInv, TypeOK, SandboxTypeOK, ManagedTypeOK, Graphs, managedVars, autopilotVars
<1>6. ASSUME NEW r \in Runs
      PROVE  RunInv(r)'
  <2>1. RunInv(r)
    BY DEF IInv
  <2>2. plan[r] \subseteq Files
    BY DEF IInv, TypeOK, SandboxTypeOK
  <2>3. Planned(r)'
    BY <1>1, <1>2, <1>3, <2>1, <2>2 DEF RunInv, Planned, Free, Tree
  <2>4. Untouched(r)' /\ Undecided(r)' /\ RetryLeft(r)' /\ AuditStored(r)' /\ GivenUp(r)'
    BY <1>2, <2>1 DEF RunInv, Untouched, Undecided, RetryLeft, AuditStored, ManagedValidated, GivenUp, Graphs, managedVars
  <2>5. Validated(r)'
    BY <1>2, <2>1 DEF RunInv, Validated, ManagedValidated, Graphs, managedVars, autopilotVars
  <2> QED BY <2>1, <2>3, <2>4, <2>5 DEF RunInv
<1>7. OneCopies'
  BY <1>2 DEF IInv, OneCopies
<1> QED BY <1>5, <1>6, <1>7 DEF IInv

(* A step of run_in_session for the session of run r *)
CallStep(r) == StartBegins(r) \/ ComposeUp(r) \/ StartEnds(r) \/ ExecKilled(r)

(* Calls into the sandbox and sweeps leave the runs where they are. *)
LEMMA SessionKeeps ==
  ASSUME IInv, NEW r \in Runs, UNCHANGED Graphs,
         CallStep(r) \/ SandboxWrites(r) \/ Sweep(r) \/ SweepReturns(r)
  PROVE  IInv'
<1>0. /\ repo \in [Runs -> Tree] /\ workspace \in [Runs -> Tree] /\ session \in [Runs -> Statuses]
      /\ container \in [Runs -> BOOLEAN] /\ sweeping \in [Runs -> BOOLEAN]
      /\ moves \in 0..MaxMoves /\ written \in [Runs -> SUBSET Files]
      /\ start \in [Runs -> Starts] /\ removed \in [Runs -> BOOLEAN]
  BY DEF IInv, TypeOK, SandboxTypeOK, Statuses
<1>1. UNCHANGED <<host, pc, plan, merge, author>>
  BY DEF CallStep, StartBegins, ComposeUp, StartEnds, ExecKilled, SandboxWrites, Sweep,
     SweepReturns, trees, history
<1>2. moves' \in 0..MaxMoves
  <2>1. moves' = moves \/ Move
    BY DEF CallStep, StartBegins, ComposeUp, StartEnds, StartFails, StartSucceeds, StartCancelled,
       ExecKilled, SandboxWrites, Sweep, SweepReturns
  <2> QED BY <1>0, <2>1 DEF Move
<1>3. /\ SessionOnly(r)
      /\ container' \in [Runs -> BOOLEAN] /\ sweeping' \in [Runs -> BOOLEAN]
      /\ written' \in [Runs -> SUBSET Files] /\ start' \in [Runs -> Starts]
      /\ \A q \in Runs \ {r} : sweeping'[q] = sweeping[q] /\ start'[q] = start[q]
      /\ pc[r] = "copying" => repo'[r] = repo[r]
      /\ session[r] = "none" => session'[r] = "none"
      /\ session'[r] = "none" => session[r] = "none" /\ sweeping' = sweeping /\ start' = start
      /\ start[r] = "late" => start'[r] = "late"
      /\ \/ start'[r] = "late"
         \/ session[r] \notin {"none", "terminated", "failed"} /\ sweeping' = sweeping
         \/ session'[r] = session[r] /\ sweeping' = sweeping
         \/ session'[r] \in {"terminated", "failed"} \/ sweeping'[r]
  <2>1. CASE CallStep(r)
    <3>1. UNCHANGED <<repo, workspace, removed, sweeping, written>>
      BY <2>1 DEF CallStep, StartBegins, ComposeUp, StartEnds, ExecKilled, trees, history
    <3>2. session[r] # "none"
      BY <2>1 DEF CallStep, StartBegins, ComposeUp, StartEnds, ExecKilled, IInv, RunInv, Untouched
    <3>3. /\ \E x \in Starts : start' = [start EXCEPT ![r] = x]
          /\ \E x \in Statuses \ {"none"} : session' = [session EXCEPT ![r] = x]
          /\ container' \in [Runs -> BOOLEAN]
          /\ start[r] = "late" => start'[r] = "late"
          /\ start'[r] = "late" \/ session[r] = "created" \/ session' = session
             \/ session'[r] = "failed"
      <4>1. CASE StartBegins(r) \/ ComposeUp(r)
        <5>1. session' = [session EXCEPT ![r] = session[r]] /\ session[r] \in Statuses \ {"none"}
          BY <1>0, <3>2, <4>1 DEF StartBegins, ComposeUp, trees
        <5>2. \E x \in Starts : start' = [start EXCEPT ![r] = x]
          <6>1. CASE StartBegins(r)
            BY <6>1 DEF StartBegins, Put, Starts
          <6>2. CASE ComposeUp(r)
            <7>1. start' = [start EXCEPT ![r] = "awaited"]
              BY <1>0, <6>2 DEF ComposeUp
            <7> QED BY <7>1 DEF Starts
          <6> QED BY <4>1, <6>1, <6>2
        <5> QED BY <1>0, <4>1, <5>1, <5>2 DEF StartBegins, ComposeUp, Put
      <4>2. CASE StartEnds(r)
        <5>1. start[r] = "awaited" /\ container' = container
          BY <4>2 DEF StartEnds
        <5>2. CASE StartFails(r)
          BY <1>0, <5>1, <5>2 DEF StartFails, Put, Starts, Statuses
        <5>3. CASE StartSucceeds(r)
          BY <1>0, <5>1, <5>3 DEF StartSucceeds, Put, Starts, Statuses
        <5>4. CASE StartCancelled(r)
          <6>1. session' = [session EXCEPT ![r] = session[r]]
            BY <1>0, <5>4 DEF StartCancelled
          <6> QED BY <1>0, <3>2, <5>1, <5>4, <6>1 DEF StartCancelled, Put, Starts
        <5> QED BY <4>2, <5>2, <5>3, <5>4 DEF StartEnds
      <4>3. CASE ExecKilled(r)
        <5>1. start' = [start EXCEPT ![r] = start[r]] /\ start[r] \in Starts
          BY <1>0, <4>3 DEF ExecKilled
        <5> QED BY <1>0, <4>3, <5>1 DEF ExecKilled, Put, Statuses
      <4> QED BY <2>1, <4>1, <4>2, <4>3 DEF CallStep
    <3>4. PICK x \in Starts : start' = [start EXCEPT ![r] = x]
      BY <3>3
    <3>5. PICK y \in Statuses \ {"none"} : session' = [session EXCEPT ![r] = y]
      BY <3>3
    <3>6. /\ start' \in [Runs -> Starts] /\ \A q \in Runs \ {r} : start'[q] = start[q]
      BY <1>0, <3>4
    <3>7. /\ session' \in [Runs -> Statuses] /\ session'[r] # "none"
          /\ \A q \in Runs \ {r} : session'[q] = session[q]
      BY <1>0, <3>5
    <3>8. SessionOnly(r)
      BY <1>0, <3>1, <3>7 DEF SessionOnly
    <3> QED BY <1>0, <3>1, <3>2, <3>3, <3>6, <3>7, <3>8
  <2>2. CASE SandboxWrites(r)
    <3>1. PICK f \in Files, c \in Contents \cup {Absent} :
            workspace' = [workspace EXCEPT ![r][f] = c] /\ written' = Put(written, r, written[r] \cup {f})
      BY <2>2 DEF SandboxWrites
    <3>2. workspace' = [workspace EXCEPT ![r] = [workspace[r] EXCEPT ![f] = c]]
      BY <3>1
    <3>3. workspace[r] \in Tree
      BY <1>0
    <3>4. [workspace[r] EXCEPT ![f] = c] \in Tree
      BY <3>3 DEF Tree
    <3>5. workspace' \in [Runs -> Tree] /\ written' \in [Runs -> SUBSET Files]
      BY <1>0, <3>1, <3>2, <3>4 DEF Put
    <3> QED BY <1>0, <2>2, <3>5 DEF SandboxWrites, SessionOnly
  <2>3. CASE Sweep(r)
    <3>1. UNCHANGED <<host, calls, pc, plan, merge, history>> /\ session[r] # "none"
          /\ pc[r] # "copying"
      BY <2>3 DEF Sweep, LoopFree
    <3>2. CASE /\ sweeping' = Put(sweeping, r, TRUE)
               /\ session' = Put(session, r, "terminating")
               /\ UNCHANGED <<repo, workspace, removed>>
      BY <1>0, <3>1, <3>2 DEF Put, SessionOnly, Statuses, history
    <3>3. CASE CleanUp(r) /\ UNCHANGED sweeping
      BY <1>0, <3>1, <3>3, CleanUpFacts DEF IInv, history
    <3> QED BY <2>3, <3>2, <3>3 DEF Sweep
  <2>4. CASE SweepReturns(r)
    <3>1. /\ UNCHANGED <<host, calls, pc, plan, merge, moves, history>>
          /\ sweeping' = [sweeping EXCEPT ![r] = FALSE] /\ Stopped(r) /\ pc[r] # "copying"
          /\ sweeping[r]
      BY <2>4 DEF SweepReturns, LoopFree, Put
    <3>2. SessionOnly(r) /\ session'[r] \in {"terminated", "failed"}
      BY <3>1, StoppedFacts DEF IInv
    <3>3. sweeping' \in [Runs -> BOOLEAN] /\ \A q \in Runs \ {r} : sweeping'[q] = sweeping[q]
      BY <1>0, <3>1
    <3>4. session[r] # "none"
      BY <3>1 DEF IInv, RunInv, Untouched
    <3> QED BY <1>0, <3>1, <3>2, <3>3, <3>4 DEF history
  <2> QED BY <2>1, <2>2, <2>3, <2>4
<1>4. UNCHANGED <<retries, blocked, flagged, audited, working, approved>>
  BY DEF Graphs, managedVars, autopilotVars
<1>5. TypeOK'
  BY <1>1, <1>2, <1>3, <1>4 DEF IInv, TypeOK, SandboxTypeOK, ManagedTypeOK, SessionOnly, Statuses
<1>6. RunInv(r)'
  <2>1. RunInv(r)
    BY DEF IInv
  <2>2. Planned(r)'
    BY <1>1, <1>3, <2>1 DEF RunInv, Planned, Free
  <2>3. Undecided(r)' /\ RetryLeft(r)' /\ AuditStored(r)' /\ Validated(r)'
    BY <1>1, <1>4, <2>1 DEF RunInv, Undecided, RetryLeft, AuditStored, Validated, ManagedValidated
  <2>4. Untouched(r)' /\ GivenUp(r)'
    BY <1>1, <1>3, <2>1 DEF RunInv, Untouched, GivenUp
  <2> QED BY <2>2, <2>3, <2>4 DEF RunInv
<1>7. Others(r)
  BY <1>1, <1>3, <1>4 DEF Others, SessionOnly
<1> QED BY <1>1, <1>5, <1>6, <1>7, OneRun

(* The end of the wait for a container ends the run and gives the session up. *)
LEMMA DestroyReturnsKeeps ==
  ASSUME IInv, NEW r \in Runs, UNCHANGED Graphs, DestroyReturns(r)
  PROVE  IInv'
<1>1. /\ UNCHANGED <<host, calls, sweeping, plan, merge, moves, history>>
      /\ LoopFree /\ pc[r] \in {"stopping", "aborting"} /\ Stopped(r)
  BY DEF DestroyReturns
<1>2. SessionOnly(r) /\ session'[r] \in {"terminated", "failed"}
  BY <1>1, StoppedFacts DEF IInv
<1>3. PICK p \in {"returned", "raised"} : pc' = [pc EXCEPT ![r] = p]
  BY DEF DestroyReturns, Put
<1>4. UNCHANGED <<retries, blocked, flagged, audited, working, approved>>
  BY DEF Graphs, managedVars, autopilotVars
<1>5. pc \in [Runs -> {"idle"} \cup Stages \cup Teardown \cup Ended]
  BY DEF IInv, TypeOK, SandboxTypeOK
<1>6. /\ pc' \in [Runs -> {"idle"} \cup Stages \cup Teardown \cup Ended]
      /\ pc'[r] = p /\ \A q \in Runs \ {r} : pc'[q] = pc[q]
  BY <1>3, <1>5 DEF Ended
<1>7. TypeOK'
  BY <1>1, <1>2, <1>4, <1>6
  DEF IInv, TypeOK, SandboxTypeOK, ManagedTypeOK, SessionOnly, Statuses, history
<1>8. RunInv(r)'
  <2>1. RunInv(r)
    BY DEF IInv
  <2>2. Planned(r)' /\ Undecided(r)' /\ RetryLeft(r)' /\ AuditStored(r)' /\ Untouched(r)'
    BY <1>2, <1>6 DEF Planned, Undecided, RetryLeft, AuditStored, ManagedValidated, Untouched, Stages
  <2>3. Validated(r)'
    BY <1>1, <1>4, <1>6, <2>1 DEF RunInv, Validated, ManagedValidated
  <2>4. GivenUp(r)'
    BY <1>2 DEF GivenUp
  <2> QED BY <2>2, <2>3, <2>4 DEF RunInv
<1>9. Others(r)
  BY <1>1, <1>2, <1>4, <1>6 DEF Others, SessionOnly
<1> QED BY <1>1, <1>7, <1>8, <1>9, OneRun DEF history

(* A cancelled run leaves everything but its place as it was. *)
LEMMA CancelKeeps ==
  ASSUME IInv, NEW r \in Runs, UNCHANGED Graphs, Cancel(r)
  PROVE  IInv'
<1>1. /\ UNCHANGED <<host, repo, workspace, session, calls, removed, sweeping, plan, merge, author, written>>
      /\ LoopFree /\ pc' = [pc EXCEPT ![r] = "cancelled"] /\ moves < MaxMoves /\ moves' = moves + 1
  BY DEF Cancel, Put, Move, trees, history
<1>2. UNCHANGED <<retries, blocked, flagged, audited, working, approved>>
  BY DEF Graphs, managedVars, autopilotVars
<1>3. pc \in [Runs -> {"idle"} \cup Stages \cup Teardown \cup Ended] /\ moves \in 0..MaxMoves
  BY DEF IInv, TypeOK, SandboxTypeOK
<1>4. /\ pc' \in [Runs -> {"idle"} \cup Stages \cup Teardown \cup Ended]
      /\ pc'[r] = "cancelled" /\ \A q \in Runs \ {r} : pc'[q] = pc[q]
      /\ moves' \in 0..MaxMoves
  BY <1>1, <1>3 DEF Ended
<1>5. TypeOK'
  BY <1>1, <1>2, <1>4 DEF IInv, TypeOK, SandboxTypeOK, ManagedTypeOK
<1>6. RunInv(r)'
  <2>1. RunInv(r) /\ pc[r] # "idle"
    BY DEF IInv, Cancel, Stages
  <2>2. /\ Planned(r)' /\ Undecided(r)' /\ RetryLeft(r)' /\ AuditStored(r)' /\ Untouched(r)'
        /\ GivenUp(r)'
    BY <1>1, <1>4, <2>1 DEF RunInv, Planned, Undecided, RetryLeft, AuditStored, ManagedValidated, Untouched, Stages, GivenUp
  <2>3. Validated(r)'
    BY <1>1, <1>2, <1>4, <2>1 DEF RunInv, Validated, ManagedValidated
  <2> QED BY <2>2, <2>3 DEF RunInv
<1>7. Others(r)
  BY <1>1, <1>2, <1>4 DEF Others
<1> QED BY <1>1, <1>5, <1>6, <1>7, OneRun

---------------------------------------------------------------------------------
(* The copies of merge-back *)

(* A run that copies was validated; what it copies stays in its tree of files. *)
LEMMA CopyKeeps ==
  ASSUME IInv, NEW r \in Runs, UNCHANGED Graphs, Copy(r)
  PROVE  IInv'
<1>1. /\ pc[r] = "copying" /\ UNCHANGED <<calls, sweeping, moves, written>>
      /\ plan' = [plan EXCEPT ![r] = {}]
  BY DEF Copy, Put
<1>2. PICK fs \in SUBSET plan[r] :
        /\ host' = HostWith(r, fs) /\ author' = AuthorWith(r, fs)
        /\ \/ merge' = Put(merge, r, "merged") /\ Destroy(r, "stopping", "returned")
           \/ /\ merge' = Put(merge, r, "conflict") /\ pc' = Put(pc, r, "returned")
              /\ UNCHANGED <<session, repo, workspace, removed>>
  BY DEF Copy
<1>3. /\ host \in Tree /\ workspace[r] \in Tree /\ author \in [Files -> Runs \cup {Developer}]
      /\ pc \in [Runs -> {"idle"} \cup Stages \cup Teardown \cup Ended]
      /\ merge \in [Runs -> {"", "skipped", "merged", "conflict", "aborted"}]
      /\ plan \in [Runs -> SUBSET Files]
      /\ session \in [Runs -> Statuses] /\ repo \in [Runs -> Tree] /\ workspace \in [Runs -> Tree]
      /\ removed \in [Runs -> BOOLEAN]
  BY DEF IInv, TypeOK, SandboxTypeOK, Statuses
<1>4. UNCHANGED <<retries, blocked, flagged, audited, working, approved>>
  BY DEF Graphs, managedVars, autopilotVars
<1>5. host' \in Tree /\ author' \in [Files -> Runs \cup {Developer}]
  BY <1>2, <1>3 DEF HostWith, AuthorWith, Tree
<1>6. /\ SessionOnly(r)
      /\ pc' \in [Runs -> {"idle"} \cup Stages \cup Teardown \cup Ended]
      /\ merge' \in [Runs -> {"", "skipped", "merged", "conflict", "aborted"}]
      /\ \A q \in Runs \ {r} : pc'[q] = pc[q] /\ merge'[q] = merge[q]
      /\ \/ merge'[r] = "conflict" /\ pc'[r] = "returned" /\ session' = session
         \/ pc'[r] = "stopping" /\ session'[r] # "none"
         \/ pc'[r] = "returned" /\ session'[r] \in {"terminated", "failed"}
  <2>1. CASE merge' = Put(merge, r, "merged") /\ Destroy(r, "stopping", "returned")
    <3>1. /\ SessionOnly(r) /\ session'[r] # "none"
          /\ \/ pc' = [pc EXCEPT ![r] = "stopping"]
             \/ pc' = [pc EXCEPT ![r] = "returned"] /\ session'[r] \in {"terminated", "failed"}
      BY <2>1, DestroyFacts DEF IInv
    <3> QED BY <1>3, <2>1, <3>1 DEF Put, Teardown, Ended
  <2>2. CASE /\ merge' = Put(merge, r, "conflict") /\ pc' = Put(pc, r, "returned")
             /\ UNCHANGED <<session, repo, workspace, removed>>
    BY <1>3, <2>2 DEF Put, Ended, SessionOnly
  <2> QED BY <1>2, <2>1, <2>2
<1>7. plan' \in [Runs -> SUBSET Files] /\ \A q \in Runs \ {r} : plan'[q] = plan[q]
  BY <1>1, <1>3
<1>8. TypeOK'
  BY <1>1, <1>4, <1>5, <1>6, <1>7 DEF IInv, TypeOK, SandboxTypeOK, ManagedTypeOK, SessionOnly, Statuses
<1>9. RunInv(r)'
  <2>1. RunInv(r)
    BY DEF IInv
  <2>2. Planned(r)' /\ Undecided(r)' /\ RetryLeft(r)' /\ AuditStored(r)'
    BY <1>6 DEF Planned, Undecided, RetryLeft, AuditStored, ManagedValidated, Stages
  <2>3. Validated(r)'
    BY <1>1, <1>4, <2>1 DEF RunInv, Validated, ManagedValidated
  <2>4. GivenUp(r)'
    BY <1>6 DEF GivenUp
  <2>5. Untouched(r)'
    BY <1>1, <1>6, <2>1 DEF RunInv, Untouched
  <2> QED BY <2>2, <2>3, <2>4, <2>5 DEF RunInv
<1>10. Others(r)
  BY <1>1, <1>4, <1>6, <1>7 DEF Others, SessionOnly
<1> QED BY <1>1, <1>8, <1>9, <1>10, OneRun

---------------------------------------------------------------------------------
(* The steps of the graphs *)

(* What the graphs keep beside the sandbox: nodes write only their own run's. *)
Bookkept(r) ==
  /\ ManagedTypeOK' /\ working' \in [Runs -> 0..MaxWorkers] /\ approved' \in [Runs -> BOOLEAN]
  /\ \A q \in Runs \ {r} :
       /\ retries'[q] = retries[q] /\ blocked'[q] = blocked[q] /\ flagged'[q] = flagged[q]
       /\ audited'[q] = audited[q] /\ approved'[q] = approved[q]

(* The start of a run takes the snapshot, or raises and leaves no session. *)
LEMMA EnsureKeeps ==
  ASSUME IInv, NEW r \in Runs, NEW first \in Stages \ {"documentation", "context_map"},
         Ensure(r, first), UNCHANGED Graphs
  PROVE  IInv'
<1>1. /\ UNCHANGED <<host, calls, removed, sweeping, plan, merge, moves, history>>
      /\ LoopFree /\ pc[r] = "idle"
  BY DEF Ensure
<1>2. UNCHANGED <<retries, blocked, flagged, audited, working, approved>>
  BY DEF Graphs, managedVars, autopilotVars
<1>3. /\ host \in Tree /\ repo \in [Runs -> Tree] /\ workspace \in [Runs -> Tree]
      /\ session \in [Runs -> Statuses] /\ removed \in [Runs -> BOOLEAN]
      /\ pc \in [Runs -> {"idle"} \cup Stages \cup Teardown \cup Ended]
  BY DEF IInv, TypeOK, SandboxTypeOK, Statuses
<1>4. /\ SessionOnly(r)
      /\ pc' \in [Runs -> {"idle"} \cup Stages \cup Teardown \cup Ended]
      /\ \A q \in Runs \ {r} : pc'[q] = pc[q]
      /\ \/ pc'[r] = first /\ session'[r] = "created"
         \/ pc'[r] = "raised" /\ session' = session
  BY <1>1, <1>3 DEF Ensure, Put, SessionOnly, Statuses, Ended
<1>5. TypeOK'
  BY <1>1, <1>2, <1>4 DEF IInv, TypeOK, SandboxTypeOK, ManagedTypeOK, SessionOnly, Statuses, history
<1>6. RunInv(r)'
  <2>1. RunInv(r) /\ session[r] = "none" /\ merge[r] = ""
    BY <1>1 DEF IInv, RunInv, Untouched, Undecided
  <2>2. pc'[r] \notin {"idle", "copying", "documentation", "context_map"}
    BY <1>4 DEF Stages
  <2>3. Planned(r)' /\ Undecided(r)' /\ AuditStored(r)' /\ Validated(r)'
    BY <1>1, <2>1, <2>2 DEF Planned, Undecided, AuditStored, ManagedValidated, Validated
  <2>4. Untouched(r)' /\ RetryLeft(r)' /\ GivenUp(r)'
    BY <1>1, <1>2, <1>4, <2>1, <2>2 DEF RunInv, Untouched, RetryLeft, GivenUp, Stages
  <2> QED BY <2>3, <2>4 DEF RunInv
<1>7. Others(r)
  BY <1>1, <1>2, <1>4 DEF Others, SessionOnly
<1> QED BY <1>1, <1>5, <1>6, <1>7, OneRun DEF history

(* A node that goes on to another node. *)
LEMMA GotoKeeps ==
  ASSUME IInv, NEW r \in Runs, NEW stage \in Stages, LoopFree, pc[r] \in Stages,
         Goto(r, stage), Bookkept(r), RetryLeft(r)', AuditStored(r)'
  PROVE  IInv'
<1>1. /\ UNCHANGED <<host, repo, workspace, session, calls, removed, sweeping, plan, merge, moves, author, written>>
      /\ pc' = [pc EXCEPT ![r] = stage]
  BY DEF Goto, Put, trees, history
<1>2. pc \in [Runs -> {"idle"} \cup Stages \cup Teardown \cup Ended]
  BY DEF IInv, TypeOK, SandboxTypeOK
<1>3. /\ pc' \in [Runs -> {"idle"} \cup Stages \cup Teardown \cup Ended] /\ pc'[r] = stage
      /\ \A q \in Runs \ {r} : pc'[q] = pc[q]
  BY <1>1, <1>2
<1>4. TypeOK'
  BY <1>1, <1>3 DEF IInv, TypeOK, SandboxTypeOK, Bookkept
<1>5. RunInv(r)'
  <2>1. RunInv(r)
    BY DEF IInv
  <2>2. Untouched(r)' /\ Undecided(r)' /\ GivenUp(r)'
    BY <1>1, <1>3, <2>1 DEF RunInv, Untouched, Undecided, GivenUp, Stages
  <2>3. Planned(r)' /\ Validated(r)'
    BY <1>1, <1>3, <2>1 DEF RunInv, Undecided, Planned, Validated, Stages
  <2> QED BY <2>2, <2>3 DEF RunInv
<1>6. Others(r)
  BY <1>1, <1>3 DEF Others, Bookkept
<1> QED BY <1>1, <1>4, <1>5, <1>6, OneRun

(* The last node hands the run to finalize with what it found. *)
LEMMA FinalizeKeeps ==
  ASSUME IInv, NEW r \in Runs, NEW passed \in BOOLEAN, LoopFree, pc[r] \in Stages,
         Finalize(r, passed), Bookkept(r),
         passed => IF r \in ManagedRuns THEN ManagedValidated(r)' ELSE approved'[r]
  PROVE  IInv'
<1>1. /\ SessionOnly(r)
      /\ UNCHANGED <<host, calls, sweeping, moves, history>>
      /\ plan' \in [Runs -> SUBSET Files] /\ \A q \in Runs \ {r} : plan'[q] = plan[q]
  BY FinalizeFacts DEF IInv
<1>2. PICK p, m :
         /\ pc' = [pc EXCEPT ![r] = p] /\ merge' = [merge EXCEPT ![r] = m]
         /\ \/ /\ passed /\ p = "copying" /\ m = merge[r] /\ UNCHANGED <<repo, session>>
               /\ \A f \in plan'[r] : Free(r, f)
            \/ p = "returned" /\ m = "conflict" /\ session' = session
            \/ p = "stopping" /\ m = "skipped" /\ session'[r] # "none"
            \/ /\ p = "returned" /\ m = "skipped"
               /\ session'[r] \in {"terminated", "failed"}
  BY FinalizeFacts DEF IInv
<1>3. /\ pc \in [Runs -> {"idle"} \cup Stages \cup Teardown \cup Ended]
      /\ merge \in [Runs -> {"", "skipped", "merged", "conflict", "aborted"}]
  BY DEF IInv, TypeOK, SandboxTypeOK
<1>4. /\ pc' \in [Runs -> {"idle"} \cup Stages \cup Teardown \cup Ended] /\ pc'[r] = p
      /\ merge' \in [Runs -> {"", "skipped", "merged", "conflict", "aborted"}] /\ merge'[r] = m
      /\ \A q \in Runs \ {r} : pc'[q] = pc[q] /\ merge'[q] = merge[q]
      /\ p \in {"copying", "returned", "stopping"}
  BY <1>2, <1>3 DEF Teardown, Ended
<1>5. TypeOK'
  BY <1>1, <1>4 DEF IInv, TypeOK, SandboxTypeOK, Bookkept, SessionOnly, Statuses, history
<1>6. RunInv(r)'
  <2>1. RunInv(r)
    BY DEF IInv
  <2>2. Undecided(r)' /\ RetryLeft(r)' /\ AuditStored(r)'
    BY <1>4 DEF Undecided, RetryLeft, AuditStored, ManagedValidated, Stages
  <2>3. Untouched(r)' /\ GivenUp(r)'
    BY <1>1, <1>2, <1>4, <2>1 DEF RunInv, Untouched, GivenUp, Stages
  <2>4. Planned(r)'
    BY <1>1, <1>2, <1>4 DEF Planned, Free, history
  <2>5. Validated(r)'
    BY <1>2, <1>4 DEF Validated
  <2> QED BY <2>2, <2>3, <2>4, <2>5 DEF RunInv
<1>7. Others(r)
  BY <1>1, <1>4 DEF Others, Bookkept, SessionOnly
<1> QED BY <1>1, <1>5, <1>6, <1>7, OneRun DEF history

(* A graph that raises gives the session up. *)
LEMMA AbortKeeps ==
  ASSUME IInv, NEW r \in Runs, LoopFree, pc[r] \in Stages, Abort(r), Bookkept(r)
  PROVE  IInv'
<1>1. /\ UNCHANGED <<host, calls, sweeping, plan, moves, history>>
      /\ merge' = [merge EXCEPT ![r] = "aborted"] /\ Destroy(r, "aborting", "raised")
  BY DEF Abort, Put
<1>2. /\ SessionOnly(r) /\ session'[r] # "none"
      /\ \/ pc' = [pc EXCEPT ![r] = "aborting"]
         \/ pc' = [pc EXCEPT ![r] = "raised"] /\ session'[r] \in {"terminated", "failed"}
  BY <1>1, DestroyFacts DEF IInv
<1>3. /\ pc \in [Runs -> {"idle"} \cup Stages \cup Teardown \cup Ended]
      /\ merge \in [Runs -> {"", "skipped", "merged", "conflict", "aborted"}]
  BY DEF IInv, TypeOK, SandboxTypeOK
<1>4. /\ pc' \in [Runs -> {"idle"} \cup Stages \cup Teardown \cup Ended]
      /\ merge' \in [Runs -> {"", "skipped", "merged", "conflict", "aborted"}]
      /\ merge'[r] = "aborted"
      /\ \A q \in Runs \ {r} : pc'[q] = pc[q] /\ merge'[q] = merge[q]
      /\ pc'[r] = "aborting" \/ (pc'[r] = "raised" /\ session'[r] \in {"terminated", "failed"})
  BY <1>1, <1>2, <1>3 DEF Teardown, Ended
<1>5. TypeOK'
  BY <1>1, <1>2, <1>4 DEF IInv, TypeOK, SandboxTypeOK, Bookkept, SessionOnly, Statuses, history
<1>6. RunInv(r)'
  <2>1. RunInv(r)
    BY DEF IInv
  <2>2. Planned(r)' /\ Undecided(r)' /\ RetryLeft(r)' /\ AuditStored(r)' /\ Validated(r)'
    BY <1>4 DEF Planned, Undecided, RetryLeft, AuditStored, ManagedValidated, Validated, Stages
  <2>3. Untouched(r)' /\ GivenUp(r)'
    BY <1>1, <1>2, <1>4, <2>1 DEF RunInv, Untouched, GivenUp
  <2> QED BY <2>2, <2>3 DEF RunInv
<1>7. Others(r)
  BY <1>1, <1>2, <1>4 DEF Others, Bookkept, SessionOnly
<1> QED BY <1>1, <1>5, <1>6, <1>7, OneRun DEF history

(* What the type invariant says of the two graphs. *)
LEMMA GraphTypes ==
  ASSUME TypeOK
  PROVE  /\ retries \in [Runs -> Nat] /\ \A r \in Runs : retries[r] <= MaxRetries[r]
         /\ blocked \in [Runs -> BOOLEAN] /\ flagged \in [Runs -> BOOLEAN]
         /\ audited \in [Runs -> BOOLEAN] /\ approved \in [Runs -> BOOLEAN]
         /\ working \in [Runs -> 0..MaxWorkers]
         /\ MaxRetries \in [Runs -> Nat] /\ MaxWorkers \in Nat
BY DEF TypeOK, ManagedTypeOK

(* A node of a managed run that ends with `ok` adds to the blockers. *)
LEMMA AgentEndsFacts ==
  ASSUME TypeOK, NEW r \in Runs, NEW ok \in BOOLEAN, AgentEnds(r, ok)
  PROVE  /\ blocked' \in [Runs -> BOOLEAN] /\ (~blocked'[r] => ~blocked[r] /\ ok)
         /\ \A q \in Runs \ {r} : blocked'[q] = blocked[q]
BY GraphTypes DEF AgentEnds, Put

(* ImplementationNode: a new implementation makes the audit stale. *)
LEMMA ImplementKeeps ==
  ASSUME IInv, NEW r \in Runs, Implement(r), UNCHANGED autopilotVars
  PROVE  IInv'
<1>1. /\ LoopFree /\ r \in ManagedRuns /\ pc[r] = "implementation" /\ Goto(r, "audit")
      /\ UNCHANGED <<retries, flagged, working, approved>>
      /\ audited' = [audited EXCEPT ![r] = FALSE]
  BY DEF Implement, At, autopilotVars, Put
<1>2. TypeOK
  BY DEF IInv
<1>3. PICK ok \in BOOLEAN : AgentEnds(r, ok)
  BY DEF Implement
<1>4. Bookkept(r)
  BY <1>1, <1>2, <1>3, GraphTypes, AgentEndsFacts DEF Bookkept, ManagedTypeOK
<1>5. pc'[r] = "audit"
  BY <1>1, <1>2 DEF Goto, Put, TypeOK, SandboxTypeOK
<1>6. RetryLeft(r)' /\ AuditStored(r)'
  BY <1>1, <1>5, AutopilotRuns = Runs \ ManagedRuns DEF RetryLeft, AuditStored, ManagedValidated, AutopilotRuns
<1> QED BY <1>1, <1>4, <1>6, GotoKeeps DEF Stages

(* AuditNode stores its output or adds a blocker; only then the graph goes on. *)
LEMMA AuditEndsKeeps ==
  ASSUME IInv, NEW r \in Runs, AuditEnds(r), UNCHANGED autopilotVars
  PROVE  IInv'
<1>1. /\ LoopFree /\ r \in ManagedRuns /\ pc[r] = "audit" /\ Route(r)
      /\ UNCHANGED <<working, approved>>
  BY DEF AuditEnds, At, autopilotVars
<1>2. TypeOK
  BY DEF IInv
<1>3. PICK ok, flag \in BOOLEAN :
         /\ AgentEnds(r, ok)
         /\ flagged' = IF ok THEN Put(flagged, r, flag) ELSE flagged
         /\ audited' = Put(audited, r, ok)
  BY DEF AuditEnds
<1>4. /\ blocked' \in [Runs -> BOOLEAN] /\ (~blocked'[r] => ok)
      /\ flagged' \in [Runs -> BOOLEAN]
      /\ audited' \in [Runs -> BOOLEAN] /\ audited'[r] = ok
      /\ \A q \in Runs \ {r} : /\ blocked'[q] = blocked[q] /\ flagged'[q] = flagged[q]
                              /\ audited'[q] = audited[q]
  BY <1>2, <1>3, GraphTypes, AgentEndsFacts DEF Put
<1>5. PICK stage \in {"implementation", "documentation"} :
         /\ Goto(r, stage)
         /\ retries' = retries
            \/ (retries[r] < MaxRetries[r] /\ retries' = [retries EXCEPT ![r] = retries[r] + 1])
         /\ stage = "documentation" /\ flagged'[r] /\ ~blocked'[r]
              => retries' = retries /\ ~(retries[r] < MaxRetries[r])
  BY <1>1 DEF Route, Put
<1>6. /\ retries' \in [Runs -> Nat] /\ \A q \in Runs : retries'[q] <= MaxRetries[q]
      /\ \A q \in Runs \ {r} : retries'[q] = retries[q]
  BY <1>2, <1>5, GraphTypes
<1>7. Bookkept(r)
  BY <1>1, <1>2, <1>4, <1>6, GraphTypes DEF Bookkept, ManagedTypeOK
<1>8. RetryLeft(r)' /\ AuditStored(r)'
  <2>1. pc'[r] = stage
    BY <1>2, <1>5 DEF Goto, Put, TypeOK, SandboxTypeOK
  <2>2. stage = "documentation" /\ flagged'[r] /\ ~blocked'[r] => retries'[r] = MaxRetries[r]
    BY <1>2, <1>5, GraphTypes
  <2>3. AuditStored(r)'
    BY <1>1, <1>4, <1>5, <2>1, <2>2 DEF AuditStored, ManagedValidated
  <2> QED BY <1>1, <2>3 DEF RetryLeft, AutopilotRuns
<1> QED BY <1>1, <1>5, <1>7, <1>8, GotoKeeps DEF Stages

(* DocumentationNode *)
LEMMA DocumentKeeps ==
  ASSUME IInv, NEW r \in Runs, Document(r), UNCHANGED autopilotVars
  PROVE  IInv'
<1>1. /\ LoopFree /\ r \in ManagedRuns /\ pc[r] = "documentation" /\ Goto(r, "context_map")
      /\ UNCHANGED <<retries, flagged, audited, working, approved>>
  BY DEF Document, At, autopilotVars
<1>2. TypeOK /\ AuditStored(r)
  BY DEF IInv, RunInv
<1>3. PICK ok \in BOOLEAN : AgentEnds(r, ok)
  BY DEF Document
<1>4. Bookkept(r)
  BY <1>1, <1>2, <1>3, GraphTypes, AgentEndsFacts DEF Bookkept, ManagedTypeOK
<1>5. RetryLeft(r)'
  BY <1>1 DEF RetryLeft, AutopilotRuns
<1>6. AuditStored(r)'
  BY <1>1, <1>2, <1>3, AgentEndsFacts DEF AuditStored, ManagedValidated
<1> QED BY <1>1, <1>4, <1>5, <1>6, GotoKeeps DEF Stages

(* The last stage hands the run over only with no blocker, hence with an audit. *)
LEMMA MapContextKeeps ==
  ASSUME IInv, NEW r \in Runs, MapContext(r), UNCHANGED autopilotVars
  PROVE  IInv'
<1>1. /\ LoopFree /\ r \in ManagedRuns /\ pc[r] = "context_map"
      /\ UNCHANGED <<retries, flagged, audited, working, approved>>
      /\ Finalize(r, ~blocked'[r])
  BY DEF MapContext, At, autopilotVars
<1>2. TypeOK /\ AuditStored(r)
  BY DEF IInv, RunInv
<1>3. PICK ok \in BOOLEAN : AgentEnds(r, ok)
  BY DEF MapContext
<1>4. Bookkept(r)
  BY <1>1, <1>2, <1>3, GraphTypes, AgentEndsFacts DEF Bookkept, ManagedTypeOK
<1>5. ~blocked'[r] => ManagedValidated(r)'
  BY <1>1, <1>2, <1>3, AgentEndsFacts DEF AuditStored, ManagedValidated
<1>6. (~blocked'[r]) \in BOOLEAN /\ pc[r] \in Stages
  BY <1>1 DEF Stages
<1> QED BY <1>1, <1>4, <1>5, <1>6, FinalizeKeeps

(* SentryNode or GuardNode starts a draft, or goes on to the guard. *)
LEMMA DraftLogicKeeps ==
  ASSUME IInv, NEW r \in Runs, LoopFree, pc[r] \in Stages, DraftLogic(r),
         UNCHANGED managedVars, r \in AutopilotRuns,
         retries' \in [Runs -> Nat], retries'[r] < MaxRetries[r],
         \A q \in Runs \ {r} : retries'[q] = retries[q],
         approved' \in [Runs -> BOOLEAN],
         \A q \in Runs \ {r} : approved'[q] = approved[q]
  PROVE  IInv'
<1>1. TypeOK /\ UNCHANGED <<blocked, flagged, audited>>
  BY DEF IInv, managedVars
<1>2. PICK n \in 0..MaxWorkers :
         working' = [working EXCEPT ![r] = n] /\ Goto(r, IF n = 0 THEN "guard" ELSE "logic")
  BY DEF DraftLogic, Draft, Put
<1>3. /\ working' \in [Runs -> 0..MaxWorkers]
      /\ \A q \in Runs : retries'[q] <= MaxRetries[q]
  BY <1>1, <1>2, GraphTypes
<1>4. Bookkept(r)
  BY <1>1, <1>3, GraphTypes DEF Bookkept, ManagedTypeOK
<1>5. RetryLeft(r)' /\ AuditStored(r)'
  BY DEF RetryLeft, AuditStored, ManagedValidated, AutopilotRuns
<1>6. (IF n = 0 THEN "guard" ELSE "logic") \in Stages
  BY DEF Stages
<1> QED BY <1>2, <1>4, <1>5, <1>6, GotoKeeps

(* ContextGatherNode, SentryNode and the workers of the drafts count no retry. *)
LEMMA DraftKeeps ==
  ASSUME IInv, NEW r \in Runs, r \in AutopilotRuns, UNCHANGED managedVars,
         Gather(r) \/ PlanTests(r) \/ WorkerEnds(r)
  PROVE  IInv'
<1>1. /\ TypeOK /\ RetryLeft(r) /\ LoopFree /\ pc[r] \in Stages
      /\ UNCHANGED <<blocked, flagged, audited, retries, approved>>
  BY DEF IInv, RunInv, managedVars, autopilotVars, Gather, PlanTests, WorkerEnds, AtNode, Stages
<1>2. retries[r] < MaxRetries[r]
  BY <1>1 DEF RetryLeft
<1>3. RetryLeft(r)' /\ AuditStored(r)'
  BY <1>1, <1>2 DEF RetryLeft, AuditStored, ManagedValidated, AutopilotRuns
<1>4. CASE Gather(r)
  <2>1. Goto(r, "sentry") /\ working' = working
    BY <1>4 DEF Gather, autopilotVars
  <2>2. Bookkept(r)
    BY <1>1, <2>1, GraphTypes DEF Bookkept, ManagedTypeOK
  <2> QED BY <1>1, <1>3, <2>1, <2>2, GotoKeeps DEF Stages
<1>5. CASE PlanTests(r)
  <2>1. DraftLogic(r)
    BY <1>5 DEF PlanTests
  <2> QED BY <1>1, <1>2, <2>1, GraphTypes, DraftLogicKeeps
<1>6. CASE WorkerEnds(r)
  <2>1. PICK stage \in Stages, n \in 0..MaxWorkers : Draft(r, stage, n)
    <3>1. CASE /\ pc[r] \in {"logic", "style"} /\ working[r] > 1
               /\ Draft(r, pc[r], working[r] - 1)
      <4>1. working[r] - 1 \in 0..MaxWorkers
        BY <1>1, <3>1, GraphTypes
      <4> QED BY <1>1, <3>1, <4>1
    <3>2. CASE /\ pc[r] = "logic" /\ working[r] = 1
               /\ \E n \in 0..MaxWorkers : Draft(r, IF n = 0 THEN "guard" ELSE "style", n)
      <4>1. PICK n \in 0..MaxWorkers : Draft(r, IF n = 0 THEN "guard" ELSE "style", n)
        BY <3>2
      <4>2. (IF n = 0 THEN "guard" ELSE "style") \in Stages
        BY DEF Stages
      <4> QED BY <4>1, <4>2
    <3>3. CASE pc[r] = "style" /\ working[r] = 1 /\ Draft(r, "guard", 0)
      <4>1. "guard" \in Stages /\ 0 \in 0..MaxWorkers
        BY <1>1, GraphTypes DEF Stages
      <4> QED BY <3>3, <4>1
    <3> QED BY <1>6, <3>1, <3>2, <3>3 DEF WorkerEnds
  <2>2. working' = [working EXCEPT ![r] = n] /\ Goto(r, stage)
    BY <2>1 DEF Draft, Put
  <2>3. Bookkept(r)
    BY <1>1, <2>2, GraphTypes DEF Bookkept, ManagedTypeOK
  <2> QED BY <1>1, <1>3, <2>2, <2>3, GotoKeeps
<1> QED BY <1>4, <1>5, <1>6

(* GuardNode approves, or counts a retry and drafts again while one is left. *)
LEMMA GuardKeeps ==
  ASSUME IInv, NEW r \in Runs, r \in AutopilotRuns, UNCHANGED managedVars, Guard(r)
  PROVE  IInv'
<1>1. /\ TypeOK /\ RetryLeft(r) /\ LoopFree /\ pc[r] = "guard" /\ pc[r] \in Stages
      /\ UNCHANGED <<blocked, flagged, audited>>
  BY DEF IInv, RunInv, managedVars, Guard, AtNode, Stages
<1>2. retries[r] < MaxRetries[r]
  BY <1>1 DEF RetryLeft
<1>3. CASE /\ approved' = Put(approved, r, TRUE)
           /\ Finalize(r, TRUE)
           /\ UNCHANGED <<retries, working>>
  <2>1. Bookkept(r) /\ approved'[r] /\ r \notin ManagedRuns
    BY <1>1, <1>3, GraphTypes DEF Bookkept, ManagedTypeOK, Put, AutopilotRuns
  <2> QED BY <1>1, <1>3, <2>1, FinalizeKeeps
<1>4. CASE /\ approved' = Put(approved, r, FALSE)
           /\ retries' = Put(retries, r, retries[r] + 1)
           /\ IF retries'[r] >= MaxRetries[r]
              THEN Finalize(r, FALSE) /\ UNCHANGED working
              ELSE DraftLogic(r)
  <2>1. /\ approved' \in [Runs -> BOOLEAN] /\ \A q \in Runs \ {r} : approved'[q] = approved[q]
        /\ retries' \in [Runs -> Nat] /\ retries'[r] = retries[r] + 1
        /\ \A q \in Runs \ {r} : retries'[q] = retries[q]
        /\ \A q \in Runs : retries'[q] <= MaxRetries[q]
    BY <1>1, <1>2, <1>4, GraphTypes DEF Put
  <2>2. CASE retries'[r] >= MaxRetries[r]
    <3>1. Finalize(r, FALSE) /\ working' = working
      BY <1>4, <2>2
    <3>2. Bookkept(r)
      BY <1>1, <2>1, <3>1, GraphTypes DEF Bookkept, ManagedTypeOK
    <3> QED BY <1>1, <3>1, <3>2, FinalizeKeeps
  <2>3. CASE retries'[r] < MaxRetries[r]
    <3>1. ~(retries'[r] >= MaxRetries[r])
      BY <1>1, <2>1, <2>3, GraphTypes
    <3>2. DraftLogic(r)
      BY <1>4, <3>1
    <3> QED BY <1>1, <2>1, <2>3, <3>2, DraftLogicKeeps
  <2> QED BY <2>1, <2>2, <2>3, GraphTypes
<1> QED BY <1>3, <1>4 DEF Guard

(* The runtime aborts what a node raised. *)
LEMMA GraphRaisesKeeps ==
  ASSUME IInv, NEW r \in Runs, UNCHANGED managedVars, GraphRaises(r)
  PROVE  IInv'
<1>1. /\ TypeOK /\ LoopFree /\ pc[r] \in Stages /\ Abort(r)
      /\ UNCHANGED <<blocked, flagged, audited, retries, approved>>
      /\ working' = [working EXCEPT ![r] = 0]
  BY DEF IInv, managedVars, GraphRaises, Stages, Put
<1>2. Bookkept(r)
  BY <1>1, GraphTypes DEF Bookkept, ManagedTypeOK
<1> QED BY <1>1, <1>2, AbortKeeps

---------------------------------------------------------------------------------
(* The invariant *)

(* Init implies the invariant. *)
LEMMA InitIInv == Init => IInv
<1> SUFFICES ASSUME Init
             PROVE  IInv
  OBVIOUS
<1>1. NoTree \in Tree
  BY DEF NoTree, Tree
<1>2. TypeOK
  <2>1. SandboxTypeOK
    <3>1. /\ host \in Tree /\ repo \in [Runs -> Tree] /\ workspace \in [Runs -> Tree]
          /\ plan \in [Runs -> SUBSET Files] /\ written \in [Runs -> SUBSET Files]
      BY <1>1 DEF Init, SandboxInit
    <3>2. /\ pc \in [Runs -> {"idle"}] /\ merge \in [Runs -> {""}] /\ session \in [Runs -> {"none"}]
      BY DEF Init, SandboxInit
    <3>3. /\ container \in [Runs -> BOOLEAN] /\ sweeping \in [Runs -> BOOLEAN]
          /\ removed \in [Runs -> BOOLEAN] /\ start \in [Runs -> Starts]
      BY DEF Init, SandboxInit, Starts
    <3>4. moves \in 0..MaxMoves
      <4>1. MaxMoves \in Nat
        BY DEF SandboxAssumption
      <4>2. 0 \in 0..MaxMoves
        BY <4>1
      <4> QED BY <4>2 DEF Init, SandboxInit
    <3>5. author \in [Files -> Runs \cup {Developer}]
      BY DEF Init, SandboxInit
    <3> QED BY <3>1, <3>2, <3>3, <3>4, <3>5 DEF SandboxTypeOK
  <2>2. ManagedTypeOK
    <3>1. MaxRetries \in [Runs -> Nat]
      OBVIOUS
    <3>2. \A r \in Runs : MaxRetries[r] \in Nat
      BY <3>1
    <3> QED BY <3>2 DEF Init, ManagedInit, ManagedTypeOK
  <2> QED BY <2>1, <2>2 DEF Init, TypeOK
<1>3. OneCopies
  BY DEF OneCopies, Init, SandboxInit
<1>4. ASSUME NEW r \in Runs
      PROVE  RunInv(r)
  <2>1. /\ pc[r] = "idle" /\ session[r] = "none" /\ ~sweeping[r] /\ merge[r] = ""
        /\ start[r] = "none"
        /\ retries[r] = 0
    BY DEF Init, SandboxInit, ManagedInit
  <2>2. r \in AutopilotRuns => MaxRetries[r] > 0
    BY DEF AutopilotRuns
  <2> QED BY <2>1, <2>2
          DEF RunInv, Untouched, Undecided, RetryLeft, AuditStored, ManagedValidated, Validated, GivenUp, Planned
<1> QED BY <1>2, <1>3, <1>4 DEF IInv

(* Every step preserves it. *)
LEMMA NextIInv == IInv /\ [Next]_vars => IInv'
<1> SUFFICES ASSUME IInv, [Next]_vars
             PROVE  IInv'
  OBVIOUS
<1>1. CASE SandboxNext /\ UNCHANGED <<retries, managedVars, autopilotVars>>
  <2>1. UNCHANGED Graphs
    BY <1>1 DEF Graphs
  <2>2. CASE DeveloperWrites
    BY <2>1, <2>2, DeveloperKeeps
  <2>3. ASSUME NEW r \in Runs,
               \/ StartBegins(r) \/ ComposeUp(r) \/ StartEnds(r)
               \/ ExecKilled(r) \/ SandboxWrites(r)
               \/ Sweep(r) \/ SweepReturns(r)
               \/ DestroyReturns(r) \/ Copy(r) \/ Cancel(r)
        PROVE  IInv'
    BY <2>1, <2>3, SessionKeeps, DestroyReturnsKeeps, CopyKeeps, CancelKeeps DEF CallStep
  <2> QED BY <1>1, <2>2, <2>3 DEF SandboxNext
<1>2. ASSUME NEW r \in Runs, ManagedStep(r), UNCHANGED autopilotVars
      PROVE  IInv'
  <2>1. CASE StartManaged(r)
    BY <1>2, <2>1, EnsureKeeps DEF StartManaged, Graphs, Stages
  <2> QED BY <1>2, <2>1, ImplementKeeps, AuditEndsKeeps, DocumentKeeps, MapContextKeeps
          DEF ManagedStep
<1>3. ASSUME NEW r \in Runs, AutopilotStep(r), UNCHANGED managedVars
      PROVE  IInv'
  <2>1. CASE StartAutopilot(r)
    BY <1>3, <2>1, EnsureKeeps DEF StartAutopilot, Graphs, Stages
  <2> QED BY <1>3, <2>1, DraftKeeps, GuardKeeps, GraphRaisesKeeps DEF AutopilotStep
<1>4. CASE UNCHANGED vars
  <2>1. UNCHANGED <<sandboxVars, retries, managedVars, autopilotVars>>
    BY <1>4 DEF vars
  <2>2. TypeOK'
    <3>1. SandboxTypeOK'
      BY <2>1 DEF IInv, TypeOK, SandboxTypeOK, sandboxVars, trees, history
    <3>2. ManagedTypeOK'
      BY <2>1 DEF IInv, TypeOK, ManagedTypeOK, managedVars
    <3> QED BY <2>1, <3>1, <3>2 DEF IInv, TypeOK, autopilotVars
  <2>3. OneCopies'
    BY <2>1 DEF IInv, OneCopies, sandboxVars
  <2>4. ASSUME NEW r \in Runs
        PROVE  RunInv(r)'
    <3>1. RunInv(r)
      BY DEF IInv
    <3>2. Untouched(r)' /\ Undecided(r)'
      BY <2>1, <3>1 DEF RunInv, Untouched, Undecided, sandboxVars, trees, history
    <3>3. RetryLeft(r)' /\ AuditStored(r)'
      BY <2>1, <3>1 DEF RunInv, RetryLeft, AuditStored, ManagedValidated, sandboxVars, managedVars
    <3>4. Validated(r)' /\ GivenUp(r)'
      BY <2>1, <3>1
         DEF RunInv, Validated, ManagedValidated, GivenUp, sandboxVars, trees, history,
             managedVars, autopilotVars
    <3>5. Planned(r)'
      BY <2>1, <3>1 DEF RunInv, Planned, Free, sandboxVars, trees, history
    <3> QED BY <3>2, <3>3, <3>4, <3>5 DEF RunInv
  <2> QED BY <2>2, <2>3, <2>4 DEF IInv
<1> QED BY <1>1, <1>2, <1>3, <1>4 DEF Next

(* The runs and the sandboxes always satisfy the inductive invariant. *)
THEOREM AutopilotInvariance == Spec => []IInv
BY InitIInv, NextIInv, PTL DEF Spec

(* Every variable stays in its type, however many runs share the host tree. *)
THEOREM AutopilotTypes == Spec => []TypeOK
<1>1. IInv => TypeOK
  BY DEF IInv
<1> QED BY AutopilotInvariance, <1>1, PTL

(* Failed validation prevents merge-back: what validated a run still holds while it
   copies and after it merged, for every limit of retries and number of workers. *)
THEOREM OnlyValidatedMerge == Spec => []MergedWasValidated
<1>1. IInv => MergedWasValidated
  BY DEF IInv, RunInv, Validated, MergedWasValidated
<1> QED BY AutopilotInvariance, <1>1, PTL

(* A run that ended by itself has given its session up. *)
THEOREM SessionsAreGivenUp == Spec => []SessionGivenUp
<1>1. IInv => SessionGivenUp
  BY DEF IInv, RunInv, GivenUp, SessionGivenUp
<1> QED BY AutopilotInvariance, <1>1, PTL

(* Only the end of a copy is a merge. *)
LEMMA MergeIsCopy ==
  ASSUME IInv, [Next]_vars, NEW r \in Runs, Merging(r)
  PROVE  Copy(r)
<1>1. pc[r] = "copying" /\ pc'[r] # pc[r] /\ ~LoopFree
  BY DEF Merging, LoopFree
<1>2. pc \in [Runs -> {"idle"} \cup Stages \cup Teardown \cup Ended]
  BY DEF IInv, TypeOK, SandboxTypeOK
<1>3. ASSUME NEW q \in Runs, Copy(q)
      PROVE  q = r
  BY <1>1, <1>3 DEF Copy, IInv, OneCopies
<1>4. ASSUME NEW q \in Runs, ManagedStep(q) \/ AutopilotStep(q)
      PROVE  FALSE
  BY <1>1, <1>4 DEF ManagedStep, AutopilotStep, StartManaged, StartAutopilot, Ensure, Implement,
     AuditEnds, Document, MapContext, At, Gather, PlanTests, AtNode, WorkerEnds, Guard, GraphRaises
<1>5. CASE SandboxNext
  <2>1. ~DeveloperWrites
    BY <1>1 DEF DeveloperWrites
  <2>2. ASSUME NEW q \in Runs
        PROVE  ~(CallStep(q) \/ SandboxWrites(q) \/ Sweep(q) \/ SweepReturns(q)
                 \/ DestroyReturns(q) \/ Cancel(q))
    BY <1>1 DEF CallStep, StartBegins, ComposeUp, StartEnds, ExecKilled, SandboxWrites, Sweep,
       SweepReturns, DestroyReturns, Cancel
  <2> QED BY <1>3, <1>5, <2>1, <2>2 DEF SandboxNext, CallStep
<1>6. ~UNCHANGED vars
  BY <1>1 DEF vars, sandboxVars
<1> QED BY <1>4, <1>5, <1>6 DEF Next

(* A merge replaces only what its snapshot has, what a developer wrote, or a file that
   the snapshot or the host did not have.                                       *)
LEMMA MergeReplaces ==
  ASSUME IInv, [Next]_vars, NEW r \in Runs, NEW f \in Files, Merging(r),
         host'[f] # host[f], host[f] # repo[r][f]
  PROVE  author[f] = Developer \/ repo[r][f] = Absent \/ host[f] = Absent
<1>1. Copy(r)
  BY MergeIsCopy
<1>2. PICK fs \in SUBSET plan[r] : host' = HostWith(r, fs)
  BY <1>1 DEF Copy
<1>3. f \in plan[r]
  BY <1>2 DEF HostWith
<1> QED BY <1>1, <1>3 DEF Copy, IInv, RunInv, Planned, Free

(* No run undoes what another run merged from a newer snapshot. *)
THEOREM MergesStay == Spec => MergedStays
<1>1. IInv /\ [Next]_vars =>
        [\A r \in Runs, f \in Files :
           (Merging(r) /\ host'[f] # host[f] /\ host[f] # repo[r][f])
             => author[f] = Developer \/ repo[r][f] = Absent \/ host[f] = Absent]_sandboxVars
  BY MergeReplaces
<1> QED BY AutopilotInvariance, <1>1, PTL DEF Spec, MergedStays

=================================================================================
