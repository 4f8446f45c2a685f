----------------------------- MODULE WorkflowSandbox -----------------------------
(***************************************************************************)
(* What a workflow run and its sandbox share, whatever the graph between     *)
(* them: ensure, finalize and abort (workflows/runtime/workflow_sandbox.py), *)
(* and the three trees that merge-back compares (sandbox/filesystem/         *)
(* snapshots.py). ManagedWorkflow and Autopilot add the graphs.              *)
(*                                                                          *)
(* The runs share one event loop, so merge_back, which never awaits, excludes *)
(* them; the developer and the programs in the containers are other processes *)
(* and write while it copies. SandboxManager has the locks, the metadata and *)
(* the crashes of sessions; here a session is its status, the start of its   *)
(* container and its directories. Files that should_exclude skips are not in  *)
(* Files. The sandbox is enabled and its policy has merge_back set, as every   *)
(* workflow profile's has; "no_changes" is recorded as merged.               *)
(***************************************************************************)
EXTENDS Integers, FiniteSets

CONSTANTS
  Runs,       \* workflow runs, each with a session of its own
  Files,      \* paths that merge-back looks at
  Contents,   \* what a file may hold
  Absent,     \* no such file
  Developer,  \* whoever edits the host tree outside the workflows
  Retain,     \* retain_artifacts of the policy or the settings
  Executing,  \* the runs in whose session anybody calls execute
  MaxMoves    \* bound: edits, sweeps, cancellations and exits with 137 in all

ASSUME SandboxAssumption ==
  /\ Absent \notin Contents
  /\ Developer \notin Runs
  /\ Retain \in BOOLEAN
  /\ MaxMoves \in Nat

VARIABLES
  host,       \* the repository
  repo,       \* the snapshot of each session
  workspace,  \* /workspace of each session
  session,    \* SandboxSession.status of each run's session
  start,      \* the execute calls of the session: see Starts
  container,  \* its compose_project is set
  removed,    \* its workspace directory was removed
  sweeping,   \* cleanup_stale or sandbox_session_destroy awaits its container's end
  pc,         \* where each run is
  plan,       \* the files merge_back is about to copy
  merge,      \* merge_back_status of each run
  moves,      \* how many of them happened
  author,     \* history: who wrote each host file last
  written     \* history: files a program in the sandbox wrote or removed

trees == <<host, repo, workspace>>
history == <<author, written>>
calls == <<start, container>>
sandboxVars == <<trees, session, calls, removed, sweeping, pc, plan, merge, moves, history>>

Tree == [Files -> Contents \cup {Absent}]
NoTree == [f \in Files |-> Absent]

(* no start has returned; run_in_session awaits podman.start; it has returned, or
   returned late: after a destroy_session, which takes no lock, had begun      *)
Starts == {"none", "awaited", "done", "late"}

Ended == {"returned", "raised", "cancelled"}
Teardown == {"copying", "stopping", "aborting"}
Stages == {"implementation", "audit", "documentation", "context_map",
           "context", "sentry", "logic", "style", "guard"}

SandboxTypeOK ==
  /\ host \in Tree
  /\ repo \in [Runs -> Tree]
  /\ workspace \in [Runs -> Tree]
  /\ session \in [Runs -> {"none", "created", "active", "terminating", "terminated", "failed"}]
  /\ start \in [Runs -> Starts]
  /\ container \in [Runs -> BOOLEAN]
  /\ removed \in [Runs -> BOOLEAN]
  /\ sweeping \in [Runs -> BOOLEAN]
  /\ pc \in [Runs -> {"idle"} \cup Stages \cup Teardown \cup Ended]
  /\ plan \in [Runs -> SUBSET Files]
  /\ merge \in [Runs -> {"", "skipped", "merged", "conflict", "aborted"}]
  /\ moves \in 0..MaxMoves
  /\ author \in [Files -> Runs \cup {Developer}]
  /\ written \in [Runs -> SUBSET Files]

SandboxInit ==
  /\ host \in Tree
  /\ repo = [r \in Runs |-> NoTree]
  /\ workspace = [r \in Runs |-> NoTree]
  /\ session = [r \in Runs |-> "none"]
  /\ start = [r \in Runs |-> "none"]
  /\ container = [r \in Runs |-> FALSE]
  /\ removed = [r \in Runs |-> FALSE]
  /\ sweeping = [r \in Runs |-> FALSE]
  /\ pc = [r \in Runs |-> "idle"]
  /\ plan = [r \in Runs |-> {}]
  /\ merge = [r \in Runs |-> ""]
  /\ moves = 0
  /\ author = [f \in Files |-> Developer]
  /\ written = [r \in Runs |-> {}]

Put(fn, r, v) == [fn EXCEPT ![r] = v]

(* Others act between the steps of the runs *)
Move == moves < MaxMoves /\ moves' = moves + 1

---------------------------------------------------------------------------------
(* The event loop and the other processes *)

(* merge_back is one synchronous call: no coroutine runs while it copies *)
LoopFree == \A r \in Runs : pc[r] # "copying"

DeveloperWrites ==
  /\ Move
  /\ \E f \in Files, c \in Contents \cup {Absent} :
       /\ host[f] # c
       /\ host' = Put(host, f, c)
       /\ author' = Put(author, f, Developer)
  /\ UNCHANGED <<repo, workspace, session, calls, removed, sweeping, pc, plan, merge, written>>

(* the first execute call that names the session holds its lock while it awaits
   podman.start, which no destroy_session asks for                             *)
StartBegins(r) ==
  /\ LoopFree
  /\ r \in Executing
  /\ session[r] = "created" /\ start[r] = "none"
  /\ start' = Put(start, r, "awaited")
  /\ UNCHANGED <<trees, session, container, removed, sweeping, pc, plan, merge, moves, history>>

(* podman.start: `compose up` has ended well, `podman ps` is awaited *)
ComposeUp(r) ==
  /\ LoopFree
  /\ start[r] = "awaited" /\ ~container[r]
  /\ container' = Put(container, r, TRUE)
  /\ UNCHANGED <<trees, session, start, removed, sweeping, pc, plan, merge, moves, history>>

(* `compose up` or `podman ps` fails *)
StartFails(r) ==
  /\ session' = Put(session, r, "failed")
  /\ start' = Put(start, r, "none")
  /\ UNCHANGED moves

(* the status is set without another look at it *)
StartSucceeds(r) ==
  /\ container[r]
  /\ session' = Put(session, r, "active")
  /\ start' = Put(start, r, IF session[r] = "created" THEN "done" ELSE "late")
  /\ UNCHANGED moves

(* the caller is cancelled in its await: the status stays, the next call starts again *)
StartCancelled(r) ==
  /\ Move
  /\ start' = Put(start, r, "none")
  /\ UNCHANGED session

StartEnds(r) ==
  /\ LoopFree
  /\ start[r] = "awaited"
  /\ StartFails(r) \/ StartSucceeds(r) \/ StartCancelled(r)
  /\ UNCHANGED <<trees, container, removed, sweeping, pc, plan, merge, history>>

(* an execute call that began on the active session ends with 137, which also the
   stop of the container makes of it: the status becomes failed, whatever it is *)
ExecKilled(r) ==
  /\ LoopFree /\ Move
  /\ start[r] \in {"done", "late"}
  /\ session[r] # "failed"
  /\ session' = Put(session, r, "failed")
  /\ UNCHANGED <<trees, calls, removed, sweeping, pc, plan, merge, history>>

(* A program that an execute call started writes its bind-mounted /workspace while
   that exists: stop ignores the exit code of `compose down`.                  *)
SandboxWrites(r) ==
  /\ Move
  /\ start[r] \in {"done", "late"} /\ ~removed[r]
  /\ \E f \in Files, c \in Contents \cup {Absent} :
       /\ workspace[r][f] # c
       /\ workspace' = [workspace EXCEPT ![r][f] = c]
       /\ written' = Put(written, r, written[r] \cup {f})
  /\ UNCHANGED <<host, repo, session, calls, removed, sweeping, pc, plan, merge, author>>

---------------------------------------------------------------------------------
(* destroy_session *)

(* shutil.rmtree raises at the first entry it cannot remove: t is the tree at which it
   failed, u what it left of it                                                *)
HalfRemoved(t, u) == \A f \in Files : u[f] \in {t[f], Absent}

(* The directories of the session are removed one after the other, all of them or up
   to an error in one.                                                         *)
AllRemoved(r) ==
  /\ repo' = Put(repo, r, NoTree)
  /\ workspace' = Put(workspace, r, NoTree)
  /\ removed' = Put(removed, r, TRUE)

PartRemoved(r) ==
  \E s, w \in Tree :
    /\ repo' = Put(repo, r, s) /\ workspace' = Put(workspace, r, w)
    /\ \/ /\ HalfRemoved(repo[r], s)
          /\ \/ w = workspace[r] /\ UNCHANGED removed
             \/ w = NoTree /\ removed' = Put(removed, r, TRUE)
       \/ /\ HalfRemoved(workspace[r], w) /\ s \in {repo[r], NoTree}
          /\ UNCHANGED removed

(* from the end of the stop to the last _write_metadata *)
CleanUp(r) ==
  \/ /\ session' = Put(session, r, "terminated")
     /\ IF Retain THEN UNCHANGED <<repo, workspace, removed>> ELSE AllRemoved(r)
  \/ /\ ~Retain
     /\ session' = Put(session, r, "failed")
     /\ PartRemoved(r)

(* `compose down` has ended, or raised by running out of time *)
Stopped(r) ==
  \/ CleanUp(r)
  \/ session' = Put(session, r, "failed") /\ UNCHANGED <<repo, workspace, removed>>

(* destroy_session in run r, which is at `waits` while it awaits the container's end
   and goes on to `next`; without a container there is nothing to await.       *)
Destroy(r, waits, next) ==
  \/ /\ session[r] = "terminated"
     /\ pc' = Put(pc, r, next)
     /\ UNCHANGED <<session, repo, workspace, removed>>
  \/ /\ session[r] # "terminated" /\ container[r]
     /\ session' = Put(session, r, "terminating")
     /\ pc' = Put(pc, r, waits)
     /\ UNCHANGED <<repo, workspace, removed>>
  \/ /\ session[r] # "terminated" /\ ~container[r]
     /\ CleanUp(r)
     /\ pc' = Put(pc, r, next)

DestroyReturns(r) ==
  /\ LoopFree
  /\ pc[r] \in {"stopping", "aborting"}
  /\ Stopped(r)
  /\ pc' = Put(pc, r, IF pc[r] = "stopping" THEN "returned" ELSE "raised")
  /\ UNCHANGED <<host, calls, sweeping, plan, merge, moves, history>>

(* The stale sweep or the tool sandbox_session_destroy: neither asks whether a
   workflow still uses the session.                                            *)
Sweep(r) ==
  /\ LoopFree /\ Move
  /\ ~sweeping[r]
  /\ session[r] \notin {"none", "terminated"}
  /\ \/ /\ container[r]
        /\ sweeping' = Put(sweeping, r, TRUE)
        /\ session' = Put(session, r, "terminating")
        /\ UNCHANGED <<repo, workspace, removed>>
     \/ ~container[r] /\ CleanUp(r) /\ UNCHANGED sweeping
  /\ UNCHANGED <<host, calls, pc, plan, merge, history>>

SweepReturns(r) ==
  /\ LoopFree
  /\ sweeping[r]
  /\ sweeping' = Put(sweeping, r, FALSE)
  /\ Stopped(r)
  /\ UNCHANGED <<host, calls, pc, plan, merge, moves, history>>

---------------------------------------------------------------------------------
(* merge_workspace_back *)

(* new, modified and deleted files of the workspace *)
Changed(r) == {f \in Files : workspace[r][f] # repo[r][f]}

(* changed here and on the host; a file needs a snapshot and a host file to conflict *)
Conflicts(r) ==
  {f \in Changed(r) : /\ host[f] # Absent /\ repo[r][f] # Absent
                      /\ host[f] # repo[r][f]}

(* copies the whole workspace, not only what changed in it *)
HostWith_mutantWhole(r, fs) == workspace[r]

HostWith(r, fs) == [f \in Files |-> IF f \in fs THEN workspace[r][f] ELSE host[f]]
AuthorWith(r, fs) ==
  [f \in Files |-> IF f \in fs /\ host[f] # workspace[r][f] THEN r ELSE author[f]]

---------------------------------------------------------------------------------
(* ensure, finalize and abort *)

(* ensure_workflow_sandbox up to the first await of the graph, at `first`; taking the
   snapshot may raise, which is before the runtime's try                       *)
Ensure(r, first) ==
  /\ LoopFree
  /\ pc[r] = "idle"
  /\ \/ /\ repo' = Put(repo, r, host)
        /\ workspace' = Put(workspace, r, host)
        /\ session' = Put(session, r, "created")
        /\ pc' = Put(pc, r, first)
     \/ /\ pc' = Put(pc, r, "raised")
        /\ UNCHANGED <<repo, workspace, session>>
  /\ UNCHANGED <<host, calls, removed, sweeping, plan, merge, moves, history>>

(* keeps a sandbox whose validation failed *)
Finalize_mutantKeep(r, passed) ==
  /\ \/ /\ passed /\ Conflicts(r) = {}
        /\ plan' = Put(plan, r, Changed(r))
        /\ pc' = Put(pc, r, "copying")
        /\ UNCHANGED <<session, repo, workspace, removed, merge>>
     \/ /\ passed /\ Conflicts(r) # {}
        /\ merge' = Put(merge, r, "conflict")
        /\ pc' = Put(pc, r, "returned")
        /\ UNCHANGED <<session, repo, workspace, removed, plan>>
     \/ /\ ~passed
        /\ merge' = Put(merge, r, "skipped")
        /\ pc' = Put(pc, r, "returned")
        /\ UNCHANGED <<session, repo, workspace, removed, plan>>
  /\ UNCHANGED <<host, calls, sweeping, moves, history>>

(* finalize_workflow_sandbox up to the copy or to its end. A conflict is caught there:
   the run returns, with its session as it was.                                *)
Finalize(r, passed) ==
  /\ \/ /\ passed /\ Conflicts(r) = {}
        /\ plan' = Put(plan, r, Changed(r))
        /\ pc' = Put(pc, r, "copying")
        /\ UNCHANGED <<session, repo, workspace, removed, merge>>
     \/ /\ passed /\ Conflicts(r) # {}
        /\ merge' = Put(merge, r, "conflict")
        /\ pc' = Put(pc, r, "returned")
        /\ UNCHANGED <<session, repo, workspace, removed, plan>>
     \/ /\ ~passed
        /\ merge' = Put(merge, r, "skipped")
        /\ Destroy(r, "stopping", "returned")
        /\ UNCHANGED plan
  /\ UNCHANGED <<host, calls, sweeping, moves, history>>

(* the copies of merge_workspace_back, which an I/O error may cut short *)
Copy(r) ==
  /\ pc[r] = "copying"
  /\ plan' = Put(plan, r, {})
  /\ \E fs \in SUBSET plan[r] :
       /\ host' = HostWith(r, fs)
       /\ author' = AuthorWith(r, fs)
       /\ \/ /\ fs = plan[r]
             /\ merge' = Put(merge, r, "merged")
             /\ Destroy(r, "stopping", "returned")
          \/ /\ fs # plan[r]
             /\ merge' = Put(merge, r, "conflict")
             /\ pc' = Put(pc, r, "returned")
             /\ UNCHANGED <<session, repo, workspace, removed>>
  /\ UNCHANGED <<calls, sweeping, moves, written>>

(* abort_workflow_sandbox *)
Abort(r) ==
  /\ merge' = Put(merge, r, "aborted")
  /\ Destroy(r, "aborting", "raised")
  /\ UNCHANGED <<host, calls, sweeping, plan, moves, history>>

(* CancelledError at any await: neither the runtimes' `except Exception` nor the one
   in destroy_session sees it                                                  *)
Cancel(r) ==
  /\ LoopFree /\ Move
  /\ pc[r] \in Stages \cup {"stopping", "aborting"}
  /\ pc' = Put(pc, r, "cancelled")
  /\ UNCHANGED <<trees, session, calls, removed, sweeping, plan, merge, history>>

---------------------------------------------------------------------------------
SandboxNext ==
  \/ DeveloperWrites
  \/ \E r \in Runs : \/ StartBegins(r) \/ ComposeUp(r) \/ StartEnds(r)
                     \/ ExecKilled(r) \/ SandboxWrites(r)
                     \/ Sweep(r) \/ SweepReturns(r)
                     \/ DestroyReturns(r) \/ Copy(r) \/ Cancel(r)

(* The step in which merge_back of run r writes the host. *)
Merging(r) == pc[r] = "copying" /\ pc'[r] # "copying"

(* What one run merged is not undone by another run that started from an older
   snapshot: whatever host content a merge replaces, if it is not the content the
   run started from then a developer wrote it while merge_back was copying, or the
   snapshot or the host had no such file. The second run must conflict, in every
   order of snapshots, edits, merges and sweeps.                               *)
MergedStays ==
  [][\A r \in Runs, f \in Files :
       (Merging(r) /\ host'[f] # host[f] /\ host[f] # repo[r][f])
         => author[f] = Developer \/ repo[r][f] = Absent \/ host[f] = Absent]_sandboxVars

(* "If the host file changed since the snapshot, merge-back is blocked with a
   conflict" (docs/documentation/sandbox.md): a merge writes only host files that
   still have the content of the snapshot. The code compares only when both files
   exist, and before it copies.                                                *)
HostChangeBlocksMerge ==
  [][\A r \in Runs, f \in Files :
       (Merging(r) /\ host'[f] # host[f]) => host[f] = repo[r][f]]_sandboxVars

(* "compares /workspace against the original snapshot and copies only changed files
   into the host tree" (docs/documentation/sandbox.md): a merge writes only files that
   something in the sandbox wrote or removed.                                  *)
OnlyChangedCopied ==
  [][\A r \in Runs, f \in Files :
       (Merging(r) /\ host'[f] # host[f]) => f \in written[r]]_sandboxVars

(* A run that ended by itself gives its session up, whether it merged, skipped or
   raised, and also while a sweep destroys the same session. Only a merge that did
   not complete, a cancellation, and a start that returns after destroy_session has
   begun and sets the session active again, leave it to the stale sweep.       *)
SessionGivenUp ==
  \A r \in Runs :
    (pc[r] \in {"returned", "raised"} /\ merge[r] # "conflict" /\ start[r] # "late")
      => session[r] \in {"none", "terminated", "failed"} \/ sweeping[r]
==================================================================================
