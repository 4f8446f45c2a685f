# Verification of mem-graph

TLA+ modules for the parts of mem-graph whose correctness depends on the order in
which things happen: asyncio tasks, cancellations, podman commands, crashes and
restarts. TLC checks each module on small instances; TLAPS proves every invariant and
action property that the passing runs check, and the one refinement, for every instance.
What is eventually true stays with TLC. Four specifications stand for themselves or
are composed where the code composes them: the task queue, the sandbox manager, the two
agent graphs on one host tree, and nine services in `Services`. Paths below are relative to
`src/src/mem_graph/` unless they start with `docs/` or `tests/`.

## 1. Inventory

mem-graph is an MCP server in one asyncio process with an embedded graph database.
Tools answer requests; long tools hand their work to a background queue; workflow
tools run agents in a sandbox session; a summariser and a periodic cleanup run for
the life of the server. `app/lifespan.py` starts and stops them.

| Component | State | Operations | What is hard |
|---|---|---|---|
| Background task queue (`services/task_queue.py`) | queue, handles, runners, records, bounded history | enqueue, run, progress, poll, cancel, shutdown | interleaved coroutines; cancellation before the first step; five dictionaries kept in step; starvation by endless tasks |
| Sandbox manager (`sandbox/manager.py`, `cleanup.py`) | session registry, a lock per session, metadata files, directories | create, run (start and exec), merge back, destroy, sweep, recover, shutdown | destroy takes no lock; answers arrive after the session changed; crash between start and save |
| Podman adapter (`sandbox/containers/`) | containers (external) | up, ps, exec, down | commands run on in a thread after their caller is cancelled; exit code of `down` is ignored |
| Workflow sandbox and runtimes (`workflows/runtime/`) | one session per run | ensure, run, finalize or abort | abort for `Exception` only, not for cancellation |
| Snapshots and merge-back (`sandbox/filesystem/snapshots.py`) | snapshot, workspace, host tree | snapshot, three-way compare, copy | files that are new on both sides; a copy that fails half way |
| CodeMode bridge (`sandbox/provider.py`) | request and response files, a child process | request, serve, timeout | files read while they are written; no timeout; child outlives its request |
| Summariser (`services/summarizer.py`, `tools/memory/conversation.py`) | queue with sentinel, worker task, `summary_status` | capture, enqueue, process with retries, stop | two timeouts in stop; the sentinel left behind; jobs lost at a crash |
| Database and vector indexes (`db.py`), code files and issues (`services/jina/`) | connection, index per table, hash and vector per node | bootstrap, update embedding, store a file or an issue, ingest | drop, set, create without rollback; a hash read before an await; full-text indexes dropped and made again at each ingest |
| Embedding cache (`embeddings.py`) | an LRU cache of vectors | hit, miss and store, clear | calls that overlap at the provider |
| Autopilot graph (`agents/orchestrator_graph.py`) | patches, violations, retry counter | context, sentry, drafts in parallel, guard, sync | retry bound; what survives a retry; parallel merges |
| Managed workflow graph (`agents/workflow_graph.py`) | stage outputs, blockers, retry counter | stages, audit loop | stale stage output; when a run counts as validated |
| Package audit (`workflows/runtime/package_audit_runtime.py`) | lists, chunks, counts | discover, chunk, analyse, aggregate | every file in exactly one chunk, for every chunk size |
| Batch orchestrator (`agents/orchestrator_agent.py`) | batches, results, aggregate | run all batches; process_batch and finalize by a model | dependencies that outlive a run; batches that fail; calls that overlap; an aggregate that keeps all, one or none of the outputs |
| Violation records (`services/audit/`, `tools/work/violations.py`) | violation nodes by fingerprint | write, resolve, recur | which statuses the look-up accepts; tools that raise between two statements |
| Code index (`services/commands/command_parse_stage.py`, `app/parsers/`) | stage files, code files and symbols, FTS indexes | stage, watch, commit, index | commands in processes of their own beside the watcher, on the same entries; a file edited between two reads; a failing ingest; a watcher that sees its own output |
| Tasks and decisions (`tools/work/`) | nodes and relations | create, update, block, link, supersede | two statements of one change |
| Tools for memory, notes, graph, files; agents and prompts; parsers; web; observability; evals | none between calls, or tables | single queries, pure functions | little: see `PROJECT.json` for each |

How they interact. `audit`, `map`, `triage`, `orchestrator` and `code_watch` enqueue
a closure and return a task id; clients poll and cancel by id. The orchestrator
closures run a workflow runtime, which creates a sandbox session, runs its graph and
finalizes or aborts the session; a cancelled task is therefore a cancelled workflow.
`conversation.py` enqueues a summary job after it stored the messages; the worker
writes the summary and its embedding. At shutdown the lifespan cancels the periodic
cleanup, sweeps the sandboxes, then shuts down the queue, then the summariser, then
the database, so queued workflows still run while sandboxes are swept.

What makes each component correct:

- task queue: at most `max_concurrent` run and no slot idles; an id is in one place
  with the status of that place; statuses only move forward; history drops oldest
  first; cancel and shutdown return;
- sandbox: one provisioning per session; disk never behind the registry; a running
  container has a record that a destroy acts on; a terminated session left nothing;
  stale sessions are cleaned; every run is answered;
- merge-back: only work that the runtime calls validated, no other run's work undone, no
  unrelated file touched, every session given up;
- bridge: a tool runs once for a request, and the run ends;
- summariser: a conversation that stays `pending` is accounted for; `join()` counts right;
  a stop that did not time out drained the queue; stop returns;
- indexes: an index is missing only after a raising statement; a stored hash is the hash
  of what was embedded; the cache is the keys used last;
- graphs: bounded retries; merge-back only after a validated result;
- violations: one live node per finding, and resolved ones stay so; decisions: a
  superseded one has a successor;
- code index: the watcher loses no save to an edit, a failed commit or a command that
  begins after its write, and comes to rest;
- package audit and batch orchestrator: a report covers every file once and nothing else,
  and its aggregate has what the kind of sub-agent keeps.

## 2. Plan

In order of importance; every row exists, the last column says what a next step would be.

| # | Module | Content | Runs | Theorems |
|---|---|---|---|---|
| 1 | `TaskLifecycle`, `TaskQueue` | the queue, and the life of a task it promises | `task_queue*` | types, `Pool`, `Filed`, `Fifo`, `Retention`, the refinement |
| 2 | `SandboxManager` | sessions, metadata, containers, crashes | `sandbox*` | types and its four safety invariants |
| 3 | `WorkflowSandbox` | what every workflow shares: ensure, finalize, abort, the three trees, merge-back, sweeps, cancellation | with row 4 | with row 4 |
| 4 | `ManagedWorkflow`, `Autopilot` | the two agent graphs with retries, blockers, parallel drafts, on one host tree | `workflow*` | types, `MergedWasValidated`, `SessionGivenUp`, `MergedStays` |
| 5 | `SummaryWorker` | capture, queue, sentinel, retries, stop, crash | `services` | types, `JoinCounter`, `PendingHasJob`, `DrainedStop` |
| 6 | `CodeBridge` | child, files, bridge task, timeout, cancellation | `services` | types, `CallsRunOnce` |
| 7 | `EmbeddingIndex`, `EmbeddingCache` | statements that fail half way; hashes and vectors; the LRU cache | `services` | types, `IndexAccounted`, `HashMeansEmbedding`, `CacheIsRecent` |
| 8 | `ViolationRecords`, `WorkItems` | look-up then create; two statements of one change | `services` | types, `OneLiveNode`, `ResolvedStays`, `SupersededHasSuccessor` |
| 9 | `CodeIndex` | prepare, stage, commit and index by processes beside the watcher | `services` | types, `StagedIsFresh` |
| 10 | `PackageAudit`, `Orchestrator`, on `Listing` | chunks and batches against the listing they come from | `services` | types, `AuditedOnce`, `ReportIsWhole` |
| 11 | `Services` | rows 5 to 10 in one specification | `services` | that its behaviours are behaviours of each of its nine parts, and so all of the above |

What could come next: a session's life as an abstract specification of `SandboxManager`,
for sessions whose containers did not slip, with the refinement proved.

## 3. What is modelled

### TaskLifecycle and TaskQueue

`TaskQueue` models `services/task_queue.py` line by line as far as control goes. One
action is one stretch between awaits: `_lock` is never held across an await, so a
locked region cannot be interrupted.

| TLA+ | Code |
|---|---|
| `queue`, `order`, `known`, `runners`, `handles` | `queue`, `_completed_order` (and `completed`), `_tasks`, `_runners`, `_handles` (and `running`) |
| `task[t].status, step, requested` | `status`, `progress.current_step`, `cancellation_requested` |
| `task[t].pc, cancel` | where the asyncio task of `_run_task` is, and whether a CancelledError is due |
| `waiting[c]`, `shut`, `shutWait` | a client in the `gather` of `cancel_task`; `shutdown` and the handles it awaits |
| `Enqueue`, `CancelQueued`, `CancelRunning`, `CancelReturn`, `CancelAbandoned`, `Shutdown`, `ShutdownReturn` | the public methods, split at their awaits |
| `Start`, `CancelledBeforeStart`, `Progress`, `RunnerReturns`, `RunnerRaises`, `RunnerCancelled` | the life of one `_run_task` coroutine; the last three end in `Finish`, its `finally` |
| `Drain`, `Remember` | `_drain_locked`, `_remember_completed` |

Two branches of the code are never taken and have no counterpart: `task is None` for
an id of the queue, and the `KeyError` of the first two lines of `_run_task`. `Filed`
is what excludes them. `CancelledBeforeStart` is asyncio's rule that a coroutine
cancelled before its first step runs no line at all.

`TaskLifecycle` says what a polling client may observe; `TaskQueue` implements it under
`state <- Polled`, the answer of `get_task` for each id.

### SandboxManager

| TLA+ | Code |
|---|---|
| `session[s]`, `lock[s]` | `_sessions` (status, container_id, compose_project), `_locks` |
| `disk[s]`, `layout` | `metadata.json` (or torn), `repo/` and `workspace/` |
| `running`, `leftover` | containers of the compose project; podman commands whose caller is gone |
| `call[c]` | the await a caller is in: the lock, `compose up`, `podman ps`, `podman exec`, `compose down` |
| `sweep`, `todo` | the loop of `cleanup_stale` or `shutdown`, and the sessions it has still to visit |
| `Create`; `Run`, `Wake`, `Up`, `StartFails`, `Started`, `ExecReturns`, `RunCancelled` | `create_session`; `run_in_session` split at its awaits |
| `Destroy`, `Stopped`, `StopFails`, `DestroyCancelled` | `destroy_session`, likewise |
| `SweepStale`, `SweepNext`, `SweepEnds`, `Stop`, `ShutdownSweep`, `Exit` | `run_periodic_cleanup`, `cleanup_stale`, the lifespan's shutdown |
| `Startup`, `Crash`, `LeftoverEnds`, `Expire` | `startup` with `recover_metadata`; the process and the world |

`asyncio.to_thread` does not stop its thread when the caller is cancelled: the command
moves to `leftover` and ends later, with or without effect. `slipped` is a history
variable, read by no action: the sessions whose start was abandoned or failed half way,
that were destroyed while starting, whose `compose down` failed unnoticed, or whose
metadata was torn. `ContainersKnown` says that these are the only ways in which a
container escapes its record.

Left out: merge results and timestamps in the metadata, output of commands, disk
failures other than a torn write, containers that die by themselves while idle. Session
ids are fresh, as the workflow runtimes make them (`uuid4`).

### WorkflowSandbox, ManagedWorkflow and Autopilot

`WorkflowSandbox` is the part two workflows share, `ManagedWorkflow` adds the graph of
`agents/workflow_graph.py`, and `Autopilot` adds the other graph and composes all three:
its `Next` interleaves runs of both kinds on one host tree.

| TLA+ | Code |
|---|---|
| `host`, `repo[r]`, `workspace[r]` | `repo_root`, `snapshot_path`, `workspace_path`: a content, or none, per file |
| `session[r]`, `container[r]`, `removed[r]`, `sweeping[r]` | the run's `SandboxSession` (status, compose_project), its directory gone, and a destroy by the sweep or by `sandbox_session_destroy` that awaits `compose down` |
| `start[r]`; `StartBegins`, `ComposeUp`, `StartEnds` | where the first `run_in_session` is with `podman.start`: not begun, awaited, returned, or returned `late`, after `destroy_session` had begun; the status is set active all the same |
| `ExecKilled`, `SandboxWrites` | an `exec` that ends with 137 sets the status failed, whatever it was; a program in the container writes `/workspace` |
| `pc[r]` | the await the run is in: an agent, a draft, the checks of the guard, merge-back, a teardown |
| `plan[r]`, `merge[r]` | the list `changed` of `merge_workspace_back`; `merge_back_status` |
| `Ensure`, `Finalize` and `Copy`, `Abort`, `Cancel` | `workflow_sandbox.py` and the `try` of the two runtimes |
| `Changed`, `Conflicts`, `HostWith`; `AllRemoved`, `PartRemoved` | `_detect_workspace_changes`, `_detect_deleted_files`, the copies; `cleanup_session_paths`, also one that fails half way |
| `Implement`, `AuditEnds`, `Route`, `Document`, `MapContext` | the nodes of the managed graph; `blocked`, `flagged`, `retries` are blockers, `_audit_requires_retry`, `retry_count` |
| `Gather`, `PlanTests`, `WorkerEnds`, `Guard`, `GraphRaises` | the nodes of the autopilot graph; `working` counts the workers of a draft that have not ended, `approved` is success |

One step goes from the end of one agent to the start of the next: the nodes between two
awaits cannot be interrupted. `merge_back` does not await either (`LoopFree`); only the
developer and the programs in the containers, which are other processes, write between
its comparison (`Finalize`) and its copies (`Copy`). A session here is what the workflow
sees of it: its status and the start of its container, which `destroy_session` does not
wait for; `SandboxManager` has its locks, metadata, crashes and escaped containers.
`author`, `written` and `audited` are history variables, read by no action.

Left out: the text of patches (neither graph writes it to the workspace; the programs in
the container do), the disabled sandbox, `execute_agents` off, tokens and reports,
excluded file names, symbolic links and directories.

### Services and what it composes

Nine components share no variable, no lock and no ordering: each has its own node types
in the graph, and the graph's statements commit one by one. A behaviour of one is
possible whatever the others do. `Services` therefore chooses a `focus` at the start and
lets that component move, so that the states to explore are the sum and not the product
of theirs. `ServicesProof` shows that this takes nothing from a component: every
behaviour of `ServicesSpec` is one of the component's own specification; the converse is
the choice of `focus`. Fairness of a component that is not the focus asks for nothing:
none of its fair actions is enabled initially.

| Module | State | Actions and their code |
|---|---|---|
| `SummaryWorker` | `summary` (`summary_status`), `jobs` and `unfinished` (`_queue`), `worker`, `cancelled`, `lifespan` | `Capture`: `memory_capture_session`; `TakeJob` to `EmbeddingEnds`: `_run_worker`, `_process`, `_persist_summary` with the retries of `embed_client.py`; `StopBegins` to `StopReturns`: `stop_worker`; `EnterLifespan`, `Crash` |
| `EmbeddingIndex` | `present` (indexes), `stored` (hash and vector), `request` (what a call read before its await) | `Bootstrap`: `_bootstrap`; `Outcomes`, `Dropped`: `db_update_embedding` with each statement raising; `TextLosses`, `CodeIngest`: the full-text indexes that `ingest_batch` drops and may not make again; `ReadSource`, `StoreFile`, `CreateIssue`, `UpdateIssue`: the two embed services |
| `EmbeddingCache` | `cache` (keys of `_cache`, least recent first), `embedCall` | `CacheHit`, `CacheMiss`, `StoreVector`, `ProviderFails`: `_cached_embed_async` and its helpers |
| `CodeBridge` | `asked`, `answer` (request and response files), `child`, `bridge` | child: `OpenRequest` to `ReadResponse`, `ChildEnds`; bridge task: `TakeRequest` to `BridgeReturns`; run: `TimesOut`, `Collect`, `CancelRun` |
| `CodeIndex` | `file`, `staged`, `indexed`, `noticed`, `work` (what the watcher and each command have in hand) | `Prepare` or `WatcherLooks`, then `SecondRead`: `prepare_index_file`; `OpenEntry`, `CloseEntry`: `_write_stage_entry`, also by two at once; `LoadEntries`, `CommitBatch`, `Unlink`: the three steps of `code_commit_index`; `IndexBatch`: `index_file`, `index_tree`; `Ingest`: `ingest_batch`; `StageEcho`: the watcher finds its own entry; `Dies`: a command ends in between |
| `ViolationRecords` | `violations`, `recurs`, `audit` (a run of the writer), `asking` (tools at their embedding) | `WriteFinding`: `write_violations`; `Record`, `Recur`, `Resolve`: the tools |
| `WorkItems` | `item`, `owner`, `blocks`, `taskDecision`, `supersedes` | the tools of `tasks.py` and `decisions.py` |
| `Listing` | none | `Sorted` and `Slices`: `sorted()` and the slices of `_chunk_files` and `_split_batches` |
| `PackageAudit` | `discovered`, `chunks`, `analysed`, `processed`, `auditReport` | the nodes of the audit graph, `ChunkRaises`, `CancelAudit` |
| `Orchestrator` | `merging` (the branch of `_merge_into_aggregate` for the sub-agent), `batches`, `batchResults`, `aggregate`, `report`, `batchCalls` | `Merge`: what an output adds to the aggregate; `RunBatches`, `NextBatch`, `EndBatch`, `RunReports`: driven by Python; `ProcessBatch`, `Finalize`: driven by a model |

Histories, read by no action: `late` and `givenUp` in `SummaryWorker`, `unmade` and
`suspect` in `EmbeddingIndex`, `used` in `EmbeddingCache`, `ran` in `CodeBridge`,
`touched`, `unparsed` and `spoiled` in `CodeIndex`, `onlyMarked` in `WorkItems`. The properties name
through them the ways in which a raising statement, a cancelled worker or a crash breaks
what they promise; everything else is excluded.

`CodeIndex` has no event loop to itself: a curated command is dispatched by a snippet that
runs in a child process of its own (`services/commands/catalog.py`, `sandbox/provider.py`),
so `code stage`, `code commit-index` and the watcher meet on the stage directory only, with
no lock. Two that open the same entry write into each other; a commit unlinks by path what
was written after it had loaded; a batch prepared earlier may be written later. `spoiled`
collects the paths where this happened to the watcher's entry, and `StagedIsFresh` claims
all others. The database file is open in one process at a time, so an ingest stays one step.

`PackageAudit` is restricted to one file extension, the default `[".py"]` that every caller in
the repository leaves in place. With several, `_discover_package_files` sorts the files of
each extension by themselves and lists a file once for each extension its name ends in.

What modelling them showed of the code, none of it listed under "findings":

- `stop_worker` that times out leaves its sentinel in the queue, and a sentinel is the
  first thing the worker of the next lifespan may find: it ends at once, and sessions
  captured then wait. `DrainedStop` is about stops that did not time out;
- `upsert_issue` sets the new hash before the vector and compares with a hash read before
  its await: a raising statement, or two calls for one issue, leave the hash of one text
  beside the vector of another, and an unchanged issue is not embedded again;
- a cache size of 0 makes every store raise `KeyError`: it does not switch the cache off;
- `stale_cleanup_ids` of an ingest batch is never filled, so symbols that left a file
  stay in the graph; if the second FTS index cannot be dropped, the first is not made
  again before the next start, and one that cannot be made again is only logged;
- one torn stage entry blocks every commit; a commit may unlink an entry that the watcher
  wrote after the commit had loaded, and a command that prepared before an edit may
  overwrite the watcher's newer entry: the save is then in neither stage nor graph;
- `_merge_into_aggregate` has no branch for the reports of `security_audit`, `bug_audit` and
  `smell_audit`, so their findings are in no aggregate, and the payloads of a project helper
  overwrite each other key by key;
- `_analyze_chunk` reads a field `violations` of an `AuditReport` that has `all_findings`
  only, so a package audit reports no finding; with a negative `chunk_size` it reports
  all files in no chunk, and 0 raises;
- overlapping `process_batch` calls take the same batch index, and `finalize` does not
  wait for them. `ReportIsWhole` is therefore about runs driven by Python;
- the audit and context-map nodes of the managed graph use the file contents read before
  the implementation;
- the autopilot's guard runs its checks in the repository (`_state_run_quality_gate`), not in
  the sandbox workspace, although `docs/planning/tasks/archived/028-sandbox.md:354` asks for
  the latter: that a guard approved says nothing of what is merged, and
  `MergedWasValidated` claims no more than the approval;
- a start that returns after `destroy_session` has begun sets the session active again:
  the run ends and its session is left to the stale sweep.

## 4. What the runs show

Deadlock is not checked: the bounds (`NumTasks`, `MaxStarts`) end every behaviour, and a
server that has nothing to do is not an error.

| Run | Instance | Properties |
|---|---|---|
| `task_queue` | 3 tasks (one endless), 2 slots, history of 1, 2 clients | `TypeOK`, `Pool`, `Filed`, `Retention`, `ImplementsLifecycle`, `QueuedLeaves`, `CancelAnswered`, `ShutdownEnds` |
| `task_queue_cancel` | 3 tasks (one endless), 1 slot, history of 2, 2 clients | `CancelReturnsTerminal`: violated |
| `sandbox` | 1 session, 2 clients and the cleanup, 2 starts of the server | `Provisioning`, `Persisted`, `TerminatedIsClean`, `ContainersKnown`, `StaleCleaned`, `RunAnswered` |
| `sandbox_sweep` | 2 sessions (one retained), 1 client and the cleanup, 1 start | `Persisted`, `TerminatedIsClean`, `ContainersKnown` |
| `sandbox_ended` | as `sandbox` | `EndedStopsContainer`: violated |
| `sandbox_restart` | as `sandbox` | `RestartRecovers`: violated |
| `workflow_merge` | 2 autopilot runs of one draft, 1 file with 2 contents, 2 moves of others, 1 worker, artifacts retained | `TypeOK`, `SessionGivenUp`, `MergedStays` |
| `workflow_live` | 1 managed run, 1 autopilot run, no file, 1 move, 2 workers, an `execute` in one session | `MergedWasValidated`, `RunsEnd` |
| `workflow_flagged` | 1 managed run, 1 autopilot run, 1 file with 2 contents, 2 moves, 2 workers | `FailedAuditBlocksMerge`: violated |
| `workflow_host` | as `workflow_flagged`, artifacts retained | `HostChangeBlocksMerge`: violated |
| `workflow_copied` | as `workflow_flagged` | `OnlyChangedCopied`: violated |
| `services` | see below | types, 11 invariants, `DrainedStop`, `StopEnds`, `RunEnds`, `WatcherSettles`, `ResolvedStays` |

The properties of `services` by component: `JoinCounter`, `PendingHasJob`, `DrainedStop`,
`StopEnds` (summary worker); `IndexAccounted`, `HashMeansEmbedding` (graph); `CacheIsRecent`
(cache); `CallsRunOnce`, `RunEnds` (bridge); `StagedIsFresh`, `WatcherSettles` (code index);
`OneLiveNode`, `ResolvedStays` (violations); `SupersededHasSuccessor` (decisions);
`AuditedOnce` (package audit); `ReportIsWhole` (orchestrator).

Why the bounds are enough. Three tasks on two slots let two run while one waits, and two
be finished with a history of one, so that one is forgotten; the endless one lets a slot
be taken for ever. That more tasks wait in the order of their acceptance is not left to a
bound: `QueueIsFifo` is proved. Two clients are enough for a double cancel of one task and
for a client that gives up while another waits. A session races with itself through its
callers only, so one session with two clients and the cleanup covers a start against a
destroy against an exec; the sweep is the only loop over sessions, and two sessions let it
visit one while the other changes. Two starts let a server recover what its predecessor
left. Merge-back treats each file by itself, so one file with two contents, or none, shows
every combination of snapshot, workspace and host; two moves (edits, container writes,
sweeps, cancellations, exits with 137; `MaxMoves`) are one for each run, or an edit and a
sweep against one run, and that is what it takes to lose a merge. What merge-back does is
the same for both kinds of run, so two autopilot runs stand for any two in
`workflow_merge`; what a graph must have done before it merges does not depend on files,
so `workflow_live` has none, both graphs with their retries, and directories that are
removed, whole or in part; that a file is missing in a merge for that reason is in
`workflow_copied`, in `workflow_merge` because a program removed it: the managed run may
retry once and the autopilot run once (its limit of 2 counts attempts). Nothing
in a graph calls `execute`, so who does is named by `Executing`: anybody in either run's session
in `workflow_merge`, one autopilot's in `workflow_live`, either in the violations; the proofs
have any set of them. `Interchangeable`
makes the two contents, and the two runs of one kind, symmetric: they are only compared.

In `services`: two conversations, two attempts and two lifespans (`MaxLifespans`) let one
job be in hand and one queued when a stop times out, and a worker find what its
predecessor left. One file and one issue with two texts, two calls and two raising
statements (`MaxFaults`) let a call overtake another with a fault in each; nodes of one
table meet through its index only. Two texts of two input types make four cache keys for
sizes of 0 to 2 and two overlapping calls. Two bridge calls let one be written while the
other is served. One path, with one of two texts or not there at first, and two changes of
it (`MaxEdits`) let it be edited between the two reads, and again between stage and
commit, by one command beside the watcher; the proof of `StagedIsFresh` has any number of
commands. One fingerprint, two projects (one known), one tool call, three nodes
(`MaxViolations`) and two sightings (`MaxSightings`) let a finding come, be resolved and
come again. One task, two decisions, two projects (one known). Two packages over the same
three files with chunk sizes from -1 to 2, and three files in batches of 0 and 2 with two
overlapping calls and two results (`MaxResults`) of a model, make last chunks whole and
partial.

The six violations are described in `PROJECT.json` under "findings":

- `cancel_task` on a task that has a slot but not its first step returns `running` and
  loses the slot. It needs a client that cancels in the same pass of the event loop in
  which another task's end starts the queued one. The same coroutine survives a
  `shutdown` with status running. `QueuedLeaves` therefore names lost slots beside
  endless runners as the two ways in which the queue starves;
- `destroy_session` after a failed or unfinished `compose up` leaves the container;
- a crash during a start leaves a container that the next server cannot stop;
- merge-back notices a host change only if the file exists in the snapshot and on the
  host, and only if the change came before the comparison. `MergedStays` is what remains
  true: against another run it protects every file that host and snapshot both have, because
  it never awaits;
- a session in use that a sweep could only half remove is merged as if the missing files
  had been deleted on purpose;
- a managed workflow whose last audit still has blocker or critical findings when its
  retries are used up counts as validated and merges, because an audit that answers adds
  no blocker. `MergedWasValidated` is what remains true: nothing blocked, and an audit of
  the last implementation was stored.

Fairness. The event loop runs every ready callback, so each coroutine step and each return
of an awaited command is weakly fair; podman commands time out. Runners end by themselves
unless they are endless, and endless ones end when cancelled. `asyncio.Lock` serves its
waiters in order, which strong fairness of `Wake` stands for. `StaleCleaned` also assumes
that removing a session again and again succeeds at some time (strong fairness of the
successful outcome), which is what a retry relies on. In the workflow modules agents, CLI
checks, copies and `compose down` end, so each step of a run that has started is weakly
fair; a run that is idle need not start. In `SummaryWorker` the timers of `stop_worker`
fire and a cancelled worker gets its exception; nothing makes Ollama answer, and
`StopEnds` holds all the same. In `CodeBridge` both processes run, tools return, and the
code ends when no call of it is open. In `CodeIndex` the watcher goes on with a file it
has begun, and its queue is first in, first out, so that no path waits in it behind others
for ever (strong fairness of `WatcherLooks` for each path); nothing is asked of commands.
Requests, crashes and cancellations are never assumed to happen.

Every property has a mutant: an operator `X_mutant...` beside `X`, `X` with a plausible
bug, under which TLC finds the property violated.

## 5. What is proved

Each theorem holds for every value of the constants that satisfies the named assumption
of its module (`ConfigAssumption`, `SummaryAssumption`, ...): constants that stand for
"nobody" or "nothing" are no members of the sets they are compared with, and bounds are
numbers. In each module the argument is an inductive invariant, one lemma per action or
per kind of action, and a last step of temporal logic. Every inductive invariant below is
stronger than what it is for; this is why.

**`TaskQueueProof`.** `Pool` is not inductive: that a drain leaves no slot free needs every
id of the queue to be startable, which is `Filed`, and `Filed` needs that a coroutine
which is about to end still holds its slot (`Active`) and that a new id is in no place yet
(`Fresh`). `IInv` is the conjunction of `TypeOK`, `Pool`, `Filed`, `Active` and `Fresh`.
Lemmas on sequences (`TailFacts`, `JoinFacts`, `RemoveAtFacts`) say how ranges and
injectivity behave under the queue operations, `DrainFacts` and `RememberFacts` what the
two shared operators do.

`TaskQueueImplementsLifecycle` is the refinement of `TaskLifecycle`. The abstract
specification starts tasks in the order of acceptance, which holds of the queue because it
is ascending (`QueueIsFifo`): an entry taken out of the middle by a cancellation, or from
the front by a drain, leaves it so. `Lives` says what any step does to the places of a task,
as far as a poll can tell, and is shown action by action; `LivesLifecycle` turns it into a
step of `TaskLifecycle` or a stutter under the refinement mapping `Polled`.
`FinishedStayPollable` (`Retention`) counts: a task that leaves the history was its oldest
entry, and the history is full.

**`SandboxManagerProof`.** The invariants lean on each other. That nobody runs commands in
a session while it is started needs that a caller inside `exec` or `down` excludes the
status `created` (`Handled`); that a late answer writes `terminated` only over directories
that are gone needs that disk and registry agree (`OnDisk`); that a container survives a
crash on record needs that too, and that a record which is behind belongs to a session
with its lock taken, which the crash adds to the escapes; that an abandoned `compose up`
starts nothing unlisted needs `Exclusive`. `SessionInv` says all this of one session,
`Frame` that a step on one session keeps it for the others, and `DownIsEmpty` that a
server that is down has no callers.

**`AutopilotProof`**, about the composition of the two graphs and the sandbox they share,
for any number of runs of either kind. `RunInv` is the invariant of one run.
`MergedWasValidated` needs that a run in its graph is still undecided (`Undecided`), that
behind the audit loop of a managed run nothing blocks only if an audit was stored since
the last implementation, with findings only if no retry was left (`AuditStored`), and that
an autopilot run in its graph has a retry left (`RetryLeft`): its guard lets the last
draft go. `MergedStays` compares a merge with all others, and needs that only one run
copies at a time (`OneCopies`, from `merge_back` having the event loop to itself) and that
each planned file is still what conflict detection saw, or is one of the cases in which
the code compares nothing (`Planned`).

**`SummaryWorkerProof`.** `JoinCounter` is inductive with the shapes of queue and worker:
an action that contains `TaskDone` takes an entry off the queue or lays the job down,
never both. `SummaryInv` adds `PendingHasJob` itself, what the worker has in its hands
(`Hands`), and `Drained`: once `join()` returned, only sessions captured since
`stop_worker` began are in the queue. There `JoinCounter` is used, because the code knows
that the queue is empty by its counter being zero. `DrainedStop` follows.

**`GraphRecordsProof`**, the nodes that tools and services keep in the graph.
- Work items: `SupersededHasSuccessor` from the fact that no tool deletes an item or a
  relation (`Grows`).
- Violations: `OneNode` states uniqueness without counting; `AppendKeeps` and `ReplaceKeeps`
  cover the two ways in which the nodes change. The types need that a `violation_recur`
  in progress holds the id of a stored node, which is so because no node is deleted.
- Embeddings: an idle call must be on no node, which is why the assumption keeps `NoSource`
  out of files and issues; `NodeKeepsHash` is the step of a single node.
- Embeddings and text: `StoreFile` and `CodeIngest` may lose the full-text indexes, which go
  into `unmade` with the vector indexes that `db_update_embedding` drops.
- Code index: `StagedIsFresh` says nothing of a path while somebody has it in hand, so
  `CodeInv` has to say what the pending steps will write. What the watcher has read is the
  text on disk, or it will be told again (`WatcherIsCurrent`); one that writes an entry by
  itself is the only writer of it (`WritesAlone`); and what commands have in hand of a path
  that is neither noticed nor spoiled is that text too, and is in the graph before they
  unlink its entry (`CleanIsFresh`).

**`CodeBridgeProof`.** That an unanswered request was not run before is known only while the
bridge polls: `RunOnceInv` adds the call in its hand, and a bridge that is over and never
looks again.

**`BatchesProof`**, about lists: the cache, the chunks of an audit, the batches of the
orchestrator.
- Cache: `CacheInv` says that the cache is the end of the history of uses, of the length
  that its size allows. A hit moves a key to the end of both; a store takes the oldest key
  away if the cache is full (`EndMoved`, `EndStored`).
- Listing: `SortedIsThe` and `SortedAppend` show that files have one sorted list, found by
  rank; `SliceFacts` that the slices of a list put end to end are the list, and `SlicesCover`
  that they hold nothing else, for every size above zero.
- Package audit: `AuditInv` fixes what the chunks are (`Cut`, computed from the listing) and
  says that they are handed out from the front, one package at a time, each counted once
  (`HandedOut`). `AuditedOnce` is that with `SliceFacts`, and a bijection between the files
  of the packages and the places of their lists for the totals (`PlacesAreFiles`).
- Orchestrator: `BatchesInv` says of a run by Python that its results are those of the
  first batches in their order (`InOrder`), that the one open call is on the next batch,
  and, of every run, that the aggregate is what `Merge` keeps of the results that did not fail.
  `ReportIsWhole` is what is left when no batch is open.

**`ServicesProof`.** Every behaviour of the composition is a behaviour of each of its nine
parts (`ServicesRunSummary` and its like), so their theorems hold in it: `ServicesTypes`,
`ServicesAreSound` (eleven invariants), `ServicesDrain`, `ServicesKeepResolved`. This is
the specification the run `services` checks.

Proving the types of the violation nodes showed that the bound `MaxSightings` must not be 0:
a node is created with its first sighting. `ViolationAssumption` says so.

TLC only: liveness, because fairness and ENABLED are out of the prover's reach. These are
`QueuedLeaves`, `CancelAnswered`, `ShutdownEnds`, `StaleCleaned`, `RunAnswered`, `RunsEnd`,
`StopEnds`, `RunEnds` and `WatcherSettles`; and the six disagreements, which are
counterexamples. TLC finds no violation of the inductive invariants on the
instances of the runs. The library's induction theorems cannot be instantiated; where two
recursive descriptions of one list must agree (`FlattenSeq` against a list by its
positions), `BatchesProof` refutes the least place at which they would not, with the
well-foundedness of finite sets (`LeastPlace`). The modules use no RECURSIVE operator.

## 6. What is not modelled

Each component that stays out has a note in `PROJECT.json`.

- Extractors, resolvers and query generation of the parsers: a sequential translation of
  syntax trees without state. What can go wrong is in the trees, and real sources in unit
  tests reach that better than a model would. Their results enter `CodeIndex` as a text's
  symbols.
- Prompts, output models and the other agents: what they return is a choice in the graphs.
- Memory, notes and graph queries, project tools: single statements of an external
  database, or pure queries.
- The query engine and its transactions: taken as atomic statements, and as one
  transaction in `ingest_batch`.
- Tool tiers, confirmations, wiring, web, telemetry, evaluation: no state that another
  part depends on.
- The allowlisted commands of the filesystem tools: after a timeout `communicate` waits
  for pipes that grandchildren may hold; that is the operating system's doing.
- The whole lifespan as one sequence: each component sees the part that concerns it.
  Sandboxes are swept, then the queue, the summariser and the database are stopped; they
  share no variable that such a model would let them disagree about, except a session
  that a queued workflow uses while it is swept, which `WorkflowSandbox` has.
- A partial failure of `create_repo_snapshot`, an `OSError` inside the periodic cleanup and a
  copy that fails half way in merge-back: disk failures with no promise to hold them to;
  the hazards list has them with notes.
