------------------------------ MODULE SandboxManager ------------------------------
(***************************************************************************)
(* SandboxManager (src/mem_graph/sandbox/manager.py, cleanup.py and          *)
(* containers/podman.py): the registry of sandbox sessions, the metadata     *)
(* file of each, its workspace directories and its Podman containers.        *)
(*                                                                          *)
(* One asyncio event loop: an action runs from one await to the next. The    *)
(* awaits are the lock of a session and the podman commands, which run in a  *)
(* thread (asyncio.to_thread): a caller that is cancelled there leaves the   *)
(* command running (`leftover`). The server may crash at any await, or while *)
(* it writes a metadata file, and start again from the files it left.        *)
(*                                                                          *)
(* Session ids are fresh: workflows take a uuid4 for each run. What merge_back *)
(* and touch write beside the status is left out.                            *)
(***************************************************************************)
EXTENDS Integers, FiniteSets

CONSTANTS
  Sessions,    \* session ids
  Clients,     \* requests and workflow runs that may use the manager at once
  Cleaner,     \* run_periodic_cleanup, and after it the lifespan's own sweep
  Nobody,      \* no caller
  Retained,    \* sessions created with retain_artifacts
  MaxStarts    \* bound: how often the server is started

ASSUME ConfigAssumption ==
  /\ Cleaner \notin Clients
  /\ Nobody \notin Clients \cup {Cleaner} \cup Sessions
  /\ Retained \subseteq Sessions
  /\ MaxStarts \in Nat

VARIABLES
  server,    \* "down", "up", or "stopping": the lifespan has left its yield
  starts,    \* how often it was started
  session,   \* self._sessions: the status, and whether container_id and compose_project are set
  disk,      \* metadata.json of each session
  layout,    \* sessions whose repo/ and workspace/ directories exist
  running,   \* sessions whose compose project has a running container
  lock,      \* self._locks: who holds the lock of each session
  call,      \* what each caller awaits, and for which session
  leftover,  \* podman commands whose caller is gone
  expired,   \* sessions past expires_at
  sweep,     \* "none", "stale": inside cleanup_stale, "all": inside shutdown
  todo,      \* the sessions that sweep has still to look at
  slipped    \* history: see Slip

memory == <<session, lock, call, sweep, todo>>
world == <<disk, layout, running, leftover, expired, slipped>>
vars == <<server, starts, memory, world>>

Callers == Clients \cup {Cleaner}

Live == {"created", "active", "failed", "terminating"}
Record == [status : {"none", "torn", "terminated"} \cup Live,
           container : BOOLEAN, project : BOOLEAN]
Absent == [status |-> "none", container |-> FALSE, project |-> FALSE]

Idle == [at |-> "idle", on |-> Nobody]
At(c, place) == call[c].at = place

TypeOK ==
  /\ server \in {"down", "up", "stopping"}
  /\ starts \in 0..MaxStarts
  /\ session \in [Sessions -> {r \in Record : r.status # "torn"}]
  /\ disk \in [Sessions -> Record]
  /\ layout \subseteq Sessions
  /\ running \subseteq Sessions
  /\ lock \in [Sessions -> Callers \cup {Nobody}]
  /\ call \in [Callers -> [at : {"lock", "up", "ps", "exec", "down"}, on : Sessions]
                          \cup {Idle}]
  /\ leftover \subseteq {"up", "down"} \X Sessions
  /\ expired \subseteq Sessions
  /\ sweep \in {"none", "stale", "all"}
  /\ todo \subseteq Sessions
  /\ slipped \subseteq Sessions

Init ==
  /\ server = "down"
  /\ starts = 0
  /\ session = [s \in Sessions |-> Absent]
  /\ disk = [s \in Sessions |-> Absent]
  /\ layout = {}
  /\ running = {}
  /\ lock = [s \in Sessions |-> Nobody]
  /\ call = [c \in Callers |-> Idle]
  /\ leftover = {}
  /\ expired = {}
  /\ sweep = "none"
  /\ todo = {}
  /\ slipped = {}

---------------------------------------------------------------------------------
(* The steps shared by the handlers *)

(* session.status = ... and _write_metadata; the record r has the other fields *)
Save(s, r, st) ==
  /\ session' = [session EXCEPT ![s] = [r EXCEPT !.status = st]]
  /\ disk' = [disk EXCEPT ![s] = [r EXCEPT !.status = st]]

Await(c, place, s) == call' = [call EXCEPT ![c] = [at |-> place, on |-> s]]
Return(c) == call' = [call EXCEPT ![c] = Idle]
Release(s) == lock' = [lock EXCEPT ![s] = Nobody]

(* The ways in which a container escapes the records are kept in `slipped`: its
   start was abandoned or failed half way, its session was destroyed while it was
   starting, `compose down` exited nonzero, which stop ignores, or a crash tore its
   metadata file.                                                              *)
Slip(s, really) == slipped' = IF really THEN slipped \cup {s} ELSE slipped

---------------------------------------------------------------------------------
(* create_session: no await, so one step. It may fail after it made the directories:
   create_repo_snapshot refuses a sandbox root inside the repository.          *)
Unused(s) ==
  /\ session[s] = Absent /\ disk[s] = Absent
  /\ s \notin layout \cup running

Create(s) ==
  /\ server # "down"
  /\ Unused(s)
  /\ layout' = layout \cup {s}
  /\ \/ Save(s, Absent, "created")
     \/ UNCHANGED <<session, disk>>
  /\ UNCHANGED <<server, starts, lock, call, sweep, todo, running, leftover, expired, slipped>>

---------------------------------------------------------------------------------
(* run_in_session *)

(* from the acquired lock to the next await; the lock is kept while it starts *)
Enter(c, s) ==
  \/ /\ session[s].status = "created"
     /\ lock' = [lock EXCEPT ![s] = c]
     /\ Await(c, "up", s)
  \/ /\ session[s].status = "active"
     /\ IF session[s].container THEN Await(c, "exec", s) ELSE Return(c)
     /\ UNCHANGED lock
  \/ /\ session[s].status \notin {"created", "active"}
     /\ Return(c)
     /\ UNCHANGED lock

(* starts the container without waiting for the lock *)
Run_mutantUnlocked(c, s) ==
  /\ call[c] = Idle
  /\ session[s] # Absent
  /\ Enter(c, s)
  /\ UNCHANGED <<server, starts, world, session, sweep, todo>>

Run(c, s) ==
  /\ call[c] = Idle
  /\ session[s] # Absent
  /\ IF lock[s] = Nobody /\ \A d \in Callers : call[d] # [at |-> "lock", on |-> s]
     THEN Enter(c, s)
     ELSE Await(c, "lock", s) /\ UNCHANGED lock
  /\ UNCHANGED <<server, starts, world, session, sweep, todo>>

(* a waiter gets the lock *)
Wake(c, s) ==
  /\ At(c, "lock")
  /\ call[c].on = s
  /\ lock[s] = Nobody
  /\ Enter(c, s)
  /\ UNCHANGED <<server, starts, world, session, sweep, todo>>

(* start: `compose up` exits 0, and compose_project is set in memory *)
Up(c, s) ==
  /\ At(c, "up") /\ call[c].on = s
  /\ running' = running \cup {s}
  /\ session' = [session EXCEPT ![s].project = TRUE]
  /\ Await(c, "ps", s)
  /\ UNCHANGED <<server, starts, lock, sweep, todo, disk, layout, leftover, expired, slipped>>

(* raises without the except clause that files the failure *)
StartFails_mutantUnsaved(c, s) ==
  /\ At(c, "up") \/ At(c, "ps")
  /\ call[c].on = s
  /\ session' = [session EXCEPT ![s].status = "failed"]
  /\ running' \in IF At(c, "up") THEN {running, running \cup {s}} ELSE {running}
  /\ Slip(s, running' # running)
  /\ Release(s)
  /\ Return(c)
  /\ UNCHANGED <<server, starts, sweep, todo, disk, layout, leftover, expired>>

(* raises out of the locked region, which is left without a release *)
StartFails_mutantLocked(c, s) ==
  /\ At(c, "up") \/ At(c, "ps")
  /\ call[c].on = s
  /\ Save(s, session[s], "failed")
  /\ running' \in IF At(c, "up") THEN {running, running \cup {s}} ELSE {running}
  /\ Slip(s, running' # running)
  /\ Return(c)
  /\ UNCHANGED <<server, starts, sweep, todo, lock, layout, leftover, expired>>

(* start raises: a policy error, `compose up` fails (its containers may be up all the
   same) or times out, or the `podman ps` of _container_id times out            *)
StartFails(c, s) ==
  /\ At(c, "up") \/ At(c, "ps")
  /\ call[c].on = s
  /\ Save(s, session[s], "failed")
  /\ running' \in IF At(c, "up") THEN {running, running \cup {s}} ELSE {running}
  /\ Slip(s, running' # running)
  /\ Release(s)
  /\ Return(c)
  /\ UNCHANGED <<server, starts, sweep, todo, layout, leftover, expired>>

(* start returns, with the empty container_id when `podman ps` lists nothing or fails;
   whatever became of the session meanwhile, it is active now                   *)
Started(c, s) ==
  /\ At(c, "ps") /\ call[c].on = s
  /\ \E id \in {FALSE, (s \in running)} :
       /\ Save(s, [session[s] EXCEPT !.container = id], "active")
       /\ IF id THEN Await(c, "exec", s) ELSE Return(c)
  /\ Release(s)
  /\ UNCHANGED <<server, starts, sweep, todo, layout, running, leftover, expired, slipped>>

(* exec returns and the session is saved as it is now; exit code 137 fails it *)
ExecReturns(c, s) ==
  /\ At(c, "exec") /\ call[c].on = s
  /\ \E st \in {session[s].status, "failed"} : Save(s, session[s], st)
  /\ Return(c)
  /\ UNCHANGED <<server, starts, lock, sweep, todo, layout, running, leftover, expired, slipped>>

(* CancelledError in any of these awaits; the except clause of the start does not
   catch it, and its podman command goes on                                     *)
RunCancelled(c, s) ==
  /\ call[c].at \in {"lock", "up", "ps", "exec"} /\ call[c].on = s
  /\ Return(c)
  /\ lock' = IF lock[s] = c THEN [lock EXCEPT ![s] = Nobody] ELSE lock
  /\ leftover' = IF At(c, "up") THEN leftover \cup {<<"up", s>>} ELSE leftover
  /\ Slip(s, lock[s] = c)
  /\ UNCHANGED <<server, starts, session, sweep, todo, disk, layout, running, expired>>

---------------------------------------------------------------------------------
(* destroy_session, which takes no lock *)

(* The end of destroy_session with record r: the directories are removed, if that
   goes well, and the session is terminated; or removing them or stop raised.   *)
FinishDestroy_mutantFinally(s, r, ok) ==
  /\ Save(s, r, "terminated")
  /\ layout' = IF ok /\ s \notin Retained THEN layout \ {s} ELSE layout

FinishDestroy(s, r, ok) ==
  /\ Save(s, r, IF ok THEN "terminated" ELSE "failed")
  /\ layout' = IF ok /\ s \notin Retained THEN layout \ {s} ELSE layout

(* what destroy_session asks before it stops the containers *)
MustStop_mutantContainerOnly(r) == r.container
MustStop(r) == r.container \/ r.project

(* caller c enters destroy_session *)
BeginDestroy(c, s, ok) ==
  /\ session[s].status \in Live
  /\ IF MustStop(session[s])
     THEN /\ Save(s, session[s], "terminating")
          /\ Await(c, "down", s)
          /\ UNCHANGED layout
     ELSE FinishDestroy(s, session[s], ok) /\ UNCHANGED call
  /\ Slip(s, lock[s] # Nobody)
  /\ UNCHANGED <<server, starts, lock, running, leftover, expired>>

Destroy(c, s, ok) ==
  /\ call[c] = Idle
  /\ BeginDestroy(c, s, ok)
  /\ UNCHANGED <<sweep, todo>>

(* stop returns, whatever the exit code of `compose down`, and the rest follows *)
Stopped(c, s, ok) ==
  /\ At(c, "down") /\ call[c].on = s
  /\ running' \in {running, running \ {s}}
  /\ FinishDestroy(s, session[s], ok)
  /\ Slip(s, ok /\ s \in running')
  /\ Return(c)
  /\ UNCHANGED <<server, starts, lock, sweep, todo, leftover, expired>>

(* stop times out *)
StopFails(c, s) ==
  /\ At(c, "down") /\ call[c].on = s
  /\ running' \in {running, running \ {s}}
  /\ FinishDestroy(s, session[s], FALSE)
  /\ Return(c)
  /\ UNCHANGED <<server, starts, lock, sweep, todo, leftover, expired, slipped>>

(* CancelledError in stop: the session stays terminating *)
DestroyCancelled(c, s) ==
  /\ At(c, "down") /\ call[c].on = s
  /\ Return(c)
  /\ leftover' = leftover \cup {<<"down", s>>}
  /\ UNCHANGED <<server, starts, session, lock, sweep, todo, disk, layout, running,
                 expired, slipped>>

(* a podman command nobody waits for ends, with or without effect *)
LeftoverEnds(kind, s) ==
  /\ <<kind, s>> \in leftover
  /\ leftover' = leftover \ {<<kind, s>>}
  /\ running' \in {running, IF kind = "up" THEN running \cup {s} ELSE running \ {s}}
  /\ UNCHANGED <<server, starts, memory, disk, layout, expired, slipped>>

---------------------------------------------------------------------------------
(* cleanup_stale and shutdown: one session after the other is destroyed *)

Expire(s) ==
  /\ disk[s].status \in Live
  /\ expired' = expired \cup {s}
  /\ UNCHANGED <<server, starts, memory, disk, layout, running, leftover, slipped>>

(* the sessions a sweep destroys when it comes to them *)
Sweepable_mutantActive == {s \in Sessions : session[s].status \in {"created", "active"}}
Sweepable ==
  {s \in Sessions : session[s].status \in
     IF sweep = "all" THEN {"created", "active", "failed"} ELSE Live}

(* the periodic cleanup wakes up *)
SweepStale ==
  /\ server = "up"
  /\ sweep = "none"
  /\ sweep' = "stale"
  /\ todo' = {s \in expired : session[s] # Absent}
  /\ UNCHANGED <<server, starts, world, session, lock, call>>

SweepNext(s, ok) ==
  /\ call[Cleaner] = Idle
  /\ s \in todo
  /\ todo' = todo \ {s}
  /\ IF s \in Sweepable
     THEN BeginDestroy(Cleaner, s, ok)
     ELSE UNCHANGED <<server, starts, world, session, lock, call>>
  /\ UNCHANGED sweep

(* the sweep has seen every session; in the lifespan's shutdown the next one follows,
   and the server is gone after the last                                        *)
SweepEnds ==
  /\ sweep # "none"
  /\ todo = {}
  /\ call[Cleaner] = Idle
  /\ server = "up"
  /\ sweep' = "none"
  /\ UNCHANGED <<server, starts, world, session, lock, call, todo>>

ShutdownSweep ==
  /\ server = "stopping"
  /\ sweep = "stale"
  /\ todo = {}
  /\ call[Cleaner] = Idle
  /\ sweep' = "all"
  /\ todo' = {s \in Sessions : session[s] # Absent}
  /\ UNCHANGED <<server, starts, world, session, lock, call>>

---------------------------------------------------------------------------------
(* The server *)

(* recover_metadata: torn files and terminated sessions are skipped *)
Recovered_mutantTorn(r) == IF r.status # "terminated" THEN r ELSE Absent
Recovered(r) == IF r.status \in Live THEN r ELSE Absent

Startup ==
  /\ server = "down"
  /\ starts < MaxStarts
  /\ server' = "up"
  /\ starts' = starts + 1
  /\ session' = [s \in Sessions |-> Recovered(disk[s])]
  /\ UNCHANGED <<world, lock, call, sweep, todo>>

(* The lifespan leaves its yield: it cancels the periodic cleanup, inside stop or
   not, and runs cleanup_stale itself. Workflow runs of the task queue go on.   *)
Stop ==
  /\ server = "up"
  /\ server' = "stopping"
  /\ Return(Cleaner)
  /\ leftover' = IF At(Cleaner, "down") THEN leftover \cup {<<"down", call[Cleaner].on>>}
                 ELSE leftover
  /\ sweep' = "stale"
  /\ todo' = {s \in expired : session[s] # Absent}
  /\ UNCHANGED <<starts, session, lock, disk, layout, running, expired, slipped>>

(* the process ends, with the metadata files of the sessions `torn` half written;
   podman commands in flight may outlive it                                    *)
Dies(torn) ==
  LET Flight == {<<call[c].at, call[c].on>> : c \in {d \in Callers : call[d].at \in {"up", "down"}}}
  IN  /\ server' = "down"
      /\ session' = [s \in Sessions |-> Absent]
      /\ disk' = [s \in Sessions |->
                    IF s \in torn THEN [Absent EXCEPT !.status = "torn"] ELSE disk[s]]
      /\ lock' = [s \in Sessions |-> Nobody]
      /\ call' = [c \in Callers |-> Idle]
      /\ sweep' = "none"
      /\ todo' = {}
      /\ \E outlive \in SUBSET Flight : leftover' = leftover \cup outlive
      /\ slipped' = slipped \cup torn \cup {s \in Sessions : lock[s] # Nobody}
      /\ UNCHANGED <<starts, layout, running, expired>>

Exit ==
  /\ server = "stopping"
  /\ sweep = "all"
  /\ todo = {}
  /\ call[Cleaner] = Idle
  /\ Dies({})

(* a crash, at an await or inside the write_text of a metadata file *)
Crash ==
  /\ server # "down"
  /\ \/ Dies({})
     \/ \E s \in Sessions : session[s].status \in Live /\ Dies({s})

---------------------------------------------------------------------------------
ClientStep(c, s) ==
  \/ Run(c, s) \/ Wake(c, s) \/ Up(c, s) \/ StartFails(c, s) \/ Started(c, s)
  \/ ExecReturns(c, s) \/ RunCancelled(c, s) \/ DestroyCancelled(c, s)
  \/ \E ok \in BOOLEAN : Destroy(c, s, ok)

Next ==
  \/ \E s \in Sessions : Create(s) \/ Expire(s)
  \/ \E c \in Clients, s \in Sessions : ClientStep(c, s)
  \/ \E c \in Callers, s \in Sessions :
       \/ \E ok \in BOOLEAN : Stopped(c, s, ok)
       \/ StopFails(c, s)
  \/ \E s \in Sessions, ok \in BOOLEAN : SweepNext(s, ok)
  \/ \E kind \in {"up", "down"}, s \in Sessions : LeftoverEnds(kind, s)
  \/ SweepStale \/ SweepEnds \/ ShutdownSweep
  \/ Startup \/ Stop \/ Exit \/ Crash

Spec == Init /\ [][Next]_vars

(* The event loop runs every callback and podman commands return or time out; the
   sleep of the periodic cleanup ends. A lock's waiters get it in turn (SF). A
   sweep that comes to a session again and again succeeds some time.            *)
Fairness ==
  /\ \A c \in Clients, s \in Sessions :
       /\ SF_vars(Wake(c, s))
       /\ WF_vars(Up(c, s) \/ StartFails(c, s) \/ Started(c, s) \/ ExecReturns(c, s))
  /\ WF_vars(SweepStale) /\ WF_vars(SweepEnds)
  /\ \A s \in Sessions :
       /\ WF_vars(\E ok \in BOOLEAN : SweepNext(s, ok) \/ Stopped(Cleaner, s, ok))
       /\ SF_vars(SweepNext(s, TRUE)) /\ SF_vars(Stopped(Cleaner, s, TRUE))

FairSpec == Spec /\ Fairness

---------------------------------------------------------------------------------
(* Properties *)

(* While one caller provisions the container of a session, it holds the session's
   lock and no other caller provisions it or runs commands in it: what the lock and
   the status checked under it are for.                                        *)
Provisioning ==
  \A c \in Callers : call[c].at \in {"up", "ps"} =>
    /\ lock[call[c].on] = c
    /\ \A d \in Callers \ {c} : call[d].on = call[c].on => call[d].at \in {"lock", "down"}

(* A crash at any await loses nothing of the registry but the compose_project of a
   container whose start is under way or was abandoned: each status change, also
   those of late answers, is on disk before anything else runs.                                       *)
Persisted ==
  \A s \in Sessions : session[s] # Absent =>
    /\ disk[s].status = session[s].status
    /\ disk[s].container = session[s].container
    /\ disk[s].project # session[s].project => lock[s] # Nobody \/ s \in slipped

(* A session that is on record as terminated has no directories left (unless they
   are to be retained): a cleanup that failed is on record as failed, so that a
   later sweep or the next server tries again.                                 *)
TerminatedIsClean == \A s \in layout \ Retained : disk[s].status # "terminated"

(* A running container is one that a later destroy_session will stop: its session is
   on record (in memory, or on disk when the server is down) with its project. The
   only containers that escape are those of `slipped`.                          *)
ContainersKnown ==
  \A s \in running \ slipped :
    LET r == IF server = "down" THEN disk[s] ELSE session[s]
    IN  r.status \in Live /\ (r.container \/ r.project)

(* A session past its TTL is terminated by the periodic cleanup, also one whose
   cleanup failed or was cut off, and one recovered after a crash.              *)
StaleCleaned ==
  \A s \in Sessions :
    (s \in expired /\ session[s] # Absent) ~> (session[s].status = "terminated" \/ server # "up")

(* run_in_session is always answered: no start that fails, is cancelled, or finds its
   session destroyed leaves the lock taken.                                    *)
RunAnswered ==
  \A c \in Clients : (call[c].at \in {"lock", "up", "ps", "exec"}) ~> (call[c] = Idle)

(* "Explicit session end removes the container and cleans up the workspace"
   (028-sandbox.md): no container runs for a session that is terminated.        *)
EndedStopsContainer ==
  \A s \in running : session[s].status # "terminated" \/ <<"down", s>> \in leftover

(* "Persist enough metadata to recover and clean up stale containers after process
   restart" (028-sandbox.md): of every container that runs when the server starts,
   the recovered session is one whose destroy_session will stop it.             *)
RestartRecovers ==
  [][Startup => \A s \in running : session'[s].status \in Live /\ MustStop(session'[s])]_vars
==================================================================================
