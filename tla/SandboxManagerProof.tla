------------------------ MODULE SandboxManagerProof ------------------------
(***************************************************************************)
(* Proofs about SandboxManager: type correctness and its four safety        *)
(* invariants, for any sessions, callers and number of restarts.            *)
(*                                                                          *)
(* The invariants say something of each session and are not inductive by    *)
(* themselves: that nobody runs commands in a session while it is being     *)
(* started rests on a status that never becomes "created" again, that no    *)
(* container escapes rests on what is on disk, and what is on disk rests on *)
(* the lock.  SessionInv collects what is needed of one session; an action  *)
(* touches one session, and Frame disposes of all the others at once.       *)
(***************************************************************************)
EXTENDS SandboxManager, TLAPS

InMemory == {r \in Record : r.status # "torn"}
Places == {"lock", "up", "ps", "exec", "down"}
CallState == [at : Places, on : Sessions] \cup {Idle}

On(c, s, places) == call[c].at \in places /\ call[c].on = s

(* Who starts the container has the lock; nobody else starts it or uses it. *)
Exclusive(s) ==
  \A c \in Callers : On(c, s, {"up", "ps"}) =>
    /\ lock[s] = c
    /\ \A d \in Callers \ {c} : ~On(d, s, {"up", "ps", "exec"})

(* What a caller that waits for podman knows of its session.                *)
Handled(s) ==
  \A c \in Callers :
    /\ On(c, s, {"up", "ps", "exec", "down"}) => session[s].status # "none"
    /\ On(c, s, {"exec", "down"}) => session[s].status # "created"
    /\ On(c, s, {"up"}) => session[s].status = "created" \/ s \in slipped
    /\ On(c, s, {"ps"}) => session[s].project

(* A start that nobody waits for is on the list of escapes.                 *)
Abandoned(s) == <<"up", s>> \in leftover => s \in slipped

OnDisk(s) ==
  session[s] # Absent =>
    /\ disk[s].status = session[s].status
    /\ disk[s].container = session[s].container
    /\ disk[s].project # session[s].project => lock[s] # Nobody \/ s \in slipped

Clean(s) == s \in layout \ Retained => disk[s].status # "terminated"

OnRecord(r) == r.status \in Live /\ (r.container \/ r.project)

Known(s) ==
  s \in running \ slipped =>
    OnRecord(IF server = "down" THEN disk[s] ELSE session[s])

SessionInv(s) ==
  Exclusive(s) /\ Handled(s) /\ Abandoned(s) /\ OnDisk(s) /\ Clean(s) /\ Known(s)

(* A server that is down has no callers and no registry.                    *)
DownIsEmpty ==
  server = "down" =>
    /\ \A c \in Callers : call[c] = Idle
    /\ \A s \in Sessions : session[s] = Absent

Inv == TypeOK /\ DownIsEmpty /\ \A s \in Sessions : SessionInv(s)

---------------------------------------------------------------------------
(* What the steps shared by the handlers write.                            *)

(* _write_metadata: memory and disk hold the same record with the status.   *)
LEMMA SaveFacts ==
  ASSUME TypeOK, NEW s \in Sessions, NEW r \in Record,
         NEW st \in {"terminated"} \cup Live, Save(s, r, st)
  PROVE  /\ session' \in [Sessions -> InMemory] /\ disk' \in [Sessions -> Record]
         /\ session'[s].status = st
         /\ session'[s].container = r.container /\ session'[s].project = r.project
         /\ disk'[s] = session'[s]
         /\ \A t \in Sessions \ {s} : session'[t] = session[t] /\ disk'[t] = disk[t]
<1> DEFINE new == [r EXCEPT !.status = st]
<1>1. /\ new \in Record /\ new.status = st /\ new.status # "torn"
      /\ new.container = r.container /\ new.project = r.project
  BY DEF Record, Live
<1>2. session' = [session EXCEPT ![s] = new] /\ disk' = [disk EXCEPT ![s] = new]
  BY DEF Save
<1> HIDE DEF new
<1> QED BY <1>1, <1>2 DEF TypeOK, InMemory

(* A caller that goes on to something else changes no other.                *)
LEMMA CallFacts ==
  ASSUME TypeOK, NEW c \in Callers, NEW v \in CallState, call' = [call EXCEPT ![c] = v]
  PROVE  /\ call' \in [Callers -> CallState] /\ call'[c] = v
         /\ \A d \in Callers \ {c} : call'[d] = call[d]
  BY DEF TypeOK, CallState, Places

(* The shapes of the record of a session and of a caller.                   *)
LEMMA TypeFacts ==
  ASSUME TypeOK, NEW s \in Sessions
  PROVE  /\ session[s] \in Record /\ session[s].status # "torn"
         /\ session[s].status \in {"none", "terminated"} \cup Live
         /\ disk[s] \in Record
         /\ lock[s] \in Callers \cup {Nobody} /\ Nobody \notin Callers
         /\ session[s].status # "none" => session[s] # Absent
         /\ \A c \in Callers : call[c] \in CallState
  BY ConfigAssumption DEF TypeOK, Record, Absent, CallState, Places, Callers

(* Idle callers are on no session.                                          *)
LEMMA IdleIsOff == Idle.at \notin Places /\ Idle \in CallState
  BY DEF Idle, Places, CallState

---------------------------------------------------------------------------
(* A session that a step does not touch keeps its invariant, if no caller    *)
(* comes to it.                                                             *)
LEMMA Frame ==
  ASSUME NEW t \in Sessions, SessionInv(t),
         server = "down" <=> server' = "down",
         session'[t] = session[t], disk'[t] = disk[t], lock'[t] = lock[t],
         t \in layout' => t \in layout, t \in running' => t \in running,
         t \in slipped => t \in slipped',
         <<"up", t>> \in leftover' => <<"up", t>> \in leftover,
         \A c \in Callers : call'[c] = call[c] \/ ~(call'[c].at \in Places /\ call'[c].on = t)
  PROVE  SessionInv(t)'
<1>1. Exclusive(t)'
  BY DEF SessionInv, Exclusive, On, Places
<1>2. Handled(t)'
  BY DEF SessionInv, Handled, On, Places
<1>3. Abandoned(t)' /\ OnDisk(t)' /\ Clean(t)' /\ Known(t)'
  BY DEF SessionInv, Abandoned, OnDisk, Clean, Known, OnRecord
<1> QED BY <1>1, <1>2, <1>3 DEF SessionInv

(* A step of one caller on one session: only that session is left to prove.  *)
LEMMA OneSession ==
  ASSUME Inv, NEW s \in Sessions, NEW c \in Callers,
         server # "down", UNCHANGED server, TypeOK',
         \A t \in Sessions \ {s} :
           /\ session'[t] = session[t] /\ disk'[t] = disk[t] /\ lock'[t] = lock[t]
           /\ t \in layout' => t \in layout
           /\ t \in running' => t \in running
           /\ t \in slipped => t \in slipped'
           /\ <<"up", t>> \in leftover' => <<"up", t>> \in leftover,
         \A d \in Callers \ {c} : call'[d] = call[d],
         call'[c] \in {call[c], Idle} \/ call'[c].on = s,
         SessionInv(s)'
  PROVE  Inv'
<1>1. \A t \in Sessions \ {s} : SessionInv(t)'
  <2> TAKE t \in Sessions \ {s}
  <2>1. \A d \in Callers : call'[d] = call[d] \/ ~(call'[d].at \in Places /\ call'[d].on = t)
    BY IdleIsOff
  <2> QED BY <2>1, Frame DEF Inv
<1>2. DownIsEmpty'
  BY DEF DownIsEmpty
<1> QED BY <1>1, <1>2 DEF Inv

(* A caller in an await, or a session on record, means the server is up.     *)
LEMMA Serving ==
  ASSUME Inv, \/ \E c \in Callers : call[c].at \in Places
              \/ \E s \in Sessions : session[s].status # "none"
  PROVE  server # "down"
  BY IdleIsOff DEF Inv, DownIsEmpty, Absent

---------------------------------------------------------------------------
(* create_session: nobody waits in a session that is not on record.          *)
LEMMA CreateKeeps ==
  ASSUME Inv, NEW s \in Sessions, Create(s)
  PROVE  Inv'
<1>1. /\ server # "down" /\ session[s] = Absent /\ disk[s] = Absent
      /\ s \notin layout /\ s \notin running /\ layout' = layout \cup {s}
      /\ UNCHANGED <<server, starts, lock, call, sweep, todo, running, leftover, expired, slipped>>
  BY DEF Create, Unused
<1>2. TypeOK
  BY DEF Inv
<1>3. Absent \in Record /\ Absent.status = "none" /\ ~Absent.container /\ ~Absent.project
  BY DEF Absent, Record
<1>4. \A c \in Callers : ~On(c, s, {"up", "ps", "exec", "down"})
  BY <1>1, <1>3 DEF Inv, SessionInv, Handled
<1>5. /\ session' \in [Sessions -> InMemory] /\ disk' \in [Sessions -> Record]
      /\ session'[s] = Absent \/ disk'[s] = session'[s]
      /\ disk'[s].status # "terminated"
      /\ \A t \in Sessions \ {s} : session'[t] = session[t] /\ disk'[t] = disk[t]
  <2>1. CASE Save(s, Absent, "created")
    BY <1>2, <1>3, <2>1, SaveFacts DEF Live
  <2>2. CASE UNCHANGED <<session, disk>>
    BY <1>1, <1>2, <1>3, <2>2 DEF TypeOK, InMemory
  <2> QED BY <2>1, <2>2 DEF Create
<1>6. TypeOK'
  BY <1>1, <1>2, <1>5 DEF TypeOK, InMemory
<1>7. SessionInv(s)'
  <2>1. Exclusive(s)' /\ Handled(s)'
    BY <1>1, <1>4 DEF Exclusive, Handled, On
  <2>2. Abandoned(s)'
    BY <1>1 DEF Inv, SessionInv, Abandoned
  <2>3. OnDisk(s)' /\ Clean(s)' /\ Known(s)'
    BY <1>1, <1>5 DEF OnDisk, Clean, Known
  <2> QED BY <2>1, <2>2, <2>3 DEF SessionInv
<1>8. \A t \in Sessions \ {s} : SessionInv(t)'
  BY <1>1, <1>5, Frame DEF Inv
<1>9. DownIsEmpty'
  BY <1>1 DEF DownIsEmpty
<1> QED BY <1>6, <1>7, <1>8, <1>9 DEF Inv

---------------------------------------------------------------------------
(* run_in_session up to its first await. With the lock free nobody starts the *)
(* container; with the status "created" under it nobody uses one.            *)
LEMMA EnterKeeps ==
  ASSUME Inv, NEW s \in Sessions, NEW c \in Callers, server # "down",
         call[c] = Idle \/ On(c, s, {"lock"}), lock[s] = Nobody, Enter(c, s),
         UNCHANGED <<server, starts, world, session, sweep, todo>>
  PROVE  Inv'
<1> USE DEF world
<1>1. TypeOK /\ SessionInv(s)
  BY DEF Inv
<1>2. \A d \in Callers : ~On(d, s, {"up", "ps"})
  BY <1>1, TypeFacts DEF SessionInv, Exclusive
<1>3. CASE session[s].status = "created" /\ lock' = [lock EXCEPT ![s] = c] /\ Await(c, "up", s)
  <2>1. \A d \in Callers : ~On(d, s, {"exec", "down"})
    BY <1>1, <1>3 DEF SessionInv, Handled
  <2>2. [at |-> "up", on |-> s] \in CallState
    BY DEF CallState, Places
  <2>3. /\ call' \in [Callers -> CallState] /\ call'[c] = [at |-> "up", on |-> s]
        /\ \A d \in Callers \ {c} : call'[d] = call[d]
    BY <1>1, <1>3, <2>2, CallFacts DEF Await
  <2>4. lock' \in [Sessions -> Callers \cup {Nobody}] /\ lock'[s] = c
        /\ \A t \in Sessions \ {s} : lock'[t] = lock[t]
    BY <1>1, <1>3 DEF TypeOK
  <2>5. TypeOK'
    BY <1>1, <2>3, <2>4 DEF TypeOK, CallState, Places
  <2>6. Exclusive(s)'
    BY <1>2, <2>1, <2>3, <2>4 DEF Exclusive, On
  <2>7. Handled(s)'
    BY <1>2, <1>3, <2>1, <2>3 DEF Handled, On
  <2>8. Abandoned(s)' /\ Clean(s)' /\ Known(s)'
    BY <1>1 DEF SessionInv, Abandoned, Clean, Known, OnRecord
  <2>9. OnDisk(s)'
    BY <1>1, <2>4, TypeFacts DEF SessionInv, OnDisk
  <2>10. SessionInv(s)'
    BY <2>6, <2>7, <2>8, <2>9 DEF SessionInv
  <2> QED BY <2>3, <2>4, <2>5, <2>10, OneSession
<1>4. CASE UNCHANGED lock /\ session[s].status = "active" /\ Await(c, "exec", s)
  <2>1. [at |-> "exec", on |-> s] \in CallState
    BY DEF CallState, Places
  <2>2. /\ call' \in [Callers -> CallState] /\ call'[c] = [at |-> "exec", on |-> s]
        /\ \A d \in Callers \ {c} : call'[d] = call[d]
    BY <1>1, <1>4, <2>1, CallFacts DEF Await
  <2>3. TypeOK'
    BY <1>1, <1>4, <2>2 DEF TypeOK, CallState, Places
  <2>4. Exclusive(s)'
    BY <1>2, <2>2 DEF Exclusive, On
  <2>5. Handled(s)'
    BY <1>1, <1>4, <2>2 DEF SessionInv, Handled, On
  <2>6. Abandoned(s)' /\ OnDisk(s)' /\ Clean(s)' /\ Known(s)'
    BY <1>1, <1>4 DEF SessionInv, Abandoned, OnDisk, Clean, Known, OnRecord
  <2>7. SessionInv(s)'
    BY <2>4, <2>5, <2>6 DEF SessionInv
  <2> QED BY <1>4, <2>2, <2>3, <2>7, OneSession
<1>5. CASE UNCHANGED lock /\ Return(c)
  <2>1. /\ call' \in [Callers -> CallState] /\ call'[c] = Idle
        /\ \A d \in Callers \ {c} : call'[d] = call[d]
    BY <1>1, <1>5, CallFacts, IdleIsOff DEF Return
  <2>2. TypeOK'
    BY <1>1, <1>5, <2>1 DEF TypeOK, CallState, Places
  <2>3. \A d \in Callers : call'[d] = call[d] \/ ~(call'[d].at \in Places /\ call'[d].on = s)
    BY <2>1, IdleIsOff
  <2>4. SessionInv(s)'
    BY <1>1, <1>5, <2>3, Frame
  <2> QED BY <1>5, <2>1, <2>2, <2>4, OneSession
<1> QED BY <1>3, <1>4, <1>5 DEF Enter

(* run_in_session and a waiter that gets the lock: in at once, or in line.    *)
LEMMA RunKeeps ==
  ASSUME Inv, NEW s \in Sessions, NEW c \in Callers, Run(c, s) \/ Wake(c, s)
  PROVE  Inv'
<1>1. TypeOK /\ SessionInv(s)
  BY DEF Inv
<1>2. CASE Wake(c, s)
  <2>1. On(c, s, {"lock"}) /\ lock[s] = Nobody
    BY <1>2 DEF Wake, At, On
  <2>2. server # "down"
    BY <2>1, Serving DEF On, Places
  <2> QED BY <1>2, <2>1, <2>2, EnterKeeps DEF Wake
<1>3. CASE Run(c, s)
  <2>1. server # "down"
    BY <1>3 DEF Run, Inv, DownIsEmpty
  <2>2. CASE lock[s] = Nobody /\ Enter(c, s)
    BY <1>3, <2>1, <2>2, EnterKeeps DEF Run
  <2>3. CASE Await(c, "lock", s) /\ UNCHANGED lock
    <3>1. [at |-> "lock", on |-> s] \in CallState
      BY DEF CallState, Places
    <3>2. /\ call' \in [Callers -> CallState] /\ call'[c] = [at |-> "lock", on |-> s]
          /\ \A d \in Callers \ {c} : call'[d] = call[d]
      BY <1>1, <2>3, <3>1, CallFacts DEF Await
    <3>3. TypeOK'
      BY <1>1, <1>3, <2>3, <3>2 DEF TypeOK, CallState, Places, Run, world
    <3>4. Exclusive(s)'
      BY <1>1, <2>3, <3>2 DEF SessionInv, Exclusive, On
    <3>5. Handled(s)'
      BY <1>1, <1>3, <3>2 DEF SessionInv, Handled, On, Run, world
    <3>6. Abandoned(s)' /\ OnDisk(s)' /\ Clean(s)' /\ Known(s)'
      BY <1>1, <1>3, <2>3
         DEF SessionInv, Abandoned, OnDisk, Clean, Known, OnRecord, Run, world
    <3>7. SessionInv(s)'
      BY <3>4, <3>5, <3>6 DEF SessionInv
    <3> QED BY <1>3, <2>1, <2>3, <3>2, <3>3, <3>7, OneSession DEF Run, world
  <2> QED BY <1>3, <2>2, <2>3 DEF Run
<1> QED BY <1>2, <1>3

(* `compose up` is done: the starter still has the lock, and the session is    *)
(* "created" or on the list of escapes.                                       *)
LEMMA UpKeeps ==
  ASSUME Inv, NEW s \in Sessions, NEW c \in Callers, Up(c, s)
  PROVE  Inv'
<1>1. TypeOK /\ SessionInv(s)
  BY DEF Inv
<1>2. /\ On(c, s, {"up"}) /\ On(c, s, {"up", "ps"}) /\ running' = running \cup {s}
      /\ session' = [session EXCEPT ![s].project = TRUE]
      /\ Await(c, "ps", s)
      /\ UNCHANGED <<server, starts, lock, sweep, todo, disk, layout, leftover, expired, slipped>>
  BY DEF Up, At, On
<1>3. server # "down"
  BY <1>2, Serving DEF On, Places
<1>4. lock[s] = c /\ \A d \in Callers \ {c} : ~On(d, s, {"up", "ps", "exec"})
  BY <1>1, <1>2 DEF SessionInv, Exclusive
<1>5. \/ session[s].status \in Live /\ session[s].status # "none"
      \/ s \in slipped /\ session[s].status # "none"
  BY <1>1, <1>2 DEF SessionInv, Handled, On, Live
<1>6. /\ session' \in [Sessions -> InMemory]
      /\ session'[s].status = session[s].status /\ session'[s].project
      /\ session'[s].container = session[s].container
      /\ \A t \in Sessions \ {s} : session'[t] = session[t]
  <2> DEFINE new == [session[s] EXCEPT !.project = TRUE]
  <2>1. /\ new \in Record /\ new.status = session[s].status /\ new.status # "torn"
        /\ new.container = session[s].container /\ new.project
    BY <1>1, TypeFacts DEF Record
  <2>2. session' = [session EXCEPT ![s] = new]
    BY <1>2
  <2> HIDE DEF new
  <2> QED BY <1>1, <2>1, <2>2 DEF TypeOK, InMemory
<1>7. [at |-> "ps", on |-> s] \in CallState
  BY DEF CallState, Places
<1>8. /\ call' \in [Callers -> CallState] /\ call'[c] = [at |-> "ps", on |-> s]
      /\ \A d \in Callers \ {c} : call'[d] = call[d]
  BY <1>1, <1>2, <1>7, CallFacts DEF Await
<1>9. TypeOK'
  BY <1>1, <1>2, <1>6, <1>8 DEF TypeOK, CallState, Places, InMemory
<1>10. Exclusive(s)'
  BY <1>2, <1>4, <1>8 DEF Exclusive, On
<1>11. Handled(s)'
  BY <1>1, <1>2, <1>4, <1>5, <1>6, <1>8 DEF SessionInv, Handled, On
<1>12. Abandoned(s)' /\ Clean(s)' /\ Known(s)'
  BY <1>1, <1>2, <1>3, <1>5, <1>6 DEF SessionInv, Abandoned, Clean, Known, OnRecord
<1>13. OnDisk(s)'
  BY <1>1, <1>2, <1>4, <1>5, <1>6, TypeFacts DEF SessionInv, OnDisk
<1>14. SessionInv(s)'
  BY <1>10, <1>11, <1>12, <1>13 DEF SessionInv
<1> QED BY <1>2, <1>3, <1>6, <1>8, <1>9, <1>14, OneSession

(* The start raises: failed is on disk before the lock is free.               *)
LEMMA StartFailsKeeps ==
  ASSUME Inv, NEW s \in Sessions, NEW c \in Callers, StartFails(c, s)
  PROVE  Inv'
<1>1. TypeOK /\ SessionInv(s)
  BY DEF Inv
<1>2. /\ On(c, s, {"up", "ps"}) /\ Save(s, session[s], "failed")
      /\ running' \in {running, running \cup {s}}
      /\ slipped' = (IF running' # running THEN slipped \cup {s} ELSE slipped)
      /\ lock' = [lock EXCEPT ![s] = Nobody]
      /\ call' = [call EXCEPT ![c] = Idle]
      /\ UNCHANGED <<server, starts, sweep, todo, layout, leftover, expired>>
  BY DEF StartFails, At, On, Slip, Release, Return
<1>3. server # "down"
  BY <1>2, Serving DEF On, Places
<1>4. \A d \in Callers \ {c} : ~On(d, s, {"up", "ps", "exec"})
  BY <1>1, <1>2 DEF SessionInv, Exclusive
<1>5. /\ session' \in [Sessions -> InMemory] /\ disk' \in [Sessions -> Record]
      /\ session'[s].status = "failed"
      /\ session'[s].container = session[s].container
      /\ session'[s].project = session[s].project
      /\ disk'[s] = session'[s]
      /\ \A t \in Sessions \ {s} : session'[t] = session[t] /\ disk'[t] = disk[t]
  BY <1>1, <1>2, SaveFacts, TypeFacts DEF Live
<1>6. /\ call' \in [Callers -> CallState] /\ call'[c] = Idle
      /\ \A d \in Callers \ {c} : call'[d] = call[d]
  BY <1>1, <1>2, CallFacts, IdleIsOff
<1>7. /\ lock' \in [Sessions -> Callers \cup {Nobody}]
      /\ \A t \in Sessions \ {s} : lock'[t] = lock[t]
  BY <1>1, <1>2 DEF TypeOK
<1>8. TypeOK'
  BY <1>1, <1>2, <1>5, <1>6, <1>7 DEF TypeOK, CallState, Places, InMemory
<1>9. Exclusive(s)' /\ Handled(s)'
  BY <1>4, <1>5, <1>6, IdleIsOff DEF Exclusive, Handled, On, Places
<1>10. Abandoned(s)'
  BY <1>1, <1>2 DEF SessionInv, Abandoned
<1>11. OnDisk(s)' /\ Clean(s)'
  BY <1>5 DEF OnDisk, Clean
<1>12. Known(s)'
  BY <1>1, <1>2, <1>3, <1>5 DEF SessionInv, Known, OnRecord, Live
<1>13. SessionInv(s)'
  BY <1>9, <1>10, <1>11, <1>12 DEF SessionInv
<1> QED BY <1>2, <1>3, <1>5, <1>6, <1>7, <1>8, <1>13, OneSession

(* The start is done: the project is on record, so a later destroy stops it,   *)
(* with or without a container_id.                                            *)
LEMMA StartedKeeps ==
  ASSUME Inv, NEW s \in Sessions, NEW c \in Callers, Started(c, s)
  PROVE  Inv'
<1>1. TypeOK /\ SessionInv(s)
  BY DEF Inv
<1>2. On(c, s, {"ps"}) /\ On(c, s, {"up", "ps"})
  BY DEF Started, At, On
<1>3. PICK id \in {FALSE, (s \in running)} :
        /\ Save(s, [session[s] EXCEPT !.container = id], "active")
        /\ IF id THEN Await(c, "exec", s) ELSE Return(c)
  BY DEF Started
<1>4. /\ lock' = [lock EXCEPT ![s] = Nobody]
      /\ UNCHANGED <<server, starts, sweep, todo, layout, running, leftover, expired, slipped>>
  BY DEF Started, Release
<1>5. server # "down"
  BY <1>2, Serving DEF On, Places
<1>6. \A d \in Callers \ {c} : ~On(d, s, {"up", "ps", "exec"})
  BY <1>1, <1>2 DEF SessionInv, Exclusive
<1>7. session[s].project
  BY <1>1, <1>2 DEF SessionInv, Handled
<1> DEFINE r == [session[s] EXCEPT !.container = id]
<1>8. r \in Record /\ r.project
  <2>1. session[s] \in Record
    BY <1>1, TypeFacts
  <2>2. id \in BOOLEAN
    <3>1. (s \in running) \in BOOLEAN
      OBVIOUS
    <3>2. id = FALSE \/ id = (s \in running)
      BY Zenon
    <3> QED BY <3>1, <3>2, Zenon
  <2>3. r \in Record
    BY <2>1, <2>2 DEF Record
  <2>4. r.project = session[s].project
    BY <2>1 DEF Record
  <2> QED BY <1>7, <2>3, <2>4
<1> HIDE DEF r
<1>9. /\ session' \in [Sessions -> InMemory] /\ disk' \in [Sessions -> Record]
      /\ session'[s].status = "active" /\ session'[s].project
      /\ disk'[s] = session'[s]
      /\ \A t \in Sessions \ {s} : session'[t] = session[t] /\ disk'[t] = disk[t]
  <2>1. Save(s, r, "active")
    BY <1>3 DEF r
  <2> QED BY <1>1, <1>8, <2>1, SaveFacts DEF Live
<1>10. /\ call' \in [Callers -> CallState]
       /\ call'[c] = Idle \/ call'[c] = [at |-> "exec", on |-> s]
       /\ \A d \in Callers \ {c} : call'[d] = call[d]
  <2>1. [at |-> "exec", on |-> s] \in CallState
    BY DEF CallState, Places
  <2>2. CASE Await(c, "exec", s)
    BY <1>1, <2>1, <2>2, CallFacts DEF Await
  <2>3. CASE Return(c)
    BY <1>1, <2>3, CallFacts, IdleIsOff DEF Return
  <2> QED BY <1>3, <2>2, <2>3
<1>11. /\ lock' \in [Sessions -> Callers \cup {Nobody}]
       /\ \A t \in Sessions \ {s} : lock'[t] = lock[t]
  BY <1>1, <1>4 DEF TypeOK
<1>12. TypeOK'
  BY <1>1, <1>4, <1>9, <1>10, <1>11 DEF TypeOK, CallState, Places, InMemory
<1>13. Exclusive(s)' /\ Handled(s)'
  BY <1>6, <1>9, <1>10, IdleIsOff DEF Exclusive, Handled, On, Places
<1>14. Abandoned(s)'
  BY <1>1, <1>4 DEF SessionInv, Abandoned
<1>15. OnDisk(s)' /\ Clean(s)' /\ Known(s)'
  BY <1>4, <1>5, <1>9 DEF OnDisk, Clean, Known, OnRecord, Live
<1>16. SessionInv(s)'
  BY <1>13, <1>14, <1>15 DEF SessionInv
<1> QED BY <1>4, <1>5, <1>9, <1>10, <1>11, <1>12, <1>16, OneSession

(* A command returns: what its session has become meanwhile is saved again,    *)
(* and a session that is terminated was so on disk before.                    *)
LEMMA ExecReturnsKeeps ==
  ASSUME Inv, NEW s \in Sessions, NEW c \in Callers, ExecReturns(c, s)
  PROVE  Inv'
<1>1. TypeOK /\ SessionInv(s)
  BY DEF Inv
<1>2. /\ On(c, s, {"exec"}) /\ On(c, s, {"exec", "down"}) /\ On(c, s, {"up", "ps", "exec"})
      /\ On(c, s, {"up", "ps", "exec", "down"})
      /\ call' = [call EXCEPT ![c] = Idle]
      /\ UNCHANGED <<server, starts, lock, sweep, todo, layout, running, leftover,
                     expired, slipped>>
  BY DEF ExecReturns, At, On, Return
<1>3. PICK st \in {session[s].status, "failed"} : Save(s, session[s], st)
  BY DEF ExecReturns
<1>4. server # "down"
  BY <1>2, Serving DEF On, Places
<1>5. session[s].status \notin {"none", "created"} /\ session[s] # Absent
  BY <1>1, <1>2, TypeFacts DEF SessionInv, Handled
<1>6. \A d \in Callers : ~On(d, s, {"up", "ps"})
  BY <1>1, <1>2 DEF SessionInv, Exclusive, On
<1>7. st \in {"terminated"} \cup Live /\ st # "created" /\ st # "none"
  BY <1>1, <1>5, TypeFacts DEF Live
<1>8. /\ session' \in [Sessions -> InMemory] /\ disk' \in [Sessions -> Record]
      /\ session'[s].status = st
      /\ session'[s].container = session[s].container
      /\ session'[s].project = session[s].project
      /\ disk'[s] = session'[s]
      /\ \A t \in Sessions \ {s} : session'[t] = session[t] /\ disk'[t] = disk[t]
  BY <1>1, <1>3, <1>7, SaveFacts, TypeFacts
<1>9. /\ call' \in [Callers -> CallState] /\ call'[c] = Idle
      /\ \A d \in Callers \ {c} : call'[d] = call[d]
  BY <1>1, <1>2, CallFacts, IdleIsOff
<1>10. TypeOK'
  BY <1>1, <1>2, <1>8, <1>9 DEF TypeOK, CallState, Places, InMemory
<1>11. Exclusive(s)' /\ Handled(s)'
  BY <1>6, <1>7, <1>8, <1>9, IdleIsOff DEF Exclusive, Handled, On, Places
<1>12. Abandoned(s)' /\ OnDisk(s)'
  BY <1>1, <1>2, <1>8 DEF SessionInv, Abandoned, OnDisk
<1>13. Clean(s)'
  BY <1>1, <1>2, <1>3, <1>5, <1>8 DEF SessionInv, OnDisk, Clean
<1>14. Known(s)'
  BY <1>1, <1>2, <1>3, <1>4, <1>8 DEF SessionInv, Known, OnRecord, Live
<1>15. SessionInv(s)'
  BY <1>11, <1>12, <1>13, <1>14 DEF SessionInv
<1> QED BY <1>2, <1>4, <1>8, <1>9, <1>10, <1>15, OneSession

(* A cancelled caller frees the lock it has; its start is on the list then.    *)
LEMMA RunCancelledKeeps ==
  ASSUME Inv, NEW s \in Sessions, NEW c \in Callers, RunCancelled(c, s)
  PROVE  Inv'
<1>1. TypeOK /\ SessionInv(s)
  BY DEF Inv
<1>2. /\ On(c, s, {"lock", "up", "ps", "exec"})
      /\ call' = [call EXCEPT ![c] = Idle]
      /\ lock' = (IF lock[s] = c THEN [lock EXCEPT ![s] = Nobody] ELSE lock)
      /\ leftover' = (IF call[c].at = "up" THEN leftover \cup {<<"up", s>>} ELSE leftover)
      /\ slipped' = (IF lock[s] = c THEN slipped \cup {s} ELSE slipped)
      /\ UNCHANGED <<server, starts, session, sweep, todo, disk, layout, running, expired>>
  BY DEF RunCancelled, At, On, Return, Slip
<1>3. server # "down"
  BY <1>2, Serving DEF On, Places
<1>4. /\ call' \in [Callers -> CallState] /\ call'[c] = Idle
      /\ \A d \in Callers \ {c} : call'[d] = call[d]
  BY <1>1, <1>2, CallFacts, IdleIsOff
<1>5. /\ lock' \in [Sessions -> Callers \cup {Nobody}]
      /\ \A t \in Sessions \ {s} : lock'[t] = lock[t]
      /\ lock'[s] # lock[s] => lock[s] = c
  BY <1>1, <1>2 DEF TypeOK
<1>6. TypeOK'
  BY <1>1, <1>2, <1>4, <1>5 DEF TypeOK, CallState, Places
<1>7. Exclusive(s)' /\ Handled(s)'
  <2>1. \A places : \A d \in Callers : On(d, s, places)' /\ "idle" \notin places
                                     => d # c /\ On(d, s, places)
    BY <1>4 DEF On, Idle
  <2>2. Exclusive(s)'
    BY <1>1, <1>5, <2>1 DEF SessionInv, Exclusive
  <2>3. Handled(s)'
    BY <1>1, <1>2, <2>1 DEF SessionInv, Handled
  <2> QED BY <2>2, <2>3
<1>8. Abandoned(s)'
  <2>1. call[c].at = "up" => lock[s] = c
    BY <1>1, <1>2 DEF SessionInv, Exclusive, On
  <2> QED BY <1>1, <1>2, <2>1 DEF SessionInv, Abandoned
<1>9. OnDisk(s)' /\ Clean(s)' /\ Known(s)'
  BY <1>1, <1>2, <1>5 DEF SessionInv, OnDisk, Clean, Known, OnRecord
<1>10. SessionInv(s)'
  BY <1>7, <1>8, <1>9 DEF SessionInv
<1> QED BY <1>2, <1>3, <1>4, <1>5, <1>6, <1>10, OneSession

---------------------------------------------------------------------------
(* The end of destroy_session: terminated without directories, or failed.      *)
LEMMA FinishFacts ==
  ASSUME TypeOK, NEW s \in Sessions, NEW ok \in BOOLEAN, FinishDestroy(s, session[s], ok)
  PROVE  /\ session' \in [Sessions -> InMemory] /\ disk' \in [Sessions -> Record]
         /\ session'[s].status = IF ok THEN "terminated" ELSE "failed"
         /\ session'[s].container = session[s].container
         /\ session'[s].project = session[s].project
         /\ disk'[s] = session'[s]
         /\ \A t \in Sessions \ {s} : session'[t] = session[t] /\ disk'[t] = disk[t]
         /\ layout' \subseteq layout
         /\ ok => s \notin layout' \ Retained
<1> DEFINE st == IF ok THEN "terminated" ELSE "failed"
<1>1. Save(s, session[s], st) /\ st \in {"terminated"} \cup Live
  BY DEF FinishDestroy, Live
<1>2. layout' = IF ok /\ s \notin Retained THEN layout \ {s} ELSE layout
  BY DEF FinishDestroy
<1> HIDE DEF st
<1>3. /\ session' \in [Sessions -> InMemory] /\ disk' \in [Sessions -> Record]
      /\ session'[s].status = st
      /\ session'[s].container = session[s].container
      /\ session'[s].project = session[s].project
      /\ disk'[s] = session'[s]
      /\ \A t \in Sessions \ {s} : session'[t] = session[t] /\ disk'[t] = disk[t]
  BY <1>1, SaveFacts, TypeFacts
<1> QED BY <1>2, <1>3 DEF st

(* destroy_session takes no lock: a start under way goes on the list of        *)
(* escapes, and no container is left by a session it need not stop.           *)
LEMMA BeginDestroyKeeps ==
  ASSUME Inv, NEW s \in Sessions, NEW c \in Callers, NEW ok \in BOOLEAN,
         call[c] = Idle, BeginDestroy(c, s, ok),
         UNCHANGED sweep, todo' \subseteq todo
  PROVE  Inv'
<1>1. TypeOK /\ SessionInv(s)
  BY DEF Inv
<1>2. /\ session[s].status \in Live
      /\ slipped' = (IF lock[s] # Nobody THEN slipped \cup {s} ELSE slipped)
      /\ UNCHANGED <<server, starts, lock, running, leftover, expired>>
  BY DEF BeginDestroy, Slip
<1>3. server # "down"
  BY <1>2, Serving DEF Live
<1>4. \A d \in Callers : On(d, s, {"up", "ps"}) => s \in slipped'
  BY <1>1, <1>2, TypeFacts DEF SessionInv, Exclusive
<1>5. CASE /\ Save(s, session[s], "terminating") /\ Await(c, "down", s) /\ UNCHANGED layout
  <2>1. [at |-> "down", on |-> s] \in CallState
    BY DEF CallState, Places
  <2>2. /\ call' \in [Callers -> CallState] /\ call'[c] = [at |-> "down", on |-> s]
        /\ \A d \in Callers \ {c} : call'[d] = call[d]
    BY <1>1, <1>5, <2>1, CallFacts DEF Await
  <2>3. /\ session' \in [Sessions -> InMemory] /\ disk' \in [Sessions -> Record]
        /\ session'[s].status = "terminating"
        /\ session'[s].container = session[s].container
        /\ session'[s].project = session[s].project
        /\ disk'[s] = session'[s]
        /\ \A t \in Sessions \ {s} : session'[t] = session[t] /\ disk'[t] = disk[t]
    BY <1>1, <1>5, SaveFacts, TypeFacts DEF Live
  <2>4. TypeOK'
    BY <1>1, <1>2, <1>5, <2>2, <2>3 DEF TypeOK, CallState, Places, InMemory
  <2>5. Exclusive(s)'
    BY <1>1, <1>2, <2>2 DEF SessionInv, Exclusive, On
  <2>6. Handled(s)'
    BY <1>1, <1>4, <2>2, <2>3 DEF SessionInv, Handled, On
  <2>7. Abandoned(s)' /\ OnDisk(s)' /\ Clean(s)'
    BY <1>1, <1>2, <2>3 DEF SessionInv, Abandoned, OnDisk, Clean
  <2>8. Known(s)'
    BY <1>1, <1>2, <1>3, <2>3 DEF SessionInv, Known, OnRecord, Live
  <2>9. SessionInv(s)'
    BY <2>5, <2>6, <2>7, <2>8 DEF SessionInv
  <2> QED BY <1>2, <1>3, <1>5, <2>2, <2>3, <2>4, <2>9, OneSession
<1>6. CASE /\ ~MustStop(session[s]) /\ FinishDestroy(s, session[s], ok) /\ UNCHANGED call
  <2>1. /\ session' \in [Sessions -> InMemory] /\ disk' \in [Sessions -> Record]
        /\ session'[s].status = IF ok THEN "terminated" ELSE "failed"
        /\ session'[s].project = session[s].project
        /\ disk'[s] = session'[s]
        /\ \A t \in Sessions \ {s} : session'[t] = session[t] /\ disk'[t] = disk[t]
        /\ layout' \subseteq layout
        /\ ok => s \notin layout' \ Retained
    BY <1>1, <1>6, FinishFacts
  <2>2. TypeOK'
    BY <1>1, <1>2, <1>6, <2>1 DEF TypeOK, InMemory
  <2>3. Exclusive(s)'
    BY <1>1, <1>2, <1>6 DEF SessionInv, Exclusive, On
  <2>4. Handled(s)'
    BY <1>1, <1>4, <1>6, <2>1 DEF SessionInv, Handled, On
  <2>5. Abandoned(s)' /\ OnDisk(s)' /\ Clean(s)'
    BY <1>1, <1>2, <2>1 DEF SessionInv, Abandoned, OnDisk, Clean
  <2>6. s \notin running' \ slipped'
    BY <1>1, <1>2, <1>3, <1>6 DEF SessionInv, Known, OnRecord, MustStop
  <2>7. SessionInv(s)'
    BY <2>3, <2>4, <2>5, <2>6 DEF SessionInv, Known
  <2> QED BY <1>2, <1>3, <1>6, <2>1, <2>2, <2>7, OneSession
<1> QED BY <1>5, <1>6 DEF BeginDestroy

(* stop returns or raises: terminated only with the containers down or on the  *)
(* list of escapes, else failed and on record as before.                      *)
LEMMA StoppedKeeps ==
  ASSUME Inv, NEW s \in Sessions, NEW c \in Callers, NEW ok \in BOOLEAN,
         Stopped(c, s, ok) \/ StopFails(c, s)
  PROVE  Inv'
<1>1. TypeOK /\ SessionInv(s)
  BY DEF Inv
<1>2. PICK good \in BOOLEAN :
        /\ FinishDestroy(s, session[s], good)
        /\ slipped' = IF good /\ s \in running' THEN slipped \cup {s} ELSE slipped
  BY DEF Stopped, StopFails, Slip
<1>3. /\ On(c, s, {"down"}) /\ On(c, s, {"exec", "down"})
      /\ running' \in {running, running \ {s}}
      /\ call' = [call EXCEPT ![c] = Idle]
      /\ UNCHANGED <<server, starts, lock, sweep, todo, leftover, expired>>
  BY DEF Stopped, StopFails, At, On, Return
<1>4. server # "down"
  BY <1>3, Serving DEF On, Places
<1>5. /\ session' \in [Sessions -> InMemory] /\ disk' \in [Sessions -> Record]
      /\ session'[s].status = IF good THEN "terminated" ELSE "failed"
      /\ session'[s].container = session[s].container
      /\ session'[s].project = session[s].project
      /\ disk'[s] = session'[s]
      /\ \A t \in Sessions \ {s} : session'[t] = session[t] /\ disk'[t] = disk[t]
      /\ layout' \subseteq layout
      /\ good => s \notin layout' \ Retained
  BY <1>1, <1>2, FinishFacts
<1>6. /\ call' \in [Callers -> CallState] /\ call'[c] = Idle
      /\ \A d \in Callers \ {c} : call'[d] = call[d]
  BY <1>1, <1>3, CallFacts, IdleIsOff
<1>7. TypeOK'
  BY <1>1, <1>2, <1>3, <1>5, <1>6 DEF TypeOK, CallState, Places, InMemory
<1>8. \A d \in Callers : On(d, s, {"up"}) => s \in slipped'
  BY <1>1, <1>2, <1>3 DEF SessionInv, Handled
<1>9. Exclusive(s)' /\ Handled(s)'
  <2>1. \A places : \A d \in Callers : On(d, s, places)' /\ "idle" \notin places
                                     => d # c /\ On(d, s, places)
    BY <1>6 DEF On, Idle
  <2>2. Exclusive(s)'
    BY <1>1, <1>3, <2>1 DEF SessionInv, Exclusive
  <2>3. Handled(s)'
    BY <1>1, <1>5, <1>8, <2>1 DEF SessionInv, Handled
  <2> QED BY <2>2, <2>3
<1>10. Abandoned(s)' /\ OnDisk(s)' /\ Clean(s)'
  BY <1>1, <1>2, <1>3, <1>5 DEF SessionInv, Abandoned, OnDisk, Clean
<1>11. Known(s)'
  BY <1>1, <1>2, <1>3, <1>4, <1>5 DEF SessionInv, Known, OnRecord, Live
<1>12. SessionInv(s)'
  BY <1>9, <1>10, <1>11 DEF SessionInv
<1> QED BY <1>2, <1>3, <1>4, <1>5, <1>6, <1>7, <1>12, OneSession

(* A cancelled destroy leaves the session terminating, its command behind.     *)
LEMMA DestroyCancelledKeeps ==
  ASSUME Inv, NEW s \in Sessions, NEW c \in Callers, DestroyCancelled(c, s)
  PROVE  Inv'
<1>1. TypeOK /\ SessionInv(s)
  BY DEF Inv
<1>2. /\ On(c, s, {"down"}) /\ call' = [call EXCEPT ![c] = Idle]
      /\ leftover' = leftover \cup {<<"down", s>>}
      /\ UNCHANGED <<server, starts, session, lock, sweep, todo, disk, layout, running,
                     expired, slipped>>
  BY DEF DestroyCancelled, At, On, Return
<1>3. server # "down"
  BY <1>2, Serving DEF On, Places
<1>4. /\ call' \in [Callers -> CallState] /\ call'[c] = Idle
      /\ \A d \in Callers \ {c} : call'[d] = call[d]
  BY <1>1, <1>2, CallFacts, IdleIsOff
<1>5. TypeOK'
  BY <1>1, <1>2, <1>4 DEF TypeOK, CallState, Places
<1>6. \A d \in Callers : call'[d] = call[d] \/ ~(call'[d].at \in Places /\ call'[d].on = s)
  BY <1>4, IdleIsOff
<1>7. <<"up", s>> \in leftover' => <<"up", s>> \in leftover
  BY <1>2
<1>8. SessionInv(s)'
  BY <1>1, <1>2, <1>6, <1>7, Frame
<1>9. \A t \in Sessions : <<"up", t>> \in leftover' => <<"up", t>> \in leftover
  BY <1>2
<1> QED BY <1>2, <1>3, <1>4, <1>5, <1>8, <1>9, OneSession

---------------------------------------------------------------------------
(* A podman command nobody waits for may only start what is on the list.       *)
LEMMA LeftoverEndsKeeps ==
  ASSUME Inv, NEW kind \in {"up", "down"}, NEW s \in Sessions, LeftoverEnds(kind, s)
  PROVE  Inv'
<1>1. TypeOK /\ SessionInv(s)
  BY DEF Inv
<1>2. /\ <<kind, s>> \in leftover /\ leftover' = leftover \ {<<kind, s>>}
      /\ running' \in {running, IF kind = "up" THEN running \cup {s} ELSE running \ {s}}
      /\ UNCHANGED <<server, starts, session, lock, call, sweep, todo, disk, layout,
                     expired, slipped>>
  BY DEF LeftoverEnds, memory
<1>3. TypeOK'
  BY <1>1, <1>2 DEF TypeOK
<1>4. SessionInv(s)'
  <2>1. kind = "up" => s \in slipped
    BY <1>1, <1>2 DEF SessionInv, Abandoned
  <2>2. Exclusive(s)' /\ Handled(s)'
    BY <1>1, <1>2 DEF SessionInv, Exclusive, Handled, On
  <2>3. Abandoned(s)' /\ OnDisk(s)' /\ Clean(s)'
    BY <1>1, <1>2 DEF SessionInv, Abandoned, OnDisk, Clean
  <2>4. Known(s)'
    BY <1>1, <1>2, <2>1 DEF SessionInv, Known, OnRecord
  <2> QED BY <2>2, <2>3, <2>4 DEF SessionInv
<1>5. \A t \in Sessions \ {s} : SessionInv(t)'
  BY <1>2, Frame DEF Inv
<1>6. DownIsEmpty'
  BY <1>2 DEF Inv, DownIsEmpty
<1> QED BY <1>3, <1>4, <1>5, <1>6 DEF Inv

(* Time passes and sweeps begin and end: no session is touched.                *)
LEMMA QuietKeeps ==
  ASSUME Inv,
         \/ \E s \in Sessions : Expire(s)
         \/ SweepStale \/ SweepEnds \/ ShutdownSweep
         \/ UNCHANGED vars
         \/ /\ todo' \subseteq todo
            /\ UNCHANGED <<server, starts, world, session, lock, call, sweep>>
  PROVE  Inv'
<1>1. TypeOK
  BY DEF Inv
<1>2. /\ UNCHANGED <<server, starts, session, lock, call, disk, layout, running, leftover, slipped>>
      /\ expired' \subseteq Sessions /\ todo' \subseteq Sessions
      /\ sweep' \in {"none", "stale", "all"}
  BY <1>1 DEF Expire, SweepStale, SweepEnds, ShutdownSweep, vars, memory, world, TypeOK
<1>3. TypeOK'
  BY <1>1, <1>2 DEF TypeOK
<1>4. \A t \in Sessions : SessionInv(t)'
  BY <1>2, Frame DEF Inv
<1>5. DownIsEmpty'
  BY <1>2 DEF Inv, DownIsEmpty
<1> QED BY <1>3, <1>4, <1>5 DEF Inv

(* The lifespan leaves its yield and cancels the cleanup.                      *)
LEMMA StopKeeps ==
  ASSUME Inv, Stop
  PROVE  Inv'
<1>1. TypeOK
  BY DEF Inv
<1>2. /\ server = "up" /\ server' = "stopping" /\ call' = [call EXCEPT ![Cleaner] = Idle]
      /\ leftover' = (IF call[Cleaner].at = "down"
                      THEN leftover \cup {<<"down", call[Cleaner].on>>} ELSE leftover)
      /\ sweep' = "stale" /\ todo' \subseteq expired
      /\ UNCHANGED <<starts, session, lock, disk, layout, running, expired, slipped>>
  BY DEF Stop, Return, At
<1>3. Cleaner \in Callers
  BY DEF Callers
<1>4. /\ call' \in [Callers -> CallState] /\ call'[Cleaner] = Idle
      /\ \A d \in Callers \ {Cleaner} : call'[d] = call[d]
  BY <1>1, <1>2, <1>3, CallFacts, IdleIsOff
<1>5. leftover' \subseteq {"up", "down"} \X Sessions
  <2>1. call[Cleaner].at = "down" => call[Cleaner].on \in Sessions
    BY <1>1, <1>3, IdleIsOff DEF TypeOK, Places
  <2> QED BY <1>1, <1>2, <2>1 DEF TypeOK
<1>6. TypeOK'
  BY <1>1, <1>2, <1>4, <1>5 DEF TypeOK, CallState, Places
<1>7. \A t \in Sessions : SessionInv(t)'
  <2> TAKE t \in Sessions
  <2>1. \A d \in Callers : call'[d] = call[d] \/ ~(call'[d].at \in Places /\ call'[d].on = t)
    BY <1>4, IdleIsOff
  <2>2. <<"up", t>> \in leftover' => <<"up", t>> \in leftover
    BY <1>2
  <2> QED BY <1>2, <2>1, <2>2, Frame DEF Inv
<1>8. DownIsEmpty'
  BY <1>2 DEF DownIsEmpty
<1> QED BY <1>6, <1>7, <1>8 DEF Inv

(* recover_metadata: what is live on disk is on record again.                   *)
LEMMA StartupKeeps ==
  ASSUME Inv, Startup
  PROVE  Inv'
<1>1. TypeOK
  BY DEF Inv
<1>2. /\ server = "down" /\ server' = "up" /\ starts < MaxStarts /\ starts' = starts + 1
      /\ session' = [s \in Sessions |-> Recovered(disk[s])]
      /\ UNCHANGED <<lock, call, sweep, todo, disk, layout, running, leftover, expired, slipped>>
  BY DEF Startup, world
<1>3. \A c \in Callers : call'[c] = Idle
  BY <1>2 DEF Inv, DownIsEmpty
<1>4. /\ session' \in [Sessions -> InMemory]
      /\ \A s \in Sessions : /\ session'[s] \in {Absent, disk[s]}
                             /\ disk[s].status \in Live => session'[s] = disk[s]
  <2>1. Absent \in InMemory
    BY DEF Absent, InMemory, Record
  <2>2. \A r \in Record : /\ Recovered(r) \in InMemory /\ Recovered(r) \in {Absent, r}
                          /\ r.status \in Live => Recovered(r) = r
    BY <2>1 DEF Recovered, InMemory, Live
  <2> QED BY <1>1, <1>2, <2>2 DEF TypeOK
<1>5. starts' \in 0 .. MaxStarts
  BY <1>1, <1>2, ConfigAssumption DEF TypeOK
<1>6. TypeOK'
  BY <1>1, <1>2, <1>4, <1>5 DEF TypeOK, InMemory
<1>7. \A s \in Sessions : SessionInv(s)'
  <2> TAKE s \in Sessions
  <2>1. SessionInv(s)
    BY DEF Inv
  <2>2. Exclusive(s)' /\ Handled(s)'
    BY <1>3, IdleIsOff DEF Exclusive, Handled, On, Places
  <2>3. Abandoned(s)' /\ OnDisk(s)' /\ Clean(s)'
    BY <1>2, <1>4, <2>1 DEF SessionInv, Abandoned, OnDisk, Clean
  <2>4. Known(s)'
    BY <1>2, <1>4, <2>1 DEF SessionInv, Known, OnRecord
  <2> QED BY <2>2, <2>3, <2>4 DEF SessionInv
<1>8. DownIsEmpty'
  BY <1>2 DEF DownIsEmpty
<1> QED BY <1>6, <1>7, <1>8 DEF Inv

(* The end of the process: what was in memory of an untorn session that nobody  *)
(* was starting is on disk.                                                    *)
LEMMA DiesKeeps ==
  ASSUME Inv, server # "down", NEW torn \in SUBSET Sessions, Dies(torn)
  PROVE  Inv'
<1> DEFINE Flight == {<<call[c].at, call[c].on>> : c \in {d \in Callers : call[d].at \in {"up", "down"}}}
<1>1. TypeOK
  BY DEF Inv
<1>2. /\ server' = "down"
      /\ session' = [s \in Sessions |-> Absent]
      /\ disk' = [s \in Sessions |->
                    IF s \in torn THEN [Absent EXCEPT !.status = "torn"] ELSE disk[s]]
      /\ lock' = [s \in Sessions |-> Nobody]
      /\ call' = [c \in Callers |-> Idle]
      /\ sweep' = "none" /\ todo' = {}
      /\ slipped' = slipped \cup torn \cup {s \in Sessions : lock[s] # Nobody}
      /\ UNCHANGED <<starts, layout, running, expired>>
  BY DEF Dies
<1>3. PICK outlive \in SUBSET Flight : leftover' = leftover \cup outlive
  BY DEF Dies
<1>4. \A f \in Flight : /\ f \in {"up", "down"} \X Sessions
                        /\ \A s \in Sessions : f = <<"up", s>> => lock[s] # Nobody
  <2> TAKE f \in Flight
  <2>1. PICK c \in Callers : call[c].at \in {"up", "down"} /\ f = <<call[c].at, call[c].on>>
    OBVIOUS
  <2>2. call[c].on \in Sessions
    BY <1>1, <2>1, IdleIsOff DEF TypeOK, Places
  <2>3. ASSUME NEW s \in Sessions, f = <<"up", s>> PROVE lock[s] # Nobody
    <3>1. On(c, s, {"up", "ps"})
      BY <2>1, <2>3 DEF On
    <3> QED BY <1>1, <3>1, TypeFacts DEF Inv, SessionInv, Exclusive
  <2> QED BY <2>1, <2>2, <2>3
<1> HIDE DEF Flight
<1>5. leftover' \subseteq {"up", "down"} \X Sessions
  BY <1>1, <1>3, <1>4 DEF TypeOK
<1>6. /\ session' \in [Sessions -> InMemory] /\ disk' \in [Sessions -> Record]
      /\ \A s \in Sessions : /\ session'[s] = Absent
                             /\ s \in torn => disk'[s].status = "torn"
                             /\ s \notin torn => disk'[s] = disk[s]
  <2>1. Absent \in InMemory
    BY DEF Absent, InMemory, Record
  <2>2. [Absent EXCEPT !.status = "torn"] \in Record /\ [Absent EXCEPT !.status = "torn"].status = "torn"
    BY DEF Absent, Record
  <2> QED BY <1>1, <1>2, <2>1, <2>2 DEF TypeOK
<1>7. lock' \in [Sessions -> Callers \cup {Nobody}] /\ call' \in [Callers -> CallState]
  BY <1>2, IdleIsOff
<1>8. TypeOK'
  BY <1>1, <1>2, <1>5, <1>6, <1>7 DEF TypeOK, InMemory, CallState, Places
<1>9. \A s \in Sessions : SessionInv(s)'
  <2> TAKE s \in Sessions
  <2>1. SessionInv(s)
    BY DEF Inv
  <2>2. Exclusive(s)' /\ Handled(s)'
    BY <1>2, IdleIsOff DEF Exclusive, Handled, On, Places
  <2>3. Abandoned(s)'
    BY <1>2, <1>3, <1>4, <2>1 DEF SessionInv, Abandoned
  <2>4. OnDisk(s)' /\ Clean(s)'
    BY <1>2, <1>6, <2>1 DEF SessionInv, OnDisk, Clean
  <2>5. Known(s)'
    <3>1. SUFFICES ASSUME s \in running, s \notin slipped'
                   PROVE  OnRecord(disk'[s])
      BY <1>2 DEF Known
    <3>2. /\ s \notin slipped /\ s \notin torn /\ lock[s] = Nobody /\ OnRecord(session[s])
      BY <1>2, <2>1, <3>1 DEF SessionInv, Known
    <3>3. session[s] # Absent
      BY <3>2 DEF OnRecord, Live, Absent
    <3>4. /\ disk[s].status = session[s].status
          /\ disk[s].container = session[s].container
          /\ disk[s].project = session[s].project
      BY <2>1, <3>2, <3>3 DEF SessionInv, OnDisk
    <3> QED BY <1>6, <3>2, <3>4 DEF OnRecord
  <2> QED BY <2>2, <2>3, <2>4, <2>5 DEF SessionInv
<1>10. DownIsEmpty'
  BY <1>2, <1>6 DEF DownIsEmpty
<1> QED BY <1>8, <1>9, <1>10 DEF Inv

(* An orderly exit and a crash, inside a write or not.                          *)
LEMMA EndKeeps ==
  ASSUME Inv, Exit \/ Crash
  PROVE  Inv'
<1>1. server # "down"
  BY DEF Exit, Crash
<1>2. \E torn \in SUBSET Sessions : Dies(torn)
  BY DEF Exit, Crash
<1> QED BY <1>1, <1>2, DiesKeeps

---------------------------------------------------------------------------
(* destroy_session, called by a client, and what a sweep does with a session.   *)
LEMMA DestroyKeeps ==
  ASSUME Inv, NEW s \in Sessions, NEW ok \in BOOLEAN,
         SweepNext(s, ok) \/ \E c \in Callers : Destroy(c, s, ok)
  PROVE  Inv'
<1>1. ASSUME NEW c \in Callers, Destroy(c, s, ok) PROVE Inv'
  BY <1>1, BeginDestroyKeeps DEF Destroy
<1>2. CASE SweepNext(s, ok)
  <2>1. Cleaner \in Callers /\ UNCHANGED sweep /\ todo' \subseteq todo /\ call[Cleaner] = Idle
    BY <1>2 DEF SweepNext, Callers
  <2>2. CASE BeginDestroy(Cleaner, s, ok)
    BY <2>1, <2>2, BeginDestroyKeeps
  <2>3. CASE UNCHANGED <<server, starts, world, session, lock, call>>
    BY <2>1, <2>3, QuietKeeps
  <2> QED BY <1>2, <2>2, <2>3 DEF SweepNext
<1> QED BY <1>1, <1>2

(* Every step of callers, sweeps, podman and server keeps the invariant.        *)
LEMMA StepKeeps ==
  ASSUME Inv, [Next]_vars
  PROVE  Inv'
<1>1. Clients \subseteq Callers
  BY DEF Callers
<1>2. CASE UNCHANGED vars
  BY <1>2, QuietKeeps
<1>3. ASSUME NEW c \in Clients, NEW s \in Sessions, ClientStep(c, s) PROVE Inv'
  BY <1>1, <1>3, RunKeeps, UpKeeps, StartFailsKeeps, StartedKeeps, ExecReturnsKeeps,
     RunCancelledKeeps, DestroyCancelledKeeps, DestroyKeeps DEF ClientStep
<1>4. ASSUME NEW c \in Callers, NEW s \in Sessions,
             (\E ok \in BOOLEAN : Stopped(c, s, ok)) \/ StopFails(c, s)
      PROVE  Inv'
  BY <1>4, StoppedKeeps
<1>5. CASE Next
  BY <1>3, <1>4, <1>5, CreateKeeps, QuietKeeps, DestroyKeeps, LeftoverEndsKeeps,
     StartupKeeps, StopKeeps, EndKeeps DEF Next
<1> QED BY <1>2, <1>5

(* Nothing is on record and nobody calls before the first start.                *)
LEMMA InitKeeps == Init => Inv
<1> SUFFICES ASSUME Init PROVE Inv
  OBVIOUS
<1>1. Absent \in InMemory /\ Absent \in Record
  BY DEF Absent, InMemory, Record
<1>2. TypeOK
  BY <1>1, ConfigAssumption DEF Init, TypeOK, InMemory
<1>3. \A s \in Sessions : SessionInv(s)
  BY IdleIsOff DEF Init, SessionInv, Exclusive, Handled, Abandoned, OnDisk, Clean, Known, On, Places
<1>4. DownIsEmpty
  BY DEF Init, DownIsEmpty
<1> QED BY <1>2, <1>3, <1>4 DEF Inv

(* The invariant says what the four properties say.                             *)
LEMMA InvImplies ==
  ASSUME Inv
  PROVE  TypeOK /\ Provisioning /\ Persisted /\ TerminatedIsClean /\ ContainersKnown
<1>1. TypeOK
  BY DEF Inv
<1>2. Provisioning
  <2> SUFFICES ASSUME NEW c \in Callers, call[c].at \in {"up", "ps"}
               PROVE  /\ lock[call[c].on] = c
                      /\ \A d \in Callers \ {c} :
                           call[d].on = call[c].on => call[d].at \in {"lock", "down"}
    BY DEF Provisioning
  <2>1. call[c].on \in Sessions
    BY <1>1, IdleIsOff DEF TypeOK, Places
  <2>2. PICK s \in Sessions : s = call[c].on
    BY <2>1
  <2>3. lock[s] = c /\ \A d \in Callers \ {c} : ~On(d, s, {"up", "ps", "exec"})
    BY <2>2 DEF Inv, SessionInv, Exclusive, On
  <2>4. ASSUME NEW d \in Callers \ {c}, call[d].on = s PROVE call[d].at \in {"lock", "down"}
    <3>1. call[d] # Idle
      BY <2>4, ConfigAssumption DEF Idle
    <3>2. call[d].at \in Places
      BY <1>1, <3>1 DEF TypeOK, Places
    <3> QED BY <2>3, <2>4, <3>2 DEF On, Places
  <2> QED BY <2>2, <2>3, <2>4
<1>3. Persisted /\ TerminatedIsClean
  BY <1>1 DEF Inv, SessionInv, OnDisk, Clean, Persisted, TerminatedIsClean, TypeOK
<1>4. ContainersKnown
  BY <1>1 DEF Inv, SessionInv, Known, OnRecord, ContainersKnown, TypeOK
<1> QED BY <1>1, <1>2, <1>3, <1>4

(* The registry, its files and the callers keep their shapes.                   *)
THEOREM SandboxTypes == Spec => []TypeOK
  BY InitKeeps, StepKeeps, InvImplies, PTL DEF Spec

(* While one caller of run_in_session starts the container of a session, no      *)
(* other starts it or runs commands in it.                                      *)
THEOREM SandboxExclusive == Spec => []Provisioning
  BY InitKeeps, StepKeeps, InvImplies, PTL DEF Spec

(* A crash at any await loses nothing of the registry that _write_metadata owes. *)
THEOREM SandboxPersisted == Spec => []Persisted
  BY InitKeeps, StepKeeps, InvImplies, PTL DEF Spec

(* destroy_session puts no session on record as terminated before its            *)
(* directories are gone.                                                        *)
THEOREM SandboxClean == Spec => []TerminatedIsClean
  BY InitKeeps, StepKeeps, InvImplies, PTL DEF Spec

(* A container that runs is one that a later destroy_session stops, but for the  *)
(* ways of escape that the model lists.                                         *)
THEOREM SandboxContainers == Spec => []ContainersKnown
  BY InitKeeps, StepKeeps, InvImplies, PTL DEF Spec
=============================================================================
