---------------------------- MODULE SessionPool ----------------------------
(***************************************************************************)
(* The session manager (session/manager.go) and the pool of worker quota   *)
(* (session/pool.go).  Goroutines call the manager concurrently; each call *)
(* holds the locks of the code only between two of its steps, so what one  *)
(* read under a lock may be stale when it acts on it.  A managedSession is *)
(* an object: a goroutine may hold a pointer to one that the map no longer *)
(* names.                                                                  *)
(*                                                                         *)
(* Calls change the database row of the session as Upsert does: all of the *)
(* row, the state included, unless the row is deleted or a cleanup task of *)
(* the session is pending.  The workers' processes, metrics, audit and     *)
(* notifications are left out.                                             *)
(***************************************************************************)
EXTENDS Integers, FiniteSets

CONSTANTS
  Sessions, Users, Workspaces, Workers,
  Objects,      \* identities of managedSession values
  Procs,        \* goroutines that call the manager
  UserOf,       \* the user of a session
  HomeOf,       \* the workspace of a session, fixed at Create, or NoWorkspace
  NoWorkspace, NoWorker, NoObject, NoSession,
  FirstLimits,  \* the pool limits of the configuration at start
  Limits,       \* the pool limits a configuration may set
  MaxDeletes,   \* bound: calls of Delete, DeletePhysical and retirement
  MaxReloads    \* bound: changes of the limits

ASSUME PoolAssumption ==
  /\ UserOf \in [Sessions -> Users]
  /\ HomeOf \in [Sessions -> Workspaces \cup {NoWorkspace}]
  /\ NoWorkspace \notin Workspaces
  /\ NoWorker \notin Workers
  /\ NoObject \notin Objects
  /\ NoSession \notin Sessions
  /\ IsFiniteSet(Objects) /\ IsFiniteSet(Procs)
  /\ FirstLimits \in Limits
  /\ Limits \subseteq [size: Nat, user: Nat, wksp: Nat, mem: Nat]
  /\ MaxDeletes \in Nat /\ MaxReloads \in Nat

VARIABLES
  row,       \* the state of the session's row ("none": no row)
  pending,   \* the session has a cleanup task
  cache,     \* Manager.sessions
  ms,        \* the managedSession objects
  op,        \* what each goroutine is doing, with what it has read
  pool,      \* PoolManager: total, per user, per workspace, memory per user
  limits,    \* the limits in force
  reloads, deletes,
  ended      \* history: workers handed to Terminate or Kill, or detached

vars == <<row, pending, cache, ms, op, pool, limits, reloads, deletes, ended>>

Active == {"created", "running", "idle"}
States == Active \cup {"terminated", "deleted", "blank"}

\* events.IsValidTransition, for the targets that callers ask for.
ValidTransition(from, to) ==
  \/ from = "created" /\ to \in {"running", "terminated"}
  \/ from = "running" /\ to \in {"idle", "terminated", "deleted"}
  \/ from = "idle" /\ to \in {"running", "terminated", "deleted"}
  \/ from = "terminated" /\ to \in {"running", "deleted"}

Object == [s: Sessions \cup {NoSession}, state: States \cup {"none"},
           worker: Workers \cup {NoWorker}, deleting: BOOLEAN]
Unused == [s |-> NoSession, state |-> "none", worker |-> NoWorker,
           deleting |-> FALSE]
Loaded(s, st) == [Unused EXCEPT !.s = s, !.state = st]
\* What a deletion puts in the map when it has no entry: only the id is set.
Tombstone(s) == [Unused EXCEPT !.s = s, !.state = "blank", !.deleting = TRUE]

Positions == {"idle", "load", "transition", "input", "detach", "upsert",
              "commit", "acquire", "attach", "release", "install", "update",
              "loaddeleted", "markdeleted", "dropdeleted", "physical",
              "uncache", "retire", "retired"}
\* o: the object held; w: a worker; st, to: the state read and the one asked
\* for; then: where to go after a load; flag: the session ends even if the
\* write fails, or the map had no entry to delete.
Call == [at: Positions, then: Positions, s: Sessions \cup {NoSession},
         o: Objects \cup {NoObject}, w: Workers \cup {NoWorker},
         st: States \cup {"none"}, to: States \cup {"none"}, flag: BOOLEAN]
Idle == [at |-> "idle", then |-> "idle", s |-> NoSession, o |-> NoObject,
         w |-> NoWorker, st |-> "none", to |-> "none", flag |-> FALSE]

\* The workers that hold quota, by the object they are attached to.
Holds(o) == ms[o].worker # NoWorker /\ ms[o].worker \notin ended

\* Objects that neither the map nor a goroutine refers to: garbage.  An object
\* with a running worker is kept, so that its quota stays accounted for.
Free == {o \in Objects : /\ \A s \in Sessions : cache[s] # o
                         /\ \A p \in Procs : op[p].o # o
                         /\ ~Holds(o)}

Init ==
  /\ row = [s \in Sessions |-> "none"]
  /\ pending = [s \in Sessions |-> FALSE]
  /\ cache = [s \in Sessions |-> NoObject]
  /\ ms = [o \in Objects |-> Unused]
  /\ op = [p \in Procs |-> Idle]
  /\ pool = [total |-> 0, user |-> [u \in Users |-> 0],
             wksp |-> [x \in Workspaces |-> 0], mem |-> [u \in Users |-> 0]]
  /\ limits = FirstLimits
  /\ reloads = 0 /\ deletes = 0
  /\ ended = {}

GoTo(p, call) == op' = [op EXCEPT ![p] = call]
At(p, where) == op[p].at = where
-----------------------------------------------------------------------------
(* The pool.  Every operation runs under PoolManager.mu. *)

\* 0 means unlimited.  Memory is counted in worker estimates.
Within(limit, used) == limit = 0 \/ used < limit

CanAcquire(s) ==
  /\ Within(limits.size, pool.total)
  /\ Within(limits.user, pool.user[UserOf[s]])
  /\ HomeOf[s] # NoWorkspace => Within(limits.wksp, pool.wksp[HomeOf[s]])
  /\ Within(limits.mem, pool.mem[UserOf[s]])

\* Add one to, or take one from, a counter; a session outside the workspaces
\* changes none of theirs.
More(counter, k) == [counter EXCEPT ![k] = @ + 1]
Less(counter, k) == [counter EXCEPT ![k] = IF @ > 0 THEN @ - 1 ELSE 0]

Acquired(s) ==
  [total |-> pool.total + 1,
   user |-> More(pool.user, UserOf[s]),
   wksp |-> IF HomeOf[s] = NoWorkspace THEN pool.wksp ELSE More(pool.wksp, HomeOf[s]),
   mem |-> IF limits.mem = 0 THEN pool.mem ELSE More(pool.mem, UserOf[s])]

\* ReleaseForWorkspace: without a slot of the user only the memory goes down.
Released(s) ==
  LET mem == Less(pool.mem, UserOf[s]) IN
  IF pool.user[UserOf[s]] = 0 \/ pool.total = 0
  THEN [pool EXCEPT !.mem = mem]
  ELSE [total |-> pool.total - 1,
        user |-> Less(pool.user, UserOf[s]),
        wksp |-> IF HomeOf[s] = NoWorkspace THEN pool.wksp ELSE Less(pool.wksp, HomeOf[s]),
        mem |-> mem]

ReleaseIfAttached(o) == IF ms[o].worker = NoWorker THEN pool ELSE Released(ms[o].s)

\* UpdateLimits: lifting the memory limit forgets what was reserved.
UpdateLimits ==
  /\ reloads < MaxReloads
  /\ reloads' = reloads + 1
  /\ \E l \in Limits \ {limits} :
       /\ limits' = l
       /\ pool' = IF limits.mem > 0 /\ l.mem = 0
                  THEN [pool EXCEPT !.mem = [u \in Users |-> 0]] ELSE pool
  /\ UNCHANGED <<row, pending, cache, ms, op, deletes, ended>>
-----------------------------------------------------------------------------
(* The store, as far as the manager depends on it. *)

\* Defect: the guard of the upsert statement tests the task only.
RefusedWhilePending(s) == pending[s]

\* Upsert changes nothing when the row is deleted or has a cleanup task; it
\* inserts a missing row.
Refused(s) == pending[s] \/ row[s] = "deleted"
Upsert(s, st) == ~Refused(s) /\ row' = [row EXCEPT ![s] = st]

\* DeleteTerminated of the GC; the task is there if a worker session is named.
DeleteTerminated(s) ==
  /\ row[s] = "terminated" /\ ~pending[s]
  /\ row' = [row EXCEPT ![s] = "none"]
  /\ \E task \in BOOLEAN : pending' = [pending EXCEPT ![s] = task]
  /\ UNCHANGED <<cache, ms, op, pool, limits, reloads, deletes, ended>>

\* The cleanup runner finishes the session's task (see SessionCleanup).
CleanupDone(s) ==
  /\ pending[s]
  /\ pending' = [pending EXCEPT ![s] = FALSE]
  /\ UNCHANGED <<row, cache, ms, op, pool, limits, reloads, deletes, ended>>
-----------------------------------------------------------------------------
(* Finding and creating sessions. *)

\* A call starts with the map's object or, without one, with a read of the row.
Lookup(p, s, call) ==
  /\ At(p, "idle")
  /\ IF cache[s] # NoObject
     THEN GoTo(p, [call EXCEPT !.at = call.then, !.then = "idle", !.s = s, !.o = cache[s]])
     ELSE /\ row[s] # "none"
          /\ GoTo(p, [call EXCEPT !.at = "load", !.s = s, !.st = row[s]])
  /\ UNCHANGED <<row, pending, cache, ms, pool, limits, reloads, deletes, ended>>

StartTransition(p, s, to) ==
  Lookup(p, s, [Idle EXCEPT !.then = "transition", !.to = to])
StartInput(p, s) == Lookup(p, s, [Idle EXCEPT !.then = "input", !.to = "running"])
StartDetach(p, s, w) == Lookup(p, s, [Idle EXCEPT !.then = "detach", !.w = w])
Get(p, s) == cache[s] = NoObject /\ Lookup(p, s, Idle)

\* Second half of getManagedSession and Get: install what was read, unless
\* another goroutine was faster.
Install(p) ==
  LET c == op[p]
      next(o) == IF c.then = "idle" THEN Idle
                 ELSE [c EXCEPT !.at = c.then, !.then = "idle", !.o = o, !.st = "none"]
  IN
  /\ At(p, "load")
  /\ \/ /\ cache[c.s] # NoObject
        /\ GoTo(p, next(cache[c.s]))
        /\ UNCHANGED <<cache, ms>>
     \/ \E o \in Free :
        /\ cache[c.s] = NoObject
        /\ cache' = [cache EXCEPT ![c.s] = o]
        /\ ms' = [ms EXCEPT ![o] = Loaded(c.s, c.st)]
        /\ GoTo(p, next(o))
  /\ UNCHANGED <<row, pending, pool, limits, reloads, deletes, ended>>

\* CreateWithBot, called when nobody knows the session: row first, then map.
CreateUpsert(p, s) ==
  /\ At(p, "idle")
  /\ cache[s] = NoObject /\ row[s] = "none" /\ ~pending[s]
  /\ \A q \in Procs : ~(At(q, "install") /\ op[q].s = s)
  /\ Upsert(s, "created")
  /\ GoTo(p, [Idle EXCEPT !.at = "install", !.s = s])
  /\ UNCHANGED <<pending, cache, ms, pool, limits, reloads, deletes, ended>>

CreateInstall(p) ==
  LET s == op[p].s IN
  /\ At(p, "install")
  /\ \E o \in Free :
       /\ cache' = [cache EXCEPT ![s] = o]
       /\ ms' = [ms EXCEPT ![o] = Loaded(s, "created")]
  /\ GoTo(p, Idle)
  /\ UNCHANGED <<row, pending, pool, limits, reloads, deletes, ended>>

\* updateSession changes fields that no property reads, but writes the whole
\* row; undoing them in memory when that fails changes nothing here.
UpdateSession(p, s) ==
  LET o == cache[s] IN
  /\ At(p, "idle") /\ o # NoObject
  /\ GoTo(p, [Idle EXCEPT !.at = "update", !.s = s, !.o = o, !.st = ms[o].state])
  /\ UNCHANGED <<row, pending, cache, ms, pool, limits, reloads, deletes, ended>>

FinishUpdate(p) ==
  LET c == op[p] IN
  /\ At(p, "update")
  /\ Upsert(c.s, c.st) \/ UNCHANGED row
  /\ GoTo(p, Idle)
  /\ UNCHANGED <<pending, cache, ms, pool, limits, reloads, deletes, ended>>
-----------------------------------------------------------------------------
(* State transitions. *)

TransitionBegin(p) ==
  LET c == op[p]
      m == ms[c.o]
  IN
  /\ At(p, "transition")
  /\ IF m.state = c.to \/ ~ValidTransition(m.state, c.to) \/ m.deleting
     THEN GoTo(p, Idle)
     ELSE GoTo(p, [c EXCEPT !.at = "upsert"])
  /\ UNCHANGED <<row, pending, cache, ms, pool, limits, reloads, deletes, ended>>

\* Defect: the worker pointer survives the release.
EndWorkerAttached(o) ==
  /\ ms' = [ms EXCEPT ![o].state = "terminated"]
  /\ pool' = ReleaseIfAttached(o)
  /\ ended' = ended

\* The end of a session in memory, by a commit or by force.
EndWorker(o) ==
  /\ ms' = [ms EXCEPT ![o].state = "terminated", ![o].worker = NoWorker]
  /\ pool' = ReleaseIfAttached(o)
  /\ ended' = ended \cup ({ms[o].worker} \ {NoWorker})

\* TransitionWithInput: over means that the turn exceeds the worker's MaxTurns.
InputBegin(p) ==
  LET c == op[p]
      m == ms[c.o]
      over == [c EXCEPT !.at = "upsert", !.to = "terminated", !.flag = TRUE]
  IN
  /\ At(p, "input")
  /\ \/ /\ ~ValidTransition(m.state, c.to) \/ m.deleting
        /\ GoTo(p, Idle)
        /\ UNCHANGED <<ms, pool, ended>>
     \/ /\ ValidTransition(m.state, c.to) /\ ~m.deleting
        /\ GoTo(p, [c EXCEPT !.at = "upsert"])
        /\ UNCHANGED <<ms, pool, ended>>
     \/ /\ ValidTransition(m.state, c.to) /\ m.worker # NoWorker
        /\ IF m.deleting \/ ~ValidTransition(m.state, "terminated")
           THEN GoTo(p, Idle) /\ EndWorker(c.o)
           ELSE GoTo(p, over) /\ UNCHANGED <<ms, pool, ended>>
  /\ UNCHANGED <<row, pending, cache, limits, reloads, deletes>>

\* transitionState writes the row with the session unlocked.
TransitionUpsert(p) ==
  LET c == op[p] IN
  /\ At(p, "upsert")
  /\ \/ /\ Upsert(c.s, c.to)
        /\ GoTo(p, [c EXCEPT !.at = "commit"])
     \/ /\ GoTo(p, IF c.flag THEN [c EXCEPT !.at = "commit"] ELSE Idle)
        /\ UNCHANGED row
  /\ UNCHANGED <<pending, cache, ms, pool, limits, reloads, deletes, ended>>

\* ... and then replaces the object's fields by what it wrote.
TransitionCommit(p) ==
  LET c == op[p] IN
  /\ At(p, "commit")
  /\ IF c.to = "terminated"
     THEN EndWorker(c.o)
     ELSE /\ ms' = [ms EXCEPT ![c.o].state = c.to]
          /\ UNCHANGED <<pool, ended>>
  /\ GoTo(p, Idle)
  /\ UNCHANGED <<row, pending, cache, limits, reloads, deletes>>
-----------------------------------------------------------------------------
(* Attaching and detaching workers. *)

Fresh(w) == /\ w \notin ended
            /\ \A o \in Objects : ms[o].worker # w
            /\ \A q \in Procs : op[q].w # w

AttachCheck(p, s, w) ==
  LET o == cache[s] IN
  /\ At(p, "idle") /\ Fresh(w)
  /\ o # NoObject
  /\ ~ms[o].deleting /\ ms[o].worker = NoWorker
  /\ GoTo(p, [Idle EXCEPT !.at = "acquire", !.s = s, !.w = w])
  /\ UNCHANGED <<row, pending, cache, ms, pool, limits, reloads, deletes, ended>>

AttachAcquire(p) ==
  LET c == op[p] IN
  /\ At(p, "acquire")
  /\ IF CanAcquire(c.s)
     THEN /\ pool' = Acquired(c.s)
          /\ GoTo(p, [c EXCEPT !.at = "attach"])
     ELSE GoTo(p, Idle) /\ UNCHANGED pool
  /\ UNCHANGED <<row, pending, cache, ms, limits, reloads, deletes, ended>>

\* Defect: the second check forgets the state.
StillAttachableAnyState(o) ==
  /\ o # NoObject
  /\ ~ms[o].deleting
  /\ ms[o].worker = NoWorker

\* The second check, under the locks: the session may have gone, be deleted,
\* have another worker or no longer be active.
StillAttachable(o) ==
  /\ o # NoObject
  /\ ~ms[o].deleting
  /\ ms[o].worker = NoWorker
  /\ ms[o].state \in Active

\* Defect: an attach that lost the race returns with its quota.
AttachCommitKeepingQuota(p) ==
  LET c == op[p]
      o == cache[c.s]
  IN
  /\ At(p, "attach")
  /\ ms' = IF StillAttachable(o) THEN [ms EXCEPT ![o].worker = c.w] ELSE ms
  /\ GoTo(p, Idle)
  /\ UNCHANGED <<row, pending, cache, pool, limits, reloads, deletes, ended>>

AttachCommit(p) ==
  LET c == op[p]
      o == cache[c.s]
  IN
  /\ At(p, "attach")
  /\ IF StillAttachable(o)
     THEN /\ ms' = [ms EXCEPT ![o].worker = c.w]
          /\ GoTo(p, Idle)
     ELSE /\ GoTo(p, [c EXCEPT !.at = "release", !.w = NoWorker])
          /\ UNCHANGED ms
  /\ UNCHANGED <<row, pending, cache, pool, limits, reloads, deletes, ended>>

\* DetachWorker (w = NoWorker) and DetachWorkerIf.
Detach(p) ==
  LET c == op[p]
      m == ms[c.o]
  IN
  /\ At(p, "detach")
  /\ IF (c.w # NoWorker /\ m.worker # c.w) \/ m.worker = NoWorker
     THEN GoTo(p, Idle) /\ UNCHANGED <<ms, ended>>
     ELSE /\ ms' = [ms EXCEPT ![c.o].worker = NoWorker]
          /\ ended' = ended \cup {m.worker}
          /\ GoTo(p, [Idle EXCEPT !.at = "release", !.s = c.s])
  /\ UNCHANGED <<row, pending, cache, pool, limits, reloads, deletes>>

\* Both give the quota back after they unlocked.
Release(p) ==
  /\ At(p, "release")
  /\ pool' = Released(op[p].s)
  /\ GoTo(p, Idle)
  /\ UNCHANGED <<row, pending, cache, ms, limits, reloads, deletes, ended>>
-----------------------------------------------------------------------------
(* Deletion.  All three ways mark the object first, or put a tombstone in   *)
(* the map; then write the store with everything unlocked; then act on the  *)
(* map only if it still names the marked object.                            *)

Current(p) == cache[op[p].s] = op[p].o
Forgotten(s) == [cache EXCEPT ![s] = NoObject]

\* Mark a session that the map has or not, and go on at a place of its own.
Mark(p, s, hot, cold) ==
  /\ At(p, "idle")
  /\ deletes < MaxDeletes /\ deletes' = deletes + 1
  /\ \/ LET o == cache[s] IN
        /\ o # NoObject /\ ~ms[o].deleting
        /\ ms' = [ms EXCEPT ![o].deleting = TRUE]
        /\ GoTo(p, [Idle EXCEPT !.at = hot, !.s = s, !.o = o])
        /\ UNCHANGED cache
     \/ \E o \in Free :
        /\ cache[s] = NoObject
        /\ cache' = [cache EXCEPT ![s] = o]
        /\ ms' = [ms EXCEPT ![o] = Tombstone(s)]
        /\ GoTo(p, [Idle EXCEPT !.at = cold, !.s = s, !.o = o, !.flag = TRUE])

Delete(p, s) ==
  /\ Mark(p, s, "markdeleted", "loaddeleted")
  /\ UNCHANGED <<row, pending, pool, limits, reloads, ended>>

\* Behind its tombstone Delete reads the row, which may not exist.
DeleteLoad(p) ==
  LET c == op[p] IN
  /\ At(p, "loaddeleted")
  /\ \/ /\ GoTo(p, Idle)                          \* no row, or the read failed
        /\ cache' = IF Current(p) THEN Forgotten(c.s) ELSE cache
     \/ /\ row[c.s] # "none"
        /\ GoTo(p, [c EXCEPT !.at = "markdeleted", !.st = row[c.s]])
        /\ UNCHANGED cache
  /\ UNCHANGED <<row, pending, ms, pool, limits, reloads, deletes, ended>>

\* MarkDeletedWithCleanup: deletes the row whatever its state; a task is
\* queued if the row named a worker session.
MarkDeleted(s) ==
  \/ row[s] = "none" /\ UNCHANGED <<row, pending>>
  \/ /\ row[s] # "none"
     /\ row' = [row EXCEPT ![s] = "deleted"]
     /\ \E task \in {pending[s], row[s] # "deleted"} :
          pending' = [pending EXCEPT ![s] = pending[s] \/ task]

\* persistDelete, the write.  When it fails a tombstone makes room for what
\* was read behind it and a marked object is unmarked.
PersistDelete(p) ==
  LET c == op[p] IN
  /\ At(p, "markdeleted")
  /\ \/ /\ MarkDeleted(c.s)
        /\ GoTo(p, [c EXCEPT !.at = "dropdeleted"])
        /\ UNCHANGED <<cache, ms>>
     \/ /\ GoTo(p, Idle)
        /\ \/ ~Current(p) /\ UNCHANGED <<cache, ms>>
           \/ /\ Current(p) /\ ~c.flag
              /\ ms' = [ms EXCEPT ![c.o].deleting = FALSE]
              /\ UNCHANGED cache
           \/ \E o \in Free :
              /\ Current(p) /\ c.flag
              /\ cache' = [cache EXCEPT ![c.s] = o]
              /\ ms' = [ms EXCEPT ![o] = Loaded(c.s, c.st)]
        /\ UNCHANGED <<row, pending>>
  /\ UNCHANGED <<pool, limits, reloads, deletes, ended>>

\* persistDelete, the end: the quota goes back, the worker stays in the object.
DropDeleted(p) ==
  LET c == op[p] IN
  /\ At(p, "dropdeleted")
  /\ IF Current(p)
     THEN /\ ms' = [ms EXCEPT ![c.o].state = "deleted"]
          /\ pool' = ReleaseIfAttached(c.o)
          /\ ended' = ended \cup ({ms[c.o].worker} \ {NoWorker})
          /\ cache' = Forgotten(c.s)
     ELSE UNCHANGED <<ms, pool, ended, cache>>
  /\ GoTo(p, Idle)
  /\ UNCHANGED <<row, pending, limits, reloads, deletes>>

\* DeletePhysical gives the quota back before it writes; its callers use it on
\* a session that could not start, or on a deleted one that starts again.
DeletePhysical(p, s) ==
  /\ row[s] \in {"created", "deleted"}
  /\ Mark(p, s, "physical", "physical")
  /\ IF cache[s] = NoObject THEN UNCHANGED <<pool, ended>>
     ELSE /\ pool' = ReleaseIfAttached(cache[s])
          /\ ended' = ended \cup ({ms[cache[s]].worker} \ {NoWorker})
  /\ UNCHANGED <<row, pending, limits, reloads>>

PersistPhysical(p) ==
  LET s == op[p].s IN
  /\ At(p, "physical")
  /\ \/ UNCHANGED <<row, pending>>
     \/ /\ row' = [row EXCEPT ![s] = "none"]
        /\ \E task \in {pending[s], row[s] \notin {"none", "deleted"}} :
             pending' = [pending EXCEPT ![s] = pending[s] \/ task]
  /\ GoTo(p, [op[p] EXCEPT !.at = "uncache"])
  /\ UNCHANGED <<cache, ms, pool, limits, reloads, deletes, ended>>

Uncache(p) ==
  /\ At(p, "uncache")
  /\ cache' = IF Current(p) THEN Forgotten(op[p].s) ELSE cache
  /\ GoTo(p, Idle)
  /\ UNCHANGED <<row, pending, ms, pool, limits, reloads, deletes, ended>>

\* retireExpiredLifecycleSession of the GC: only without a worker.
Retire(p, s) ==
  /\ cache[s] # NoObject =>
       ms[cache[s]].worker = NoWorker /\ ms[cache[s]].state # "running"
  /\ Mark(p, s, "retire", "retire")
  /\ UNCHANGED <<row, pending, pool, limits, reloads, ended>>

PersistRetire(p) ==
  LET c == op[p] IN
  /\ At(p, "retire")
  /\ \/ /\ row[c.s] \notin {"none", "running", "deleted"} /\ ~pending[c.s]
        /\ MarkDeleted(c.s)
        /\ GoTo(p, [c EXCEPT !.at = "retired"])
        /\ UNCHANGED <<cache, ms>>
     \/ /\ GoTo(p, Idle)
        /\ cache' = IF Current(p) /\ c.flag THEN Forgotten(c.s) ELSE cache
        /\ ms' = IF Current(p) /\ ~c.flag
                 THEN [ms EXCEPT ![c.o].deleting = FALSE] ELSE ms
        /\ UNCHANGED <<row, pending>>
  /\ UNCHANGED <<pool, limits, reloads, deletes, ended>>

Retired(p) ==
  LET c == op[p] IN
  /\ At(p, "retired")
  /\ IF Current(p)
     THEN /\ ms' = [ms EXCEPT ![c.o].state = "deleted"]
          /\ cache' = Forgotten(c.s)
     ELSE UNCHANGED <<ms, cache>>
  /\ GoTo(p, Idle)
  /\ UNCHANGED <<row, pending, pool, limits, reloads, deletes, ended>>

\* The GC forgets sessions that have been terminated for long.
Evict(s) ==
  /\ cache[s] # NoObject /\ ms[cache[s]].state = "terminated"
  /\ cache' = Forgotten(s)
  /\ UNCHANGED <<row, pending, ms, op, pool, limits, reloads, deletes, ended>>
-----------------------------------------------------------------------------
SessionStep(p, s) ==
  \/ \E to \in {"running", "idle", "terminated"} : StartTransition(p, s, to)
  \/ StartInput(p, s)
  \/ \E w \in Workers \cup {NoWorker} : ~Fresh(w) /\ StartDetach(p, s, w)
  \/ Get(p, s)
  \/ CreateUpsert(p, s)
  \/ UpdateSession(p, s)
  \/ \E w \in Workers : AttachCheck(p, s, w)
  \/ Delete(p, s)
  \/ DeletePhysical(p, s)
  \/ Retire(p, s)

Continue(p) ==
  \/ Install(p) \/ CreateInstall(p) \/ FinishUpdate(p)
  \/ TransitionBegin(p) \/ InputBegin(p) \/ TransitionUpsert(p) \/ TransitionCommit(p)
  \/ AttachAcquire(p) \/ AttachCommit(p) \/ Detach(p) \/ Release(p)
  \/ DeleteLoad(p) \/ PersistDelete(p) \/ DropDeleted(p)
  \/ PersistPhysical(p) \/ Uncache(p) \/ PersistRetire(p) \/ Retired(p)

Next ==
  \/ \E p \in Procs, s \in Sessions : SessionStep(p, s)
  \/ \E p \in Procs : Continue(p)
  \/ \E s \in Sessions : DeleteTerminated(s) \/ CleanupDone(s) \/ Evict(s)
  \/ UpdateLimits

Spec == Init /\ [][Next]_vars
-----------------------------------------------------------------------------
(* Properties. *)

\* Every value the manager keeps or a goroutine has read is of its kind.
STypeOK ==
  /\ row \in [Sessions -> States \cup {"none"}]
  /\ pending \in [Sessions -> BOOLEAN]
  /\ cache \in [Sessions -> Objects \cup {NoObject}]
  /\ ms \in [Objects -> Object]
  /\ op \in [Procs -> Call]
  /\ pool \in [total: Nat, user: [Users -> Nat], wksp: [Workspaces -> Nat],
               mem: [Users -> Nat]]
  /\ limits \in Limits
  /\ reloads \in 0..MaxReloads /\ deletes \in 0..MaxDeletes
  /\ ended \subseteq Workers

\* Who holds quota: running workers, and goroutines between taking quota and
\* attaching, or between letting go of a worker and giving its quota back.
InUse(S) == Cardinality({o \in Objects : Holds(o) /\ ms[o].s \in S})
            + Cardinality({p \in Procs : op[p].at \in {"attach", "release"}
                                         /\ op[p].s \in S})
OfUser(u) == {s \in Sessions : UserOf[s] = u}
InSpace(x) == {s \in Sessions : HomeOf[s] = x}

\* No exit of any operation keeps quota it took: the counters of slots, of a
\* user's slots and of a user's memory never exceed what is really in use, so
\* idle capacity is never refused (pool.go, and the releases of manager.go).
NoSlotLeak ==
  /\ pool.total <= InUse(Sessions)
  /\ \A u \in Users : /\ pool.user[u] <= InUse(OfUser(u))
                      /\ pool.mem[u] <= InUse(OfUser(u))

\* Until a deletion, nothing is returned twice either: the counters are exact,
\* however attaching, detaching, terminating, eviction and reloads of the
\* limits interleave.
QuotaExact ==
  deletes = 0 =>
    /\ pool.total = InUse(Sessions)
    /\ \A u \in Users : pool.user[u] = InUse(OfUser(u))
    /\ \A x \in Workspaces : pool.wksp[x] = InUse(InSpace(x))

\* An object leaves the map with its worker only once that worker is being
\* terminated: no deletion, retirement or eviction strands a process.  The
\* exception is a Create that finishes after another goroutine has already
\* found its row and attached a worker: its entry replaces theirs.
NoOrphan ==
  [][\A s \in Sessions :
       LET o == cache[s] IN
       o # NoObject /\ cache'[s] # o /\ Holds(o)
       => \/ ms[o].worker \in ended'
          \/ \E p \in Procs : At(p, "install") /\ op[p].s = s]_vars

\* The store's guard makes deletion final whatever a slow transition still
\* writes: a deleted row is only ever removed, and while its cleanup task is
\* pending the row does not come back to life.
DeletedStaysDeleted ==
  [][\A s \in Sessions :
       /\ row[s] = "deleted" => row'[s] \in {"deleted", "none"}
       /\ pending[s] => row'[s] \in {"deleted", "none"}]_vars

\* What the comments of transitionState and forceTerminateInMemory promise of
\* clearing the worker under the lock: quota is never given back twice.
QuotaMatchesWorkers ==
  \A u \in Users : pool.user[u] = InUse(OfUser(u))
=============================================================================
