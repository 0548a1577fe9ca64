------------------------ MODULE SessionCleanupProofs ------------------------
(***************************************************************************)
(* The cleanup outbox keeps its promises for any sessions and gateways,    *)
(* any number of lives, remote sessions, leases and faults.                *)
(***************************************************************************)
EXTENDS SessionCleanup, TLAPS

(* Records. *)

\* Empty rows, tasks and items are rows, tasks and items.
LEMMA Empty == NoRow \in RowType /\ NoTask \in TaskType /\ NoItem \in ItemType
  <1>1. 0 \in Lives /\ 0 \in Tokens /\ None \in Ids
    BY CleanupAssumption, SMT DEF CleanupAssumption, Lives, Tokens, Ids
  <1> QED BY <1>1, Zenon DEF NoRow, NoTask, NoItem, RowType, TaskType, ItemType, ItemStates

\* A row with another state and without a worker session is a row of the life.
LEMMA GoneRow ==
  ASSUME NEW q \in RowType, NEW st \in {"none", "deleted"}
  PROVE  LET r == [q EXCEPT !.state = st, !.wsid = None] IN
         r \in RowType /\ r.state = st /\ r.life = q.life /\ r.wsid = None
  <1>1. None \in Ids BY Zenon DEF Ids
  <1> QED BY <1>1, Zenon DEF RowType

\* A row that names another remote session is otherwise the same.
LEMMA NamingRow ==
  ASSUME NEW q \in RowType, NEW n \in Ids
  PROVE  LET r == [q EXCEPT !.wsid = n] IN
         r \in RowType /\ r.state = q.state /\ r.life = q.life /\ r.wsid = n
  BY Zenon DEF RowType

\* A lease of a task changes nothing else of it.
LEMMA LeasedTask ==
  ASSUME NEW x \in TaskType, NEW n \in Tokens, NEW b \in BOOLEAN
  PROVE  LET y == [x EXCEPT !.token = n, !.leased = b] IN
         /\ y \in TaskType /\ y.on = x.on /\ y.life = x.life /\ y.able = x.able
         /\ y.wsid = x.wsid /\ y.token = n
  BY Zenon DEF TaskType

LEMMA LapsedTask ==
  ASSUME NEW x \in TaskType
  PROVE  LET y == [x EXCEPT !.leased = FALSE] IN
         /\ y \in TaskType /\ y.on = x.on /\ y.life = x.life /\ y.able = x.able
         /\ y.wsid = x.wsid /\ y.token = x.token
  BY Zenon DEF TaskType

\* The same for the lease of a purge item, and for the state of one.
LEMMA LapsedItem ==
  ASSUME NEW x \in ItemType
  PROVE  LET y == [x EXCEPT !.leased = FALSE] IN
         y \in ItemType /\ y.state = x.state /\ y.token = x.token
  BY Zenon DEF ItemType

LEMMA StateItem ==
  ASSUME NEW x \in ItemType, NEW st \in ItemStates
  PROVE  LET y == [x EXCEPT !.state = st] IN
         y \in ItemType /\ y.state = st /\ y.token = x.token
  BY Zenon DEF ItemType

\* An answered claim is the claim with its answer.
LEMMA AnsweredClaim ==
  ASSUME NEW t \in Claims, NEW got \in Results
  PROVE  LET u == [t EXCEPT !.got = got] IN
         /\ u \in Claims /\ u.s = t.s /\ u.wsid = t.wsid /\ u.able = t.able
         /\ u.token = t.token /\ u.got = got
  BY Zenon DEF Claims

LEMMA AnsweredPurge ==
  ASSUME NEW t \in Purges, NEW got \in Results
  PROVE  LET u == [t EXCEPT !.got = got] IN
         u \in Purges /\ u.s = t.s /\ u.token = t.token /\ u.got = got
  BY Zenon DEF Purges

\* A new task is for the remote session the row names; otherwise nothing changes.
LEMMA EnqueuedTask ==
  ASSUME CTypeOK, NEW s \in Sessions
  PROVE  LET x == EnqueueTask(s) IN
         /\ x \in [Sessions -> TaskType]
         /\ \A r \in Sessions : r # s => x[r] = task[r]
         /\ x[s] = task[s] \/ (~task[s].on /\ x[s].on /\ x[s].life = row[s].life
                                 /\ x[s].wsid = row[s].wsid /\ x[s].token = 0
                                 /\ row[s].wsid # None /\ worker[s] \notin Settled)
         /\ row[s].wsid # None /\ worker[s] \notin Settled => x[s].on
  <1> DEFINE new == [on |-> TRUE, life |-> row[s].life, able |-> row[s].able,
                     wsid |-> row[s].wsid, token |-> 0, leased |-> FALSE]
  <1>1. 0 \in Tokens
    BY CleanupAssumption, SMT DEF CleanupAssumption, Tokens
  <1>2. row[s] \in RowType /\ task \in [Sessions -> TaskType] BY DEF CTypeOK
  <1>3. row[s].life \in Lives /\ row[s].able \in BOOLEAN /\ row[s].wsid \in Ids
    BY <1>2, Zenon DEF RowType
  <1>4. /\ new \in TaskType /\ new.on /\ new.life = row[s].life /\ new.token = 0
        /\ new.wsid = row[s].wsid
    BY <1>1, <1>3, Zenon DEF TaskType
  <1> HIDE DEF new
  <1>5. EnqueueTask(s) = IF row[s].wsid # None /\ worker[s] \notin Settled /\ ~task[s].on
                         THEN [task EXCEPT ![s] = new] ELSE task
    BY Zenon DEF EnqueueTask, new
  <1> QED BY <1>2, <1>4, <1>5

\* What the job shows is one of its statuses.
LEMMA RefreshedJob ==
  ASSUME CTypeOK, NEW s \in Sessions, NEW t, NEW w
  PROVE  /\ Refreshed(s, t, w) \in [Sessions -> {"none", "in_progress", "blocked", "complete"}]
         /\ \A r \in Sessions : r # s => Refreshed(s, t, w)[r] = job[r]
         /\ t = "none" => Refreshed(s, t, w)[s] = job[s]
         /\ t # "none" => Refreshed(s, t, w)[s] = JobStatus(t, w)
  <1>1. JobStatus(t, w) \in {"in_progress", "blocked", "complete"} BY DEF JobStatus
  <1> QED BY <1>1 DEF CTypeOK, Refreshed

LEMMA WorkerItemType ==
  ASSUME CTypeOK, NEW s \in Sessions, NEW new \in ItemStates
  PROVE  WorkerItem(s, new) \in ItemStates
  BY DEF CTypeOK, WorkerItem
-----------------------------------------------------------------------------
(* The invariant.  A claim in a runner's hands may be stale in every way but *)
(* one: as long as its token is that of the task, it is the claim of that    *)
(* task, and what was deleted in its name cannot come back, since a remote   *)
(* session is created once, before anything names it.                        *)

HandOK(t) ==
  /\ t.token \in 1..tokens
  /\ Owns(t) => t.wsid = task[t.s].wsid /\ t.able = task[t.s].able
  /\ t.got = "ok" => t.wsid \notin remote[t.s]
  /\ t.got = "unsupported" => ~t.able
  /\ t.wsid \in made[t.s]

Hands == \A g \in Gateways : \A t \in hand[g] : HandOK(t)

NamesMade(s) ==
  /\ starting[s] \cap made[s] = {}
  /\ row[s].wsid \in made[s] \cup {None}
  /\ task[s].on => task[s].wsid \in made[s]

Names == \A s \in Sessions : NamesMade(s)

TokensGiven == \A s \in Sessions : task[s].token <= tokens

CInv == CTypeOK /\ NoRevival /\ Hands /\ Names /\ TokensGiven

\* Members of the state have the fields of their types.
LEMMA Fields ==
  ASSUME CTypeOK
  PROVE  /\ \A s \in Sessions : /\ row[s] \in RowType /\ row[s].life \in Lives
                                /\ row[s].able \in BOOLEAN /\ row[s].wsid \in Ids
                                /\ row[s].state \in {"none", "live", "deleted"}
         /\ \A s \in Sessions : /\ task[s] \in TaskType /\ task[s].life \in Lives
                                /\ task[s].on \in BOOLEAN /\ task[s].able \in BOOLEAN
                                /\ task[s].token \in Tokens /\ task[s].wsid \in Ids
         /\ \A s \in Sessions : /\ talk[s] \in ItemType /\ talk[s].state \in ItemStates
                                /\ talk[s].token \in Tokens
         /\ \A g \in Gateways, t \in Claims :
              t \in hand[g] => /\ t.s \in Sessions /\ t.wsid \in Ids
                               /\ t.able \in BOOLEAN /\ t.token \in Tokens
                               /\ t.got \in Results
         /\ \A g \in Gateways : hand[g] \subseteq Claims /\ purging[g] \subseteq Purges
         /\ \A t \in Purges : t.s \in Sessions /\ t.token \in Tokens /\ t.got \in Results
  <1>1. \A r \in RowType : /\ r.life \in Lives /\ r.able \in BOOLEAN /\ r.wsid \in Ids
                           /\ r.state \in {"none", "live", "deleted"}
    BY Zenon DEF RowType
  <1>2. \A x \in TaskType : /\ x.life \in Lives /\ x.on \in BOOLEAN /\ x.able \in BOOLEAN
                            /\ x.token \in Tokens /\ x.wsid \in Ids
    BY Zenon DEF TaskType
  <1>3. \A x \in ItemType : x.state \in ItemStates /\ x.token \in Tokens
    BY Zenon DEF ItemType
  <1>4. \A t \in Claims : /\ t.s \in Sessions /\ t.wsid \in Ids /\ t.able \in BOOLEAN
                          /\ t.token \in Tokens /\ t.got \in Results
    BY Zenon DEF Claims
  <1>5. \A t \in Purges : t.s \in Sessions /\ t.token \in Tokens /\ t.got \in Results
    BY Zenon DEF Purges
  <1> QED BY <1>1, <1>2, <1>3, <1>4, <1>5 DEF CTypeOK

\* Numbers of lives and tokens are natural numbers.
LEMMA Numbers == Lives \subseteq Nat /\ Tokens \subseteq Nat /\ 0 \in Tokens
  BY CleanupAssumption, SMT DEF CleanupAssumption, Lives, Tokens

\* A step of the row, and maybe of the task, of one session keeps the invariant
\* if they name remote sessions that were created.
LEMMA MovedOn ==
  ASSUME CInv, CTypeOK', UNCHANGED <<starting, made, remote, hand, tokens>>,
         NEW s \in Sessions,
         \A r \in Sessions : r # s => row'[r] = row[r] /\ task'[r] = task[r],
         row'[s].wsid \in made[s] \cup {None},
         task'[s] = task[s] \/ (task'[s].on /\ ~task[s].on /\ task'[s].token = 0
                                  /\ task'[s].life = row'[s].life /\ task'[s].wsid \in made[s]),
         task[s].on => row'[s].state # "live" /\ row'[s].life = row[s].life,
         task'[s].on => row'[s].state # "live"
  PROVE  CInv'
  <1> USE Fields, Numbers
  <1>1. NoRevival'
    BY DEF CInv, NoRevival
  <1>2. TokensGiven'
    BY DEF CInv, TokensGiven, CTypeOK
  <1>3. Hands'
    <2> SUFFICES ASSUME NEW g \in Gateways, NEW t \in hand[g] PROVE HandOK(t)'
      BY DEF Hands
    <2>1. HandOK(t) /\ t \in Claims /\ t.s \in Sessions /\ tokens \in Nat
      BY DEF CInv, Hands, CTypeOK
    <2>2. CASE t.s # s BY <2>1, <2>2 DEF HandOK, Owns
    <2>3. CASE t.s = s BY <2>1, <2>3 DEF HandOK, Owns
    <2> QED BY <2>2, <2>3
  <1>4. Names' BY DEF CInv, Names, NamesMade
  <1> QED BY <1>1, <1>2, <1>3, <1>4 DEF CInv

\* A step that changes no session, task or remote session, and no claim.
LEMMA Untouched ==
  ASSUME CInv, CTypeOK', UNCHANGED <<row, starting, made, task, remote, hand, tokens>>
  PROVE  CInv'
  BY DEF CInv, NoRevival, Hands, HandOK, Owns, Names, NamesMade, TokensGiven
-----------------------------------------------------------------------------
(* Every action keeps the invariant. *)

LEMMA CreateKeeps ==
  ASSUME CInv, NEW s \in Sessions, Create(s)
  PROVE  CInv'
  <1>0. CTypeOK BY DEF CInv
  <1>1. PICK able \in BOOLEAN :
          row' = [row EXCEPT ![s] = [state |-> "live", life |-> row[s].life + 1,
                                     able |-> able, wsid |-> None]]
    BY DEF Create
  <1> DEFINE new == [state |-> "live", life |-> row[s].life + 1, able |-> able, wsid |-> None]
  <1>2. row[s].life \in Lives /\ None \in Ids BY <1>0, Fields DEF Ids
  <1>3. row[s].life + 1 \in Lives
    BY <1>2, CleanupAssumption DEF Create, Lives, CleanupAssumption
  <1>4. new \in RowType /\ new.state = "live" /\ new.life = row[s].life + 1 /\ new.wsid = None
    BY <1>2, <1>3, Zenon DEF RowType
  <1> HIDE DEF new
  <1>5. row' = [row EXCEPT ![s] = new] BY <1>1 DEF new
  <1>6. CTypeOK' BY <1>0, <1>4, <1>5 DEF CTypeOK, Create
  <1>7. row'[s] = new /\ \A r \in Sessions : r # s => row'[r] = row[r]
    BY <1>0, <1>5 DEF CTypeOK
  <1> QED BY <1>4, <1>6, <1>7, MovedOn DEF Create

\* A started worker has a number of its own, and creates its remote session once:
\* no claim names it yet.
LEMMA RemoteKeeps ==
  ASSUME CInv, NEW s \in Sessions, NEW n \in Remotes, StartWorker(s, n) \/ CreateRemote(s, n)
  PROVE  CInv'
  <1>0. CTypeOK BY DEF CInv
  <1>1. CTypeOK' BY <1>0 DEF CTypeOK, StartWorker, CreateRemote
  <1>2. UNCHANGED <<row, task, hand, tokens>> BY DEF StartWorker, CreateRemote
  <1>3. /\ \A r \in Sessions : made[r] \subseteq made'[r] /\ starting'[r] \cap made'[r] = {}
        /\ \A r \in Sessions : \A m \in remote'[r] : m \in remote[r] \/ m \notin made[r]
    BY <1>0 DEF CTypeOK, CInv, Names, NamesMade, StartWorker, CreateRemote
  <1>4. NoRevival' /\ TokensGiven' BY <1>2 DEF CInv, NoRevival, TokensGiven
  <1>5. Names' BY <1>2, <1>3 DEF CInv, Names, NamesMade
  <1>6. Hands'
    <2> SUFFICES ASSUME NEW g \in Gateways, NEW t \in hand[g] PROVE HandOK(t)'
      BY <1>2 DEF Hands
    <2>1. HandOK(t) /\ t.s \in Sessions BY <1>0, Fields DEF CInv, Hands
    <2> QED BY <1>2, <1>3, <2>1 DEF HandOK, Owns
  <1> QED BY <1>1, <1>4, <1>5, <1>6 DEF CInv

LEMMA UpdateWorkerSessionIDKeeps ==
  ASSUME CInv, NEW s \in Sessions, NEW n \in Remotes, UpdateWorkerSessionID(s, n)
  PROVE  CInv'
  <1>0. CTypeOK BY DEF CInv
  <1> DEFINE new == [row[s] EXCEPT !.wsid = n]
  <1>1. row[s] \in RowType /\ n \in Ids BY <1>0, Fields DEF Ids
  <1>2. new \in RowType /\ new.state = row[s].state /\ new.life = row[s].life /\ new.wsid = n
    BY <1>1, NamingRow, Zenon
  <1> HIDE DEF new
  <1>3. row' = [row EXCEPT ![s] = new] BY Zenon DEF UpdateWorkerSessionID, new
  <1>4. CTypeOK' BY <1>0, <1>2, <1>3 DEF CTypeOK, UpdateWorkerSessionID
  <1>5. row'[s] = new /\ \A r \in Sessions : r # s => row'[r] = row[r]
    BY <1>0, <1>3 DEF CTypeOK
  <1>6. task[s].on => row'[s].state # "live" BY <1>2, <1>5 DEF CInv, NoRevival
  <1> QED BY <1>2, <1>4, <1>5, <1>6, MovedOn DEF UpdateWorkerSessionID

LEMMA AppendKeeps ==
  ASSUME CInv, NEW s \in Sessions, Append(s)
  PROVE  CInv'
  <1>1. CTypeOK BY DEF CInv
  <1>2. row[s].life \in Lives BY <1>1, Fields
  <1>3. CTypeOK' BY <1>1, <1>2 DEF CTypeOK, Append
  <1> QED BY <1>3, Untouched DEF Append

\* The row of a deleted session and its task.
LEMMA GoneKeeps ==
  ASSUME CInv, CTypeOK', NEW s \in Sessions, NEW st \in {"none", "deleted"},
         task' = EnqueueTask(s),
         row' = [row EXCEPT ![s].state = st, ![s].wsid = None],
         UNCHANGED <<starting, made, remote, hand, tokens>>
  PROVE  CInv'
  <1>0. CTypeOK BY DEF CInv
  <1> DEFINE new == [row[s] EXCEPT !.state = st, !.wsid = None]
  <1>1. row[s] \in RowType /\ row[s].life \in Lives BY <1>0, Fields
  <1>2. new.state = st /\ new.life = row[s].life /\ new.wsid = None BY <1>1, GoneRow, Zenon
  <1> HIDE DEF new
  <1>3. row' = [row EXCEPT ![s] = new]
    <2>1. [row EXCEPT ![s].state = st, ![s].wsid = None] = [row EXCEPT ![s] = new]
      BY <1>0, Zenon DEF new, CTypeOK
    <2> QED BY <2>1
  <1>4. row'[s] = new /\ \A r \in Sessions : r # s => row'[r] = row[r]
    BY <1>0, <1>3 DEF CTypeOK
  <1>5. row[s].wsid \in made[s] \cup {None} /\ (task[s].on => row[s].life = task[s].life)
    BY DEF CInv, Names, NamesMade, NoRevival
  <1>6. /\ \A r \in Sessions : r # s => task'[r] = task[r]
        /\ task'[s] = task[s] \/ (~task[s].on /\ task'[s].on /\ task'[s].token = 0
                                    /\ task'[s].life = row[s].life
                                    /\ task'[s].wsid = row[s].wsid /\ row[s].wsid # None)
    BY <1>0, EnqueuedTask
  <1> QED BY <1>2, <1>4, <1>5, <1>6, MovedOn

\* The row of a deleted session is a row.
LEMMA GoneType ==
  ASSUME CTypeOK, NEW s \in Sessions, NEW st \in {"none", "deleted"}
  PROVE  [row EXCEPT ![s].state = st, ![s].wsid = None] \in [Sessions -> RowType]
  <1> DEFINE new == [row[s] EXCEPT !.state = st, !.wsid = None]
  <1>1. row[s] \in RowType BY Fields
  <1>2. new \in RowType BY <1>1, GoneRow, Zenon
  <1>3. [row EXCEPT ![s].state = st, ![s].wsid = None] = [row EXCEPT ![s] = new]
    BY Zenon DEF CTypeOK
  <1> HIDE DEF new
  <1> QED BY <1>2, <1>3 DEF CTypeOK

LEMMA MarkDeletedKeeps ==
  ASSUME CInv, NEW s \in Sessions, MarkDeletedWithCleanup(s)
  PROVE  CInv'
  <1> DEFINE talking == IF talk[s].state = "none" THEN "pending" ELSE talk[s].state
             working == IF worker[s] # "none" THEN worker[s]
                        ELSE IF row[s].wsid # None THEN "pending" ELSE "complete"
             item == [talk[s] EXCEPT !.state = talking]
  <1>0. CTypeOK BY DEF CInv
  <1>1. talk[s] \in ItemType /\ talk[s].state \in ItemStates BY <1>0, Fields
  <1>2. talking \in ItemStates /\ working \in ItemStates
    BY <1>0, <1>1 DEF CTypeOK, ItemStates, Open, Settled
  <1>3. item \in ItemType BY <1>1, <1>2, StateItem, Zenon
  <1>4. /\ task' = EnqueueTask(s)
        /\ talk' = [talk EXCEPT ![s].state = talking]
        /\ worker' = [worker EXCEPT ![s] = working]
        /\ job' = Refreshed(s, talking, working)
        /\ row' = [row EXCEPT ![s].state = "deleted", ![s].wsid = None]
        /\ owed' = IF worker[s] = "none" THEN [owed EXCEPT ![s] = row[s].wsid] ELSE owed
        /\ UNCHANGED <<content, starting, made, remote, hand, purging, tokens, faults>>
    BY Zenon DEF MarkDeletedWithCleanup
  <1> HIDE DEF talking, working
  <1>5. talk' = [talk EXCEPT ![s] = item] BY <1>4, Zenon
  <1> HIDE DEF item
  <1>6. row' \in [Sessions -> RowType] BY <1>0, <1>4, GoneType
  <1>7. task' \in [Sessions -> TaskType] BY <1>0, <1>4, EnqueuedTask
  <1>8. job' \in [Sessions -> {"none", "in_progress", "blocked", "complete"}]
    BY <1>0, <1>4, RefreshedJob
  <1>9. owed' \in [Sessions -> Ids]
    <2>1. row[s].wsid \in Ids BY <1>0, Fields
    <2> QED BY <1>0, <1>4, <2>1 DEF CTypeOK
  <1>10. CTypeOK' BY <1>0, <1>2, <1>3, <1>4, <1>5, <1>6, <1>7, <1>8, <1>9 DEF CTypeOK
  <1> QED BY <1>4, <1>10, GoneKeeps

LEMMA DeletePhysicalKeeps ==
  ASSUME CInv, NEW s \in Sessions, DeletePhysicalWithCleanup(s)
  PROVE  CInv'
  <1>0. CTypeOK BY DEF CInv
  <1>1. /\ task' = EnqueueTask(s)
        /\ row' = [row EXCEPT ![s].state = "none", ![s].wsid = None]
        /\ UNCHANGED <<content, starting, made, remote, worker, talk, job, owed, hand, purging,
                       tokens, faults>>
    BY Zenon DEF DeletePhysicalWithCleanup
  <1>2. row' \in [Sessions -> RowType] BY <1>0, <1>1, GoneType
  <1>3. task' \in [Sessions -> TaskType] BY <1>0, <1>1, EnqueuedTask
  <1>4. CTypeOK' BY <1>0, <1>1, <1>2, <1>3 DEF CTypeOK
  <1> QED BY <1>1, <1>4, GoneKeeps

\* A lease that passes changes the lease alone.
LEMMA LapseKeeps ==
  ASSUME CInv, NEW s \in Sessions, faults' \in 0..MaxFaults,
         \/ task' = [task EXCEPT ![s].leased = FALSE] /\ UNCHANGED talk
         \/ talk' = [talk EXCEPT ![s].leased = FALSE] /\ UNCHANGED task,
         UNCHANGED <<row, content, starting, made, remote, worker, job, owed, hand, purging,
                     tokens>>
  PROVE  CInv'
  <1>0. CTypeOK BY DEF CInv
  <1>1. CASE task' = [task EXCEPT ![s].leased = FALSE] /\ UNCHANGED talk
    <2> DEFINE new == [task[s] EXCEPT !.leased = FALSE]
    <2>1. task[s] \in TaskType BY <1>0, Fields
    <2>2. /\ new \in TaskType /\ new.on = task[s].on /\ new.life = task[s].life
          /\ new.able = task[s].able /\ new.token = task[s].token /\ new.wsid = task[s].wsid
      BY <2>1, LapsedTask, Zenon
    <2>3. task' = [task EXCEPT ![s] = new] BY <1>1, Zenon
    <2> HIDE DEF new
    <2>4. CTypeOK' BY <1>0, <1>1, <2>2, <2>3 DEF CTypeOK
    <2>5. \A r \in Sessions : /\ task'[r].on = task[r].on /\ task'[r].life = task[r].life
                              /\ task'[r].able = task[r].able /\ task'[r].token = task[r].token
                              /\ task'[r].wsid = task[r].wsid
      BY <1>0, <2>2, <2>3 DEF CTypeOK
    <2>6. NoRevival' /\ TokensGiven' /\ Names'
      BY <2>5 DEF CInv, NoRevival, TokensGiven, Names, NamesMade
    <2>7. Hands'
      <3> SUFFICES ASSUME NEW g \in Gateways, NEW t \in hand[g] PROVE HandOK(t)'
        BY DEF Hands
      <3>1. HandOK(t) /\ t.s \in Sessions BY <1>0, Fields DEF CInv, Hands
      <3> QED BY <3>1, <2>5 DEF HandOK, Owns
    <2> QED BY <2>4, <2>6, <2>7 DEF CInv
  <1>2. CASE talk' = [talk EXCEPT ![s].leased = FALSE] /\ UNCHANGED task
    <2> DEFINE new == [talk[s] EXCEPT !.leased = FALSE]
    <2>1. talk[s] \in ItemType BY <1>0, Fields
    <2>2. new \in ItemType BY <2>1, LapsedItem, Zenon
    <2>3. talk' = [talk EXCEPT ![s] = new] BY <1>2, Zenon
    <2> HIDE DEF new
    <2>4. CTypeOK' BY <1>0, <1>2, <2>2, <2>3 DEF CTypeOK
    <2> QED BY <1>2, <2>4, Untouched
  <1> QED BY <1>1, <1>2

\* Counting a fault stays within the bound.
LEMMA FaultCounted == ASSUME CTypeOK, Fault PROVE faults' \in 0..MaxFaults
  BY CleanupAssumption DEF CTypeOK, Fault, CleanupAssumption

LEMMA LeaseLapsesKeeps ==
  ASSUME CInv, NEW s \in Sessions, LeaseLapses(s) \/ AbandonedLapses(s)
  PROVE  CInv'
  <1>0. CTypeOK BY DEF CInv
  <1>1. CASE LeaseLapses(s)
    <2>1. faults' \in 0..MaxFaults BY <1>0, <1>1, FaultCounted DEF LeaseLapses
    <2> QED BY <1>1, <2>1, LapseKeeps DEF LeaseLapses
  <1>2. CASE AbandonedLapses(s)
    <2>1. faults' \in 0..MaxFaults BY <1>0, <1>2 DEF AbandonedLapses, CTypeOK
    <2> QED BY <1>2, <2>1, LapseKeeps DEF AbandonedLapses
  <1> QED BY <1>1, <1>2

\* A new lease has a token no earlier claim has, so these own nothing now.
LEMMA ClaimCleanupTaskKeeps ==
  ASSUME CInv, NEW g \in Gateways, NEW s \in Sessions, ClaimCleanupTask(g, s)
  PROVE  CInv'
  <1> DEFINE new == [task[s] EXCEPT !.token = tokens + 1, !.leased = TRUE]
             c == Claimed(s, tokens + 1)
  <1>0. CTypeOK BY DEF CInv
  <1>1. task[s] \in TaskType /\ task[s].wsid \in Ids /\ task[s].able \in BOOLEAN
        /\ tokens \in Nat
    BY <1>0, Fields, Numbers DEF CTypeOK
  <1>2. tokens + 1 \in Tokens /\ tokens' = tokens + 1
    BY <1>0, CleanupAssumption DEF CTypeOK, ClaimCleanupTask, Tokens, CleanupAssumption
  <1>3. /\ new \in TaskType /\ new.on = task[s].on /\ new.life = task[s].life
        /\ new.able = task[s].able /\ new.token = tokens + 1 /\ new.wsid = task[s].wsid
    BY <1>1, <1>2, LeasedTask, Zenon
  <1>4. task' = [task EXCEPT ![s] = new] BY Zenon DEF ClaimCleanupTask
  <1>5. /\ c \in Claims /\ c.s = s /\ c.wsid = task[s].wsid /\ c.able = task[s].able
        /\ c.token = tokens + 1 /\ c.got = "claimed"
    BY <1>1, <1>2, Zenon DEF Claimed, Claims, Results
  <1>6. hand' = [hand EXCEPT ![g] = @ \cup {c}] BY DEF ClaimCleanupTask
  <1> HIDE DEF new, c
  <1>7. WorkerItem(s, "running") \in ItemStates
    BY <1>0, WorkerItemType DEF ItemStates, Open
  <1>8. job' \in [Sessions -> {"none", "in_progress", "blocked", "complete"}]
    BY <1>0, RefreshedJob DEF ClaimCleanupTask
  <1>a. /\ worker' = [worker EXCEPT ![s] = WorkerItem(s, "running")]
        /\ UNCHANGED <<row, content, starting, made, remote, talk, owed, purging, faults>>
    BY Zenon DEF ClaimCleanupTask
  <1>9. CTypeOK' BY <1>0, <1>2, <1>3, <1>4, <1>5, <1>6, <1>7, <1>8, <1>a DEF CTypeOK
  <1>10. task'[s] = new /\ \A r \in Sessions : r # s => task'[r] = task[r]
    BY <1>0, <1>4 DEF CTypeOK
  <1>11. NoRevival' /\ Names'
    BY <1>3, <1>10 DEF CInv, NoRevival, Names, NamesMade, ClaimCleanupTask
  <1>12. TokensGiven'
    <2> SUFFICES ASSUME NEW r \in Sessions PROVE task'[r].token <= tokens + 1
      BY <1>2 DEF TokensGiven
    <2>1. task[r].token \in Nat /\ task[r].token <= tokens
      BY <1>0, Fields, Numbers DEF CInv, TokensGiven
    <2> QED BY <1>1, <1>3, <1>10, <2>1
  <1>13. Hands'
    <2> SUFFICES ASSUME NEW h \in Gateways, NEW t \in hand'[h] PROVE HandOK(t)'
      BY DEF Hands
    <2>1. CASE t = c
      <3>1. task[s].wsid \in made[s]
        BY DEF CInv, Names, NamesMade, ClaimCleanupTask
      <3> QED BY <1>1, <1>2, <1>3, <1>5, <1>10, <1>a, <2>1, <3>1 DEF HandOK
    <2>2. CASE t # c
      <3>1. t \in hand[h] BY <1>0, <1>6, <2>2 DEF CTypeOK
      <3>2. HandOK(t) /\ t.s \in Sessions /\ t.token \in Nat
        BY <1>0, <3>1, Fields, Numbers DEF CInv, Hands
      <3>3. t.token # tokens + 1 /\ t.token \in 1..(tokens + 1) BY <1>1, <3>2 DEF HandOK
      <3>4. ~Owns(t)' \/ (Owns(t) /\ task'[t.s] = task[t.s])
        BY <1>3, <1>10, <3>2, <3>3 DEF Owns
      <3> QED BY <1>2, <1>a, <3>2, <3>3, <3>4 DEF HandOK
    <2> QED BY <2>1, <2>2
  <1> QED BY <1>9, <1>11, <1>12, <1>13 DEF CInv

\* The answer of the worker type: what was deleted in the name of a claim is
\* gone for every claim that names it.
LEMMA CleanupSessionKeeps ==
  ASSUME CInv, NEW g \in Gateways, NEW t \in hand[g], CleanupSession(g, t)
  PROVE  CInv'
  <1>0. CTypeOK BY DEF CInv
  <1>1. t \in Claims /\ t.s \in Sessions /\ HandOK(t) BY <1>0, Fields DEF CInv, Hands
  <1>2. PICK got \in {"ok", "failed", "unsupported"} :
          /\ Answer(g, t, got)
          /\ got = "unsupported" => ~t.able
          /\ remote' \in {remote, [remote EXCEPT ![t.s] = @ \ {t.wsid}]}
          /\ got = "ok" => remote' = [remote EXCEPT ![t.s] = @ \ {t.wsid}]
    BY DEF CleanupSession
  <1> DEFINE u == [t EXCEPT !.got = got]
  <1>3. /\ u \in Claims /\ u.s = t.s /\ u.wsid = t.wsid /\ u.able = t.able
        /\ u.token = t.token /\ u.got = got
    <2>1. got \in Results BY DEF Results
    <2> QED BY <1>1, <2>1, AnsweredClaim, Zenon
  <1>4. hand' = [hand EXCEPT ![g] = (@ \ {t}) \cup {u}] BY <1>2, Zenon DEF Answer
  <1> HIDE DEF u
  <1>5. faults' \in 0..MaxFaults BY <1>0, FaultCounted DEF CleanupSession, CTypeOK
  <1>6. CTypeOK' BY <1>0, <1>2, <1>3, <1>4, <1>5 DEF CTypeOK, CleanupSession
  <1>7. /\ \A r \in Sessions : remote'[r] \subseteq remote[r]
        /\ got = "ok" => t.wsid \notin remote'[t.s]
    BY <1>0, <1>1, <1>2 DEF CTypeOK
  <1>8. NoRevival' /\ TokensGiven' /\ Names'
    BY DEF CInv, NoRevival, TokensGiven, Names, NamesMade, CleanupSession
  <1>9. Hands'
    <2> SUFFICES ASSUME NEW h \in Gateways, NEW v \in hand'[h] PROVE HandOK(v)'
      BY DEF Hands
    <2>1. CASE v = u BY <1>1, <1>2, <1>3, <1>7, <2>1 DEF HandOK, Owns, CleanupSession
    <2>2. CASE v # u
      <3>1. v \in hand[h] BY <1>0, <1>4, <2>2 DEF CTypeOK
      <3>2. HandOK(v) /\ v.s \in Sessions BY <1>0, <3>1, Fields DEF CInv, Hands
      <3> QED BY <1>7, <3>2 DEF HandOK, Owns, CleanupSession
    <2> QED BY <2>1, <2>2
  <1> QED BY <1>6, <1>8, <1>9 DEF CInv

\* The record of an answer ends or frees the task of its claim.
LEMMA FinishCleanupKeeps ==
  ASSUME CInv, NEW g \in Gateways, NEW t \in hand[g], FinishCleanup(g, t)
  PROVE  CInv'
  <1> DEFINE freed == [task[t.s] EXCEPT !.token = 0, !.leased = FALSE]
             new == IF t.got = "failed" THEN freed ELSE NoTask
             item == IF t.got = "failed" THEN "retrying" ELSE SettledAs(t)
  <1>0. CTypeOK BY DEF CInv
  <1>1. t \in Claims /\ t.s \in Sessions /\ HandOK(t) BY <1>0, Fields DEF CInv, Hands
  <1>2. hand' \in [Gateways -> SUBSET Claims] /\ \A h \in Gateways : hand'[h] \subseteq hand[h]
    BY <1>0 DEF CTypeOK, FinishCleanup
  <1>3. faults' \in 0..MaxFaults BY <1>0, FaultCounted DEF FinishCleanup, CTypeOK
  <1>4. CASE UNCHANGED <<task, worker, job>>
    <2>1. CTypeOK' BY <1>0, <1>2, <1>3, <1>4 DEF CTypeOK, FinishCleanup
    <2>2. NoRevival' /\ TokensGiven' /\ Names'
      BY <1>4 DEF CInv, NoRevival, TokensGiven, Names, NamesMade, FinishCleanup
    <2>3. Hands' BY <1>2, <1>4 DEF CInv, Hands, HandOK, Owns, FinishCleanup
    <2> QED BY <2>1, <2>2, <2>3 DEF CInv
  <1>5. CASE Owns(t) /\ RecordCleanup(t)
    <2>1. 0 \in Tokens /\ task[t.s] \in TaskType BY <1>0, <1>1, Fields, Numbers
    <2>2. /\ freed \in TaskType /\ freed.on = task[t.s].on /\ freed.life = task[t.s].life
          /\ freed.token = 0 /\ freed.wsid = task[t.s].wsid
      BY <2>1, LeasedTask, Zenon
    <2>3. NoTask \in TaskType /\ NoTask.on = FALSE /\ NoTask.token = 0
      BY Empty, Zenon DEF NoTask
    <2>4. /\ new \in TaskType /\ new.token = 0
          /\ new.on => task[t.s].on /\ new.life = task[t.s].life /\ new.wsid = task[t.s].wsid
      <3> HIDE DEF freed
      <3> QED BY <2>2, <2>3
    <2>5. task' = [task EXCEPT ![t.s] = new] BY <1>5, Zenon DEF RecordCleanup
    <2> HIDE DEF new
    <2>6. item \in ItemStates
      BY DEF SettledAs, ItemStates, Open, Settled
    <2>7. worker' = [worker EXCEPT ![t.s] = WorkerItem(t.s, item)]
      BY <1>5, Zenon DEF RecordCleanup
    <2>8. WorkerItem(t.s, item) \in ItemStates
      <3> HIDE DEF item
      <3> QED BY <1>0, <1>1, <2>6, WorkerItemType
    <2>9. job' \in [Sessions -> {"none", "in_progress", "blocked", "complete"}]
      <3>1. job' = Refreshed(t.s, talk[t.s].state, WorkerItem(t.s, item))
        BY <1>5, Zenon DEF RecordCleanup
      <3> HIDE DEF item
      <3> QED BY <1>0, <1>1, <3>1, RefreshedJob
    <2> HIDE DEF item
    <2>10. CTypeOK'
      BY <1>0, <1>2, <1>3, <2>4, <2>5, <2>7, <2>8, <2>9 DEF CTypeOK, FinishCleanup
    <2>11. task'[t.s] = new /\ \A r \in Sessions : r # t.s => task'[r] = task[r]
      BY <1>0, <1>1, <2>5 DEF CTypeOK
    <2>12. NoRevival' /\ Names'
      BY <2>4, <2>11 DEF CInv, NoRevival, Names, NamesMade, FinishCleanup
    <2>13. TokensGiven'
      BY <1>0, <2>4, <2>11, Numbers DEF CInv, TokensGiven, FinishCleanup, CTypeOK
    <2>14. Hands'
      <3> SUFFICES ASSUME NEW h \in Gateways, NEW v \in hand'[h] PROVE HandOK(v)'
        BY DEF Hands
      <3>1. HandOK(v) /\ v.s \in Sessions BY <1>0, <1>2, Fields DEF CInv, Hands
      <3> QED BY <2>4, <2>11, <3>1 DEF HandOK, Owns, FinishCleanup
    <2> QED BY <2>10, <2>12, <2>13, <2>14 DEF CInv
  <1> QED BY <1>4, <1>5 DEF FinishCleanup

\* The purge of conversations touches neither tasks nor claims of them.
LEMMA PurgeKeeps ==
  ASSUME CInv, NEW g \in Gateways,
         \/ \E s \in Sessions : ClaimPurgeItem(g, s)
         \/ \E t \in purging[g] : DeleteConversation(g, t) \/ FinishPurge(g, t)
  PROVE  CInv'
  <1>0. CTypeOK BY DEF CInv
  <1>1. ASSUME NEW s \in Sessions, ClaimPurgeItem(g, s) PROVE CInv'
    <2> DEFINE new == [state |-> "running", token |-> tokens + 1, leased |-> TRUE]
               c == [s |-> s, token |-> tokens + 1, got |-> "claimed"]
    <2>1. tokens + 1 \in Tokens /\ tokens' = tokens + 1 /\ tokens \in Nat
      BY <1>0, <1>1, CleanupAssumption DEF CTypeOK, ClaimPurgeItem, Tokens, CleanupAssumption
    <2>2. new \in ItemType BY <2>1, Zenon DEF ItemType, ItemStates, Open
    <2>3. c \in Purges BY <2>1, Zenon DEF Purges, Results
    <2>4. /\ talk' = [talk EXCEPT ![s] = new]
          /\ purging' = [purging EXCEPT ![g] = @ \cup {c}]
      BY <1>1, Zenon DEF ClaimPurgeItem
    <2> HIDE DEF new, c
    <2>5. job' \in [Sessions -> {"none", "in_progress", "blocked", "complete"}]
      BY <1>0, <1>1, RefreshedJob DEF ClaimPurgeItem
    <2>a. UNCHANGED <<row, content, starting, made, remote, task, worker, owed, hand, faults>>
      BY <1>1, Zenon DEF ClaimPurgeItem
    <2>6. CTypeOK' BY <1>0, <2>1, <2>2, <2>3, <2>4, <2>5, <2>a DEF CTypeOK
    <2>7. NoRevival' /\ Names' BY <1>1 DEF CInv, NoRevival, Names, NamesMade, ClaimPurgeItem
    <2>8. TokensGiven'
      <3> SUFFICES ASSUME NEW r \in Sessions PROVE task[r].token <= tokens + 1
        BY <1>1, <2>1 DEF TokensGiven, ClaimPurgeItem
      <3>1. task[r].token \in Nat /\ task[r].token <= tokens
        BY <1>0, Fields, Numbers DEF CInv, TokensGiven
      <3> QED BY <2>1, <3>1
    <2>9. Hands'
      <3> SUFFICES ASSUME NEW h \in Gateways, NEW t \in hand[h] PROVE HandOK(t)'
        BY <1>1 DEF Hands, ClaimPurgeItem
      <3>1. HandOK(t) BY DEF CInv, Hands
      <3> QED BY <1>1, <2>1, <3>1 DEF HandOK, Owns, ClaimPurgeItem
    <2> QED BY <2>6, <2>7, <2>8, <2>9 DEF CInv
  <1>2. ASSUME NEW t \in purging[g], DeleteConversation(g, t) PROVE CInv'
    <2>1. t \in Purges /\ t.s \in Sessions BY <1>0, Fields
    <2>2. PICK got \in {"ok", "failed"} :
            purging' = [purging EXCEPT ![g] = (@ \ {t}) \cup {[t EXCEPT !.got = got]}]
      BY <1>2, Zenon DEF DeleteConversation
    <2> DEFINE u == [t EXCEPT !.got = got]
    <2>3. u \in Purges
      <3>1. got \in Results BY DEF Results
      <3> QED BY <2>1, <3>1, AnsweredPurge, Zenon
    <2>4. purging' = [purging EXCEPT ![g] = (@ \ {t}) \cup {u}] BY <2>2
    <2> HIDE DEF u
    <2>5. content' = content \/ content' = [content EXCEPT ![t.s] = {}]
      BY <1>2, Zenon DEF DeleteConversation
    <2>6. faults' \in 0..MaxFaults
      <3>1. Fault \/ UNCHANGED faults BY <1>2, Zenon DEF DeleteConversation
      <3> QED BY <1>0, <3>1, FaultCounted DEF CTypeOK
    <2>7. UNCHANGED <<row, starting, made, remote, task, worker, talk, job, owed, hand, tokens>>
      BY <1>2, Zenon DEF DeleteConversation
    <2>8. CTypeOK' BY <1>0, <2>3, <2>4, <2>5, <2>6, <2>7 DEF CTypeOK
    <2> QED BY <2>7, <2>8, Untouched
  <1>3. ASSUME NEW t \in purging[g], FinishPurge(g, t) PROVE CInv'
    <2> DEFINE item == IF t.got = "ok" THEN "complete" ELSE "retrying"
               new == [NoItem EXCEPT !.state = item]
    <2>1. t \in Purges /\ t.s \in Sessions BY <1>0, Fields
    <2>2. new \in ItemType
      <3>1. item \in ItemStates BY DEF ItemStates, Open, Settled
      <3> HIDE DEF item
      <3> QED BY <3>1, Empty, StateItem, Zenon
    <2>3. talk' = talk \/ talk' = [talk EXCEPT ![t.s] = new]
      BY <1>3, Zenon DEF FinishPurge
    <2> HIDE DEF new
    <2>4. job' \in [Sessions -> {"none", "in_progress", "blocked", "complete"}]
      <3>1. job' = job \/ job' = Refreshed(t.s, item, worker[t.s])
        BY <1>3, Zenon DEF FinishPurge
      <3> QED BY <1>0, <2>1, <3>1, RefreshedJob DEF CTypeOK
    <2>5. faults' \in 0..MaxFaults
      BY <1>0, <1>3, FaultCounted DEF FinishPurge, CTypeOK
    <2>6. purging' = [purging EXCEPT ![g] = @ \ {t}]
          /\ UNCHANGED <<row, content, starting, made, remote, task, worker, owed, hand, tokens>>
      BY <1>3, Zenon DEF FinishPurge
    <2>7. CTypeOK' BY <1>0, <2>1, <2>2, <2>3, <2>4, <2>5, <2>6 DEF CTypeOK
    <2> QED BY <2>6, <2>7, Untouched
  <1> QED BY <1>1, <1>2, <1>3

LEMMA CrashKeeps ==
  ASSUME CInv, NEW g \in Gateways, Crash(g)
  PROVE  CInv'
  <1>0. CTypeOK BY DEF CInv
  <1>1. faults' \in 0..MaxFaults BY <1>0, FaultCounted DEF Crash
  <1>2. CTypeOK'
    <2>1. hand' \in [Gateways -> SUBSET Claims] /\ purging' \in [Gateways -> SUBSET Purges]
      BY <1>0 DEF CTypeOK, Crash
    <2>2. UNCHANGED <<row, content, starting, made, remote, task, worker, talk, job, owed, tokens>>
      BY DEF Crash
    <2> QED BY <1>0, <1>1, <2>1, <2>2 DEF CTypeOK
  <1>3. NoRevival' /\ TokensGiven' /\ Names'
    BY DEF CInv, NoRevival, TokensGiven, Names, NamesMade, Crash
  <1>4. \A h \in Gateways : hand'[h] \subseteq hand[h] BY <1>0 DEF CTypeOK, Crash
  <1>5. Hands' BY <1>4 DEF CInv, Hands, HandOK, Owns, Crash
  <1> QED BY <1>2, <1>3, <1>5 DEF CInv
-----------------------------------------------------------------------------
(* The theorems. *)

LEMMA CleanupInit == Init => CInv
  <1> SUFFICES ASSUME Init PROVE CInv OBVIOUS
  <1>1. tokens \in Tokens /\ faults \in 0..MaxFaults /\ 0 \in Tokens
    BY CleanupAssumption DEF Init, Tokens, CleanupAssumption
  <1>2. CTypeOK BY <1>1, Empty DEF Init, CTypeOK, ItemStates, Ids
  <1>3. \A s \in Sessions : /\ task[s].on = FALSE /\ task[s].token = 0
                            /\ row[s].wsid = None /\ starting[s] = {}
    BY Zenon DEF Init, NoTask, NoRow
  <1>4. NoRevival BY <1>3 DEF NoRevival
  <1>5. TokensGiven BY <1>3 DEF TokensGiven, Init
  <1>6. Hands BY DEF Hands, Init
  <1>7. Names BY <1>3 DEF Names, NamesMade
  <1> QED BY <1>2, <1>4, <1>5, <1>6, <1>7 DEF CInv

LEMMA CleanupStep == CInv /\ [Next]_vars => CInv'
  <1> SUFFICES ASSUME CInv, [Next]_vars PROVE CInv' OBVIOUS
  <1>1. CASE UNCHANGED vars
    <2>1. CTypeOK' BY <1>1 DEF CInv, CTypeOK, vars
    <2> QED BY <1>1, <2>1, Untouched DEF vars
  <1>2. ASSUME NEW s \in Sessions,
               \/ Create(s) \/ Append(s)
               \/ \E n \in Remotes : \/ StartWorker(s, n) \/ CreateRemote(s, n)
                                   \/ UpdateWorkerSessionID(s, n)
               \/ MarkDeletedWithCleanup(s) \/ DeletePhysicalWithCleanup(s) \/ DeleteTerminated(s)
               \/ LeaseLapses(s) \/ AbandonedLapses(s)
        PROVE  CInv'
    BY <1>2, CreateKeeps, RemoteKeeps, UpdateWorkerSessionIDKeeps, AppendKeeps, MarkDeletedKeeps,
       DeletePhysicalKeeps, LeaseLapsesKeeps DEF DeleteTerminated
  <1>3. ASSUME NEW g \in Gateways, RunnerStep(g) \/ Crash(g) PROVE CInv'
    BY <1>3, ClaimCleanupTaskKeeps, CleanupSessionKeeps, FinishCleanupKeeps, PurgeKeeps,
       CrashKeeps DEF RunnerStep
  <1> QED BY <1>1, <1>2, <1>3 DEF Next

\* Statuses are those that the tables admit, leases name tokens given out.
THEOREM CleanupTypeCorrect == Spec => []CTypeOK
  <1>1. CInv => CTypeOK BY DEF CInv
  <1> QED BY <1>1, CleanupInit, CleanupStep, PTL DEF Spec

\* A session id with a cleanup task is not used again before the task is done
\* (Upsert, insertCleanupTask), for any number of gateways, crashes and late answers.
THEOREM NoEarlyRevival == Spec => []NoRevival
  <1>1. CInv => NoRevival BY DEF CInv
  <1> QED BY <1>1, CleanupInit, CleanupStep, PTL DEF Spec

\* A task is only dropped by the runner whose claim has the task's token, and
\* then the remote session is deleted or cannot be.
LEMMA TaskDropped ==
  ASSUME CInv, Next, NEW s \in Sessions, task[s].on, ~task'[s].on
  PROVE  task[s].wsid \notin remote'[s] \/ ~task[s].able
  <1>0. CTypeOK BY DEF CInv
  <1>1. ASSUME NEW r \in Sessions, task' = EnqueueTask(r) PROVE FALSE
    BY <1>0, <1>1, EnqueuedTask
  <1>2. ASSUME NEW r \in Sessions, task' = [task EXCEPT ![r].leased = FALSE] PROVE FALSE
    <2> DEFINE new == [task[r] EXCEPT !.leased = FALSE]
    <2>1. task[r] \in TaskType BY <1>0, Fields
    <2>2. new.on = task[r].on BY <2>1, LapsedTask, Zenon
    <2>3. task' = [task EXCEPT ![r] = new] BY <1>2, Zenon
    <2> HIDE DEF new
    <2> QED BY <1>0, <2>2, <2>3 DEF CTypeOK
  <1>3. ASSUME NEW g \in Gateways, NEW r \in Sessions, ClaimCleanupTask(g, r) PROVE FALSE
    <2> DEFINE new == [task[r] EXCEPT !.token = tokens + 1, !.leased = TRUE]
    <2>1. task[r] \in TaskType BY <1>0, Fields
    <2>2. new.on = task[r].on
      <3>1. tokens + 1 \in Tokens
        BY <1>0, <1>3, CleanupAssumption DEF CTypeOK, ClaimCleanupTask, Tokens, CleanupAssumption
      <3> QED BY <2>1, <3>1, LeasedTask, Zenon
    <2>3. task' = [task EXCEPT ![r] = new] BY <1>3, Zenon DEF ClaimCleanupTask
    <2> HIDE DEF new
    <2> QED BY <1>0, <2>2, <2>3 DEF CTypeOK
  <1>4. ASSUME NEW g \in Gateways, NEW t \in hand[g], FinishCleanup(g, t)
        PROVE  task[s].wsid \notin remote'[s] \/ ~task[s].able
    <2>1. t \in Claims /\ t.s \in Sessions /\ HandOK(t) /\ t.got \in Results
      BY <1>0, Fields DEF CInv, Hands
    <2>2. Owns(t) /\ RecordCleanup(t) /\ UNCHANGED remote
      BY <1>4, Zenon DEF FinishCleanup
    <2> DEFINE freed == [task[t.s] EXCEPT !.token = 0, !.leased = FALSE]
    <2>3. task' = [task EXCEPT ![t.s] = IF t.got = "failed" THEN freed ELSE NoTask]
      BY <2>2, Zenon DEF RecordCleanup
    <2>4. freed.on = task[t.s].on
      <3>1. 0 \in Tokens /\ task[t.s] \in TaskType BY <1>0, <2>1, Fields, Numbers
      <3> QED BY <3>1, LeasedTask, Zenon
    <2> HIDE DEF freed
    <2>5. s = t.s /\ t.got # "failed" BY <1>0, <2>1, <2>2, <2>3, <2>4 DEF CTypeOK, Owns
    <2>6. t.got = "ok" \/ t.got = "unsupported"
      BY <1>4, <2>1, <2>5 DEF Results, FinishCleanup
    <2> QED BY <2>1, <2>2, <2>5, <2>6 DEF HandOK
  <1>5. ASSUME NEW g \in Gateways,
               \/ \E r \in Sessions : ClaimPurgeItem(g, r)
               \/ \E t \in purging[g] : DeleteConversation(g, t) \/ FinishPurge(g, t)
        PROVE  UNCHANGED task
    BY <1>5, Zenon DEF ClaimPurgeItem, DeleteConversation, FinishPurge
  <1>6. ASSUME NEW g \in Gateways, RunnerStep(g) \/ Crash(g)
        PROVE  task[s].wsid \notin remote'[s] \/ ~task[s].able
    BY <1>3, <1>4, <1>5, <1>6 DEF RunnerStep, Crash, CleanupSession
  <1>7. ASSUME NEW r \in Sessions,
               \/ Create(r) \/ Append(r)
               \/ \E n \in Remotes : \/ StartWorker(r, n) \/ CreateRemote(r, n)
                                   \/ UpdateWorkerSessionID(r, n)
               \/ MarkDeletedWithCleanup(r) \/ DeletePhysicalWithCleanup(r) \/ DeleteTerminated(r)
               \/ LeaseLapses(r) \/ AbandonedLapses(r)
        PROVE  FALSE
    <2>1. \/ UNCHANGED task \/ task' = EnqueueTask(r)
          \/ task' = [task EXCEPT ![r].leased = FALSE]
      BY <1>7, Zenon DEF Create, StartWorker, CreateRemote, UpdateWorkerSessionID, Append, MarkDeletedWithCleanup,
         DeletePhysicalWithCleanup, DeleteTerminated, LeaseLapses, AbandonedLapses
    <2> QED BY <1>1, <1>2, <2>1
  <1> QED BY <1>6, <1>7 DEF Next

\* No cleanup is lost: a task ends when the remote session it names is gone or
\* cannot be deleted (CompleteCleanupTask, FailUnsupportedCleanupTask under a lease token).
THEOREM CleanupNotLost == Spec => NoLostCleanup
  <1>1. CInv /\ [Next]_vars
        => [\A s \in Sessions :
              task[s].on /\ ~task'[s].on
              => task[s].wsid \notin remote'[s] \/ ~task[s].able]_vars
    BY TaskDropped
  <1> QED BY <1>1, CleanupInit, CleanupStep, PTL DEF Spec, NoLostCleanup
-----------------------------------------------------------------------------
(* The purge job.  While a session id is in its first life its items decide   *)
(* what is stored: with a job the row is not live, so nothing is appended;    *)
(* the conversation item is complete only after the conversation was deleted  *)
(* behind that barrier.  The worker item is open as long as the one task of   *)
(* the id, for the remote session the job owes, and complete when that is     *)
(* gone or the row named none.                                                *)

JobOK(s) ==
  /\ job[s] = "none" <=> talk[s].state = "none"
  /\ job[s] = "none" <=> worker[s] = "none"
  /\ job[s] = "complete" => talk[s].state = "complete" /\ worker[s] = "complete"
  /\ row[s].life = 0 => row[s].state = "none" /\ content[s] = {}
  /\ row[s].state = "deleted" => job[s] # "none"
  /\ job[s] # "none" => row[s].life # 0
  /\ owed[s] \in made[s] \cup {None}
  /\ row[s].life = 1 =>
       /\ job[s] # "none" => row[s].state # "live"
       /\ talk[s].state = "complete" => content[s] = {}
       /\ worker[s] = "complete" => owed[s] \notin remote[s]
       /\ worker[s] \in Open => task[s].on /\ task[s].wsid = owed[s]
       /\ worker[s] \in Settled => ~task[s].on

PurgeOK(t) ==
  job[t.s] # "none" /\ (t.got = "ok" /\ row[t.s].life = 1 => content[t.s] = {})

Jobs == \A s \in Sessions : JobOK(s)
Purgings == \A g \in Gateways : \A t \in purging[g] : PurgeOK(t)
JInv == CInv /\ Jobs /\ Purgings

\* What a job shows when both items exist.
LEMMA JobShows ==
  ASSUME CTypeOK, NEW s \in Sessions, NEW t \in ItemStates \ {"none"}, NEW w \in ItemStates \ {"none"}
  PROVE  /\ Refreshed(s, t, w)[s] # "none"
         /\ Refreshed(s, t, w)[s] = "complete" => t = "complete" /\ w = "complete"
  <1>1. JobStatus(t, w) # "none" BY Zenon DEF JobStatus
  <1>2. ASSUME JobStatus(t, w) = "complete" PROVE t = "complete" /\ w = "complete"
    <2>1. "unsupported" \notin {t, w} /\ {t, w} \cap Open = {} BY <1>2, Zenon DEF JobStatus
    <2> QED BY <2>1 DEF ItemStates, Settled, Open
  <1>3. Refreshed(s, t, w)[s] = JobStatus(t, w) BY RefreshedJob
  <1> QED BY <1>1, <1>2, <1>3

\* A step at one session: the others keep what they have, and so do the purge
\* runners, as long as nothing is stored behind a job.
LEMMA OneSession ==
  ASSUME JInv, CInv', NEW s \in Sessions, JobOK(s)',
         \A r \in Sessions : r # s =>
           /\ row'[r] = row[r] /\ content'[r] = content[r] /\ remote'[r] = remote[r]
           /\ worker'[r] = worker[r] /\ talk'[r] = talk[r] /\ job'[r] = job[r]
           /\ task'[r] = task[r] /\ made'[r] = made[r] /\ owed'[r] = owed[r],
         job[s] # "none" => job'[s] # "none",
         job[s] # "none" /\ row'[s].life = 1 => row[s].life = 1 /\ content'[s] \subseteq content[s],
         \A g \in Gateways : purging'[g] \subseteq purging[g]
  PROVE  JInv'
  <1>1. CTypeOK BY DEF JInv, CInv
  <1>2. Jobs' BY DEF JInv, Jobs, JobOK
  <1>3. Purgings'
    <2> SUFFICES ASSUME NEW g \in Gateways, NEW t \in purging'[g] PROVE PurgeOK(t)'
      BY DEF Purgings
    <2>1. PurgeOK(t) /\ t.s \in Sessions BY <1>1, Fields DEF JInv, Purgings
    <2>2. CASE t.s # s BY <2>1, <2>2 DEF PurgeOK
    <2>3. CASE t.s = s BY <2>1, <2>3 DEF PurgeOK
    <2> QED BY <2>2, <2>3
  <1> QED BY <1>2, <1>3 DEF JInv

\* A step that changes no session, nothing stored and no item.
LEMMA SameJobs ==
  ASSUME JInv, CInv', UNCHANGED <<row, content, made, remote, worker, job, owed>>,
         \A s \in Sessions : talk'[s].state = talk[s].state,
         \A s \in Sessions : task'[s].on = task[s].on /\ task'[s].wsid = task[s].wsid,
         \A g \in Gateways : purging'[g] \subseteq purging[g]
  PROVE  JInv'
  <1>1. Jobs' BY DEF JInv, Jobs, JobOK
  <1>2. Purgings' BY DEF JInv, Purgings, PurgeOK
  <1> QED BY <1>1, <1>2 DEF JInv

LEMMA CreateJobs ==
  ASSUME JInv, CInv', NEW s \in Sessions, Create(s)
  PROVE  JInv'
  <1>0. CTypeOK /\ JobOK(s) BY DEF JInv, CInv, Jobs
  <1>1. row[s].life \in Nat BY <1>0, Fields, Numbers
  <1>2. /\ \A r \in Sessions : r # s => row'[r] = row[r]
        /\ row'[s].life = row[s].life + 1 /\ row'[s].state = "live"
    BY <1>0 DEF Create, CTypeOK
  <1>3. UNCHANGED <<content, made, remote, task, worker, talk, job, owed, purging>> BY DEF Create
  <1>a. worker[s] \notin Open \cup Settled \/ row[s].life # 0
    BY <1>0 DEF JobOK, Open, Settled
  <1>4. JobOK(s)' BY <1>a, <1>0, <1>1, <1>2, <1>3 DEF JobOK
  <1> QED BY <1>0, <1>1, <1>2, <1>3, <1>4, OneSession DEF JobOK

\* A remote session is not owed before it is created.
LEMMA RemoteJobs ==
  ASSUME JInv, CInv', NEW s \in Sessions, NEW n \in Remotes, StartWorker(s, n) \/ CreateRemote(s, n)
  PROVE  JInv'
  <1>0. CTypeOK /\ JobOK(s) /\ NamesMade(s) BY DEF JInv, CInv, Jobs, Names
  <1>1. UNCHANGED <<row, content, task, worker, talk, job, owed, purging>>
    BY DEF StartWorker, CreateRemote
  <1>2. \A r \in Sessions : r # s => made'[r] = made[r] /\ remote'[r] = remote[r]
    BY <1>0 DEF CTypeOK, StartWorker, CreateRemote
  <1>3. /\ made[s] \subseteq made'[s]
        /\ \A m \in remote'[s] : m \in remote[s] \/ (m \notin made[s] /\ m # None)
    <2>1. n # None BY SMT DEF Remotes, None
    <2> QED BY <1>0, <2>1 DEF CTypeOK, NamesMade, StartWorker, CreateRemote
  <1>4. JobOK(s)' BY <1>0, <1>1, <1>3 DEF JobOK
  <1> QED BY <1>1, <1>2, <1>4, OneSession

LEMMA UpdateWorkerSessionIDJobs ==
  ASSUME JInv, CInv', NEW s \in Sessions, NEW n \in Remotes, UpdateWorkerSessionID(s, n)
  PROVE  JInv'
  <1>0. CTypeOK /\ JobOK(s) BY DEF JInv, CInv, Jobs
  <1> DEFINE new == [row[s] EXCEPT !.wsid = n]
  <1>1. row[s] \in RowType /\ n \in Ids BY <1>0, Fields DEF Ids
  <1>2. new.state = row[s].state /\ new.life = row[s].life BY <1>1, NamingRow, Zenon
  <1>3. row' = [row EXCEPT ![s] = new] BY Zenon DEF UpdateWorkerSessionID
  <1> HIDE DEF new
  <1>4. row'[s] = new /\ \A r \in Sessions : r # s => row'[r] = row[r]
    BY <1>0, <1>3 DEF CTypeOK
  <1>5. UNCHANGED <<content, made, remote, task, worker, talk, job, owed, purging>>
    BY DEF UpdateWorkerSessionID
  <1>6. JobOK(s)' BY <1>0, <1>2, <1>4, <1>5 DEF JobOK
  <1> QED BY <1>2, <1>4, <1>5, <1>6, OneSession

LEMMA AppendJobs ==
  ASSUME JInv, CInv', NEW s \in Sessions, Append(s)
  PROVE  JInv'
  <1>0. CTypeOK /\ JobOK(s) BY DEF JInv, CInv, Jobs
  <1>1. row[s].life # 0 /\ Writable(s) BY DEF Append
  <1>2. UNCHANGED <<row, made, remote, task, worker, talk, job, owed, purging>> BY DEF Append
  <1>3. \A r \in Sessions : r # s => content'[r] = content[r] BY <1>0 DEF Append, CTypeOK
  <1>4. row[s].life = 1 => job[s] = "none" BY <1>0, <1>1 DEF JobOK, Writable
  <1>5. JobOK(s)' BY <1>0, <1>1, <1>2, <1>4 DEF JobOK
  <1> QED BY <1>2, <1>3, <1>4, <1>5, OneSession

\* The row of a deleted session keeps its life.
LEMMA GoneFields ==
  ASSUME CTypeOK, NEW s \in Sessions, NEW st \in {"none", "deleted"},
         row' = [row EXCEPT ![s].state = st, ![s].wsid = None]
  PROVE  /\ \A r \in Sessions : r # s => row'[r] = row[r]
         /\ row'[s].state = st /\ row'[s].life = row[s].life
  <1> DEFINE new == [row[s] EXCEPT !.state = st, !.wsid = None]
  <1>1. row[s] \in RowType BY Fields
  <1>2. new.state = st /\ new.life = row[s].life BY <1>1, GoneRow, Zenon
  <1>3. row' = [row EXCEPT ![s] = new] BY Zenon DEF CTypeOK
  <1> HIDE DEF new
  <1> QED BY <1>2, <1>3 DEF CTypeOK

LEMMA MarkDeletedJobs ==
  ASSUME JInv, CInv', NEW s \in Sessions, MarkDeletedWithCleanup(s)
  PROVE  JInv'
  <1> DEFINE talking == IF talk[s].state = "none" THEN "pending" ELSE talk[s].state
             working == IF worker[s] # "none" THEN worker[s]
                        ELSE IF row[s].wsid # None THEN "pending" ELSE "complete"
             item == [talk[s] EXCEPT !.state = talking]
  <1>0. CTypeOK /\ JobOK(s) /\ NamesMade(s) /\ NoRevival BY DEF JInv, CInv, Jobs, Names
  <1>1. talk[s] \in ItemType /\ talk[s].state \in ItemStates /\ worker[s] \in ItemStates
    BY <1>0, Fields DEF CTypeOK
  <1>2. /\ talking \in ItemStates \ {"none"} /\ working \in ItemStates \ {"none"}
        /\ talking = "complete" => talk[s].state = "complete"
        /\ working = "complete" => worker[s] = "complete" \/ (worker[s] = "none" /\ row[s].wsid = None)
        /\ worker[s] = "none" => working = IF row[s].wsid # None THEN "pending" ELSE "complete"
        /\ worker[s] # "none" => working = worker[s]
    BY <1>1 DEF ItemStates, Open, Settled
  <1>3. item.state = talking BY <1>1, <1>2, StateItem, Zenon
  <1>4. /\ row[s].state # "none"
        /\ talk' = [talk EXCEPT ![s].state = talking]
        /\ worker' = [worker EXCEPT ![s] = working]
        /\ job' = Refreshed(s, talking, working)
        /\ row' = [row EXCEPT ![s].state = "deleted", ![s].wsid = None]
        /\ task' = EnqueueTask(s)
        /\ owed' = IF worker[s] = "none" THEN [owed EXCEPT ![s] = row[s].wsid] ELSE owed
        /\ UNCHANGED <<content, made, remote, purging>>
    BY Zenon DEF MarkDeletedWithCleanup
  <1> HIDE DEF talking, working
  <1>5. talk' = [talk EXCEPT ![s] = item] BY <1>4, Zenon
  <1> HIDE DEF item
  <1>6. /\ \A r \in Sessions : r # s => row'[r] = row[r]
        /\ row'[s].state = "deleted" /\ row'[s].life = row[s].life
    BY <1>0, <1>4, GoneFields
  <1>7. /\ \A r \in Sessions : r # s => talk'[r] = talk[r] /\ worker'[r] = worker[r]
        /\ talk'[s].state = talking /\ worker'[s] = working
    BY <1>0, <1>3, <1>4, <1>5 DEF CTypeOK
  <1>8. /\ job'[s] # "none"
        /\ job'[s] = "complete" => talking = "complete" /\ working = "complete"
    BY <1>0, <1>2, <1>4, JobShows
  <1>9. \A r \in Sessions : r # s => job'[r] = job[r] BY <1>0, <1>4, RefreshedJob
  <1>10. row[s].life # 0 /\ row[s].state \in {"live", "deleted"}
    BY <1>0, <1>4, Fields DEF JobOK
  <1>11. /\ owed'[s] = IF worker[s] = "none" THEN row[s].wsid ELSE owed[s]
         /\ \A r \in Sessions : r # s => owed'[r] = owed[r]
    BY <1>0, <1>4 DEF CTypeOK
  <1>12. owed'[s] \in made[s] \cup {None} BY <1>0, <1>11 DEF JobOK, NamesMade
  <1>13. None \notin remote[s]
    <2>1. remote[s] \subseteq Remotes BY <1>0 DEF CTypeOK
    <2>2. None \notin Remotes BY SMT DEF Remotes, None
    <2> QED BY <2>1, <2>2
  <1>14. working = "complete" /\ row[s].life = 1 => owed'[s] \notin remote[s]
    BY <1>0, <1>2, <1>11, <1>13 DEF JobOK
  <1>15. /\ \A r \in Sessions : r # s => task'[r] = task[r]
         /\ task'[s] = task[s] \/ (/\ ~task[s].on /\ task'[s].on /\ task'[s].wsid = row[s].wsid
                                   /\ row[s].wsid # None /\ worker[s] \notin Settled)
         /\ row[s].wsid # None /\ worker[s] \notin Settled => task'[s].on
    BY <1>0, <1>4, EnqueuedTask
  <1>16. ASSUME row[s].life = 1
         PROVE  /\ working \in Open => task'[s].on /\ task'[s].wsid = owed'[s]
                /\ working \in Settled => ~task'[s].on
    <2>1. CASE worker[s] = "none"
      <3>1. row[s].state = "live" /\ ~task[s].on
        BY <1>0, <1>10, <2>1 DEF JobOK, NoRevival
      <3>2. worker[s] \notin Settled BY <2>1 DEF Settled
      <3>3. CASE row[s].wsid # None
        BY <1>2, <1>11, <1>15, <2>1, <3>1, <3>2, <3>3 DEF Settled, Open
      <3>4. CASE row[s].wsid = None
        BY <1>2, <1>15, <2>1, <3>1, <3>4 DEF Settled, Open
      <3> QED BY <3>3, <3>4
    <2>2. CASE worker[s] # "none"
      BY <1>0, <1>2, <1>11, <1>15, <1>16, <2>2 DEF JobOK
    <2> QED BY <2>1, <2>2
  <1>17. JobOK(s)'
    BY <1>0, <1>2, <1>4, <1>6, <1>7, <1>8, <1>10, <1>12, <1>14, <1>16 DEF JobOK
  <1> QED BY <1>4, <1>6, <1>7, <1>8, <1>9, <1>11, <1>15, <1>17, OneSession

LEMMA DeletePhysicalJobs ==
  ASSUME JInv, CInv', NEW s \in Sessions, DeletePhysicalWithCleanup(s)
  PROVE  JInv'
  <1>0. CTypeOK /\ JobOK(s) BY DEF JInv, CInv, Jobs
  <1>1. /\ row' = [row EXCEPT ![s].state = "none", ![s].wsid = None]
        /\ task' = EnqueueTask(s)
        /\ UNCHANGED <<content, made, remote, worker, talk, job, owed, purging>>
    BY Zenon DEF DeletePhysicalWithCleanup
  <1>2. /\ \A r \in Sessions : r # s => row'[r] = row[r]
        /\ row'[s].state = "none" /\ row'[s].life = row[s].life
    BY <1>0, <1>1, GoneFields
  <1>3. /\ \A r \in Sessions : r # s => task'[r] = task[r]
        /\ task'[s] = task[s] \/ (~task[s].on /\ worker[s] \notin Settled)
    BY <1>0, <1>1, EnqueuedTask
  <1>4. JobOK(s)' BY <1>0, <1>1, <1>2, <1>3 DEF JobOK
  <1> QED BY <1>1, <1>2, <1>3, <1>4, OneSession

LEMMA LapseJobs ==
  ASSUME JInv, CInv', NEW s \in Sessions, LeaseLapses(s) \/ AbandonedLapses(s)
  PROVE  JInv'
  <1>0. CTypeOK BY DEF JInv, CInv
  <1>1. /\ UNCHANGED <<row, content, made, remote, worker, job, owed, purging>>
        /\ UNCHANGED talk \/ talk' = [talk EXCEPT ![s].leased = FALSE]
        /\ UNCHANGED task \/ task' = [task EXCEPT ![s].leased = FALSE]
    BY Zenon DEF LeaseLapses, AbandonedLapses
  <1>2. ASSUME talk' = [talk EXCEPT ![s].leased = FALSE]
        PROVE  \A r \in Sessions : talk'[r].state = talk[r].state
    <2> DEFINE new == [talk[s] EXCEPT !.leased = FALSE]
    <2>1. talk[s] \in ItemType BY <1>0, Fields
    <2>2. new.state = talk[s].state BY <2>1, LapsedItem, Zenon
    <2>3. talk' = [talk EXCEPT ![s] = new] BY <1>2, Zenon
    <2> HIDE DEF new
    <2> QED BY <1>0, <2>2, <2>3 DEF CTypeOK
  <1>3. ASSUME task' = [task EXCEPT ![s].leased = FALSE]
        PROVE  \A r \in Sessions : task'[r].on = task[r].on /\ task'[r].wsid = task[r].wsid
    <2> DEFINE new == [task[s] EXCEPT !.leased = FALSE]
    <2>1. task[s] \in TaskType BY <1>0, Fields
    <2>2. new.on = task[s].on /\ new.wsid = task[s].wsid BY <2>1, LapsedTask, Zenon
    <2>3. task' = [task EXCEPT ![s] = new] BY <1>3, Zenon
    <2> HIDE DEF new
    <2> QED BY <1>0, <2>2, <2>3 DEF CTypeOK
  <1> QED BY <1>1, <1>2, <1>3, SameJobs

\* The worker item moves while there is a task; it becomes complete with the
\* remote session of the task gone, and is settled when the task is.
LEMMA WorkerItemJobs ==
  ASSUME JInv, CInv', NEW s \in Sessions, NEW new \in ItemStates \ {"none"},
         task[s].on, new = "complete" => task[s].wsid \notin remote[s],
         new \in Open => task'[s].on /\ task'[s].wsid = task[s].wsid,
         new \in Settled => ~task'[s].on,
         \A r \in Sessions : r # s => task'[r] = task[r],
         worker' = [worker EXCEPT ![s] = WorkerItem(s, new)],
         job' = Refreshed(s, talk[s].state, WorkerItem(s, new)),
         UNCHANGED <<row, content, made, remote, talk, owed, purging>>
  PROVE  JInv'
  <1>0. CTypeOK /\ JobOK(s) BY DEF JInv, CInv, Jobs
  <1>1. talk[s].state \in ItemStates /\ worker[s] \in ItemStates
    BY <1>0, Fields DEF CTypeOK
  <1>2. /\ worker'[s] = WorkerItem(s, new)
        /\ \A r \in Sessions : r # s => worker'[r] = worker[r] /\ job'[r] = job[r]
    BY <1>0, RefreshedJob DEF CTypeOK
  <1>3. CASE job[s] = "none"
    <2>1. talk[s].state = "none" /\ WorkerItem(s, new) = worker[s]
      BY <1>0, <1>3 DEF JobOK, WorkerItem
    <2>2. job'[s] = job[s] BY <1>0, <2>1, RefreshedJob
    <2>a. worker[s] \notin Open \cup Settled BY <1>0, <1>3 DEF JobOK, Open, Settled
    <2>3. JobOK(s)' BY <1>0, <1>2, <2>1, <2>2, <2>a DEF JobOK
    <2> QED BY <1>2, <1>3, <2>2, <2>3, OneSession
  <1>4. CASE job[s] # "none"
    <2>1. /\ talk[s].state # "none" /\ WorkerItem(s, new) \in ItemStates \ {"none"}
          /\ row[s].life = 1 => WorkerItem(s, new) = new /\ worker[s] \in Open
      BY <1>0, <1>1, <1>4 DEF JobOK, WorkerItem, ItemStates, Settled
    <2>2. /\ job'[s] # "none"
          /\ job'[s] = "complete" => talk[s].state = "complete" /\ WorkerItem(s, new) = "complete"
      BY <1>0, <1>1, <2>1, JobShows
    <2>3. row[s].life = 1 => task[s].wsid = owed[s] BY <1>0, <2>1 DEF JobOK
    <2>4. JobOK(s)' BY <1>0, <1>2, <1>4, <2>1, <2>2, <2>3 DEF JobOK
    <2> QED BY <1>2, <2>2, <2>4, OneSession
  <1> QED BY <1>3, <1>4

LEMMA ClaimCleanupTaskJobs ==
  ASSUME JInv, CInv', NEW g \in Gateways, NEW s \in Sessions, ClaimCleanupTask(g, s)
  PROVE  JInv'
  <1>0. CTypeOK BY DEF JInv, CInv
  <1>1. /\ worker' = [worker EXCEPT ![s] = WorkerItem(s, "running")]
        /\ job' = Refreshed(s, talk[s].state, WorkerItem(s, "running"))
        /\ UNCHANGED <<row, content, made, remote, talk, owed, purging>>
        /\ task[s].on
    BY Zenon DEF ClaimCleanupTask
  <1>2. /\ "running" \in ItemStates \ {"none"} /\ "running" \in Open
        /\ "running" \notin Settled /\ "running" # "complete"
    BY DEF ItemStates, Open, Settled
  <1> DEFINE new == [task[s] EXCEPT !.token = tokens + 1, !.leased = TRUE]
  <1>3. new.on = task[s].on /\ new.wsid = task[s].wsid
    <2>1. tokens + 1 \in Tokens
      BY <1>0, CleanupAssumption DEF CTypeOK, ClaimCleanupTask, Tokens, CleanupAssumption
    <2>2. task[s] \in TaskType BY <1>0, Fields
    <2> QED BY <2>1, <2>2, LeasedTask, Zenon
  <1>4. task' = [task EXCEPT ![s] = new] BY Zenon DEF ClaimCleanupTask
  <1> HIDE DEF new
  <1>5. task'[s] = new /\ \A r \in Sessions : r # s => task'[r] = task[r]
    BY <1>0, <1>4 DEF CTypeOK
  <1> QED BY <1>1, <1>2, <1>3, <1>5, WorkerItemJobs

LEMMA CleanupSessionJobs ==
  ASSUME JInv, CInv', NEW g \in Gateways, NEW t \in hand[g], CleanupSession(g, t)
  PROVE  JInv'
  <1>0. CTypeOK BY DEF JInv, CInv
  <1>1. t.s \in Sessions /\ JobOK(t.s) BY <1>0, Fields DEF JInv, Jobs
  <1>2. /\ UNCHANGED <<row, content, made, task, worker, talk, job, owed, purging>>
        /\ remote' \in {remote, [remote EXCEPT ![t.s] = @ \ {t.wsid}]}
    BY DEF CleanupSession
  <1>3. /\ \A r \in Sessions : r # t.s => remote'[r] = remote[r]
        /\ remote'[t.s] \subseteq remote[t.s]
    BY <1>0, <1>1, <1>2 DEF CTypeOK
  <1>4. JobOK(t.s)' BY <1>1, <1>2, <1>3 DEF JobOK
  <1> QED BY <1>1, <1>2, <1>3, <1>4, OneSession

LEMMA FinishCleanupJobs ==
  ASSUME JInv, CInv', NEW g \in Gateways, NEW t \in hand[g], FinishCleanup(g, t)
  PROVE  JInv'
  <1>0. CTypeOK /\ CInv BY DEF JInv, CInv
  <1>1. t \in Claims /\ t.s \in Sessions /\ HandOK(t)
    BY <1>0, Fields DEF CInv, Hands
  <1>2. UNCHANGED <<row, content, made, remote, talk, owed, purging>> BY DEF FinishCleanup
  <1>3. CASE UNCHANGED <<task, worker, job>> BY <1>2, <1>3, SameJobs
  <1>4. CASE Owns(t) /\ RecordCleanup(t)
    <2> DEFINE item == IF t.got = "failed" THEN "retrying" ELSE SettledAs(t)
               freed == [task[t.s] EXCEPT !.token = 0, !.leased = FALSE]
               new == IF t.got = "failed" THEN freed ELSE NoTask
    <2>1. /\ item \in ItemStates \ {"none"} /\ (item = "complete" => t.got = "ok")
          /\ item \in Open => t.got = "failed"
          /\ item \in Settled => t.got # "failed"
      BY DEF SettledAs, ItemStates, Open, Settled
    <2>2. /\ worker' = [worker EXCEPT ![t.s] = WorkerItem(t.s, item)]
          /\ job' = Refreshed(t.s, talk[t.s].state, WorkerItem(t.s, item))
          /\ task' = [task EXCEPT ![t.s] = new]
      BY <1>4, Zenon DEF RecordCleanup
    <2>3. freed.on = task[t.s].on /\ freed.wsid = task[t.s].wsid
      <3>1. 0 \in Tokens /\ task[t.s] \in TaskType BY <1>0, <1>1, Fields, Numbers
      <3> QED BY <3>1, LeasedTask, Zenon
    <2>4. task[t.s].on /\ t.wsid = task[t.s].wsid BY <1>1, <1>4 DEF HandOK, Owns
    <2>5. /\ t.got = "failed" => new.on /\ new.wsid = task[t.s].wsid
          /\ t.got # "failed" => ~new.on
      <3> HIDE DEF freed
      <3>1. NoTask.on = FALSE BY Zenon DEF NoTask
      <3> QED BY <2>3, <2>4, <3>1
    <2> HIDE DEF item, new
    <2>6. task'[t.s] = new /\ \A r \in Sessions : r # t.s => task'[r] = task[r]
      BY <1>0, <1>1, <2>2 DEF CTypeOK
    <2>7. item = "complete" => task[t.s].wsid \notin remote[t.s]
      BY <1>1, <2>1, <2>4 DEF HandOK
    <2> QED BY <1>1, <1>2, <2>1, <2>2, <2>4, <2>5, <2>6, <2>7, WorkerItemJobs
  <1> QED BY <1>3, <1>4 DEF FinishCleanup

LEMMA ClaimPurgeItemJobs ==
  ASSUME JInv, CInv', NEW g \in Gateways, NEW s \in Sessions, ClaimPurgeItem(g, s)
  PROVE  JInv'
  <1> DEFINE new == [state |-> "running", token |-> tokens + 1, leased |-> TRUE]
             c == [s |-> s, token |-> tokens + 1, got |-> "claimed"]
  <1>0. CTypeOK /\ JobOK(s) BY DEF JInv, CInv, Jobs
  <1>1. new.state = "running" /\ c.s = s /\ c.got = "claimed" BY Zenon
  <1>2. /\ talk' = [talk EXCEPT ![s] = new]
        /\ job' = Refreshed(s, "running", worker[s])
        /\ purging' = [purging EXCEPT ![g] = @ \cup {c}]
        /\ UNCHANGED <<row, content, made, remote, task, worker, owed>>
        /\ talk[s].state \in Open
    BY Zenon DEF ClaimPurgeItem, PurgeDue
  <1> HIDE DEF new, c
  <1>3. /\ talk'[s].state = "running"
        /\ \A r \in Sessions : r # s => talk'[r] = talk[r] /\ job'[r] = job[r]
    BY <1>0, <1>1, <1>2, RefreshedJob DEF CTypeOK
  <1>4. job[s] # "none" /\ worker[s] # "none" /\ worker[s] \in ItemStates
    BY <1>0, <1>2 DEF JobOK, Open, CTypeOK
  <1>5. job'[s] # "none" /\ job'[s] # "complete"
    <2>1. "running" \in ItemStates \ {"none"} BY DEF ItemStates, Open
    <2> QED BY <1>0, <1>2, <1>4, <2>1, JobShows
  <1>6. JobOK(s)' BY <1>0, <1>2, <1>3, <1>4, <1>5 DEF JobOK
  <1>7. Jobs' BY <1>2, <1>3, <1>6 DEF JInv, Jobs, JobOK
  <1>8. Purgings'
    <2> SUFFICES ASSUME NEW h \in Gateways, NEW t \in purging'[h] PROVE PurgeOK(t)'
      BY DEF Purgings
    <2>1. CASE t = c BY <1>1, <1>5, <2>1 DEF PurgeOK
    <2>2. CASE t # c
      <3>1. t \in purging[h] BY <1>0, <1>2, <2>2 DEF CTypeOK
      <3>2. PurgeOK(t) /\ t.s \in Sessions BY <1>0, <3>1, Fields DEF JInv, Purgings
      <3> QED BY <1>2, <1>3, <1>5, <3>2 DEF PurgeOK
    <2> QED BY <2>1, <2>2
  <1> QED BY <1>7, <1>8 DEF JInv

LEMMA DeleteConversationJobs ==
  ASSUME JInv, CInv', NEW g \in Gateways, NEW t \in purging[g], DeleteConversation(g, t)
  PROVE  JInv'
  <1>0. CTypeOK BY DEF JInv, CInv
  <1>1. t \in Purges /\ t.s \in Sessions /\ PurgeOK(t) BY <1>0, Fields DEF JInv, Purgings
  <1>2. PICK got \in {"ok", "failed"} :
          /\ purging' = [purging EXCEPT ![g] = (@ \ {t}) \cup {[t EXCEPT !.got = got]}]
          /\ \/ got = "ok" /\ content' = [content EXCEPT ![t.s] = {}]
             \/ got = "failed" /\ UNCHANGED content
    BY Zenon DEF DeleteConversation
  <1> DEFINE u == [t EXCEPT !.got = got]
  <1>3. u.s = t.s /\ u.got = got
    <2>1. got \in Results BY DEF Results
    <2> QED BY <1>1, <2>1, AnsweredPurge, Zenon
  <1>4. purging' = [purging EXCEPT ![g] = (@ \ {t}) \cup {u}] BY <1>2
  <1> HIDE DEF u
  <1>5. UNCHANGED <<row, made, remote, task, worker, talk, job, owed>>
    BY Zenon DEF DeleteConversation
  <1>6. /\ \A r \in Sessions : content'[r] = content[r] \/ content'[r] = {}
        /\ got = "ok" => content'[t.s] = {}
    BY <1>0, <1>1, <1>2 DEF CTypeOK
  <1>7. Jobs' BY <1>5, <1>6 DEF JInv, Jobs, JobOK
  <1>8. Purgings'
    <2> SUFFICES ASSUME NEW h \in Gateways, NEW v \in purging'[h] PROVE PurgeOK(v)'
      BY DEF Purgings
    <2>1. CASE v = u BY <1>1, <1>3, <1>5, <1>6, <1>2, <2>1 DEF PurgeOK
    <2>2. CASE v # u
      <3>1. v \in purging[h] BY <1>0, <1>4, <2>2 DEF CTypeOK
      <3>2. PurgeOK(v) /\ v.s \in Sessions BY <1>0, <3>1, Fields DEF JInv, Purgings
      <3> QED BY <1>5, <1>6, <3>2 DEF PurgeOK
    <2> QED BY <2>1, <2>2
  <1> QED BY <1>7, <1>8 DEF JInv

LEMMA FinishPurgeJobs ==
  ASSUME JInv, CInv', NEW g \in Gateways, NEW t \in purging[g], FinishPurge(g, t)
  PROVE  JInv'
  <1> DEFINE item == IF t.got = "ok" THEN "complete" ELSE "retrying"
             new == [NoItem EXCEPT !.state = item]
  <1>0. CTypeOK BY DEF JInv, CInv
  <1>1. t \in Purges /\ t.s \in Sessions /\ PurgeOK(t) /\ JobOK(t.s)
    BY <1>0, Fields DEF JInv, Purgings, Jobs
  <1>2. item \in ItemStates \ {"none"} BY DEF ItemStates, Open, Settled
  <1>3. new.state = item
    <2> HIDE DEF item
    <2> QED BY <1>2, Empty, StateItem, Zenon
  <1>4. /\ UNCHANGED <<row, content, made, remote, task, worker, owed>>
        /\ purging' = [purging EXCEPT ![g] = @ \ {t}]
        /\ \/ /\ talk' = [talk EXCEPT ![t.s] = new]
              /\ job' = Refreshed(t.s, item, worker[t.s])
           \/ UNCHANGED <<talk, job>>
    BY Zenon DEF FinishPurge
  <1> HIDE DEF new
  <1>5. \A h \in Gateways : purging'[h] \subseteq purging[h] BY <1>0, <1>4 DEF CTypeOK
  <1>6. CASE UNCHANGED <<talk, job>> BY <1>4, <1>5, <1>6, SameJobs
  <1>7. CASE talk' = [talk EXCEPT ![t.s] = new] /\ job' = Refreshed(t.s, item, worker[t.s])
    <2>1. worker[t.s] \in ItemStates \ {"none"} BY <1>0, <1>1 DEF PurgeOK, JobOK, CTypeOK
    <2>2. /\ job'[t.s] # "none"
          /\ job'[t.s] = "complete" => item = "complete" /\ worker[t.s] = "complete"
      <3> HIDE DEF item
      <3> QED BY <1>0, <1>1, <1>2, <1>7, <2>1, JobShows
    <2>3. /\ talk'[t.s].state = item
          /\ \A r \in Sessions : r # t.s => talk'[r] = talk[r] /\ job'[r] = job[r]
      BY <1>0, <1>1, <1>3, <1>7, RefreshedJob DEF CTypeOK
    <2>4. item = "complete" => t.got = "ok" OBVIOUS
    <2> HIDE DEF item
    <2>5. JobOK(t.s)' BY <1>1, <1>2, <1>4, <2>1, <2>2, <2>3, <2>4 DEF JobOK, PurgeOK
    <2> QED BY <1>1, <1>4, <1>5, <2>2, <2>3, <2>5, OneSession
  <1> QED BY <1>4, <1>6, <1>7

LEMMA CrashJobs ==
  ASSUME JInv, CInv', NEW g \in Gateways, Crash(g)
  PROVE  JInv'
  <1>0. CTypeOK BY DEF JInv, CInv
  <1>1. \A h \in Gateways : purging'[h] \subseteq purging[h] BY <1>0 DEF CTypeOK, Crash
  <1> QED BY <1>1, SameJobs DEF Crash

LEMMA JobStep == JInv /\ [Next]_vars => JInv'
  <1> SUFFICES ASSUME JInv, [Next]_vars PROVE JInv' OBVIOUS
  <1>0. CInv' BY CleanupStep DEF JInv
  <1>1. CASE UNCHANGED vars BY <1>0, <1>1, SameJobs DEF vars
  <1>2. ASSUME NEW s \in Sessions,
               \/ Create(s) \/ Append(s)
               \/ \E n \in Remotes : \/ StartWorker(s, n) \/ CreateRemote(s, n)
                                   \/ UpdateWorkerSessionID(s, n)
               \/ MarkDeletedWithCleanup(s) \/ DeletePhysicalWithCleanup(s) \/ DeleteTerminated(s)
               \/ LeaseLapses(s) \/ AbandonedLapses(s)
        PROVE  JInv'
    BY <1>0, <1>2, CreateJobs, RemoteJobs, UpdateWorkerSessionIDJobs, AppendJobs, MarkDeletedJobs,
       DeletePhysicalJobs, LapseJobs DEF DeleteTerminated
  <1>3. ASSUME NEW g \in Gateways, RunnerStep(g) \/ Crash(g) PROVE JInv'
    BY <1>0, <1>3, ClaimCleanupTaskJobs, CleanupSessionJobs, FinishCleanupJobs,
       ClaimPurgeItemJobs, DeleteConversationJobs, FinishPurgeJobs, CrashJobs DEF RunnerStep
  <1> QED BY <1>1, <1>2, <1>3 DEF Next

LEMMA JobInit == Init => JInv
  <1> SUFFICES ASSUME Init PROVE JInv OBVIOUS
  <1>1. \A s \in Sessions : /\ row[s].life = 0 /\ row[s].state = "none"
                            /\ talk[s].state = "none" /\ owed[s] = None
    BY Zenon DEF Init, NoRow, NoItem
  <1>2. Jobs BY <1>1 DEF Init, Jobs, JobOK
  <1>3. Purgings BY DEF Init, Purgings
  <1> QED BY <1>2, <1>3, CleanupInit DEF JInv

\* A purge job that is shown as complete (refreshPurgeJobStatus) has erased the
\* conversation of a session id in its first life and the remote session its row
\* named at the deletion, whenever workers create sessions and write their ids.
THEOREM CompleteJobErased == Spec => []JobTruthful
  <1>1. JInv => JobTruthful BY DEF JInv, Jobs, JobOK, JobTruthful
  <1> QED BY <1>1, JobInit, JobStep, PTL DEF Spec
=============================================================================
