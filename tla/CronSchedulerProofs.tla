------------------------ MODULE CronSchedulerProofs ------------------------
(***************************************************************************)
(* What holds of the cron scheduler for every set of jobs, schedules and   *)
(* goroutines, every cap on concurrent runs, and any number of overlapping *)
(* timer callbacks, triggers, edits, reloads, foreign writes and crashes.  *)
(***************************************************************************)
EXTENDS CronScheduler, FiniteSetTheorems, TLAPS

-----------------------------------------------------------------------------
(* Jobs. *)

JobOrNone == Job \cup {NoJob}

LEMMA JobFields ==
    ASSUME NEW x \in JobOrNone
    PROVE  (x.on = TRUE /\ x \in Job) \/ (x.on = FALSE /\ x = NoJob)
<1>1. CASE x \in Job
    <2>1. x.on \in {TRUE}
        BY <1>1 DEF Job
    <2> QED BY <1>1, <2>1
<1>2. CASE x = NoJob
    BY <1>2 DEF NoJob
<1> QED BY <1>1, <1>2 DEF JobOrNone

\* A clone put onto a copy neither revives nor enables it.
LEMMA SavedJob ==
    ASSUME NEW x \in JobOrNone, NEW c \in Job, NEW disable \in BOOLEAN
    PROVE  /\ Saved(x, c, disable) \in JobOrNone
           /\ ~x.on => ~Saved(x, c, disable).on
           /\ x.on /\ ~x.enabled => ~Saved(x, c, disable).enabled
<1>1. CASE x.on = FALSE /\ x = NoJob
    BY <1>1 DEF Saved, NoJob, JobOrNone
<1>2. CASE x.on = TRUE /\ x \in Job
    <2>1. WithState(x, c) \in Job /\ WithState(x, c).enabled = x.enabled
        BY <1>2 DEF WithState, Job, Instants
    <2>2. Saved(x, c, disable) =
            [WithState(x, c) EXCEPT !.enabled = IF disable THEN FALSE ELSE x.enabled]
        BY <1>2, <2>1 DEF Saved
    <2> DEFINE y == WithState(x, c)
               e == IF disable THEN FALSE ELSE x.enabled
    <2>3. x.enabled \in BOOLEAN
        BY <1>2 DEF Job
    <2>4. e \in BOOLEAN
        BY <2>3
    <2>5. y \in Job /\ Saved(x, c, disable) = [y EXCEPT !.enabled = e]
        BY <2>1, <2>2
    <2> HIDE DEF y, e
    <2>6. Saved(x, c, disable) \in Job /\ Saved(x, c, disable).enabled = e
        BY <2>4, <2>5 DEF Job
    <2>7. ~x.enabled => ~e
        BY DEF e
    <2> QED BY <1>2, <2>6, <2>7 DEF JobOrNone
<1> QED BY <1>1, <1>2, JobFields

\* The index or the table after a save.
LEMMA SavedIn ==
    ASSUME NEW f \in [Jobs -> JobOrNone], NEW g, NEW id \in Jobs, NEW c \in Job,
           NEW disable \in BOOLEAN,
           g = [f EXCEPT ![id] = Saved(f[id], c, disable)]
    PROVE  /\ g \in [Jobs -> JobOrNone]
           /\ \A j \in Jobs : /\ ~f[j].on => ~g[j].on
                              /\ f[j].on /\ ~f[j].enabled => ~g[j].enabled
<1>1. Saved(f[id], c, disable) \in JobOrNone
    BY SavedJob
<1>2. ASSUME NEW j \in Jobs
      PROVE  /\ ~f[j].on => ~g[j].on
             /\ f[j].on /\ ~f[j].enabled => ~g[j].enabled
    <2>1. CASE j = id
        BY <2>1, SavedJob
    <2>2. CASE j # id
        BY <2>2
    <2> QED BY <2>1, <2>2
<1> QED BY <1>1, <1>2

LEMMA MergeFacts ==
    ASSUME jobs \in [Jobs -> JobOrNone], NEW id \in Jobs, NEW c \in Job,
           NEW disable \in BOOLEAN
    PROVE  /\ Merge(id, c, disable) \in [Jobs -> JobOrNone]
           /\ \A j \in Jobs : /\ ~jobs[j].on => ~Merge(id, c, disable)[j].on
                              /\ jobs[j].on /\ ~jobs[j].enabled
                                   => ~Merge(id, c, disable)[j].enabled
<1>1. Merge(id, c, disable) = [jobs EXCEPT ![id] = Saved(jobs[id], c, disable)]
    BY DEF Merge
<1> QED BY <1>1, SavedIn

LEMMA PersistFacts ==
    ASSUME rows \in [Jobs -> JobOrNone], NEW id \in Jobs, NEW c \in Job,
           NEW disable \in BOOLEAN
    PROVE  /\ Persist(id, c, disable) \in [Jobs -> JobOrNone]
           /\ \A j \in Jobs : /\ ~rows[j].on => ~Persist(id, c, disable)[j].on
                              /\ rows[j].on /\ ~rows[j].enabled
                                   => ~Persist(id, c, disable)[j].enabled
<1>1. Persist(id, c, disable) = [rows EXCEPT ![id] = Saved(rows[id], c, disable)]
    BY DEF Persist
<1> QED BY <1>1, SavedIn

LEMMA NextRunType ==
    ASSUME NEW s \in Schedules, NEW t \in Nat
    PROVE  NextRun(s, t) \in Nat
BY CronAssumption DEF NextRun

\* A job keeps its type when its instant or its mark of running changes.
LEMMA JobWith ==
    ASSUME NEW x \in Job, NEW n \in Nat, NEW b \in BOOLEAN
    PROVE  /\ [x EXCEPT !.next = n] \in Job
           /\ [x EXCEPT !.running = b] \in Job
BY DEF Job, Instants

LEMMA AdvancedType ==
    ASSUME NEW x \in Job, NEW t \in Nat
    PROVE  Advanced(x, t) \in Job
<1>1. NextRun(x.sched, t) \in Nat
    BY NextRunType DEF Job
<1> QED BY <1>1, JobWith DEF Advanced

LEMMA LoadedType ==
    ASSUME NEW x \in JobOrNone, now \in Nat
    PROVE  LoadedRow(x) \in JobOrNone
<1>1. CASE x.on = FALSE /\ x = NoJob
    BY <1>1 DEF LoadedRow, PastDue, NoJob, JobOrNone
<1>2. CASE x.on = TRUE /\ x \in Job
    <2> DEFINE c == [x EXCEPT !.running = FALSE]
    <2>1. c \in Job
        BY <1>2, JobWith
    <2>2. LoadedRow(x) \in {c, [c EXCEPT !.enabled = FALSE],
                            [c EXCEPT !.next = NextRun(c.sched, now)]}
        BY <1>2 DEF LoadedRow
    <2> HIDE DEF c
    <2>3. NextRun(c.sched, now) \in Nat
        BY <2>1, NextRunType DEF Job
    <2>4. [c EXCEPT !.next = NextRun(c.sched, now)] \in Job
        BY <2>1, <2>3, JobWith
    <2>5. [c EXCEPT !.enabled = FALSE] \in Job
        BY <2>1 DEF Job
    <2> QED BY <2>1, <2>2, <2>4, <2>5 DEF JobOrNone
<1> QED BY <1>1, <1>2, JobFields

-----------------------------------------------------------------------------
(* Goroutines. *)

Positions == {"begin", "claim", "run", "post", "wrap"}
Results == {"none", "completed", "timeout", "rejected", "panic", "duplicate", "refused"}

LEMMA BusyThread ==
    ASSUME KTypeOK, NEW r \in Threads, thread[r].pc # "idle"
    PROVE  /\ thread[r] \in Busy /\ thread[r] # Free
           /\ thread[r].id \in Jobs /\ thread[r].job \in Job /\ thread[r].key \in Key
<1>1. thread[r] \in Busy \cup {Free}
    BY DEF KTypeOK
<1>2. thread[r] # Free
    BY DEF Free
<1> QED BY <1>1, <1>2 DEF Busy

LEMMA BusyIsNotFree ==
    ASSUME NEW s \in Busy
    PROVE  s # Free /\ s.pc \in Positions
<1>1. s.pc \in Positions
    BY DEF Busy, Positions
<1> QED BY <1>1 DEF Free, Positions

LEMMA BusyWith ==
    ASSUME NEW s \in Busy, NEW pc \in Positions, NEW c \in Job, NEW result \in Results
    PROVE  /\ [s EXCEPT !.pc = pc] \in Busy
           /\ [s EXCEPT !.job = c, !.pc = pc] \in Busy
           /\ [s EXCEPT !.pc = pc, !.result = result] \in Busy
BY DEF Busy, Positions, Results

LEMMA SpawnedType ==
    ASSUME NEW id \in Jobs, NEW c \in Job, NEW key \in Key,
           NEW by \in {"timer", "catchup", "trigger"}
    PROVE  Spawned(id, c, key, by) \in Busy
BY DEF Spawned, Busy

LEMMA ScheduledKeyType ==
    ASSUME NEW id \in Jobs, NEW c \in Job
    PROVE  ScheduledKey(id, c) \in Key
BY DEF ScheduledKey, Key, Job

\* One goroutine changed.
LEMMA ThreadWith ==
    ASSUME KTypeOK, NEW r \in Threads, NEW s \in Busy \cup {Free},
           thread' = [thread EXCEPT ![r] = s]
    PROVE  thread' \in [Threads -> Busy \cup {Free}]
BY DEF KTypeOK

-----------------------------------------------------------------------------
(* Types. *)

LEMMA KTypeInit == Init => KTypeOK
<1> SUFFICES ASSUME Init PROVE KTypeOK
    OBVIOUS
<1>1. rows \in [Jobs -> JobOrNone]
    <2>1. PICK s \in [Jobs -> FirstSchedules] : rows = [j \in Jobs |-> Fresh(s[j], s[j].n)]
        BY DEF Init
    <2>2. ASSUME NEW j \in Jobs PROVE Fresh(s[j], s[j].n) \in Job
        <3>1. s[j] \in Schedules /\ s[j].n \in Nat
            BY <2>1, CronAssumption
        <3> QED BY <3>1 DEF Fresh, Job, Instants
    <2> QED BY <2>1, <2>2 DEF JobOrNone
<1>2. now \in Nat /\ up \in BOOLEAN /\ armed \in BOOLEAN /\ cap \in Caps /\ slots \in Nat
      /\ events \in Nat
    BY DEF Init
<1>3. jobs \in [Jobs -> JobOrNone]
    BY DEF Init, JobOrNone
<1>4. tick \in [Ticks -> SUBSET Clone] /\ thread \in [Threads -> Busy \cup {Free}]
    BY DEF Init
<1>5. occurred = {} /\ ran = {} /\ again = {} /\ delivered = {} /\ edit = NoEdit /\ reload = NoReload
    BY DEF Init
<1> QED BY <1>1, <1>2, <1>3, <1>4, <1>5 DEF KTypeOK, JobOrNone

\* The parts of the type invariant that the timer and the runs change.
LEMMA KTypeWork ==
    ASSUME KTypeOK, UNCHANGED <<now, up, cap, edit, reload, events>>,
           slots' \in Nat, armed' \in BOOLEAN,
           jobs' \in [Jobs -> JobOrNone], rows' \in [Jobs -> JobOrNone],
           tick' \in [Ticks -> SUBSET Clone], thread' \in [Threads -> Busy \cup {Free}],
           occurred' \subseteq Key, ran' \subseteq Key, again' \subseteq Key,
           delivered' \subseteq Key
    PROVE  KTypeOK'
BY DEF KTypeOK, JobOrNone

\* A step that stores a clone, whether the write reaches the table or not.
LEMMA KTypeStore ==
    ASSUME KTypeOK, UNCHANGED <<now, up, cap, edit, reload>>, NEW table, Store(table),
           slots' \in Nat, armed' \in BOOLEAN,
           jobs' \in [Jobs -> JobOrNone], table \in [Jobs -> JobOrNone],
           tick' \in [Ticks -> SUBSET Clone], thread' \in [Threads -> Busy \cup {Free}],
           occurred' \subseteq Key, ran' \subseteq Key, again' \subseteq Key,
           delivered' \subseteq Key
    PROVE  KTypeOK'
<1>1. rows' \in [Jobs -> JobOrNone] /\ events' \in Nat
    BY DEF Store, Event, KTypeOK, JobOrNone
<1> QED BY <1>1 DEF KTypeOK, JobOrNone

LEMMA KTypeTick ==
    ASSUME KTypeOK, slots' \in Nat, NEW t \in Ticks, TickStep(t)
    PROVE  KTypeOK'
<1>0. /\ jobs \in [Jobs -> JobOrNone] /\ rows \in [Jobs -> JobOrNone]
      /\ tick \in [Ticks -> SUBSET Clone] /\ thread \in [Threads -> Busy \cup {Free}]
      /\ occurred \subseteq Key /\ ran \subseteq Key /\ again \subseteq Key
      /\ delivered \subseteq Key /\ now \in Nat /\ armed \in BOOLEAN
    BY DEF KTypeOK, JobOrNone
<1>1. CASE TickCollect(t)
    <2>1. /\ UNCHANGED <<now, up, cap, edit, reload, events>> /\ armed' \in BOOLEAN
          /\ UNCHANGED <<jobs, rows, thread, occurred, ran, again, delivered>>
        BY <1>1 DEF TickCollect, ledger
    <2> DEFINE new == {[id |-> j, job |-> jobs[j], at |-> now, pc |-> "advance"] : j \in Due}
    <2>2. tick' = [tick EXCEPT ![t] = new]
        BY <1>1 DEF TickCollect
    <2>3. new \subseteq Clone
        <3> SUFFICES ASSUME NEW j \in Due
                     PROVE  [id |-> j, job |-> jobs[j], at |-> now, pc |-> "advance"] \in Clone
            OBVIOUS
        <3>1. j \in Jobs /\ jobs[j].on
            BY DEF Due, PastDue
        <3>2. jobs[j] \in Job
            BY <1>0, <3>1, JobFields
        <3> QED BY <1>0, <3>1, <3>2 DEF Clone
    <2> HIDE DEF new
    <2>4. tick' \in [Ticks -> SUBSET Clone]
        BY <1>0, <2>2, <2>3
    <2> QED BY <1>0, <2>1, <2>4, KTypeWork
<1>2. ASSUME NEW d \in tick[t], NEW tooMany \in BOOLEAN, TickAdvance(t, d, tooMany)
      PROVE  KTypeOK'
    <2> DEFINE c == Advanced(d.job, d.at)
               new == IF tooMany THEN {} ELSE {[d EXCEPT !.job = c, !.pc = "spawn"]}
    <2>1. d \in Clone /\ d.id \in Jobs /\ d.job \in Job /\ d.at \in Nat
        BY <1>0 DEF Clone
    <2>2. c \in Job
        BY <2>1, AdvancedType
    <2>3. /\ jobs' = Merge(d.id, c, tooMany) /\ Store(Persist(d.id, c, tooMany))
          /\ tick' = [tick EXCEPT ![t] = Rest(t, d) \cup new]
          /\ UNCHANGED <<now, up, cap, thread, edit, reload, occurred, ran, again, delivered>>
        BY <1>2 DEF TickAdvance, SaveBoth, ledger
    <2>4. armed' \in BOOLEAN
        BY <1>2 DEF TickAdvance
    <2> HIDE DEF c
    <2>5. [d EXCEPT !.job = c, !.pc = "spawn"] \in Clone
        BY <2>1, <2>2 DEF Clone
    <2>6. Rest(t, d) \cup new \subseteq Clone
        BY <1>0, <2>5 DEF Rest
    <2> HIDE DEF new
    <2>7. tick' \in [Ticks -> SUBSET Clone]
        BY <1>0, <2>3, <2>6
    <2>8. jobs' \in [Jobs -> JobOrNone] /\ Persist(d.id, c, tooMany) \in [Jobs -> JobOrNone]
        BY <1>0, <2>1, <2>2, <2>3, MergeFacts, PersistFacts
    <2> QED BY <1>0, <2>3, <2>4, <2>7, <2>8, KTypeStore
<1>3. ASSUME NEW d \in tick[t], TickSpawn(t, d)
      PROVE  KTypeOK'
    <2>1. d \in Clone /\ d.id \in Jobs /\ d.job \in Job
        BY <1>0 DEF Clone
    <2>2. /\ tick' = [tick EXCEPT ![t] = Rest(t, d)]
          /\ UNCHANGED <<now, up, cap, jobs, rows, edit, reload, events,
                         occurred, ran, again, delivered>>
        BY <1>3 DEF TickSpawn, ledger
    <2>3. armed' \in BOOLEAN
        BY <1>3 DEF TickSpawn
    <2>4. tick' \in [Ticks -> SUBSET Clone]
        BY <1>0, <2>2 DEF Rest
    <2> DEFINE s == Spawned(d.id, d.job, ScheduledKey(d.id, d.job), "timer")
    <2>5. UNCHANGED thread \/ \E r \in Threads : thread' = [thread EXCEPT ![r] = s]
        BY <1>3 DEF TickSpawn
    <2>6. s \in Busy
        BY <2>1, SpawnedType, ScheduledKeyType
    <2> HIDE DEF s
    <2>7. thread' \in [Threads -> Busy \cup {Free}]
        BY <1>0, <2>5, <2>6
    <2> QED BY <1>0, <2>2, <2>3, <2>4, <2>7, KTypeWork
<1> QED BY <1>1, <1>2, <1>3 DEF TickStep

LEMMA KTypeRun ==
    ASSUME KTypeOK, slots' \in Nat, NEW r \in Threads, RunStep(r)
    PROVE  KTypeOK'
<1>0. /\ jobs \in [Jobs -> JobOrNone] /\ rows \in [Jobs -> JobOrNone]
      /\ tick \in [Ticks -> SUBSET Clone] /\ thread \in [Threads -> Busy \cup {Free}]
      /\ occurred \subseteq Key /\ ran \subseteq Key /\ again \subseteq Key
      /\ delivered \subseteq Key /\ now \in Nat /\ armed \in BOOLEAN
    BY DEF KTypeOK, JobOrNone
<1> DEFINE s == thread[r]
<1>1. s.pc # "idle"
    BY DEF RunStep, Begin, Claim, Execute, Post, Wrap
<1>2. s \in Busy /\ s.id \in Jobs /\ s.job \in Job /\ s.key \in Key
    BY <1>1, BusyThread
<1>3. CASE Begin(r)
    <2> DEFINE c == [s.job EXCEPT !.running = TRUE]
               at == IF s.id \in Attached THEN "run" ELSE "claim"
    <2>1. c \in Job
        BY <1>2, JobWith
    <2>2. /\ jobs' = Merge(s.id, c, FALSE) /\ Store(Persist(s.id, c, FALSE))
          /\ thread' = [thread EXCEPT ![r] = [s EXCEPT !.job = c, !.pc = at]]
          /\ UNCHANGED <<now, up, cap, armed, tick, edit, reload, occurred, ran, again, delivered>>
        BY <1>0, <1>3 DEF Begin, SaveBoth, ledger
    <2>3. at \in Positions
        BY DEF Positions
    <2> HIDE DEF c, at
    <2>4. [s EXCEPT !.job = c, !.pc = at] \in Busy
        BY <1>2, <2>1, <2>3, BusyWith DEF Results
    <2>5. thread' \in [Threads -> Busy \cup {Free}]
        BY <2>2, <2>4, ThreadWith
    <2>6. jobs' \in [Jobs -> JobOrNone] /\ Persist(s.id, c, FALSE) \in [Jobs -> JobOrNone]
        BY <1>0, <1>2, <2>1, <2>2, MergeFacts, PersistFacts
    <2> QED BY <1>0, <2>2, <2>5, <2>6, KTypeStore
<1>4. CASE Claim(r)
    <2> DEFINE res == IF ValidKey(s.key) THEN "duplicate" ELSE "refused"
    <2>1. /\ \/ thread' = [thread EXCEPT ![r] = [s EXCEPT !.pc = "run"]]
             \/ thread' = [thread EXCEPT ![r] = [s EXCEPT !.pc = "post", !.result = res]]
          /\ occurred' \subseteq occurred \cup {s.key}
          /\ UNCHANGED <<now, up, cap, jobs, rows, armed, tick, edit, reload, events, ran, again, delivered>>
        BY <1>0, <1>4 DEF Claim, Goes
    <2>2. res \in Results /\ "run" \in Positions /\ "post" \in Positions
        BY DEF Positions, Results
    <2> HIDE DEF res
    <2>3. [s EXCEPT !.pc = "run"] \in Busy /\ [s EXCEPT !.pc = "post", !.result = res] \in Busy
        BY <1>2, <2>2, BusyWith
    <2>4. thread' \in [Threads -> Busy \cup {Free}]
        BY <2>1, <2>3, ThreadWith
    <2> QED BY <1>0, <1>2, <2>1, <2>4, KTypeWork
<1>5. ASSUME NEW result \in {"completed", "timeout", "rejected", "panic"}, Execute(r, result)
      PROVE  KTypeOK'
    <2>1. /\ thread' = [thread EXCEPT ![r] = [s EXCEPT !.pc = "post", !.result = result]]
          /\ ran' \subseteq ran \cup {s.key} /\ again' \subseteq again \cup {s.key}
          /\ UNCHANGED <<now, up, cap, jobs, rows, armed, tick, edit, reload, events, occurred, delivered>>
        BY <1>0, <1>5 DEF Execute
    <2>2. [s EXCEPT !.pc = "post", !.result = result] \in Busy
        BY <1>2, BusyWith DEF Positions, Results
    <2>3. thread' \in [Threads -> Busy \cup {Free}]
        BY <2>1, <2>2, ThreadWith
    <2> QED BY <1>0, <1>2, <2>1, <2>3, KTypeWork
<1>6. ASSUME NEW disable \in BOOLEAN, NEW retry \in BOOLEAN, Post(r, disable, retry)
      PROVE  KTypeOK'
    <2> DEFINE c == IF retry THEN [Finished(s) EXCEPT !.next = now + 1] ELSE Finished(s)
    <2>1. Finished(s) \in Job
        BY <1>2, JobWith DEF Finished
    <2>2. c \in Job
        <3>1. now + 1 \in Nat
            BY <1>0
        <3>2. [Finished(s) EXCEPT !.next = now + 1] \in Job
            BY <2>1, <3>1, JobWith
        <3> QED BY <2>1, <3>2
    <2>3. /\ jobs' = Merge(s.id, c, disable)
          /\ Store(Persist(s.id, c, disable)) \/ UNCHANGED <<rows, events>>
          /\ \/ thread' = [thread EXCEPT ![r] = Free]
             \/ thread' = [thread EXCEPT ![r] = [s EXCEPT !.job = c, !.pc = "wrap"]]
          /\ UNCHANGED <<now, up, cap, armed, tick, edit, reload, occurred, ran, again, delivered>>
        BY <1>0, <1>6 DEF Post, End, ledger
    <2> HIDE DEF c
    <2>4. [s EXCEPT !.job = c, !.pc = "wrap"] \in Busy
        BY <1>2, <2>2, BusyWith DEF Positions, Results
    <2>5. thread' \in [Threads -> Busy \cup {Free}]
        BY <2>3, <2>4, ThreadWith
    <2>6. jobs' \in [Jobs -> JobOrNone] /\ Persist(s.id, c, disable) \in [Jobs -> JobOrNone]
        BY <1>0, <1>2, <2>2, <2>3, MergeFacts, PersistFacts
    <2>7. CASE Store(Persist(s.id, c, disable))
        BY <1>0, <2>3, <2>5, <2>6, <2>7, KTypeStore
    <2>8. CASE UNCHANGED <<rows, events>>
        BY <1>0, <2>3, <2>5, <2>6, <2>8, KTypeWork
    <2> QED BY <2>3, <2>7, <2>8
<1>7. ASSUME NEW spent \in BOOLEAN, Wrap(r, spent)
      PROVE  KTypeOK'
    <2> DEFINE disable == s.job.sched.kind = "at" \/ spent
    <2>1. /\ \/ jobs' = [jobs EXCEPT ![s.id] = NoJob] /\ Store([rows EXCEPT ![s.id] = NoJob])
             \/ jobs' = Merge(s.id, s.job, disable) /\ Store(Persist(s.id, s.job, disable))
          /\ thread' = [thread EXCEPT ![r] = Free]
          /\ delivered' \subseteq delivered \cup {s.key} /\ again' \subseteq again \cup {s.key}
          /\ UNCHANGED <<now, up, cap, armed, tick, edit, reload, occurred, ran>>
        BY <1>0, <1>7 DEF Wrap, End, SaveBoth
    <2>2. disable \in BOOLEAN
        OBVIOUS
    <2> HIDE DEF disable
    <2>3. /\ Merge(s.id, s.job, disable) \in [Jobs -> JobOrNone]
          /\ Persist(s.id, s.job, disable) \in [Jobs -> JobOrNone]
          /\ [jobs EXCEPT ![s.id] = NoJob] \in [Jobs -> JobOrNone]
          /\ [rows EXCEPT ![s.id] = NoJob] \in [Jobs -> JobOrNone]
        <3>1. /\ [jobs EXCEPT ![s.id] = NoJob] \in [Jobs -> JobOrNone]
              /\ [rows EXCEPT ![s.id] = NoJob] \in [Jobs -> JobOrNone]
            BY <1>0, <1>2 DEF JobOrNone
        <3> QED BY <1>0, <1>2, <2>2, <3>1, MergeFacts, PersistFacts
    <2>4. thread' \in [Threads -> Busy \cup {Free}]
        BY <2>1, ThreadWith
    <2>5. CASE jobs' = [jobs EXCEPT ![s.id] = NoJob] /\ Store([rows EXCEPT ![s.id] = NoJob])
        BY <1>0, <1>2, <2>1, <2>3, <2>4, <2>5, KTypeStore
    <2>6. CASE jobs' = Merge(s.id, s.job, disable) /\ Store(Persist(s.id, s.job, disable))
        BY <1>0, <1>2, <2>1, <2>3, <2>4, <2>6, KTypeStore
    <2> QED BY <2>1, <2>5, <2>6
<1> QED BY <1>3, <1>4, <1>5, <1>6, <1>7 DEF RunStep

LEMMA KTypeAdminister ==
    ASSUME KTypeOK, slots' \in Nat, Administer
    PROVE  KTypeOK'
<1>0. /\ jobs \in [Jobs -> JobOrNone] /\ rows \in [Jobs -> JobOrNone]
      /\ tick \in [Ticks -> SUBSET Clone] /\ thread \in [Threads -> Busy \cup {Free}]
      /\ now \in Nat /\ armed \in BOOLEAN /\ up \in BOOLEAN /\ cap \in Caps /\ events \in Nat
      /\ edit \in {NoEdit} \cup [on : {TRUE}, id : Jobs, job : Job]
      /\ reload \in {NoReload} \cup [on : {TRUE}, rows : [Jobs -> JobOrNone]]
    BY DEF KTypeOK, JobOrNone
<1>1. ASSUME UNCHANGED <<now, up, cap, tick, ledger>>,
             events' \in Nat, armed' \in BOOLEAN,
             jobs' \in [Jobs -> JobOrNone], rows' \in [Jobs -> JobOrNone],
             thread' \in [Threads -> Busy \cup {Free}],
             edit' \in {NoEdit} \cup [on : {TRUE}, id : Jobs, job : Job],
             reload' \in {NoReload} \cup [on : {TRUE}, rows : [Jobs -> JobOrNone]]
      PROVE  KTypeOK'
    BY <1>1 DEF KTypeOK, JobOrNone, ledger
<1>2. Event => events' \in Nat
    BY <1>0 DEF Event
<1>3. ASSUME NEW j \in Jobs, NEW key \in Key, Trigger(j, key), events' \in Nat
      PROVE  KTypeOK'
    <2>1. jobs[j] \in Job
        BY <1>0, <1>3, JobFields DEF Trigger
    <2>2. Spawned(j, jobs[j], key, "trigger") \in Busy
        BY <2>1, SpawnedType
    <2>3. /\ \E r \in Threads : thread' = [thread EXCEPT ![r] = Spawned(j, jobs[j], key, "trigger")]
          /\ UNCHANGED <<now, up, cap, jobs, rows, armed, tick, edit, reload, ledger>>
        BY <1>3 DEF Trigger
    <2>4. thread' \in [Threads -> Busy \cup {Free}]
        BY <2>2, <2>3, ThreadWith
    <2> QED BY <1>0, <1>1, <1>3, <2>3, <2>4
<1>4. ASSUME NEW j \in Jobs, TriggerJob(j) PROVE KTypeOK'
    <2>1. [kind |-> "manual", job |-> j, rev |-> events, at |-> 0] \in Key
        BY <1>0 DEF Key
    <2> QED BY <1>2, <1>3, <1>4, <2>1 DEF TriggerJob
<1>5. ASSUME NEW j \in Jobs, TriggerByName(j) PROVE KTypeOK'
    <2>1. [kind |-> "webhook", job |-> j, rev |-> 0, at |-> 0] \in Key
        BY DEF Key
    <2> QED BY <1>2, <1>3, <1>5, <2>1 DEF TriggerByName
<1>6. ASSUME NEW j \in Jobs, ReadForUpdate(j) PROVE KTypeOK'
    <2>1. jobs[j] \in Job
        BY <1>0, <1>6, JobFields DEF ReadForUpdate
    <2>2. edit' \in [on : {TRUE}, id : Jobs, job : Job]
        BY <1>6, <2>1 DEF ReadForUpdate
    <2>3. UNCHANGED <<now, up, cap, jobs, rows, armed, tick, thread, slots, reload, ledger, events>>
        BY <1>6 DEF ReadForUpdate
    <2> QED BY <1>0, <1>1, <2>2, <2>3
<1>7. ASSUME NEW j \in Jobs, DeleteJob(j) PROVE KTypeOK'
    <2>1. /\ rows' = [rows EXCEPT ![j] = NoJob] /\ jobs' = [jobs EXCEPT ![j] = NoJob]
          /\ UNCHANGED <<now, up, cap, armed, tick, thread, slots, edit, reload, ledger>>
          /\ Event
        BY <1>7 DEF DeleteJob
    <2>2. rows' \in [Jobs -> JobOrNone] /\ jobs' \in [Jobs -> JobOrNone]
        BY <1>0, <2>1 DEF JobOrNone
    <2> QED BY <1>0, <1>1, <1>2, <2>1, <2>2
<1>8. ASSUME NEW s \in Schedules, NEW enabled \in BOOLEAN, UpdateJob(s, enabled) PROVE KTypeOK'
    <2> DEFINE j == edit.id
               job == [edit.job EXCEPT !.sched = s, !.enabled = enabled, !.next = NextRun(s, now)]
    <2>1. edit \in [on : {TRUE}, id : Jobs, job : Job]
        <3>1. edit.on /\ ~NoEdit.on
            BY <1>8 DEF UpdateJob, NoEdit
        <3> QED BY <1>0, <3>1
    <2>2. j \in Jobs /\ edit.job \in Job /\ NextRun(s, now) \in Nat
        BY <1>0, <2>1, NextRunType
    <2>3. job \in Job
        BY <2>2 DEF Job, Instants
    <2>4. /\ \/ rows' = [rows EXCEPT ![j] = job] /\ jobs' = [jobs EXCEPT ![j] = job] /\ armed' = TRUE
             \/ UNCHANGED <<rows, jobs, armed>>
          /\ edit' = NoEdit /\ Event
          /\ UNCHANGED <<now, up, cap, tick, thread, slots, reload, ledger>>
        BY <1>8 DEF UpdateJob
    <2> HIDE DEF j, job
    <2>5. rows' \in [Jobs -> JobOrNone] /\ jobs' \in [Jobs -> JobOrNone]
        BY <1>0, <2>2, <2>3, <2>4 DEF JobOrNone
    <2>6. armed' \in BOOLEAN
        BY <1>0, <2>4
    <2> QED BY <1>0, <1>1, <1>2, <2>4, <2>5, <2>6
<1>9. ASSUME NEW j \in Jobs, NEW s \in Schedules, NEW enabled \in BOOLEAN, WriteRow(j, s, enabled)
      PROVE  KTypeOK'
    <2> DEFINE job == [rows[j] EXCEPT !.sched = s, !.enabled = enabled, !.next = NextRun(s, now)]
    <2>1. rows[j] \in Job
        BY <1>0, <1>9, JobFields DEF WriteRow
    <2>2. NextRun(s, now) \in Nat
        BY <1>0, NextRunType
    <2>3. job \in Job
        BY <2>1, <2>2 DEF Job, Instants
    <2>4. /\ rows' = [rows EXCEPT ![j] = job] /\ Event
          /\ UNCHANGED <<now, up, cap, jobs, armed, tick, thread, slots, edit, reload, ledger>>
        BY <1>0, <1>9 DEF WriteRow, memory
    <2> HIDE DEF job
    <2>5. rows' \in [Jobs -> JobOrNone]
        BY <1>0, <2>3, <2>4 DEF JobOrNone
    <2> QED BY <1>0, <1>1, <1>2, <2>4, <2>5
<1>10. CASE ReloadRead
    <2>1. reload' \in [on : {TRUE}, rows : [Jobs -> JobOrNone]]
        BY <1>0, <1>10 DEF ReloadRead
    <2>2. UNCHANGED <<now, up, cap, jobs, rows, armed, tick, thread, slots, edit, ledger>> /\ Event
        BY <1>10 DEF ReloadRead
    <2> QED BY <1>0, <1>1, <1>2, <2>1, <2>2
<1>11. CASE ReloadInstall
    <2> DEFINE read(j) == reload.rows[j]
               patch(j) == [read(j) EXCEPT !.next = NextRun(read(j).sched, now)]
               index == [j \in Jobs |-> IF Patched(read(j)) THEN patch(j) ELSE read(j)]
    <2>1. reload \in [on : {TRUE}, rows : [Jobs -> JobOrNone]]
        <3>1. reload.on /\ ~NoReload.on
            BY <1>11 DEF ReloadInstall, NoReload
        <3> QED BY <1>0, <3>1
    <2>2. ASSUME NEW j \in Jobs
          PROVE  /\ index[j] \in JobOrNone
                 /\ Patched(read(j)) => index[j] \in Job
        <3>1. read(j) \in JobOrNone
            BY <2>1
        <3>2. ASSUME Patched(read(j)) PROVE patch(j) \in Job
            <4>1. read(j) \in Job
                BY <3>1, <3>2, JobFields DEF Patched
            <4>2. NextRun(read(j).sched, now) \in Nat
                BY <1>0, <4>1, NextRunType DEF Job
            <4> QED BY <4>1, <4>2, JobWith
        <3>3. index[j] = IF Patched(read(j)) THEN patch(j) ELSE read(j)
            OBVIOUS
        <3> HIDE DEF read, patch, index
        <3> QED BY <3>1, <3>2, <3>3 DEF JobOrNone
    <2>3. /\ jobs' = index
          /\ rows' = [j \in Jobs |-> IF Patched(read(j)) /\ rows[j].on
                                     THEN WithState(rows[j], index[j]) ELSE rows[j]]
          /\ armed' = TRUE /\ reload' = NoReload
          /\ UNCHANGED <<now, up, cap, tick, thread, slots, edit, ledger, events>>
        BY <1>11 DEF ReloadInstall
    <2>4. index = [j \in Jobs |-> index[j]]
        OBVIOUS
    <2> HIDE DEF read, index
    <2>5. jobs' \in [Jobs -> JobOrNone]
        BY <2>2, <2>3, <2>4
    <2>6. ASSUME NEW j \in Jobs, Patched(read(j)), rows[j].on
          PROVE  WithState(rows[j], index[j]) \in Job
        <3>1. rows[j] \in Job /\ index[j] \in Job
            BY <1>0, <2>2, <2>6, JobFields
        <3> QED BY <3>1 DEF WithState, Job
    <2>7. rows' \in [Jobs -> JobOrNone]
        BY <1>0, <2>3, <2>6 DEF JobOrNone
    <2> QED BY <1>0, <1>1, <2>3, <2>5, <2>7
<1> QED BY <1>4, <1>5, <1>6, <1>7, <1>8, <1>9, <1>10, <1>11 DEF Administer

\* The goroutines that the catch-up starts.
Missed == {j \in Jobs : PastDue(LoadedRow(rows[j]))}
Chosen(f) == {j \in Missed : f[j] # Free}
CatchUp(j) == Spawned(j, LoadedRow(rows[j]), ScheduledKey(j, LoadedRow(rows[j])), "catchup")

LEMMA StartFacts ==
    ASSUME KTypeOK, Start
    PROVE  /\ jobs' \in [Jobs -> JobOrNone] /\ rows' \in [Jobs -> JobOrNone]
           /\ ~up /\ up' = TRUE /\ armed' = TRUE
           /\ UNCHANGED <<now, cap, tick, edit, reload, ledger, events>>
           /\ \E f \in [Missed -> Threads \cup {Free}] :
                /\ Cardinality(Chosen(f)) = IF Cardinality(Missed) < cap
                                            THEN Cardinality(Missed) ELSE cap
                /\ \A i, j \in Chosen(f) : f[i] = f[j] => i = j
                /\ DOMAIN thread' = Threads
                /\ \A r \in Threads :
                     \/ thread'[r] = Free /\ \A j \in Chosen(f) : f[j] # r
                     \/ \E j \in Chosen(f) : f[j] = r /\ thread'[r] = CatchUp(j)
                /\ slots' = Cardinality(Chosen(f))
<1> DEFINE loaded == [j \in Jobs |-> LoadedRow(rows[j])]
           missed == {j \in Jobs : PastDue(loaded[j])}
<1>0. \A j \in Jobs : rows[j] \in JobOrNone /\ LoadedRow(rows[j]) \in JobOrNone
    <2> TAKE j \in Jobs
    <2>1. rows[j] \in JobOrNone /\ now \in Nat
        BY DEF KTypeOK, JobOrNone
    <2> QED BY <2>1, LoadedType
<1>1. /\ jobs' = loaded /\ rows' = loaded /\ ~up /\ up' = TRUE /\ armed' = TRUE
      /\ UNCHANGED <<now, cap, tick, edit, reload, ledger, events>>
    BY DEF Start
<1>2. PICK f \in [missed -> Threads \cup {Free}] :
         LET run == {j \in missed : f[j] # Free} IN
         /\ Cardinality(run) = IF Cardinality(missed) < cap
                               THEN Cardinality(missed) ELSE cap
         /\ \A i, j \in run : f[i] = f[j] => i = j
         /\ thread' = [r \in Threads |->
              IF \E j \in run : f[j] = r
              THEN LET j == CHOOSE i \in run : f[i] = r IN
                   Spawned(j, loaded[j], ScheduledKey(j, loaded[j]), "catchup")
              ELSE Free]
         /\ slots' = Cardinality(run)
    BY DEF Start
<1>3. missed = Missed
    BY DEF Missed
<1>4. \A j \in Jobs : loaded[j] = LoadedRow(rows[j])
    OBVIOUS
<1>5. loaded \in [Jobs -> JobOrNone]
    BY <1>0
<1> HIDE DEF loaded, missed
<1>6. {j \in missed : f[j] # Free} = Chosen(f) /\ Chosen(f) \subseteq Jobs
    BY <1>3 DEF Chosen, Missed
<1>7. /\ DOMAIN thread' = Threads
      /\ \A r \in Threads :
           \/ thread'[r] = Free /\ \A j \in Chosen(f) : f[j] # r
           \/ \E j \in Chosen(f) : f[j] = r /\ thread'[r] = CatchUp(j)
    <2>1. DOMAIN thread' = Threads
        BY <1>2
    <2>2. ASSUME NEW r \in Threads, NEW k \in Chosen(f), f[k] = r
          PROVE  \E j \in Chosen(f) : f[j] = r /\ thread'[r] = CatchUp(j)
        <3> DEFINE j == CHOOSE i \in Chosen(f) : f[i] = r
        <3>1. j \in Chosen(f) /\ f[j] = r
            BY <2>2
        <3>2. thread'[r] = Spawned(j, loaded[j], ScheduledKey(j, loaded[j]), "catchup")
            BY <1>2, <1>6, <2>2
        <3> HIDE DEF j
        <3>3. thread'[r] = CatchUp(j)
            BY <1>4, <1>6, <3>1, <3>2 DEF CatchUp
        <3> QED BY <3>1, <3>3
    <2>3. ASSUME NEW r \in Threads, \A j \in Chosen(f) : f[j] # r
          PROVE  thread'[r] = Free
        BY <1>2, <1>6, <2>3
    <2> QED BY <2>1, <2>2, <2>3
<1>8. f \in [Missed -> Threads \cup {Free}]
    BY <1>2, <1>3
<1>9. /\ Cardinality(Chosen(f)) = IF Cardinality(Missed) < cap THEN Cardinality(Missed) ELSE cap
      /\ \A i, j \in Chosen(f) : f[i] = f[j] => i = j
      /\ slots' = Cardinality(Chosen(f))
    BY <1>2, <1>3, <1>6
<1> QED BY <1>1, <1>5, <1>7, <1>8, <1>9

LEMMA CatchUpType ==
    ASSUME KTypeOK, NEW j \in Missed
    PROVE  CatchUp(j) \in Busy
<1>1. j \in Jobs /\ LoadedRow(rows[j]).on /\ rows[j] \in JobOrNone /\ now \in Nat
    BY DEF Missed, PastDue, KTypeOK, JobOrNone
<1>2. LoadedRow(rows[j]) \in Job
    BY <1>1, LoadedType, JobFields
<1> QED BY <1>1, <1>2, SpawnedType, ScheduledKeyType DEF CatchUp

LEMMA KTypeStart ==
    ASSUME KTypeOK, slots' \in Nat, Start
    PROVE  KTypeOK'
<1>1. thread' \in [Threads -> Busy \cup {Free}]
    <2>1. PICK f : /\ DOMAIN thread' = Threads
                   /\ \A r \in Threads : \/ thread'[r] = Free
                                         \/ \E j \in Chosen(f) : thread'[r] = CatchUp(j)
        BY StartFacts
    <2>2. \A r \in Threads : thread'[r] \in Busy \cup {Free}
        BY <2>1, CatchUpType DEF Chosen
    <2>3. thread' = [r \in Threads |-> thread'[r]]
        BY StartFacts DEF Start
    <2> QED BY <2>2, <2>3
<1>2. /\ jobs' \in [Jobs -> JobOrNone] /\ rows' \in [Jobs -> JobOrNone]
      /\ up' = TRUE /\ armed' = TRUE
      /\ UNCHANGED <<now, cap, tick, edit, reload, ledger, events>>
    BY StartFacts
<1> QED BY <1>1, <1>2 DEF KTypeOK, JobOrNone, ledger

LEMMA KTypeNext ==
    ASSUME KTypeOK, slots' \in Nat, [Next]_vars
    PROVE  KTypeOK'
<1>1. CASE Crash
    <2>1. /\ up' = FALSE /\ armed' = FALSE /\ jobs' = [j \in Jobs |-> NoJob]
          /\ tick' = [t \in Ticks |-> {}] /\ thread' = [r \in Threads |-> Free]
          /\ edit' = NoEdit /\ reload' = NoReload
          /\ UNCHANGED <<now, cap, rows, ledger>> /\ Event
        BY <1>1 DEF Crash
    <2>2. events' \in Nat
        BY <2>1 DEF Event, KTypeOK
    <2>3. /\ jobs' \in [Jobs -> Job \cup {NoJob}] /\ tick' \in [Ticks -> SUBSET Clone]
          /\ thread' \in [Threads -> Busy \cup {Free}]
        BY <2>1
    <2> QED BY <2>1, <2>2, <2>3 DEF KTypeOK, ledger
<1>2. CASE TimePasses
    <2>1. /\ UNCHANGED <<up, cap, jobs, armed, tick, thread, edit, reload, rows,
                         occurred, ran, again, delivered, events>>
          /\ now' \in Nat
        BY <1>2 DEF TimePasses, memory, ledger, KTypeOK
    <2> QED BY <2>1 DEF KTypeOK
<1>3. CASE UNCHANGED vars
    <2>1. UNCHANGED <<now, up, cap, jobs, armed, tick, thread, edit, reload, rows,
                      occurred, ran, again, delivered, events>>
        BY <1>3 DEF vars, memory, ledger
    <2> QED BY <2>1 DEF KTypeOK
<1> QED BY <1>1, <1>2, <1>3, KTypeStart, KTypeTick, KTypeRun, KTypeAdminister DEF Next

-----------------------------------------------------------------------------
(* Slots. *)

Live == {r \in Threads : thread[r] # Free}

LEMMA LiveFinite == IsFiniteSet(Live) /\ Cardinality(Live) \in Nat
<1>1. Live \in SUBSET Threads
    BY DEF Live
<1>2. IsFiniteSet(Live)
    BY <1>1, CronAssumption, FS_Subset
<1> QED BY <1>2, FS_CardinalityType

LEMMA LiveFiniteNext == IsFiniteSet(Live') /\ Cardinality(Live') \in Nat
<1>1. Live' \in SUBSET Threads
    BY DEF Live
<1>2. IsFiniteSet(Live')
    BY <1>1, CronAssumption, FS_Subset
<1> QED BY <1>2, FS_CardinalityType

\* A goroutine that starts, one that goes on and one that ends.
LEMMA LiveMore ==
    ASSUME KTypeOK, NEW r \in Threads, NEW s \in Busy, thread[r] = Free,
           thread' = [thread EXCEPT ![r] = s]
    PROVE  Cardinality(Live') = Cardinality(Live) + 1
<1>1. s # Free
    BY BusyIsNotFree
<1>2. DOMAIN thread = Threads
    BY DEF KTypeOK
<1>3. Live' = Live \cup {r} /\ r \notin Live
    BY <1>1, <1>2 DEF Live
<1> QED BY <1>3, LiveFinite, FS_AddElement

LEMMA LiveSame ==
    ASSUME KTypeOK, NEW r \in Threads, NEW s \in Busy, thread[r] \in Busy,
           thread' = [thread EXCEPT ![r] = s]
    PROVE  Live' = Live
<1>1. s # Free /\ thread[r] # Free
    BY BusyIsNotFree
<1>2. DOMAIN thread = Threads
    BY DEF KTypeOK
<1> QED BY <1>1, <1>2 DEF Live

LEMMA LiveLess ==
    ASSUME KTypeOK, NEW r \in Threads, thread[r] \in Busy,
           thread' = [thread EXCEPT ![r] = Free]
    PROVE  Cardinality(Live') = Cardinality(Live) - 1
<1>1. thread[r] # Free
    BY BusyIsNotFree
<1>2. DOMAIN thread = Threads
    BY DEF KTypeOK
<1>3. Live' = Live \ {r} /\ r \in Live
    BY <1>1, <1>2 DEF Live
<1> QED BY <1>3, LiveFinite, FS_RemoveElement

\* The catch-up starts one goroutine for each job it chooses.
LEMMA LiveStart ==
    ASSUME KTypeOK, Start
    PROVE  slots' = Cardinality(Live') /\ slots' <= cap
<1>1. PICK f \in [Missed -> Threads \cup {Free}] :
        /\ Cardinality(Chosen(f)) = IF Cardinality(Missed) < cap
                                    THEN Cardinality(Missed) ELSE cap
        /\ \A i, j \in Chosen(f) : f[i] = f[j] => i = j
        /\ \A r \in Threads :
             \/ thread'[r] = Free /\ \A j \in Chosen(f) : f[j] # r
             \/ \E j \in Chosen(f) : f[j] = r /\ thread'[r] = CatchUp(j)
        /\ slots' = Cardinality(Chosen(f))
    BY StartFacts
<1> DEFINE g == [j \in Chosen(f) |-> f[j]]
<1>2. \A j \in Chosen(f) : f[j] \in Threads /\ CatchUp(j) # Free
    <2> TAKE j \in Chosen(f)
    <2>1. j \in Missed /\ f[j] # Free
        BY DEF Chosen
    <2> QED BY <2>1, CatchUpType, BusyIsNotFree
<1>3. \A r \in Threads : r \in Live' <=> \E j \in Chosen(f) : f[j] = r
    BY <1>1, <1>2 DEF Live
<1>4. g \in Injection(Chosen(f), Live')
    <2>1. g \in [Chosen(f) -> Live']
        BY <1>2, <1>3
    <2>2. \A i, j \in Chosen(f) : g[i] = g[j] => i = j
        BY <1>1
    <2> QED BY <2>1, <2>2 DEF Injection, IsInjective
<1>5. g \in Surjection(Chosen(f), Live')
    <2>1. g \in [Chosen(f) -> Live']
        BY <1>2, <1>3
    <2>2. \A r \in Live' : \E j \in Chosen(f) : g[j] = r
        BY <1>3 DEF Live
    <2> QED BY <2>1, <2>2 DEF Surjection
<1> HIDE DEF g
<1>6. Cardinality(Chosen(f)) = Cardinality(Live')
    BY <1>4, <1>5, LiveFiniteNext, FS_Injection
<1>7. slots' \in Nat /\ slots' = Cardinality(Live')
    BY <1>1, <1>6, LiveFiniteNext
<1>8. cap \in Nat
    BY CronAssumption DEF KTypeOK
<1>9. CASE Cardinality(Missed) < cap
    BY <1>1, <1>7, <1>8, <1>9
<1>10. CASE ~(Cardinality(Missed) < cap)
    BY <1>1, <1>7, <1>8, <1>10
<1> QED BY <1>7, <1>9, <1>10

LEMMA SlotsNext ==
    ASSUME KTypeOK, SlotsExact, [Next]_vars
    PROVE  SlotsExact'
<1>0. slots = Cardinality(Live) /\ slots <= cap /\ cap \in Nat /\ slots \in Nat
    BY LiveFinite, CronAssumption DEF SlotsExact, Live, KTypeOK
<1>1. SlotsExact' <=> slots' = Cardinality(Live') /\ slots' <= cap'
    BY DEF SlotsExact, Live
<1>2. ASSUME UNCHANGED <<slots, cap>>, Live' = Live PROVE SlotsExact'
    BY <1>0, <1>1, <1>2
<1>2a. ASSUME UNCHANGED <<slots, cap, thread>> PROVE SlotsExact'
    BY <1>2, <1>2a DEF Live
<1>3. ASSUME NEW r \in Threads, NEW s \in Busy, thread[r] = Free, UNCHANGED cap,
             thread' = [thread EXCEPT ![r] = s], slots < cap, slots' = slots + 1
      PROVE  SlotsExact'
    <2>1. Cardinality(Live') = Cardinality(Live) + 1
        BY <1>3, LiveMore
    <2> QED BY <1>0, <1>1, <1>3, <2>1
<1>4. ASSUME NEW r \in Threads, thread[r] \in Busy, UNCHANGED cap,
             thread' = [thread EXCEPT ![r] = Free], slots' = slots - 1
      PROVE  SlotsExact'
    <2>1. Cardinality(Live') = Cardinality(Live) - 1
        BY <1>4, LiveLess
    <2> QED BY <1>0, <1>1, <1>4, <2>1
<1>5. CASE Start
    BY <1>1, <1>5, LiveStart, StartFacts
<1>6. ASSUME NEW t \in Ticks, TickStep(t) PROVE SlotsExact'
    <2>1. CASE TickCollect(t)
        BY <1>2a, <2>1 DEF TickCollect
    <2>2. ASSUME NEW d \in tick[t], NEW tooMany \in BOOLEAN, TickAdvance(t, d, tooMany)
          PROVE  SlotsExact'
        BY <1>2a, <2>2 DEF TickAdvance
    <2>3. ASSUME NEW d \in tick[t], TickSpawn(t, d) PROVE SlotsExact'
        <3> DEFINE s == Spawned(d.id, d.job, ScheduledKey(d.id, d.job), "timer")
        <3>1. d.id \in Jobs /\ d.job \in Job
            BY DEF KTypeOK, Clone
        <3>2. s \in Busy
            BY <3>1, SpawnedType, ScheduledKeyType
        <3>3. /\ UNCHANGED cap
              /\ \/ UNCHANGED <<slots, thread>>
                 \/ /\ slots < cap /\ slots' = slots + 1
                    /\ \E r \in Threads : thread[r] = Free /\ thread' = [thread EXCEPT ![r] = s]
            BY <2>3 DEF TickSpawn, SlotsAfter
        <3> HIDE DEF s
        <3> QED BY <1>2a, <1>3, <3>2, <3>3
    <2> QED BY <1>6, <2>1, <2>2, <2>3 DEF TickStep
<1>7. ASSUME NEW r \in Threads, RunStep(r) PROVE SlotsExact'
    <2> DEFINE s == thread[r]
    <2>0. /\ s.pc # "idle" /\ thread \in [Threads -> Busy \cup {Free}]
        BY <1>7 DEF RunStep, Begin, Claim, Execute, Post, Wrap, KTypeOK
    <2>1. s \in Busy
        BY <2>0, BusyThread
    <2>2. ASSUME NEW b \in Busy, thread' = [thread EXCEPT ![r] = b], UNCHANGED <<slots, cap>>
          PROVE  SlotsExact'
        BY <1>2, <2>1, <2>2, LiveSame
    <2>2a. ASSUME UNCHANGED <<slots, cap>>, KTypeOK',
                  \E b : thread' = [thread EXCEPT ![r] = b] /\ b.pc # "idle"
           PROVE  SlotsExact'
        <3>1. PICK b : thread' = [thread EXCEPT ![r] = b] /\ b.pc # "idle"
            BY <2>2a
        <3>2. thread'[r] = b /\ thread'[r] \in Busy \cup {Free} /\ b # Free
            BY <2>0, <2>2a, <3>1 DEF KTypeOK, Free
        <3> QED BY <2>2, <2>2a, <3>1, <3>2
    <2>3. CASE End(r) /\ UNCHANGED cap
        BY <1>4, <2>1, <2>3 DEF End
    <2>4. ASSUME UNCHANGED slots PROVE KTypeOK'
        BY <1>0, <1>7, <2>4, KTypeRun
    <2>5. CASE Begin(r)
        <3> DEFINE at == IF s.id \in Attached THEN "run" ELSE "claim"
                   b == [s EXCEPT !.job = [s.job EXCEPT !.running = TRUE], !.pc = at]
        <3>1. UNCHANGED <<slots, cap>> /\ thread' = [thread EXCEPT ![r] = b]
            BY <2>0, <2>5 DEF Begin
        <3>2. b.pc # "idle"
            BY <2>1 DEF Busy
        <3> QED BY <2>2a, <2>4, <3>1, <3>2
    <2>6. CASE Claim(r)
        <3>1. /\ UNCHANGED <<slots, cap>>
              /\ \E b : thread' = [thread EXCEPT ![r] = b] /\ b.pc # "idle"
            BY <2>0, <2>1, <2>6 DEF Claim, Goes, Busy
        <3> QED BY <2>2a, <2>4, <3>1
    <2>7. ASSUME NEW result, Execute(r, result) PROVE SlotsExact'
        <3>1. /\ UNCHANGED <<slots, cap>>
              /\ thread' = [thread EXCEPT ![r] = [s EXCEPT !.pc = "post", !.result = result]]
            BY <2>0, <2>1, <2>7 DEF Execute
        <3>2. [s EXCEPT !.pc = "post", !.result = result].pc = "post"
            BY <2>1 DEF Busy
        <3> QED BY <2>2a, <2>4, <3>1, <3>2
    <2>8. ASSUME NEW disable, NEW retry, Post(r, disable, retry) PROVE SlotsExact'
        <3>1. CASE Failed(s)
            BY <2>3, <2>8, <3>1 DEF Post
        <3>2. CASE ~Failed(s)
            <4>1. /\ UNCHANGED <<slots, cap>>
                  /\ \E b : thread' = [thread EXCEPT ![r] = b] /\ b.pc # "idle"
                BY <2>0, <2>1, <2>8, <3>2 DEF Post, Busy
            <4> QED BY <2>2a, <2>4, <4>1
        <3> QED BY <3>1, <3>2
    <2>9. ASSUME NEW spent, Wrap(r, spent) PROVE SlotsExact'
        BY <2>3, <2>9 DEF Wrap
    <2> QED BY <1>7, <2>5, <2>6, <2>7, <2>8, <2>9 DEF RunStep
<1>8. CASE Administer
    <2>1. ASSUME NEW j \in Jobs, NEW key \in Key, Trigger(j, key) PROVE SlotsExact'
        <3>1. jobs[j] \in Job
            BY <2>1, JobFields DEF Trigger, KTypeOK, JobOrNone
        <3>2. Spawned(j, jobs[j], key, "trigger") \in Busy
            BY <3>1, SpawnedType
        <3> QED BY <1>3, <2>1, <3>2 DEF Trigger
    <2>2. ASSUME NEW j \in Jobs, TriggerJob(j) PROVE SlotsExact'
        <3>1. [kind |-> "manual", job |-> j, rev |-> events, at |-> 0] \in Key
            BY DEF Key, KTypeOK
        <3> QED BY <2>1, <2>2, <3>1 DEF TriggerJob
    <2>3. ASSUME NEW j \in Jobs, TriggerByName(j) PROVE SlotsExact'
        <3>1. [kind |-> "webhook", job |-> j, rev |-> 0, at |-> 0] \in Key
            BY DEF Key
        <3> QED BY <2>1, <2>3, <3>1 DEF TriggerByName
    <2>4. CASE UNCHANGED <<slots, cap, thread>>
        BY <1>2a, <2>4
    <2>5. ASSUME NEW j, NEW x, NEW enabled,
                 ReadForUpdate(j) \/ DeleteJob(j) \/ UpdateJob(x, enabled)
                 \/ WriteRow(j, x, enabled) \/ ReloadRead \/ ReloadInstall
          PROVE  UNCHANGED <<slots, cap, thread>>
        BY <2>5 DEF ReadForUpdate, DeleteJob, UpdateJob, WriteRow, ReloadRead, ReloadInstall, memory
    <2> QED BY <1>8, <2>2, <2>3, <2>4, <2>5 DEF Administer
<1>9. CASE Crash
    <2>1. thread' = [r \in Threads |-> Free] /\ slots' = 0 /\ UNCHANGED cap
        BY <1>9 DEF Crash
    <2>2. Live' = {}
        BY <2>1 DEF Live
    <2> QED BY <1>0, <1>1, <2>1, <2>2, FS_EmptySet
<1>10. CASE TimePasses \/ UNCHANGED vars
    BY <1>2a, <1>10 DEF TimePasses, vars, memory
<1> QED BY <1>5, <1>6, <1>7, <1>8, <1>9, <1>10 DEF Next

LEMMA SlotsInit == Init => SlotsExact
<1> SUFFICES ASSUME Init PROVE SlotsExact
    OBVIOUS
<1>1. {r \in Threads : thread[r] # Free} = {} /\ slots = 0 /\ cap \in Nat
    BY CronAssumption DEF Init
<1> QED BY <1>1, FS_EmptySet DEF SlotsExact

\* The types and the count of slots need each other: a slot is given back
\* below zero nowhere, because the goroutine that gives it back is counted.
LEMMA TypesAndSlots == Spec => [](KTypeOK /\ SlotsExact)
<1>1. ASSUME KTypeOK, SlotsExact, [Next]_vars PROVE (KTypeOK /\ SlotsExact)'
    <2>1. SlotsExact'
        BY <1>1, SlotsNext
    <2>2. slots' \in Nat
        BY <2>1, LiveFiniteNext DEF SlotsExact, Live
    <2> QED BY <1>1, <2>1, <2>2, KTypeNext
<1> QED BY <1>1, KTypeInit, SlotsInit, PTL DEF Spec

\* Index, table, clones, goroutines and ledger of occurrences hold well-typed
\* values.
THEOREM CronTypeCorrect == Spec => []KTypeOK
BY TypesAndSlots, PTL

\* The counter of slots is the number of live run goroutines and never above
\* the cap, whichever way a goroutine ends and whatever is deleted meanwhile.
THEOREM SlotsAreExact == Spec => []SlotsExact
BY TypesAndSlots, PTL

-----------------------------------------------------------------------------
(* One run for one trigger. *)

\* The goroutine that claimed its key and may still run or deliver it.
Owner(r) ==
    /\ thread[r].pc \in {"run", "post", "wrap"}
    /\ thread[r].id \notin Attached
    /\ thread[r].pc = "run" \/ thread[r].result = "completed"

\* A claimed key has one owner, and what it may still do has not been done.
RunInv ==
    /\ again = {}
    /\ ran \subseteq occurred /\ delivered \subseteq occurred
    /\ \A r \in Threads : Owner(r) =>
         /\ thread[r].key \in occurred \ delivered
         /\ thread[r].pc = "run" => thread[r].key \notin ran
    /\ \A q, r \in Threads :
         Owner(q) /\ Owner(r) /\ thread[q].key = thread[r].key => q = r

\* A step that touches neither the ledger nor what an owner may do.
LEMMA RunInvFrame ==
    ASSUME RunInv, UNCHANGED ledger,
           \A r \in Threads : Owner(r)' =>
               /\ Owner(r) /\ thread'[r].key = thread[r].key
               /\ thread'[r].pc = "run" => thread[r].pc = "run"
    PROVE  RunInv'
<1>1. UNCHANGED <<occurred, ran, again, delivered>>
    BY DEF ledger
<1>2. \A r \in Threads : Owner(r)' =>
         /\ thread'[r].key \in occurred' \ delivered'
         /\ thread'[r].pc = "run" => thread'[r].key \notin ran'
    BY <1>1 DEF RunInv
<1>3. \A q, r \in Threads :
         Owner(q)' /\ Owner(r)' /\ thread'[q].key = thread'[r].key => q = r
    BY DEF RunInv
<1> QED BY <1>1, <1>2, <1>3 DEF RunInv

\* A goroutine that starts, or is gone, owns nothing.
LEMMA NotOwner ==
    ASSUME RunInv, KTypeOK, NEW r \in Threads, NEW s, UNCHANGED ledger,
           thread' = [thread EXCEPT ![r] = s], s.pc \in {"idle", "begin", "claim"}
    PROVE  RunInv'
<1>1. DOMAIN thread = Threads
    BY DEF KTypeOK
<1>2. \A q \in Threads : Owner(q)' => q # r /\ thread'[q] = thread[q]
    BY <1>1 DEF Owner
<1>3. \A q \in Threads : Owner(q)' => Owner(q)
    BY <1>2 DEF Owner
<1> QED BY <1>2, <1>3, RunInvFrame

LEMMA RunInvRun ==
    ASSUME KTypeOK, RunInv, NEW r \in Threads, RunStep(r)
    PROVE  RunInv'
<1> DEFINE s == thread[r]
<1>0. s.pc # "idle" /\ DOMAIN thread = Threads
    BY DEF RunStep, Begin, Claim, Execute, Post, Wrap, KTypeOK
<1>1. s \in Busy
    BY <1>0, BusyThread
<1>2. ASSUME NEW b, thread' = [thread EXCEPT ![r] = b]
      PROVE  /\ thread'[r] = b
             /\ \A q \in Threads \ {r} : thread'[q] = thread[q] /\ (Owner(q)' <=> Owner(q))
    BY <1>0, <1>2 DEF Owner
<1>3. CASE Begin(r)
    <2> DEFINE at == IF s.id \in Attached THEN "run" ELSE "claim"
               b == [s EXCEPT !.job = [s.job EXCEPT !.running = TRUE], !.pc = at]
    <2>1. thread' = [thread EXCEPT ![r] = b] /\ UNCHANGED ledger
        BY <1>0, <1>3 DEF Begin
    <2>2. b.pc = at /\ b.id = s.id
        BY <1>1 DEF Busy
    <2>3. ~Owner(r)'
        <3>1. thread'[r].pc = at /\ thread'[r].id = s.id
            BY <1>2, <2>1, <2>2
        <3>2. at # "claim" => s.id \in Attached
            OBVIOUS
        <3>3. at \in {"run", "claim"}
            OBVIOUS
        <3> HIDE DEF at
        <3> QED BY <3>1, <3>2, <3>3 DEF Owner
    <2> HIDE DEF b, at
    <2>4. \A q \in Threads : Owner(q)' => Owner(q) /\ thread'[q] = thread[q]
        BY <1>2, <2>1, <2>3
    <2> QED BY <2>1, <2>4, RunInvFrame
<1>4. CASE Claim(r)
    <2>1. CASE ValidKey(s.key) /\ Claimable(s.key)
        <3> DEFINE b == [s EXCEPT !.pc = "run"]
        <3>1. /\ thread' = [thread EXCEPT ![r] = b] /\ occurred' = occurred \cup {s.key}
              /\ UNCHANGED <<ran, again, delivered>> /\ s.key \notin occurred
            BY <1>0, <1>4, <2>1 DEF Claim, Goes, Claimable
        <3>2. b.pc = "run" /\ b.key = s.key
            BY <1>1 DEF Busy
        <3> HIDE DEF b
        <3>3. \A q \in Threads \ {r} : Owner(q)' => thread'[q].key \in occurred \ delivered
                                                    /\ thread'[q].key # s.key
            BY <1>2, <3>1 DEF RunInv
        <3>4. thread'[r].key = s.key /\ s.key \in occurred' /\ s.key \notin ran /\ s.key \notin delivered
            BY <1>2, <3>1, <3>2 DEF RunInv
        <3>5. \A q \in Threads : Owner(q)' =>
                /\ thread'[q].key \in occurred' \ delivered'
                /\ thread'[q].pc = "run" => thread'[q].key \notin ran'
            <4> TAKE q \in Threads
            <4>1. CASE q = r
                BY <3>1, <3>4, <4>1
            <4>2. CASE q # r
                <5>1. thread'[q] = thread[q] /\ (Owner(q)' <=> Owner(q))
                    BY <1>2, <3>1, <4>2
                <5>2. Owner(q) => /\ thread[q].key \in occurred \ delivered
                                  /\ thread[q].pc = "run" => thread[q].key \notin ran
                    BY DEF RunInv
                <5> QED BY <3>1, <5>1, <5>2
            <4> QED BY <4>1, <4>2
        <3>6. \A p, q \in Threads :
                Owner(p)' /\ Owner(q)' /\ thread'[p].key = thread'[q].key => p = q
            <4> TAKE p, q \in Threads
            <4>1. CASE p = r \/ q = r
                BY <3>3, <3>4, <4>1
            <4>2. CASE p # r /\ q # r
                BY <1>2, <3>1, <4>2 DEF RunInv
            <4> QED BY <4>1, <4>2
        <3> QED BY <3>1, <3>5, <3>6 DEF RunInv
    <2>2. CASE ~(ValidKey(s.key) /\ Claimable(s.key))
        <3> DEFINE res == IF ValidKey(s.key) THEN "duplicate" ELSE "refused"
                   b == [s EXCEPT !.pc = "post", !.result = res]
        <3>1. thread' = [thread EXCEPT ![r] = b] /\ UNCHANGED ledger
            BY <1>0, <1>4, <2>2 DEF Claim, ledger
        <3>2. b.pc = "post" /\ b.result \in {"duplicate", "refused"}
            BY <1>1 DEF Busy
        <3> HIDE DEF b, res
        <3>3. ~Owner(r)'
            BY <1>2, <3>1, <3>2 DEF Owner
        <3>4. \A q \in Threads : Owner(q)' => Owner(q) /\ thread'[q] = thread[q]
            BY <1>2, <3>1, <3>3
        <3> QED BY <3>1, <3>4, RunInvFrame
    <2> QED BY <2>1, <2>2
<1>5. ASSUME NEW result \in {"completed", "timeout", "rejected", "panic"}, Execute(r, result)
      PROVE  RunInv'
    <2> DEFINE b == [s EXCEPT !.pc = "post", !.result = result]
    <2>1. /\ thread' = [thread EXCEPT ![r] = b] /\ UNCHANGED <<occurred, delivered>> /\ s.pc = "run"
          /\ \/ UNCHANGED <<ran, again>>
             \/ s.id \notin Attached /\ ran' = ran \cup {s.key} /\ again' = again \cup (ran \cap {s.key})
        BY <1>0, <1>5 DEF Execute
    <2>2. b.pc = "post" /\ b.key = s.key /\ b.id = s.id
        BY <1>1 DEF Busy
    <2> HIDE DEF b
    <2>3. Owner(r)' => Owner(r)
        BY <1>2, <2>1, <2>2 DEF Owner
    <2>4. s.id \notin Attached => Owner(r) /\ s.key \in occurred /\ s.key \notin ran
        BY <2>1 DEF Owner, RunInv
    <2>5. again' = {} /\ ran' \subseteq occurred' /\ delivered' \subseteq occurred'
        BY <2>1, <2>4 DEF RunInv
    <2>6. \A q \in Threads : Owner(q)' => Owner(q) /\ thread'[q].key = thread[q].key
        BY <1>2, <2>1, <2>2, <2>3
    <2>7. ASSUME NEW q \in Threads, Owner(q)', thread'[q].pc = "run"
          PROVE  thread'[q].key \notin ran'
        <3>1. q # r
            BY <1>2, <2>1, <2>2, <2>7
        <3>2. Owner(q) /\ thread'[q] = thread[q] /\ thread[q].key \notin ran
            BY <1>2, <2>1, <2>6, <2>7, <3>1 DEF RunInv
        <3>3. s.id \notin Attached => thread[q].key # s.key
            BY <2>4, <3>1, <3>2 DEF RunInv
        <3> QED BY <2>1, <3>2, <3>3
    <2>8. \A q \in Threads : Owner(q)' => thread'[q].key \in occurred' \ delivered'
        BY <2>1, <2>6 DEF RunInv
    <2>9. \A p, q \in Threads :
            Owner(p)' /\ Owner(q)' /\ thread'[p].key = thread'[q].key => p = q
        BY <2>6 DEF RunInv
    <2> QED BY <2>5, <2>7, <2>8, <2>9 DEF RunInv
<1>6. ASSUME NEW disable, NEW retry, Post(r, disable, retry)
      PROVE  RunInv'
    <2>1. UNCHANGED ledger /\ s.pc = "post"
        BY <1>6 DEF Post
    <2>2. CASE Failed(s)
        <3>1. thread' = [thread EXCEPT ![r] = Free]
            BY <1>6, <2>2 DEF Post, End
        <3> QED BY <2>1, <3>1, NotOwner DEF Free
    <2>3. CASE ~Failed(s)
        <3>1. PICK c : thread' = [thread EXCEPT ![r] = [s EXCEPT !.job = c, !.pc = "wrap"]]
            BY <1>0, <1>6, <2>3 DEF Post
        <3> DEFINE b == [s EXCEPT !.job = c, !.pc = "wrap"]
        <3>2. b.pc = "wrap" /\ b.key = s.key /\ b.id = s.id /\ b.result = s.result
            BY <1>1 DEF Busy
        <3>3. thread' = [thread EXCEPT ![r] = b]
            BY <3>1
        <3> HIDE DEF b
        <3>4. Owner(r)' => Owner(r)
            BY <1>2, <2>1, <3>2, <3>3 DEF Owner
        <3>5. \A q \in Threads : Owner(q)' => /\ Owner(q) /\ thread'[q].key = thread[q].key
                                              /\ thread'[q].pc = "run" => thread[q].pc = "run"
            BY <1>2, <3>2, <3>3, <3>4
        <3> QED BY <2>1, <3>5, RunInvFrame
    <2> QED BY <2>2, <2>3
<1>7. ASSUME NEW spent, Wrap(r, spent)
      PROVE  RunInv'
    <2>1. /\ thread' = [thread EXCEPT ![r] = Free] /\ UNCHANGED <<occurred, ran>> /\ s.pc = "wrap"
          /\ \/ UNCHANGED <<delivered, again>>
             \/ /\ s.result = "completed" /\ s.id \notin Attached
                /\ delivered' = delivered \cup {s.key}
                /\ again' = again \cup (delivered \cap {s.key})
        BY <1>7 DEF Wrap, End
    <2>2. ~Owner(r)'
        <3>1. thread'[r].pc = "idle"
            BY <1>2, <2>1 DEF Free
        <3> QED BY <3>1 DEF Owner
    <2>3. \A q \in Threads : Owner(q)' => q # r /\ Owner(q) /\ thread'[q] = thread[q]
        BY <1>2, <2>1, <2>2
    <2>4. CASE UNCHANGED <<delivered, again>>
        BY <2>1, <2>3, <2>4, RunInvFrame DEF ledger
    <2>5. CASE /\ s.result = "completed" /\ s.id \notin Attached
               /\ delivered' = delivered \cup {s.key}
               /\ again' = again \cup (delivered \cap {s.key})
        <3>1. Owner(r) /\ s.key \in occurred /\ s.key \notin delivered
            BY <2>1, <2>5 DEF Owner, RunInv
        <3>2. again' = {} /\ ran' \subseteq occurred' /\ delivered' \subseteq occurred'
            BY <2>1, <2>5, <3>1 DEF RunInv
        <3>3. \A q \in Threads : Owner(q)' =>
                /\ thread'[q].key \in occurred' \ delivered'
                /\ thread'[q].pc = "run" => thread'[q].key \notin ran'
            BY <2>1, <2>3, <2>5, <3>1 DEF RunInv
        <3>4. \A p, q \in Threads :
                Owner(p)' /\ Owner(q)' /\ thread'[p].key = thread'[q].key => p = q
            BY <2>3 DEF RunInv
        <3> QED BY <3>2, <3>3, <3>4 DEF RunInv
    <2> QED BY <2>1, <2>4, <2>5
<1> QED BY <1>3, <1>4, <1>5, <1>6, <1>7 DEF RunStep

LEMMA RunInvNext ==
    ASSUME KTypeOK, RunInv, [Next]_vars
    PROVE  RunInv'
<1>1. ASSUME UNCHANGED <<ledger, thread>> PROVE RunInv'
    <2>1. \A r \in Threads : Owner(r)' <=> Owner(r)
        BY <1>1 DEF Owner
    <2> QED BY <1>1, <2>1, RunInvFrame
<1>2. ASSUME NEW id, NEW c, NEW key, NEW by, NEW r \in Threads, UNCHANGED ledger,
             thread' = [thread EXCEPT ![r] = Spawned(id, c, key, by)]
      PROVE  RunInv'
    <2>1. Spawned(id, c, key, by).pc = "begin"
        BY DEF Spawned
    <2> QED BY <1>2, <2>1, NotOwner
<1>3. ASSUME UNCHANGED ledger, \A r \in Threads : thread'[r].pc \in {"idle", "begin"}
      PROVE  RunInv'
    <2>1. \A r \in Threads : ~Owner(r)'
        BY <1>3 DEF Owner
    <2> QED BY <1>3, <2>1, RunInvFrame
<1>4. CASE Start
    <2>1. PICK f : \A r \in Threads : \/ thread'[r] = Free
                                      \/ \E j \in Chosen(f) : thread'[r] = CatchUp(j)
        BY <1>4, StartFacts
    <2>2. UNCHANGED ledger
        BY <1>4 DEF Start
    <2>3. \A r \in Threads : thread'[r].pc \in {"idle", "begin"}
        <3>1. Free.pc = "idle" /\ \A j : CatchUp(j).pc = "begin"
            BY DEF Free, CatchUp, Spawned
        <3> QED BY <2>1, <3>1
    <2> QED BY <1>3, <2>2, <2>3
<1>5. ASSUME NEW t \in Ticks, TickStep(t) PROVE RunInv'
    <2>1. CASE TickCollect(t)
        BY <1>1, <2>1 DEF TickCollect
    <2>2. ASSUME NEW d \in tick[t], NEW tooMany \in BOOLEAN, TickAdvance(t, d, tooMany)
          PROVE  RunInv'
        BY <1>1, <2>2 DEF TickAdvance
    <2>3. ASSUME NEW d \in tick[t], TickSpawn(t, d) PROVE RunInv'
        <3>1. /\ UNCHANGED ledger
              /\ \/ UNCHANGED thread
                 \/ \E r \in Threads : thread' = [thread EXCEPT ![r] =
                        Spawned(d.id, d.job, ScheduledKey(d.id, d.job), "timer")]
            BY <2>3 DEF TickSpawn
        <3> QED BY <1>1, <1>2, <3>1
    <2> QED BY <1>5, <2>1, <2>2, <2>3 DEF TickStep
<1>6. CASE Administer
    <2>1. ASSUME NEW j, NEW key, Trigger(j, key) PROVE RunInv'
        BY <1>2, <2>1 DEF Trigger
    <2>2. ASSUME NEW j, TriggerJob(j) \/ TriggerByName(j) PROVE RunInv'
        BY <2>1, <2>2 DEF TriggerJob, TriggerByName
    <2>3. ASSUME NEW j, NEW x, NEW enabled,
                 ReadForUpdate(j) \/ DeleteJob(j) \/ UpdateJob(x, enabled)
                 \/ WriteRow(j, x, enabled) \/ ReloadRead \/ ReloadInstall
          PROVE  UNCHANGED <<ledger, thread>>
        BY <2>3 DEF ReadForUpdate, DeleteJob, UpdateJob, WriteRow, ReloadRead, ReloadInstall, memory
    <2> QED BY <1>1, <1>6, <2>2, <2>3 DEF Administer
<1>7. CASE Crash
    <2>1. UNCHANGED ledger /\ thread' = [r \in Threads |-> Free]
        BY <1>7 DEF Crash
    <2>2. \A r \in Threads : thread'[r].pc = "idle"
        BY <2>1 DEF Free
    <2> QED BY <1>3, <2>1, <2>2
<1>8. CASE TimePasses \/ UNCHANGED vars
    BY <1>1, <1>8 DEF TimePasses, vars, memory
<1> QED BY <1>4, <1>5, <1>6, <1>7, <1>8, RunInvRun DEF Next

\* One trigger is run at most once and its result handed over at most once,
\* for any number of goroutines, overlapping callbacks, redelivered webhooks
\* and crashes.
THEOREM OneRunPerTrigger == Spec => []AtMostOneRun
<1>1. Init => RunInv
    <2> SUFFICES ASSUME Init PROVE RunInv
        OBVIOUS
    <2>1. \A r \in Threads : thread[r].pc = "idle"
        BY DEF Init, Free
    <2>2. \A r \in Threads : ~Owner(r)
        BY <2>1 DEF Owner
    <2> QED BY <2>2 DEF Init, RunInv
<1>2. RunInv => AtMostOneRun
    BY DEF RunInv, AtMostOneRun
<1> QED BY <1>1, <1>2, RunInvNext, CronTypeCorrect, PTL DEF Spec

-----------------------------------------------------------------------------
(* Nothing revives. *)

StaysOff(f, g) ==
    \A j \in Jobs : /\ ~f[j].on => ~g[j].on
                    /\ f[j].on /\ g[j].on /\ ~f[j].enabled => ~g[j].enabled

\* No step of the timer or of a run revives a deleted job or enables a disabled
\* one, however old the clone is that it works on.
THEOREM NothingRevived == Spec => RunNeverRevives
<1> DEFINE Quiet == UNCHANGED <<up, edit, reload>> /\ (UNCHANGED events \/ UNCHANGED rows)
           Step == Quiet =>
        \A j \in Jobs :
          /\ ~jobs[j].on => ~jobs'[j].on
          /\ ~rows[j].on => ~rows'[j].on
          /\ jobs[j].on /\ jobs'[j].on /\ ~jobs[j].enabled => ~jobs'[j].enabled
          /\ rows[j].on /\ rows'[j].on /\ ~rows[j].enabled => ~rows'[j].enabled
<1>1. ASSUME StaysOff(jobs, jobs'), StaysOff(rows, rows') PROVE Step
    BY <1>1 DEF StaysOff
<1>2. ASSUME KTypeOK, [Next]_vars, Quiet
      PROVE  StaysOff(jobs, jobs') /\ StaysOff(rows, rows')
    <2>0. /\ jobs \in [Jobs -> JobOrNone] /\ rows \in [Jobs -> JobOrNone] /\ events \in Nat
          /\ now \in Nat
        BY <1>2 DEF KTypeOK, JobOrNone
    <2>1. ASSUME UNCHANGED <<jobs, rows>> PROVE StaysOff(jobs, jobs') /\ StaysOff(rows, rows')
        BY <2>1 DEF StaysOff
    <2>2. ASSUME NEW id \in Jobs, NEW c \in Job, NEW disable \in BOOLEAN,
                 jobs' = Merge(id, c, disable)
          PROVE  StaysOff(jobs, jobs')
        BY <2>0, <2>2, MergeFacts DEF StaysOff
    <2>3. ASSUME NEW id \in Jobs, NEW c \in Job, NEW disable \in BOOLEAN,
                 rows' = Persist(id, c, disable)
          PROVE  StaysOff(rows, rows')
        BY <2>0, <2>3, PersistFacts DEF StaysOff
    <2>4. ASSUME NEW table, Store(table) PROVE rows' = table \/ rows' = rows
        BY <2>4 DEF Store
    <2>4a. ASSUME rows' = rows PROVE StaysOff(rows, rows')
        BY <2>4a DEF StaysOff
    <2>5. CASE Start \/ Crash
        BY <1>2, <2>5 DEF Start, Crash
    <2>6. ASSUME NEW t \in Ticks, TickStep(t)
          PROVE  StaysOff(jobs, jobs') /\ StaysOff(rows, rows')
        <3>1. CASE TickCollect(t)
            BY <2>1, <3>1 DEF TickCollect
        <3>2. ASSUME NEW d \in tick[t], NEW tooMany \in BOOLEAN, TickAdvance(t, d, tooMany)
              PROVE  StaysOff(jobs, jobs') /\ StaysOff(rows, rows')
            <4>1. d.id \in Jobs /\ d.job \in Job /\ d.at \in Nat
                BY <1>2 DEF KTypeOK, Clone
            <4>2. Advanced(d.job, d.at) \in Job
                BY <4>1, AdvancedType
            <4>3. /\ jobs' = Merge(d.id, Advanced(d.job, d.at), tooMany)
                  /\ Store(Persist(d.id, Advanced(d.job, d.at), tooMany))
                BY <3>2 DEF TickAdvance, SaveBoth
            <4> QED BY <2>2, <2>3, <2>4, <2>4a, <4>1, <4>2, <4>3
        <3>3. ASSUME NEW d \in tick[t], TickSpawn(t, d) PROVE UNCHANGED <<jobs, rows>>
            BY <3>3 DEF TickSpawn
        <3> QED BY <2>1, <2>6, <3>1, <3>2, <3>3 DEF TickStep
    <2>7. ASSUME NEW r \in Threads, RunStep(r)
          PROVE  StaysOff(jobs, jobs') /\ StaysOff(rows, rows')
        <3> DEFINE s == thread[r]
        <3>0. s.id \in Jobs /\ s.job \in Job
            <4>1. s.pc # "idle"
                BY <2>7 DEF RunStep, Begin, Claim, Execute, Post, Wrap
            <4> QED BY <1>2, <4>1, BusyThread
        <3>1. CASE Begin(r)
            <4>1. [s.job EXCEPT !.running = TRUE] \in Job
                BY <3>0, JobWith
            <4>2. /\ jobs' = Merge(s.id, [s.job EXCEPT !.running = TRUE], FALSE)
                  /\ Store(Persist(s.id, [s.job EXCEPT !.running = TRUE], FALSE))
                BY <3>1 DEF Begin, SaveBoth
            <4> QED BY <2>2, <2>3, <2>4, <2>4a, <3>0, <4>1, <4>2
        <3>2. ASSUME NEW result, Claim(r) \/ Execute(r, result) PROVE UNCHANGED <<jobs, rows>>
            BY <3>2 DEF Claim, Execute
        <3>3. ASSUME NEW disable \in BOOLEAN, NEW retry \in BOOLEAN, Post(r, disable, retry)
              PROVE  StaysOff(jobs, jobs') /\ StaysOff(rows, rows')
            <4> DEFINE c == IF retry THEN [Finished(s) EXCEPT !.next = now + 1] ELSE Finished(s)
            <4>1. Finished(s) \in Job /\ now + 1 \in Nat
                <5>1. Finished(s) \in Job
                    BY <3>0, JobWith DEF Finished
                <5> QED BY <2>0, <5>1
            <4>2. c \in Job
                <5>1. [Finished(s) EXCEPT !.next = now + 1] \in Job
                    BY <4>1, JobWith
                <5> QED BY <4>1, <5>1
            <4>3. jobs' = Merge(s.id, c, disable)
                BY <3>3 DEF Post
            <4>4. rows' = Persist(s.id, c, disable) \/ rows' = rows
                BY <2>4, <3>3 DEF Post
            <4> HIDE DEF c
            <4>5. CASE rows' = rows
                BY <2>2, <3>0, <4>2, <4>3, <4>5 DEF StaysOff
            <4>6. CASE rows' = Persist(s.id, c, disable)
                BY <2>2, <2>3, <3>0, <4>2, <4>3, <4>6
            <4> QED BY <4>4, <4>5, <4>6
        <3>4. ASSUME NEW spent \in BOOLEAN, Wrap(r, spent)
              PROVE  StaysOff(jobs, jobs') /\ StaysOff(rows, rows')
            <4> DEFINE disable == s.job.sched.kind = "at" \/ spent
            <4>1. \/ jobs' = [jobs EXCEPT ![s.id] = NoJob] /\ Store([rows EXCEPT ![s.id] = NoJob])
                  \/ jobs' = Merge(s.id, s.job, disable) /\ Store(Persist(s.id, s.job, disable))
                BY <3>4 DEF Wrap, SaveBoth
            <4>2. disable \in BOOLEAN
                OBVIOUS
            <4> HIDE DEF disable
            <4>3. CASE jobs' = Merge(s.id, s.job, disable) /\ Store(Persist(s.id, s.job, disable))
                BY <2>2, <2>3, <2>4, <2>4a, <3>0, <4>2, <4>3
            <4>4. CASE jobs' = [jobs EXCEPT ![s.id] = NoJob] /\ Store([rows EXCEPT ![s.id] = NoJob])
                <5>1. ~NoJob.on
                    BY DEF NoJob
                <5>2. rows' = [rows EXCEPT ![s.id] = NoJob] \/ rows' = rows
                    BY <2>4, <4>4
                <5> QED BY <2>0, <4>4, <5>1, <5>2 DEF StaysOff
            <4> QED BY <4>1, <4>3, <4>4
        <3> QED BY <2>1, <2>7, <3>1, <3>2, <3>3, <3>4 DEF RunStep
    <2>8. CASE Administer
        <3>0. events' = events + 1 => UNCHANGED rows
            BY <1>2, <2>0
        <3>1. ASSUME NEW j, NEW x, NEW enabled,
                     TriggerJob(j) \/ TriggerByName(j) \/ WriteRow(j, x, enabled)
              PROVE  UNCHANGED <<jobs, rows>>
            BY <3>0, <3>1 DEF TriggerJob, TriggerByName, Trigger, WriteRow, Event, memory
        <3>1a. ASSUME NEW j, DeleteJob(j) PROVE FALSE
            <4>1. rows[j].on /\ rows' = rows /\ rows' = [rows EXCEPT ![j] = NoJob]
                BY <3>0, <3>1a DEF DeleteJob, Event
            <4> QED BY <2>0, <4>1 DEF NoJob
        <3>1b. ASSUME NEW x, NEW enabled, UpdateJob(x, enabled) \/ ReloadRead PROVE FALSE
            BY <1>2, <3>1b DEF UpdateJob, ReloadRead, NoEdit
        <3>2. ASSUME NEW j, ReadForUpdate(j) PROVE FALSE
            <4>1. ~edit.on /\ edit'.on
                BY <3>2 DEF ReadForUpdate
            <4> QED BY <1>2, <4>1
        <3>3. CASE ReloadInstall
            <4>1. reload.on /\ ~reload'.on
                BY <3>3 DEF ReloadInstall, NoReload
            <4> QED BY <1>2, <4>1
        <3> QED BY <2>1, <2>8, <3>1, <3>1a, <3>1b, <3>2, <3>3 DEF Administer
    <2>9. CASE TimePasses \/ UNCHANGED vars
        BY <2>1, <2>9 DEF TimePasses, vars, memory
    <2> QED BY <1>2, <2>5, <2>6, <2>7, <2>8, <2>9 DEF Next
<1>3. ASSUME KTypeOK, [Next]_vars PROVE [Step]_vars
    BY <1>1, <1>2, <1>3
<1>4. Spec => [][Step]_vars
    BY <1>3, CronTypeCorrect, PTL DEF Spec
<1> QED BY <1>4 DEF RunNeverRevives
=============================================================================
