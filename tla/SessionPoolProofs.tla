------------------------- MODULE SessionPoolProofs -------------------------
(***************************************************************************)
(* What holds of the session manager and its pool for every number of      *)
(* sessions, users, workspaces, workers and goroutines, any limits and any *)
(* number of deletions and reloads.                                        *)
(***************************************************************************)
EXTENDS SessionPool, FiniteSetTheorems, TLAPS

-----------------------------------------------------------------------------
(* Types. *)

PoolType == [total: Nat, user: [Users -> Nat], wksp: [Workspaces -> Nat], mem: [Users -> Nat]]

LEMMA CallIdle ==
  /\ Idle \in Call
  /\ \A s \in Sessions, at \in Positions : [Idle EXCEPT !.at = at, !.s = s] \in Call
<1>1. "idle" \in Positions /\ "none" \in States \cup {"none"}
  BY DEF Positions
<1>2. Idle \in Call
  BY <1>1, Zenon DEF Idle, Call
<1>3. ASSUME NEW s \in Sessions, NEW at \in Positions
      PROVE  [Idle EXCEPT !.at = at, !.s = s] \in Call
  <2>1. [Idle EXCEPT !.at = at] \in Call
    BY <1>2, Zenon DEF Call
  <2>2. [[Idle EXCEPT !.at = at] EXCEPT !.s = s] \in Call
    BY <2>1, Zenon DEF Call
  <2> QED BY <2>2, Zenon DEF Idle
<1> QED BY <1>2, <1>3, Zenon

LEMMA ObjectTypes ==
  /\ Unused \in Object
  /\ \A s \in Sessions \cup {NoSession}, st \in States \cup {"none"} : Loaded(s, st) \in Object
  /\ \A s \in Sessions \cup {NoSession} : Tombstone(s) \in Object
BY DEF Unused, Loaded, Tombstone, Object, States, Active

LEMMA PoolTypes ==
  ASSUME STypeOK, NEW s \in Sessions
  PROVE  Acquired(s) \in PoolType /\ Released(s) \in PoolType
<1>1. /\ pool.total \in Nat /\ pool.user \in [Users -> Nat]
      /\ pool.wksp \in [Workspaces -> Nat] /\ pool.mem \in [Users -> Nat]
      /\ pool = [total |-> pool.total, user |-> pool.user, wksp |-> pool.wksp, mem |-> pool.mem]
  BY DEF STypeOK
<1>2. UserOf[s] \in Users /\ HomeOf[s] \in Workspaces \cup {NoWorkspace}
  BY PoolAssumption
<1>3. ASSUME NEW X, NEW f \in [X -> Nat], NEW k \in X
      PROVE  More(f, k) \in [X -> Nat] /\ Less(f, k) \in [X -> Nat]
  BY DEF More, Less
<1>4. Acquired(s) \in PoolType
  <2>1. More(pool.user, UserOf[s]) \in [Users -> Nat] /\ More(pool.mem, UserOf[s]) \in [Users -> Nat]
    BY <1>1, <1>2, <1>3
  <2>2. HomeOf[s] # NoWorkspace => More(pool.wksp, HomeOf[s]) \in [Workspaces -> Nat]
    BY <1>1, <1>2, <1>3
  <2> QED BY <1>1, <2>1, <2>2 DEF Acquired, PoolType
<1>5. Released(s) \in PoolType
  <2> DEFINE mem == Less(pool.mem, UserOf[s])
  <2>1. Less(pool.user, UserOf[s]) \in [Users -> Nat] /\ mem \in [Users -> Nat]
    BY <1>1, <1>2, <1>3
  <2>2. HomeOf[s] # NoWorkspace => Less(pool.wksp, HomeOf[s]) \in [Workspaces -> Nat]
    BY <1>1, <1>2, <1>3
  <2>3. CASE pool.user[UserOf[s]] = 0 \/ pool.total = 0
    <3>1. Released(s) = [pool EXCEPT !.mem = mem]
      BY <2>3 DEF Released
    <3> HIDE DEF mem
    <3> QED BY <1>1, <2>1, <3>1 DEF PoolType
  <2>4. CASE ~(pool.user[UserOf[s]] = 0 \/ pool.total = 0)
    <3>1. Released(s) =
            [total |-> pool.total - 1, user |-> Less(pool.user, UserOf[s]),
             wksp |-> IF HomeOf[s] = NoWorkspace THEN pool.wksp ELSE Less(pool.wksp, HomeOf[s]),
             mem |-> mem]
      BY <2>4 DEF Released
    <3>2. pool.total - 1 \in Nat
      BY <1>1, <2>4
    <3> HIDE DEF mem
    <3> QED BY <1>1, <2>1, <2>2, <3>1, <3>2 DEF PoolType
  <2> QED BY <2>3, <2>4
<1> QED BY <1>4, <1>5

LEMMA STypeInit == Init => STypeOK
<1> SUFFICES ASSUME Init PROVE STypeOK
  OBVIOUS
<1>1. op \in [Procs -> Call] /\ ms \in [Objects -> Object]
  BY CallIdle, ObjectTypes DEF Init
<1>2. pool \in PoolType
  BY DEF Init, PoolType
<1> QED BY <1>1, <1>2, PoolAssumption DEF Init, STypeOK, PoolType, States

-----------------------------------------------------------------------------
(* Who holds what.  A goroutine in the middle of a call names a session and, *)
(* where it needs one, an object of that session; so does the map.          *)

Deleting == {"loaddeleted", "markdeleted", "dropdeleted", "physical", "uncache", "retire", "retired"}
Holding == {"transition", "input", "detach", "upsert", "commit", "update"} \cup Deleting

GoodCall(b, m) ==
  /\ b \in Call
  /\ b.at # "idle" => b.s \in Sessions
  /\ b.at \in Holding => b.o \in Objects
  /\ b.o # NoObject => m[b.o].s = b.s
  /\ b.at = "load" => b.then \in {"idle", "transition", "input", "detach"} /\ b.o = NoObject

SInv ==
  /\ STypeOK
  /\ \A p \in Procs : GoodCall(op[p], ms)
  /\ \A s \in Sessions : cache[s] # NoObject => ms[cache[s]].s = s

LEMMA SInvTypes ==
  ASSUME SInv
  PROVE  /\ row \in [Sessions -> States \cup {"none"}] /\ pending \in [Sessions -> BOOLEAN]
         /\ cache \in [Sessions -> Objects \cup {NoObject}] /\ ms \in [Objects -> Object]
         /\ op \in [Procs -> Call] /\ pool \in PoolType /\ ended \subseteq Workers
         /\ limits \in Limits /\ reloads \in 0..MaxReloads /\ deletes \in 0..MaxDeletes
BY DEF SInv, STypeOK, PoolType

LEMMA HeldCall ==
  ASSUME SInv, NEW p \in Procs
  PROVE  /\ op[p] \in Call
         /\ op[p].at # "idle" => op[p].s \in Sessions
         /\ op[p].at \in Holding => /\ op[p].o \in Objects /\ op[p].s \in Sessions
                                    /\ ms[op[p].o].s = op[p].s
         /\ op[p].at = "load" => /\ op[p].then \in {"idle", "transition", "input", "detach"}
                                 /\ op[p].o = NoObject
<1>1. GoodCall(op[p], ms)
  BY DEF SInv
<1>2. op[p].at \in Holding => op[p].at # "idle"
  BY DEF Holding, Deleting
<1> QED BY <1>1, <1>2, PoolAssumption DEF GoodCall

LEMMA FreeFacts ==
  ASSUME NEW o \in Free
  PROVE  /\ o \in Objects /\ o # NoObject /\ ~Holds(o)
         /\ \A s \in Sessions : cache[s] # o
         /\ \A p \in Procs : op[p].o # o
BY PoolAssumption DEF Free

\* A step of one goroutine.
LEMMA SInvStep ==
  ASSUME SInv, NEW p \in Procs, NEW b, op' = [op EXCEPT ![p] = b], GoodCall(b, ms'),
         row' \in [Sessions -> States \cup {"none"}], pending' \in [Sessions -> BOOLEAN],
         cache' \in [Sessions -> Objects \cup {NoObject}], ms' \in [Objects -> Object],
         pool' \in PoolType, ended' \subseteq Workers,
         limits' \in Limits, reloads' \in 0..MaxReloads, deletes' \in 0..MaxDeletes,
         \A q \in Procs : op[q].o # NoObject => ms'[op[q].o].s = ms[op[q].o].s,
         \A s \in Sessions : cache'[s] # NoObject => ms'[cache'[s]].s = s
  PROVE  SInv'
<1>1. b \in Call
  BY DEF GoodCall
<1>2. op' \in [Procs -> Call]
  BY <1>1, SInvTypes
<1>3. STypeOK'
  BY <1>2 DEF STypeOK, PoolType
<1>4. ASSUME NEW q \in Procs PROVE GoodCall(op'[q], ms')
  <2>1. CASE q = p
    BY <2>1, SInvTypes
  <2>2. CASE q # p
    <3>1. op'[q] = op[q] /\ GoodCall(op[q], ms)
      BY <2>2, SInvTypes DEF SInv
    <3> QED BY <3>1 DEF GoodCall
  <2> QED BY <2>1, <2>2
<1> QED BY <1>3, <1>4 DEF SInv

\* It changes the row only, or not even that.
LEMMA SInvCall ==
  ASSUME SInv, NEW p \in Procs, NEW b, op' = [op EXCEPT ![p] = b], GoodCall(b, ms),
         row' \in [Sessions -> States \cup {"none"}], pending' \in [Sessions -> BOOLEAN],
         pool' \in PoolType, UNCHANGED <<cache, ms, ended, limits, reloads, deletes>>
  PROVE  SInv'
<1>1. \A s \in Sessions : cache[s] # NoObject => ms[cache[s]].s = s
  BY DEF SInv
<1> QED BY <1>1, SInvTypes, SInvStep

\* It changes an object of its session.
LEMMA SInvObject ==
  ASSUME SInv, NEW p \in Procs, NEW b, op' = [op EXCEPT ![p] = b], GoodCall(b, ms'),
         NEW o \in Objects, NEW m \in Object, m.s = ms[o].s, ms' = [ms EXCEPT ![o] = m],
         UNCHANGED <<row, pending, limits, reloads>>, deletes' \in 0..MaxDeletes,
         cache' \in [Sessions -> Objects \cup {NoObject}],
         \A s \in Sessions : cache'[s] \in {cache[s], NoObject},
         pool' \in PoolType, ended' \subseteq Workers
  PROVE  SInv'
<1>1. ms' \in [Objects -> Object] /\ \A x \in Objects : ms'[x].s = ms[x].s
  BY SInvTypes
<1>2. \A q \in Procs : op[q].o # NoObject => op[q].o \in Objects
  BY SInvTypes DEF Call
<1>3. \A s \in Sessions : cache'[s] # NoObject => cache'[s] = cache[s] /\ cache[s] \in Objects
  BY SInvTypes
<1>4. \A s \in Sessions : cache[s] # NoObject => ms[cache[s]].s = s
  BY DEF SInv
<1>5. \A s \in Sessions : cache'[s] # NoObject => ms'[cache'[s]].s = s
  BY <1>1, <1>3, <1>4
<1>6. \A q \in Procs : op[q].o # NoObject => ms'[op[q].o].s = ms[op[q].o].s
  BY <1>1, <1>2
<1>7. /\ row' \in [Sessions -> States \cup {"none"}] /\ pending' \in [Sessions -> BOOLEAN]
      /\ limits' \in Limits /\ reloads' \in 0..MaxReloads
  BY SInvTypes
<1> QED BY <1>1, <1>5, <1>6, <1>7, SInvStep

\* It puts a new object into the map.
LEMMA SInvNew ==
  ASSUME SInv, NEW p \in Procs, NEW b, op' = [op EXCEPT ![p] = b], GoodCall(b, ms'),
         NEW o \in Free, NEW m \in Object, NEW s \in Sessions, m.s = s,
         ms' = [ms EXCEPT ![o] = m], cache' = [cache EXCEPT ![s] = o],
         UNCHANGED <<row, pending, pool, ended, limits, reloads>>, deletes' \in 0..MaxDeletes
  PROVE  SInv'
<1>1. o \in Objects /\ o # NoObject /\ (\A q \in Procs : op[q].o # o)
      /\ \A x \in Sessions : cache[x] # o
  BY FreeFacts
<1>2. ms' \in [Objects -> Object] /\ cache' \in [Sessions -> Objects \cup {NoObject}]
      /\ ms'[o].s = s /\ \A x \in Objects \ {o} : ms'[x] = ms[x]
  BY <1>1, SInvTypes
<1>3. \A q \in Procs : op[q].o # NoObject => ms'[op[q].o].s = ms[op[q].o].s
  BY <1>1, <1>2, SInvTypes DEF Call
<1>4. ASSUME NEW x \in Sessions, cache'[x] # NoObject PROVE ms'[cache'[x]].s = x
  <2>1. CASE x = s
    BY <1>2, <2>1, SInvTypes
  <2>2. CASE x # s
    <3>1. cache'[x] = cache[x] /\ cache[x] \in Objects \ {o}
      BY <1>1, <1>4, <2>2, SInvTypes
    <3>2. ms[cache[x]].s = x
      BY <1>4, <3>1 DEF SInv
    <3> QED BY <1>2, <3>1, <3>2
  <2> QED BY <2>1, <2>2
<1>5. /\ row' \in [Sessions -> States \cup {"none"}] /\ pending' \in [Sessions -> BOOLEAN]
      /\ limits' \in Limits /\ reloads' \in 0..MaxReloads /\ pool' \in PoolType
      /\ ended' \subseteq Workers
  BY SInvTypes
<1> QED BY <1>2, <1>3, <1>4, <1>5, SInvStep

\* The calls the actions make.
LEMMA GoodIdle == \A m : GoodCall(Idle, m)
BY CallIdle DEF GoodCall, Idle, Holding, Deleting

LEMMA GoodStart ==
  ASSUME NEW m, NEW s \in Sessions, NEW at \in Positions \ Holding, at # "load",
         NEW w \in Workers \cup {NoWorker}
  PROVE  /\ GoodCall([Idle EXCEPT !.at = at, !.s = s], m)
         /\ GoodCall([Idle EXCEPT !.at = at, !.s = s, !.w = w], m)
<1> DEFINE a == [Idle EXCEPT !.at = at, !.s = s]
           b == [Idle EXCEPT !.at = at, !.s = s, !.w = w]
<1>1. Idle \in Call /\ Idle.o = NoObject
  BY CallIdle DEF Idle
<1>2. a \in Call
  BY <1>1 DEF Call
<1>2a. b \in Call
  BY <1>1 DEF Call
<1>3. a.at = at /\ a.s = s /\ a.o = NoObject /\ b.at = at /\ b.s = s /\ b.o = NoObject
  BY <1>1 DEF Call
<1> HIDE DEF a, b
<1>4. GoodCall(a, m) /\ GoodCall(b, m)
  BY <1>2, <1>2a, <1>3 DEF GoodCall
<1> QED BY <1>4 DEF a, b

\* A call that goes on with what it holds.
LEMMA GoodNext ==
  ASSUME NEW m, NEW c \in Call, NEW b \in Call, GoodCall(c, m), c.at # "idle", c.at # "load",
         b.s = c.s, b.o = c.o, b.at # "load", b.at \in Holding => c.o \in Objects
  PROVE  GoodCall(b, m)
BY DEF GoodCall

LEMMA EndWorkerTypes ==
  ASSUME SInv, NEW o \in Objects, ms[o].s \in Sessions, EndWorker(o)
  PROVE  /\ \E m \in Object : m.s = ms[o].s /\ ms' = [ms EXCEPT ![o] = m]
         /\ pool' \in PoolType /\ ended' \subseteq Workers
         /\ \A x \in Objects : ms'[x].s = ms[x].s
<1> DEFINE m == [ms[o] EXCEPT !.state = "terminated", !.worker = NoWorker]
<1>1. ms[o] \in Object /\ ms[o].worker \in Workers \cup {NoWorker}
  BY SInvTypes DEF Object
<1>2. m \in Object /\ m.s = ms[o].s
  BY <1>1 DEF Object, States, Active
<1>3. ms' = [ms EXCEPT ![o] = m]
  BY SInvTypes DEF EndWorker
<1>4. Released(ms[o].s) \in PoolType
  BY PoolTypes DEF SInv
<1>5. pool' \in PoolType
  BY <1>4, SInvTypes DEF EndWorker, ReleaseIfAttached
<1>6. ended' \subseteq Workers
  BY <1>1, SInvTypes DEF EndWorker
<1> HIDE DEF m
<1>7. \A x \in Objects : ms'[x].s = ms[x].s
  BY <1>2, <1>3, SInvTypes
<1> QED BY <1>2, <1>3, <1>5, <1>6, <1>7

-----------------------------------------------------------------------------
(* Finding, creating and changing sessions keeps this. *)

LEMMA SInvLookup ==
  ASSUME SInv, NEW p \in Procs, NEW s \in Sessions, NEW call \in Call, Lookup(p, s, call),
         call.o = NoObject, call.then \in {"idle", "transition", "input", "detach"},
         call.then = "idle" => cache[s] = NoObject
  PROVE  SInv'
<1>0. UNCHANGED <<row, pending, cache, ms, pool, limits, reloads, deletes, ended>>
  BY DEF Lookup
<1>0a. row' \in [Sessions -> States \cup {"none"}] /\ pending' \in [Sessions -> BOOLEAN]
       /\ pool' \in PoolType
  BY <1>0, SInvTypes
<1>1. CASE cache[s] # NoObject
  <2> DEFINE b == [call EXCEPT !.at = call.then, !.then = "idle", !.s = s, !.o = cache[s]]
  <2>1. op' = [op EXCEPT ![p] = b]
    BY <1>1 DEF Lookup, GoTo
  <2>2. cache[s] \in Objects /\ ms[cache[s]].s = s
    BY <1>1, SInvTypes DEF SInv
  <2>3. b \in Call
    BY <2>2 DEF Call, Positions
  <2>4. b.at = call.then /\ b.s = s /\ b.o = cache[s]
    BY DEF Call
  <2> HIDE DEF b
  <2>5. GoodCall(b, ms)
    BY <1>1, <2>2, <2>3, <2>4 DEF GoodCall
  <2> QED BY <1>0, <1>0a, <2>1, <2>5, SInvCall
<1>2. CASE cache[s] = NoObject
  <2> DEFINE b == [call EXCEPT !.at = "load", !.s = s, !.st = row[s]]
  <2>1. op' = [op EXCEPT ![p] = b]
    BY <1>2 DEF Lookup, GoTo
  <2>2. row[s] \in States \cup {"none"}
    BY SInvTypes
  <2>3. b \in Call /\ b.at = "load" /\ b.then = call.then /\ b.s = s /\ b.o = NoObject
    BY <2>2 DEF Call, Positions
  <2> HIDE DEF b
  <2>4. GoodCall(b, ms)
    BY <2>3 DEF GoodCall, Holding, Deleting
  <2> QED BY <1>0, <1>0a, <2>1, <2>4, SInvCall
<1> QED BY <1>1, <1>2

LEMMA SInvStarts ==
  ASSUME SInv, NEW p \in Procs, NEW s \in Sessions,
         \/ \E to \in {"running", "idle", "terminated"} : StartTransition(p, s, to)
         \/ StartInput(p, s)
         \/ \E w \in Workers \cup {NoWorker} : StartDetach(p, s, w)
         \/ Get(p, s)
  PROVE  SInv'
<1>0. Idle \in Call /\ Idle.o = NoObject /\ Idle.then = "idle"
  BY CallIdle DEF Idle
<1>1. ASSUME NEW to \in {"running", "idle", "terminated"}, StartTransition(p, s, to) PROVE SInv'
  <2> DEFINE b == [Idle EXCEPT !.then = "transition", !.to = to]
  <2>0. "transition" \in Positions /\ to \in States \cup {"none"}
    BY DEF Positions, States, Active
  <2>1. b \in Call /\ b.o = NoObject /\ b.then = "transition"
    BY <1>0, <2>0 DEF Call
  <2> HIDE DEF b
  <2>2. Lookup(p, s, b)
    BY <1>1 DEF StartTransition, b
  <2> QED BY <2>1, <2>2, SInvLookup
<1>2. ASSUME StartInput(p, s) PROVE SInv'
  <2> DEFINE b == [Idle EXCEPT !.then = "input", !.to = "running"]
  <2>1. b \in Call /\ b.o = NoObject /\ b.then = "input"
    BY <1>0 DEF Call, Positions, States, Active
  <2> HIDE DEF b
  <2>2. Lookup(p, s, b)
    BY <1>2 DEF StartInput, b
  <2> QED BY <2>1, <2>2, SInvLookup
<1>3. ASSUME NEW w \in Workers \cup {NoWorker}, StartDetach(p, s, w) PROVE SInv'
  <2> DEFINE b == [Idle EXCEPT !.then = "detach", !.w = w]
  <2>1. b \in Call /\ b.o = NoObject /\ b.then = "detach"
    BY <1>0 DEF Call, Positions
  <2> HIDE DEF b
  <2>2. Lookup(p, s, b)
    BY <1>3 DEF StartDetach, b
  <2> QED BY <2>1, <2>2, SInvLookup
<1>4. ASSUME Get(p, s) PROVE SInv'
  BY <1>0, <1>4, SInvLookup DEF Get
<1> QED BY <1>1, <1>2, <1>3, <1>4

LEMMA SInvFind ==
  ASSUME SInv, NEW p \in Procs,
         Install(p) \/ CreateInstall(p) \/ FinishUpdate(p)
  PROVE  SInv'
<1> DEFINE c == op[p]
<1>0. c \in Call /\ GoodCall(c, ms)
  BY SInvTypes DEF SInv
<1>1. CASE Install(p)
  <2> DEFINE next(o) == IF c.then = "idle" THEN Idle
                        ELSE [c EXCEPT !.at = c.then, !.then = "idle", !.o = o, !.st = "none"]
  <2>0. /\ c.s \in Sessions /\ c.o = NoObject /\ c.at = "load"
        /\ c.then \in {"idle", "transition", "input", "detach"}
    BY <1>1, HeldCall DEF Install, At
  <2>1. ASSUME NEW o \in Objects, NEW m, m[o].s = c.s PROVE GoodCall(next(o), m)
    <3>1. CASE c.then = "idle"
      BY <3>1, GoodIdle
    <3>2. CASE c.then # "idle"
      <4> DEFINE b == [c EXCEPT !.at = c.then, !.then = "idle", !.o = o, !.st = "none"]
      <4>1. b \in Call /\ b.at = c.then /\ b.s = c.s /\ b.o = o
        BY <1>0, <2>0 DEF Call, Positions
      <4>2. next(o) = b
        BY <3>2
      <4> HIDE DEF b, next
      <4> QED BY <2>0, <2>1, <4>1, <4>2 DEF GoodCall
    <3> QED BY <3>1, <3>2
  <2>2. CASE cache[c.s] # NoObject /\ GoTo(p, next(cache[c.s])) /\ UNCHANGED <<cache, ms>>
    <3>1. cache[c.s] \in Objects /\ ms[cache[c.s]].s = c.s
      BY <2>0, <2>2, SInvTypes DEF SInv
    <3>2. GoodCall(next(cache[c.s]), ms)
      BY <2>1, <3>1
    <3>3. UNCHANGED <<row, pending, pool, limits, reloads, deletes, ended>>
      BY <1>1 DEF Install
    <3> HIDE DEF next
    <3> QED BY <2>2, <3>2, <3>3, SInvTypes, SInvCall DEF GoTo
  <2>3. ASSUME NEW o \in Free, cache[c.s] = NoObject, cache' = [cache EXCEPT ![c.s] = o],
               ms' = [ms EXCEPT ![o] = Loaded(c.s, c.st)], GoTo(p, next(o))
        PROVE  SInv'
    <3>1. o \in Objects /\ c.st \in States \cup {"none"}
      BY <1>0, FreeFacts DEF Call
    <3>2. Loaded(c.s, c.st) \in Object /\ Loaded(c.s, c.st).s = c.s
      BY <2>0, <3>1, ObjectTypes DEF Loaded, Unused
    <3>3. ms'[o].s = c.s
      BY <2>3, <3>1, <3>2, SInvTypes
    <3>4. GoodCall(next(o), ms')
      BY <2>1, <3>1, <3>3
    <3>5. UNCHANGED <<row, pending, pool, ended, limits, reloads, deletes>>
      BY <1>1 DEF Install
    <3> HIDE DEF next
    <3> QED BY <2>0, <2>3, <3>2, <3>4, <3>5, SInvTypes, SInvNew DEF GoTo
  <2> QED BY <1>1, <2>2, <2>3 DEF Install
<1>2. CASE CreateInstall(p)
  <2>0. c.s \in Sessions
    BY <1>2, HeldCall DEF CreateInstall, At
  <2>1. PICK o \in Free : cache' = [cache EXCEPT ![c.s] = o] /\ ms' = [ms EXCEPT ![o] = Loaded(c.s, "created")]
    BY <1>2 DEF CreateInstall
  <2>2. Loaded(c.s, "created") \in Object /\ Loaded(c.s, "created").s = c.s
    BY <2>0, ObjectTypes DEF Loaded, Unused, States, Active
  <2>3. /\ op' = [op EXCEPT ![p] = Idle] /\ GoodCall(Idle, ms')
        /\ UNCHANGED <<row, pending, pool, ended, limits, reloads, deletes>>
    BY <1>2, GoodIdle DEF CreateInstall, GoTo
  <2> QED BY <2>0, <2>1, <2>2, <2>3, SInvTypes, SInvNew
<1>3. CASE FinishUpdate(p)
  <2>1. /\ op' = [op EXCEPT ![p] = Idle] /\ GoodCall(Idle, ms)
        /\ UNCHANGED <<pending, cache, ms, pool, limits, reloads, deletes, ended>>
    BY <1>3, GoodIdle DEF FinishUpdate, GoTo
  <2>2. row' \in [Sessions -> States \cup {"none"}]
    BY <1>0, <1>3, SInvTypes DEF FinishUpdate, Upsert, Call
  <2> QED BY <2>1, <2>2, SInvTypes, SInvCall
<1> QED BY <1>1, <1>2, <1>3

LEMMA SInvCreate ==
  ASSUME SInv, NEW p \in Procs, NEW s \in Sessions, CreateUpsert(p, s) \/ UpdateSession(p, s)
  PROVE  SInv'
<1>1. CASE CreateUpsert(p, s)
  <2>1. /\ op' = [op EXCEPT ![p] = [Idle EXCEPT !.at = "install", !.s = s]]
        /\ UNCHANGED <<pending, cache, ms, pool, limits, reloads, deletes, ended>>
    BY <1>1 DEF CreateUpsert, GoTo
  <2>2. "install" \in Positions \ Holding
    BY DEF Positions, Holding, Deleting
  <2>3. GoodCall([Idle EXCEPT !.at = "install", !.s = s], ms)
    BY <2>2, GoodStart
  <2>4. row' \in [Sessions -> States \cup {"none"}]
    BY <1>1, SInvTypes DEF CreateUpsert, Upsert, States, Active
  <2> QED BY <2>1, <2>3, <2>4, SInvTypes, SInvCall
<1>2. CASE UpdateSession(p, s)
  <2> DEFINE o == cache[s]
             b == [Idle EXCEPT !.at = "update", !.s = s, !.o = o, !.st = ms[o].state]
  <2>1. /\ op' = [op EXCEPT ![p] = b] /\ o # NoObject
        /\ UNCHANGED <<row, pending, cache, ms, pool, limits, reloads, deletes, ended>>
    BY <1>2 DEF UpdateSession, GoTo
  <2>2. o \in Objects /\ ms[o].s = s /\ ms[o].state \in States \cup {"none"}
    <3>1. o \in Objects /\ ms[o].s = s
      BY <2>1, SInvTypes DEF SInv
    <3> QED BY <3>1, SInvTypes DEF Object
  <2>2a. "update" \in Positions /\ Idle \in Call
    BY CallIdle DEF Positions
  <2>3. b \in Call /\ b.at = "update" /\ b.s = s /\ b.o = o
    <3> HIDE DEF o
    <3> QED BY <2>2, <2>2a DEF Call
  <2> HIDE DEF b
  <2>4. GoodCall(b, ms)
    BY <2>2, <2>3 DEF GoodCall
  <2> QED BY <2>1, <2>4, SInvTypes, SInvCall
<1> QED BY <1>1, <1>2

-----------------------------------------------------------------------------
(* So do transitions, attaching and detaching. *)

LEMMA GoodAt ==
  ASSUME SInv, NEW p \in Procs, op[p].at \notin {"idle", "load"}, NEW at \in Positions,
         at # "load", at \in Holding => op[p].at \in Holding,
         NEW w \in Workers \cup {NoWorker}, NEW st \in States \cup {"none"},
         NEW to \in States \cup {"none"}, NEW flag \in BOOLEAN
  PROVE  /\ GoodCall([op[p] EXCEPT !.at = at], ms)
         /\ GoodCall([op[p] EXCEPT !.at = at, !.w = w], ms)
         /\ GoodCall([op[p] EXCEPT !.at = at, !.st = st], ms)
         /\ GoodCall([op[p] EXCEPT !.at = at, !.to = to, !.flag = flag], ms)
<1>0. op[p] \in Call /\ GoodCall(op[p], ms) /\ (at \in Holding => op[p].o \in Objects)
  BY HeldCall DEF SInv
<1>1. ASSUME NEW b \in Call, b.at = at, b.s = op[p].s, b.o = op[p].o PROVE GoodCall(b, ms)
  BY <1>0, <1>1, GoodNext
<1>2. GoodCall([op[p] EXCEPT !.at = at], ms)
  <2> DEFINE b == [op[p] EXCEPT !.at = at]
  <2>1. b \in Call /\ b.at = at /\ b.s = op[p].s /\ b.o = op[p].o
    BY <1>0 DEF Call
  <2> HIDE DEF b
  <2>2. GoodCall(b, ms)
    BY <1>1, <2>1
  <2> QED BY <2>2 DEF b
<1>3. GoodCall([op[p] EXCEPT !.at = at, !.w = w], ms)
  <2> DEFINE b == [op[p] EXCEPT !.at = at, !.w = w]
  <2>1. b \in Call /\ b.at = at /\ b.s = op[p].s /\ b.o = op[p].o
    BY <1>0 DEF Call
  <2> HIDE DEF b
  <2>2. GoodCall(b, ms)
    BY <1>1, <2>1
  <2> QED BY <2>2 DEF b
<1>4. GoodCall([op[p] EXCEPT !.at = at, !.st = st], ms)
  <2> DEFINE b == [op[p] EXCEPT !.at = at, !.st = st]
  <2>1. b \in Call /\ b.at = at /\ b.s = op[p].s /\ b.o = op[p].o
    BY <1>0 DEF Call
  <2> HIDE DEF b
  <2>2. GoodCall(b, ms)
    BY <1>1, <2>1
  <2> QED BY <2>2 DEF b
<1>5. GoodCall([op[p] EXCEPT !.at = at, !.to = to, !.flag = flag], ms)
  <2> DEFINE b == [op[p] EXCEPT !.at = at, !.to = to, !.flag = flag]
  <2>1. b \in Call /\ b.at = at /\ b.s = op[p].s /\ b.o = op[p].o
    BY <1>0 DEF Call
  <2> HIDE DEF b
  <2>2. GoodCall(b, ms)
    BY <1>1, <2>1
  <2> QED BY <2>2 DEF b
<1> QED BY <1>2, <1>3, <1>4, <1>5

\* A goroutine that ends a worker and its call.
LEMMA SInvEndWorker ==
  ASSUME SInv, NEW p \in Procs, op[p].at \in Holding, EndWorker(op[p].o), GoTo(p, Idle),
         UNCHANGED <<row, pending, cache, limits, reloads, deletes>>
  PROVE  SInv'
<1>1. op[p].o \in Objects /\ ms[op[p].o].s \in Sessions
  BY HeldCall
<1>2. /\ \E m \in Object : m.s = ms[op[p].o].s /\ ms' = [ms EXCEPT ![op[p].o] = m]
      /\ pool' \in PoolType /\ ended' \subseteq Workers
  BY <1>1, EndWorkerTypes
<1>3. PICK m \in Object : m.s = ms[op[p].o].s /\ ms' = [ms EXCEPT ![op[p].o] = m]
  BY <1>2
<1>4. op' = [op EXCEPT ![p] = Idle] /\ GoodCall(Idle, ms')
  BY GoodIdle DEF GoTo
<1>5. /\ cache' \in [Sessions -> Objects \cup {NoObject}] /\ deletes' \in 0..MaxDeletes
      /\ \A s \in Sessions : cache'[s] \in {cache[s], NoObject}
  BY SInvTypes
<1> QED BY <1>1, <1>2, <1>3, <1>4, <1>5, SInvObject

LEMMA SInvTransition ==
  ASSUME SInv, NEW p \in Procs,
         TransitionBegin(p) \/ InputBegin(p) \/ TransitionUpsert(p) \/ TransitionCommit(p)
  PROVE  SInv'
<1> DEFINE c == op[p]
<1>0. "upsert" \in Positions /\ "commit" \in Positions /\ "terminated" \in States \cup {"none"}
      /\ {"transition", "input", "upsert", "commit"} \subseteq Holding
  BY DEF Positions, States, Holding
<1>0a. c \in Call /\ c.to \in States \cup {"none"}
  BY SInvTypes DEF Call
<1>0b. GoodCall(Idle, ms)
  BY GoodIdle
<1>1. CASE TransitionBegin(p)
  <2>1. c.at = "transition" /\ UNCHANGED <<row, pending, cache, ms, pool, limits, reloads, deletes, ended>>
    BY <1>1 DEF TransitionBegin, At
  <2>2. GoodCall([c EXCEPT !.at = "upsert"], ms)
    BY <1>0, <2>1, GoodAt, SInvTypes
  <2>3. GoTo(p, Idle) \/ GoTo(p, [c EXCEPT !.at = "upsert"])
    BY <1>1 DEF TransitionBegin
  <2> QED BY <1>0b, <2>1, <2>2, <2>3, SInvTypes, SInvCall DEF GoTo
<1>2. CASE InputBegin(p)
  <2> DEFINE over == [c EXCEPT !.at = "upsert", !.to = "terminated", !.flag = TRUE]
  <2>1. c.at = "input" /\ UNCHANGED <<row, pending, cache, limits, reloads, deletes>>
    BY <1>2 DEF InputBegin, At
  <2>2. GoodCall([c EXCEPT !.at = "upsert"], ms) /\ GoodCall(over, ms)
    BY <1>0, <2>1, GoodAt, SInvTypes
  <2>3. \/ GoTo(p, Idle) /\ UNCHANGED <<ms, pool, ended>>
        \/ GoTo(p, [c EXCEPT !.at = "upsert"]) /\ UNCHANGED <<ms, pool, ended>>
        \/ GoTo(p, over) /\ UNCHANGED <<ms, pool, ended>>
        \/ GoTo(p, Idle) /\ EndWorker(c.o)
    BY <1>2 DEF InputBegin
  <2> HIDE DEF over
  <2>4. CASE GoTo(p, Idle) /\ EndWorker(c.o)
    BY <1>0, <2>1, <2>4, SInvEndWorker
  <2> QED BY <1>0b, <2>1, <2>2, <2>3, <2>4, SInvTypes, SInvCall DEF GoTo
<1>3. CASE TransitionUpsert(p)
  <2>1. c.at = "upsert" /\ UNCHANGED <<pending, cache, ms, pool, limits, reloads, deletes, ended>>
    BY <1>3 DEF TransitionUpsert, At
  <2>2. GoodCall([c EXCEPT !.at = "commit"], ms)
    BY <1>0, <2>1, GoodAt, SInvTypes
  <2>3. GoTo(p, Idle) \/ GoTo(p, [c EXCEPT !.at = "commit"])
    BY <1>3 DEF TransitionUpsert
  <2>4. row' \in [Sessions -> States \cup {"none"}]
    BY <1>0a, <1>3, SInvTypes DEF TransitionUpsert, Upsert
  <2> QED BY <1>0b, <2>1, <2>2, <2>3, <2>4, SInvTypes, SInvCall DEF GoTo
<1>4. CASE TransitionCommit(p)
  <2>1. c.at = "commit" /\ GoTo(p, Idle) /\ UNCHANGED <<row, pending, cache, limits, reloads, deletes>>
    BY <1>4 DEF TransitionCommit, At
  <2>2. CASE EndWorker(c.o)
    BY <1>0, <2>1, <2>2, SInvEndWorker
  <2>3. CASE ms' = [ms EXCEPT ![c.o].state = c.to] /\ UNCHANGED <<pool, ended>>
    <3> DEFINE m == [ms[c.o] EXCEPT !.state = c.to]
    <3>1. c.o \in Objects
      BY <1>0, <2>1, HeldCall
    <3>2. m \in Object /\ m.s = ms[c.o].s /\ ms' = [ms EXCEPT ![c.o] = m]
      BY <1>0a, <2>3, <3>1, SInvTypes DEF Object
    <3> HIDE DEF m
    <3>3. op' = [op EXCEPT ![p] = Idle] /\ GoodCall(Idle, ms')
      BY <2>1, GoodIdle DEF GoTo
    <3>4. /\ cache' \in [Sessions -> Objects \cup {NoObject}] /\ deletes' \in 0..MaxDeletes
          /\ \A s \in Sessions : cache'[s] \in {cache[s], NoObject}
          /\ pool' \in PoolType /\ ended' \subseteq Workers
      BY <2>1, <2>3, SInvTypes
    <3> QED BY <2>1, <3>1, <3>2, <3>3, <3>4, SInvObject
  <2> QED BY <1>4, <2>2, <2>3 DEF TransitionCommit
<1> QED BY <1>1, <1>2, <1>3, <1>4

LEMMA SInvAttach ==
  ASSUME SInv, NEW p \in Procs,
         \/ \E s \in Sessions, w \in Workers : AttachCheck(p, s, w)
         \/ AttachAcquire(p) \/ AttachCommit(p) \/ Detach(p) \/ Release(p)
  PROVE  SInv'
<1> DEFINE c == op[p]
<1>0. "attach" \in Positions /\ {"acquire", "release"} \subseteq Positions \ Holding
      /\ "detach" \in Holding /\ "attach" \notin Holding
  BY DEF Positions, Holding, Deleting
<1>0a. c \in Call /\ c.w \in Workers \cup {NoWorker}
  BY SInvTypes DEF Call
<1>0b. GoodCall(Idle, ms)
  BY GoodIdle
<1>1. ASSUME NEW s \in Sessions, NEW w \in Workers, AttachCheck(p, s, w) PROVE SInv'
  <2>1. GoodCall([Idle EXCEPT !.at = "acquire", !.s = s, !.w = w], ms)
    BY <1>0, GoodStart
  <2>2. /\ GoTo(p, [Idle EXCEPT !.at = "acquire", !.s = s, !.w = w])
        /\ UNCHANGED <<row, pending, cache, ms, pool, limits, reloads, deletes, ended>>
    BY <1>1 DEF AttachCheck
  <2> QED BY <2>1, <2>2, SInvTypes, SInvCall DEF GoTo
<1>2. CASE AttachAcquire(p)
  <2>1. c.at = "acquire" /\ UNCHANGED <<row, pending, cache, ms, limits, reloads, deletes, ended>>
    BY <1>2 DEF AttachAcquire, At
  <2>2. GoodCall([c EXCEPT !.at = "attach"], ms)
    BY <1>0, <2>1, GoodAt, SInvTypes DEF States
  <2>3. c.s \in Sessions
    BY <2>1, HeldCall
  <2>4. GoTo(p, Idle) \/ GoTo(p, [c EXCEPT !.at = "attach"])
    BY <1>2 DEF AttachAcquire
  <2>5. pool' \in PoolType
    BY <1>2, <2>3, PoolTypes, SInvTypes DEF AttachAcquire, SInv
  <2> QED BY <1>0b, <2>1, <2>2, <2>4, <2>5, SInvTypes, SInvCall DEF GoTo
<1>3. CASE AttachCommit(p)
  <2> DEFINE o == cache[c.s]
  <2>1. c.at = "attach" /\ UNCHANGED <<row, pending, cache, pool, limits, reloads, deletes, ended>>
    BY <1>3 DEF AttachCommit, At
  <2>2. GoodCall([c EXCEPT !.at = "release", !.w = NoWorker], ms)
    BY <1>0, <2>1, GoodAt, SInvTypes DEF States
  <2>3. CASE GoTo(p, [c EXCEPT !.at = "release", !.w = NoWorker]) /\ UNCHANGED ms
    BY <2>1, <2>2, <2>3, SInvTypes, SInvCall DEF GoTo
  <2>4. CASE StillAttachable(o) /\ ms' = [ms EXCEPT ![o].worker = c.w] /\ GoTo(p, Idle)
    <3> DEFINE m == [ms[o] EXCEPT !.worker = c.w]
    <3>1. o \in Objects
      <4>1. c.s \in Sessions /\ o # NoObject
        BY <2>1, <2>4, HeldCall DEF StillAttachable
      <4> QED BY <4>1, SInvTypes
    <3>2. m \in Object /\ m.s = ms[o].s /\ ms' = [ms EXCEPT ![o] = m]
      BY <1>0a, <2>4, <3>1, SInvTypes DEF Object
    <3> HIDE DEF m, o
    <3>3. op' = [op EXCEPT ![p] = Idle] /\ GoodCall(Idle, ms')
      BY <2>4, GoodIdle DEF GoTo
    <3>4. /\ cache' \in [Sessions -> Objects \cup {NoObject}] /\ deletes' \in 0..MaxDeletes
          /\ \A s \in Sessions : cache'[s] \in {cache[s], NoObject}
          /\ pool' \in PoolType /\ ended' \subseteq Workers
      BY <2>1, SInvTypes
    <3> QED BY <2>1, <3>1, <3>2, <3>3, <3>4, SInvObject
  <2> QED BY <1>3, <2>3, <2>4 DEF AttachCommit
<1>4. CASE Detach(p)
  <2> DEFINE b == [Idle EXCEPT !.at = "release", !.s = c.s]
  <2>1. c.at = "detach" /\ UNCHANGED <<row, pending, cache, pool, limits, reloads, deletes>>
    BY <1>4 DEF Detach, At
  <2>2. c.o \in Objects /\ c.s \in Sessions
    BY <1>0, <2>1, HeldCall
  <2>3. \A m : GoodCall(b, m)
    BY <1>0, <2>2, GoodStart
  <2>4. CASE GoTo(p, Idle) /\ UNCHANGED <<ms, ended>>
    BY <1>0b, <2>1, <2>4, SInvTypes, SInvCall DEF GoTo
  <2>5. CASE /\ ms[c.o].worker # NoWorker /\ ms' = [ms EXCEPT ![c.o].worker = NoWorker]
             /\ ended' = ended \cup {ms[c.o].worker} /\ GoTo(p, b)
    <3> DEFINE m == [ms[c.o] EXCEPT !.worker = NoWorker]
    <3>1. m \in Object /\ m.s = ms[c.o].s /\ ms' = [ms EXCEPT ![c.o] = m]
      BY <2>2, <2>5, SInvTypes DEF Object
    <3> HIDE DEF m, b
    <3>2. op' = [op EXCEPT ![p] = b] /\ GoodCall(b, ms')
      BY <2>3, <2>5 DEF GoTo
    <3>3. /\ cache' \in [Sessions -> Objects \cup {NoObject}] /\ deletes' \in 0..MaxDeletes
          /\ \A s \in Sessions : cache'[s] \in {cache[s], NoObject} /\ pool' \in PoolType
      BY <2>1, SInvTypes
    <3>4. ended' \subseteq Workers
      BY <2>2, <2>5, SInvTypes DEF Object
    <3> QED BY <2>1, <2>2, <3>1, <3>2, <3>3, <3>4, SInvObject
  <2> QED BY <1>4, <2>4, <2>5 DEF Detach
<1>5. CASE Release(p)
  <2>1. c.at = "release" /\ GoTo(p, Idle) /\ pool' = Released(c.s)
        /\ UNCHANGED <<row, pending, cache, ms, limits, reloads, deletes, ended>>
    BY <1>5 DEF Release, At
  <2>2. c.s \in Sessions
    BY <2>1, HeldCall
  <2>3. pool' \in PoolType
    BY <2>1, <2>2, PoolTypes DEF SInv
  <2> QED BY <1>0b, <2>1, <2>3, SInvTypes, SInvCall DEF GoTo
<1> QED BY <1>1, <1>2, <1>3, <1>4, <1>5

-----------------------------------------------------------------------------
(* And deletion, retirement and the background work. *)

LEMMA SInvMark ==
  ASSUME SInv, NEW p \in Procs, NEW s \in Sessions, NEW hot \in Deleting, NEW cold \in Deleting,
         Mark(p, s, hot, cold), UNCHANGED <<row, pending, limits, reloads>>,
         cache[s] = NoObject => UNCHANGED <<pool, ended>>,
         pool' \in PoolType, ended' \subseteq Workers
  PROVE  SInv'
<1>0. deletes' \in 0..MaxDeletes
  <2>1. deletes < MaxDeletes /\ deletes' = deletes + 1
    BY DEF Mark
  <2> QED BY <2>1, SInvTypes, PoolAssumption
<1>0a. Deleting \subseteq Positions /\ Deleting \subseteq Holding /\ "load" \notin Deleting
  BY DEF Deleting, Positions, Holding
<1>1. ASSUME cache[s] # NoObject, ms' = [ms EXCEPT ![cache[s]].deleting = TRUE],
             GoTo(p, [Idle EXCEPT !.at = hot, !.s = s, !.o = cache[s]]), UNCHANGED cache
      PROVE  SInv'
  <2> DEFINE o == cache[s]
             m == [ms[o] EXCEPT !.deleting = TRUE]
             b == [Idle EXCEPT !.at = hot, !.s = s, !.o = o]
  <2>1. o \in Objects /\ ms[o].s = s
    BY <1>1, SInvTypes DEF SInv
  <2>2. m \in Object /\ m.s = ms[o].s /\ ms' = [ms EXCEPT ![o] = m]
    <3>1. ms' = [ms EXCEPT ![o] = m]
      BY <1>1, <2>1, SInvTypes
    <3>2. ms[o] \in Object
      BY <2>1, SInvTypes
    <3> HIDE DEF o
    <3> QED BY <3>1, <3>2 DEF Object
  <2>3. b \in Call /\ b.at = hot /\ b.s = s /\ b.o = o
    <3> HIDE DEF o
    <3> QED BY <1>0a, <2>1, CallIdle DEF Call
  <2>4. op' = [op EXCEPT ![p] = b]
    BY <1>1 DEF GoTo
  <2>5. cache' \in [Sessions -> Objects \cup {NoObject}]
        /\ \A x \in Sessions : cache'[x] \in {cache[x], NoObject}
    BY <1>1, SInvTypes
  <2> HIDE DEF b, m, o
  <2>6. ms'[o].s = s
    BY <2>1, <2>2, SInvTypes
  <2>7. GoodCall(b, ms')
    BY <1>0a, <2>1, <2>3, <2>6 DEF GoodCall
  <2> QED BY <1>0, <2>1, <2>2, <2>4, <2>5, <2>7, SInvObject
<1>2. ASSUME NEW o \in Free, cache[s] = NoObject, cache' = [cache EXCEPT ![s] = o],
             ms' = [ms EXCEPT ![o] = Tombstone(s)],
             GoTo(p, [Idle EXCEPT !.at = cold, !.s = s, !.o = o, !.flag = TRUE])
      PROVE  SInv'
  <2> DEFINE b == [Idle EXCEPT !.at = cold, !.s = s, !.o = o, !.flag = TRUE]
  <2>1. o \in Objects
    BY FreeFacts
  <2>2. Tombstone(s) \in Object /\ Tombstone(s).s = s
    BY ObjectTypes DEF Tombstone, Unused
  <2>3. b \in Call /\ b.at = cold /\ b.s = s /\ b.o = o
    BY <1>0a, <2>1, CallIdle DEF Call
  <2>4. op' = [op EXCEPT ![p] = b]
    BY <1>2 DEF GoTo
  <2> HIDE DEF b
  <2>5. ms'[o].s = s
    BY <1>2, <2>1, <2>2, SInvTypes
  <2>6. GoodCall(b, ms')
    BY <1>0a, <2>1, <2>3, <2>5 DEF GoodCall
  <2> QED BY <1>0, <1>2, <2>2, <2>4, <2>6, SInvNew
<1> QED BY <1>1, <1>2 DEF Mark

\* What giving back the quota of an object and ending its worker yields.
LEMMA ReleaseTypes ==
  ASSUME SInv, NEW o \in Objects, ms[o].s \in Sessions
  PROVE  /\ ReleaseIfAttached(o) \in PoolType
         /\ ended \cup ({ms[o].worker} \ {NoWorker}) \subseteq Workers
<1>1. Released(ms[o].s) \in PoolType
  BY PoolTypes DEF SInv
<1> QED BY <1>1, SInvTypes DEF ReleaseIfAttached, Object

LEMMA SInvDeletions ==
  ASSUME SInv, NEW p \in Procs, NEW s \in Sessions,
         Delete(p, s) \/ DeletePhysical(p, s) \/ Retire(p, s)
  PROVE  SInv'
<1>0. {"markdeleted", "loaddeleted", "physical", "retire"} \subseteq Deleting
  BY DEF Deleting
<1>1. CASE Delete(p, s)
  BY <1>0, <1>1, SInvMark, SInvTypes DEF Delete
<1>2. CASE Retire(p, s)
  BY <1>0, <1>2, SInvMark, SInvTypes DEF Retire
<1>3. CASE DeletePhysical(p, s)
  <2>1. cache[s] # NoObject => cache[s] \in Objects /\ ms[cache[s]].s \in Sessions
    BY SInvTypes DEF SInv
  <2>2. pool' \in PoolType /\ ended' \subseteq Workers
    BY <1>3, <2>1, ReleaseTypes, SInvTypes DEF DeletePhysical
  <2>3. /\ Mark(p, s, "physical", "physical") /\ UNCHANGED <<row, pending, limits, reloads>>
        /\ cache[s] = NoObject => UNCHANGED <<pool, ended>>
    BY <1>3 DEF DeletePhysical
  <2> QED BY <1>0, <2>2, <2>3, SInvMark
<1> QED BY <1>1, <1>2, <1>3

\* A step that only takes sessions out of the map, or nothing.
LEMMA SInvForget ==
  ASSUME SInv, NEW p \in Procs, NEW b, op' = [op EXCEPT ![p] = b], GoodCall(b, ms),
         cache' \in [Sessions -> Objects \cup {NoObject}],
         \A s \in Sessions : cache'[s] \in {cache[s], NoObject},
         row' \in [Sessions -> States \cup {"none"}], pending' \in [Sessions -> BOOLEAN],
         UNCHANGED <<ms, pool, limits, reloads, deletes, ended>>
  PROVE  SInv'
<1>1. \A s \in Sessions : cache'[s] # NoObject => ms'[cache'[s]].s = s
  BY DEF SInv
<1> QED BY <1>1, SInvTypes, SInvStep

LEMMA ForgottenFacts ==
  ASSUME SInv, NEW s \in Sessions
  PROVE  /\ Forgotten(s) \in [Sessions -> Objects \cup {NoObject}]
         /\ \A x \in Sessions : Forgotten(s)[x] \in {cache[x], NoObject}
BY SInvTypes DEF Forgotten

LEMMA MarkDeletedTypes ==
  ASSUME SInv, NEW s \in Sessions, MarkDeleted(s)
  PROVE  row' \in [Sessions -> States \cup {"none"}] /\ pending' \in [Sessions -> BOOLEAN]
<1>1. CASE row[s] = "none" /\ UNCHANGED <<row, pending>>
  BY <1>1, SInvTypes
<1>2. CASE row[s] # "none"
  <2>1. row' = [row EXCEPT ![s] = "deleted"]
    BY <1>2 DEF MarkDeleted
  <2>2. PICK task \in {pending[s], row[s] # "deleted"} :
             pending' = [pending EXCEPT ![s] = pending[s] \/ task]
    BY <1>2 DEF MarkDeleted
  <2>3. pending' \in [Sessions -> BOOLEAN]
    BY <2>2, SInvTypes
  <2>4. row' \in [Sessions -> States \cup {"none"}]
    BY <2>1, SInvTypes DEF States
  <2> QED BY <2>3, <2>4
<1> QED BY <1>1, <1>2 DEF MarkDeleted

\* The object of a goroutine that deletes is changed but for its session.
LEMMA SInvUnmark ==
  ASSUME SInv, NEW p \in Procs, op[p].at \in Deleting, op' = [op EXCEPT ![p] = Idle],
         NEW st \in States \cup {"none"}, NEW del \in BOOLEAN,
         \/ ms' = [ms EXCEPT ![op[p].o].state = st]
         \/ ms' = [ms EXCEPT ![op[p].o].deleting = del],
         UNCHANGED <<row, pending, limits, reloads, deletes>>,
         cache' \in [Sessions -> Objects \cup {NoObject}],
         \A s \in Sessions : cache'[s] \in {cache[s], NoObject},
         pool' \in PoolType, ended' \subseteq Workers
  PROVE  SInv'
<1> DEFINE o == op[p].o
<1>1. o \in Objects
  BY HeldCall DEF Holding
<1>2. GoodCall(Idle, ms') /\ deletes' \in 0..MaxDeletes
  BY GoodIdle, SInvTypes
<1>3. CASE ms' = [ms EXCEPT ![o].state = st]
  <2> DEFINE m == [ms[o] EXCEPT !.state = st]
  <2>1. m \in Object /\ m.s = ms[o].s /\ ms' = [ms EXCEPT ![o] = m]
    BY <1>1, <1>3, SInvTypes DEF Object
  <2> HIDE DEF m, o
  <2> QED BY <1>1, <1>2, <2>1, SInvObject
<1>4. CASE ms' = [ms EXCEPT ![o].deleting = del]
  <2> DEFINE m == [ms[o] EXCEPT !.deleting = del]
  <2>1. m \in Object /\ m.s = ms[o].s /\ ms' = [ms EXCEPT ![o] = m]
    BY <1>1, <1>4, SInvTypes DEF Object
  <2> HIDE DEF m, o
  <2> QED BY <1>1, <1>2, <2>1, SInvObject
<1> QED BY <1>3, <1>4

LEMMA SInvDelete ==
  ASSUME SInv, NEW p \in Procs, DeleteLoad(p) \/ PersistDelete(p) \/ DropDeleted(p)
  PROVE  SInv'
<1> DEFINE c == op[p]
<1>0. {"loaddeleted", "markdeleted", "dropdeleted"} \subseteq Positions \cap Holding
      /\ {"loaddeleted", "markdeleted", "dropdeleted"} \subseteq Deleting
      /\ "deleted" \in States \cup {"none"} /\ "none" \in States \cup {"none"}
  BY DEF Positions, Holding, Deleting, States
<1>0a. c \in Call /\ c.st \in States \cup {"none"}
  BY SInvTypes DEF Call
<1>0b. GoodCall(Idle, ms) /\ GoodCall(Idle, ms')
  BY GoodIdle
<1>1. CASE DeleteLoad(p)
  <2>1. c.at = "loaddeleted" /\ UNCHANGED <<row, pending, ms, pool, limits, reloads, deletes, ended>>
    BY <1>1 DEF DeleteLoad, At
  <2>2. c.s \in Sessions
    BY <2>1, HeldCall
  <2>3. CASE GoTo(p, Idle) /\ cache' = IF Current(p) THEN Forgotten(c.s) ELSE cache
    <3>1. cache' \in [Sessions -> Objects \cup {NoObject}]
          /\ \A s \in Sessions : cache'[s] \in {cache[s], NoObject}
      BY <2>2, <2>3, ForgottenFacts, SInvTypes
    <3> QED BY <1>0b, <2>1, <2>3, <3>1, SInvTypes, SInvForget DEF GoTo
  <2>4. CASE GoTo(p, [c EXCEPT !.at = "markdeleted", !.st = row[c.s]]) /\ UNCHANGED cache
    <3>1. row[c.s] \in States \cup {"none"}
      BY <2>2, SInvTypes
    <3>2. GoodCall([c EXCEPT !.at = "markdeleted", !.st = row[c.s]], ms)
      BY <1>0, <2>1, <3>1, GoodAt, SInvTypes
    <3> QED BY <2>1, <2>4, <3>2, SInvTypes, SInvCall DEF GoTo
  <2> QED BY <1>1, <2>3, <2>4 DEF DeleteLoad
<1>2. CASE PersistDelete(p)
  <2>1. c.at = "markdeleted" /\ UNCHANGED <<pool, limits, reloads, deletes, ended>>
    BY <1>2 DEF PersistDelete, At
  <2>2. c.s \in Sessions /\ c.o \in Objects
    BY <1>0, <2>1, HeldCall
  <2>3. CASE MarkDeleted(c.s) /\ GoTo(p, [c EXCEPT !.at = "dropdeleted"]) /\ UNCHANGED <<cache, ms>>
    <3>1. row' \in [Sessions -> States \cup {"none"}] /\ pending' \in [Sessions -> BOOLEAN]
      BY <2>2, <2>3, MarkDeletedTypes
    <3>2. GoodCall([c EXCEPT !.at = "dropdeleted"], ms)
      BY <1>0, <2>1, GoodAt, SInvTypes
    <3> QED BY <2>1, <2>3, <3>1, <3>2, SInvTypes, SInvCall DEF GoTo
  <2>4. CASE GoTo(p, Idle) /\ UNCHANGED <<cache, ms, row, pending>>
    BY <1>0b, <2>1, <2>4, SInvTypes, SInvCall DEF GoTo
  <2>5. CASE /\ GoTo(p, Idle) /\ UNCHANGED <<cache, row, pending>>
             /\ ms' = [ms EXCEPT ![c.o].deleting = FALSE]
    <3>1. cache' \in [Sessions -> Objects \cup {NoObject}]
          /\ \A s \in Sessions : cache'[s] \in {cache[s], NoObject}
      BY <2>5, SInvTypes
    <3>2. op' = [op EXCEPT ![p] = Idle] /\ pool' \in PoolType /\ ended' \subseteq Workers
      BY <2>1, <2>5, SInvTypes DEF GoTo
    <3> QED BY <1>0, <2>1, <2>5, <3>1, <3>2, SInvUnmark
  <2>6. ASSUME NEW o \in Free, GoTo(p, Idle), UNCHANGED <<row, pending>>,
               cache' = [cache EXCEPT ![c.s] = o], ms' = [ms EXCEPT ![o] = Loaded(c.s, c.st)]
        PROVE  SInv'
    <3>1. Loaded(c.s, c.st) \in Object /\ Loaded(c.s, c.st).s = c.s
      BY <1>0a, <2>2, ObjectTypes DEF Loaded, Unused
    <3>2. op' = [op EXCEPT ![p] = Idle] /\ deletes' \in 0..MaxDeletes
      BY <2>1, <2>6, SInvTypes DEF GoTo
    <3> QED BY <1>0b, <2>1, <2>2, <2>6, <3>1, <3>2, SInvNew
  <2> QED BY <1>2, <2>3, <2>4, <2>5, <2>6 DEF PersistDelete
<1>3. CASE DropDeleted(p)
  <2>1. c.at = "dropdeleted" /\ GoTo(p, Idle) /\ UNCHANGED <<row, pending, limits, reloads, deletes>>
    BY <1>3 DEF DropDeleted, At
  <2>2. c.s \in Sessions /\ c.o \in Objects /\ ms[c.o].s = c.s
    BY <1>0, <2>1, HeldCall
  <2>3. CASE UNCHANGED <<ms, pool, ended, cache>>
    BY <1>0b, <2>1, <2>3, SInvTypes, SInvCall DEF GoTo
  <2>4. CASE /\ ms' = [ms EXCEPT ![c.o].state = "deleted"] /\ pool' = ReleaseIfAttached(c.o)
             /\ ended' = ended \cup ({ms[c.o].worker} \ {NoWorker}) /\ cache' = Forgotten(c.s)
    <3>1. pool' \in PoolType /\ ended' \subseteq Workers
      BY <2>2, <2>4, ReleaseTypes
    <3>2. cache' \in [Sessions -> Objects \cup {NoObject}]
          /\ \A s \in Sessions : cache'[s] \in {cache[s], NoObject}
      BY <2>2, <2>4, ForgottenFacts
    <3>3. op' = [op EXCEPT ![p] = Idle]
      BY <2>1 DEF GoTo
    <3> QED BY <1>0, <2>1, <2>4, <3>1, <3>2, <3>3, SInvUnmark
  <2> QED BY <1>3, <2>3, <2>4 DEF DropDeleted
<1> QED BY <1>1, <1>2, <1>3

LEMMA SInvPhysical ==
  ASSUME SInv, NEW p \in Procs, PersistPhysical(p) \/ Uncache(p)
  PROVE  SInv'
<1> DEFINE c == op[p]
<1>0. {"physical", "uncache"} \subseteq Positions \cap Holding /\ "none" \in States \cup {"none"}
  BY DEF Positions, Holding, Deleting, States
<1>1. CASE PersistPhysical(p)
  <2>1. c.at = "physical" /\ GoTo(p, [c EXCEPT !.at = "uncache"])
        /\ UNCHANGED <<cache, ms, pool, limits, reloads, deletes, ended>>
    BY <1>1 DEF PersistPhysical, At
  <2>2. GoodCall([c EXCEPT !.at = "uncache"], ms)
    BY <1>0, <2>1, GoodAt, SInvTypes
  <2>3. row' \in [Sessions -> States \cup {"none"}]
    BY <1>1, SInvTypes DEF PersistPhysical
  <2>4. pending' \in [Sessions -> BOOLEAN]
    <3>1. CASE UNCHANGED pending
      BY <3>1, SInvTypes
    <3>2. ASSUME NEW task \in BOOLEAN, pending' = [pending EXCEPT ![c.s] = pending[c.s] \/ task]
          PROVE  pending' \in [Sessions -> BOOLEAN]
      BY <3>2, SInvTypes
    <3>3. c.s \in Sessions
      BY <2>1, HeldCall
    <3>4. pending[c.s] \in BOOLEAN
      BY <3>3, SInvTypes
    <3> QED BY <1>1, <3>1, <3>2, <3>4 DEF PersistPhysical
  <2> QED BY <2>1, <2>2, <2>3, <2>4, SInvTypes, SInvCall DEF GoTo
<1>2. CASE Uncache(p)
  <2>1. c.at = "uncache" /\ GoTo(p, Idle)
        /\ UNCHANGED <<row, pending, ms, pool, limits, reloads, deletes, ended>>
    BY <1>2 DEF Uncache, At
  <2>2. c.s \in Sessions
    BY <2>1, HeldCall
  <2>3. cache' \in [Sessions -> Objects \cup {NoObject}]
        /\ \A s \in Sessions : cache'[s] \in {cache[s], NoObject}
    BY <1>2, <2>2, ForgottenFacts, SInvTypes DEF Uncache
  <2>4. op' = [op EXCEPT ![p] = Idle] /\ GoodCall(Idle, ms)
    BY <2>1, GoodIdle DEF GoTo
  <2> QED BY <2>1, <2>3, <2>4, SInvTypes, SInvForget
<1> QED BY <1>1, <1>2

LEMMA SInvRetire ==
  ASSUME SInv, NEW p \in Procs, PersistRetire(p) \/ Retired(p)
  PROVE  SInv'
<1> DEFINE c == op[p]
<1>0. {"retire", "retired"} \subseteq Positions \cap Holding /\ {"retire", "retired"} \subseteq Deleting
      /\ "deleted" \in States \cup {"none"} /\ "none" \in States \cup {"none"}
  BY DEF Positions, Holding, Deleting, States
<1>0b. GoodCall(Idle, ms) /\ GoodCall(Idle, ms')
  BY GoodIdle
<1>1. CASE PersistRetire(p)
  <2>1. c.at = "retire" /\ UNCHANGED <<pool, limits, reloads, deletes, ended>>
    BY <1>1 DEF PersistRetire, At
  <2>2. c.s \in Sessions
    BY <2>1, HeldCall
  <2>3. CASE MarkDeleted(c.s) /\ GoTo(p, [c EXCEPT !.at = "retired"]) /\ UNCHANGED <<cache, ms>>
    <3>1. row' \in [Sessions -> States \cup {"none"}] /\ pending' \in [Sessions -> BOOLEAN]
      BY <2>2, <2>3, MarkDeletedTypes
    <3>2. GoodCall([c EXCEPT !.at = "retired"], ms)
      BY <1>0, <2>1, GoodAt, SInvTypes
    <3> QED BY <2>1, <2>3, <3>1, <3>2, SInvTypes, SInvCall DEF GoTo
  <2>4. ASSUME GoTo(p, Idle), UNCHANGED <<row, pending>>,
               cache' = IF Current(p) /\ c.flag THEN Forgotten(c.s) ELSE cache,
               ms' = IF Current(p) /\ ~c.flag THEN [ms EXCEPT ![c.o].deleting = FALSE] ELSE ms
        PROVE  SInv'
    <3>1. cache' \in [Sessions -> Objects \cup {NoObject}]
          /\ \A s \in Sessions : cache'[s] \in {cache[s], NoObject}
      BY <2>2, <2>4, ForgottenFacts, SInvTypes
    <3>2. /\ op' = [op EXCEPT ![p] = Idle] /\ pool' \in PoolType /\ ended' \subseteq Workers
          /\ row' \in [Sessions -> States \cup {"none"}] /\ pending' \in [Sessions -> BOOLEAN]
      BY <2>1, <2>4, SInvTypes DEF GoTo
    <3>3. CASE ms' = ms
      BY <1>0b, <2>1, <3>1, <3>2, <3>3, SInvForget
    <3>4. CASE ms' = [ms EXCEPT ![c.o].deleting = FALSE]
      BY <1>0, <2>1, <2>4, <3>1, <3>2, <3>4, SInvUnmark
    <3> QED BY <2>4, <3>3, <3>4
  <2> QED BY <1>1, <2>3, <2>4 DEF PersistRetire
<1>2. CASE Retired(p)
  <2>1. c.at = "retired" /\ GoTo(p, Idle)
        /\ UNCHANGED <<row, pending, pool, limits, reloads, deletes, ended>>
    BY <1>2 DEF Retired, At
  <2>2. c.s \in Sessions
    BY <2>1, HeldCall
  <2>3. CASE UNCHANGED <<ms, cache>>
    BY <1>0b, <2>1, <2>3, SInvTypes, SInvCall DEF GoTo
  <2>4. CASE ms' = [ms EXCEPT ![c.o].state = "deleted"] /\ cache' = Forgotten(c.s)
    <3>1. cache' \in [Sessions -> Objects \cup {NoObject}]
          /\ \A s \in Sessions : cache'[s] \in {cache[s], NoObject}
      BY <2>2, <2>4, ForgottenFacts
    <3>2. op' = [op EXCEPT ![p] = Idle] /\ pool' \in PoolType /\ ended' \subseteq Workers
      BY <2>1, SInvTypes DEF GoTo
    <3> QED BY <1>0, <2>1, <2>4, <3>1, <3>2, SInvUnmark
  <2> QED BY <1>2, <2>3, <2>4 DEF Retired
<1> QED BY <1>1, <1>2

LEMMA SInvBackground ==
  ASSUME SInv, \/ \E s \in Sessions : DeleteTerminated(s) \/ CleanupDone(s) \/ Evict(s)
               \/ UpdateLimits
               \/ UNCHANGED vars
  PROVE  SInv'
<1>1. ASSUME UNCHANGED <<ms, op>>, cache' \in [Sessions -> Objects \cup {NoObject}],
             \A s \in Sessions : cache'[s] \in {cache[s], NoObject},
             row' \in [Sessions -> States \cup {"none"}], pending' \in [Sessions -> BOOLEAN],
             pool' \in PoolType, ended' \subseteq Workers,
             limits' \in Limits, reloads' \in 0..MaxReloads, deletes' \in 0..MaxDeletes
      PROVE  SInv'
  <2>1. STypeOK'
    BY <1>1, SInvTypes DEF STypeOK, PoolType
  <2>2. \A s \in Sessions : cache'[s] # NoObject => ms'[cache'[s]].s = s
    BY <1>1 DEF SInv
  <2>3. \A p \in Procs : GoodCall(op'[p], ms')
    BY <1>1 DEF SInv
  <2> QED BY <2>1, <2>2, <2>3 DEF SInv
<1>2. CASE UNCHANGED vars
  BY <1>1, <1>2, SInvTypes DEF vars
<1>3. ASSUME NEW s \in Sessions, Evict(s) PROVE SInv'
  BY <1>1, <1>3, ForgottenFacts, SInvTypes DEF Evict
<1>4. ASSUME NEW s \in Sessions, CleanupDone(s) PROVE SInv'
  BY <1>1, <1>4, SInvTypes DEF CleanupDone
<1>5. ASSUME NEW s \in Sessions, DeleteTerminated(s) PROVE SInv'
  BY <1>1, <1>5, SInvTypes DEF DeleteTerminated
<1>6. CASE UpdateLimits
  <2>1. reloads' \in 0..MaxReloads /\ limits' \in Limits
        /\ UNCHANGED <<row, pending, cache, ms, op, deletes, ended>>
    BY <1>6, SInvTypes, PoolAssumption DEF UpdateLimits
  <2>2. pool' = pool \/ pool' = [pool EXCEPT !.mem = [u \in Users |-> 0]]
    BY <1>6 DEF UpdateLimits
  <2>3. pool' \in PoolType
    BY <2>2, SInvTypes DEF PoolType
  <2> QED BY <1>1, <2>1, <2>3, SInvTypes
<1> QED BY <1>2, <1>3, <1>4, <1>5, <1>6

LEMMA SInvNext == SInv /\ [Next]_vars => SInv'
<1> SUFFICES ASSUME SInv, [Next]_vars PROVE SInv'
  OBVIOUS
<1>1. ASSUME NEW p \in Procs, NEW s \in Sessions, SessionStep(p, s) PROVE SInv'
  BY <1>1, SInvStarts, SInvCreate, SInvAttach, SInvDeletions DEF SessionStep
<1>2. ASSUME NEW p \in Procs, Continue(p) PROVE SInv'
  BY <1>2, SInvFind, SInvTransition, SInvAttach, SInvDelete, SInvPhysical, SInvRetire DEF Continue
<1> QED BY <1>1, <1>2, SInvBackground DEF Next

LEMMA SInvInit == Init => SInv
<1> SUFFICES ASSUME Init PROVE SInv
  OBVIOUS
<1>1. \A p \in Procs : GoodCall(op[p], ms)
  BY GoodIdle DEF Init
<1> QED BY <1>1, STypeInit DEF SInv, Init

LEMMA SInvAlways == Spec => []SInv
BY SInvInit, SInvNext, PTL DEF Spec

\* However the calls of the manager interleave, the map, the managed sessions,
\* the pool's counters (never negative) and what the goroutines have read stay
\* of their kinds: no call that goes on has lost its session or its object.
THEOREM SessionTypeCorrect == Spec => []STypeOK
<1>1. SInv => STypeOK
  BY DEF SInv
<1> QED BY <1>1, SInvAlways, PTL

-----------------------------------------------------------------------------
(* Deletion is final.                                                       *)

\* Every write of a row goes through the guard of Upsert, marks the row as
\* deleted or removes it; and a task is only queued for such a row.
RowInv ==
  /\ row \in [Sessions -> States \cup {"none"}]
  /\ pending \in [Sessions -> BOOLEAN]
  /\ \A s \in Sessions : pending[s] => row[s] \in {"deleted", "none"}

\* What any step may do to a row and to its task.
RowStep ==
  \A s \in Sessions :
    /\ row[s] = "deleted" => row'[s] \in {"deleted", "none"}
    /\ pending[s] => row'[s] \in {"deleted", "none"}

LEMMA RowUpsert ==
  ASSUME RowInv, NEW s, NEW st \in States \cup {"none"}, Upsert(s, st), UNCHANGED pending
  PROVE  RowStep /\ RowInv'
BY DEF RowInv, RowStep, Upsert, Refused

LEMMA RowMarkDeleted ==
  ASSUME RowInv, NEW s, MarkDeleted(s)
  PROVE  RowStep /\ RowInv'
<1>1. CASE UNCHANGED <<row, pending>>
  BY <1>1 DEF RowInv, RowStep
<1>2. ASSUME NEW task \in BOOLEAN, row' = [row EXCEPT ![s] = "deleted"],
             pending' = [pending EXCEPT ![s] = pending[s] \/ task]
      PROVE  RowStep /\ RowInv'
  <2>1. row' \in [Sessions -> States \cup {"none"}]
    BY <1>2 DEF RowInv, States
  <2>2. pending' \in [Sessions -> BOOLEAN]
    BY <1>2 DEF RowInv
  <2>3. \A x \in Sessions : x # s => row'[x] = row[x] /\ (pending'[x] <=> pending[x])
    BY <1>2 DEF RowInv
  <2>4. \A x \in Sessions : x = s => row'[x] = "deleted"
    BY <1>2 DEF RowInv
  <2> QED BY <2>1, <2>2, <2>3, <2>4 DEF RowInv, RowStep
<1>3. row[s] # "none" /\ s \in Sessions =>
        \E task \in BOOLEAN : /\ row' = [row EXCEPT ![s] = "deleted"]
                              /\ pending' = [pending EXCEPT ![s] = pending[s] \/ task]
  BY DEF MarkDeleted, RowInv
<1>4. s \notin Sessions => UNCHANGED <<row, pending>>
  BY DEF MarkDeleted, RowInv
<1> QED BY <1>1, <1>2, <1>3, <1>4 DEF MarkDeleted

LEMMA RowRemoved ==
  ASSUME RowInv, NEW s \in Sessions, row' = [row EXCEPT ![s] = "none"],
         NEW task \in BOOLEAN, pending' = [pending EXCEPT ![s] = task]
  PROVE  RowStep /\ RowInv'
<1>1. \A x \in Sessions : x # s => row'[x] = row[x] /\ (pending'[x] <=> pending[x])
  BY DEF RowInv
<1>2. row'[s] = "none" /\ row' \in [Sessions -> States \cup {"none"}]
      /\ pending' \in [Sessions -> BOOLEAN]
  BY DEF RowInv
<1> QED BY <1>1, <1>2 DEF RowInv, RowStep

LEMMA RowSame ==
  ASSUME RowInv, UNCHANGED <<row, pending>>
  PROVE  RowStep /\ RowInv'
BY DEF RowInv, RowStep

LEMMA RowWrites ==
  ASSUME SInv, RowInv, NEW p \in Procs,
         \/ \E s \in Sessions : CreateUpsert(p, s)
         \/ FinishUpdate(p) \/ TransitionUpsert(p)
         \/ PersistDelete(p) \/ PersistPhysical(p) \/ PersistRetire(p)
  PROVE  RowStep /\ RowInv'
<1>0. op[p].st \in States \cup {"none"} /\ op[p].to \in States \cup {"none"}
  BY SInvTypes DEF Call
<1>1. ASSUME NEW s \in Sessions, CreateUpsert(p, s) PROVE RowStep /\ RowInv'
  <2>1. Upsert(s, "created") /\ UNCHANGED pending /\ "created" \in States \cup {"none"}
    BY <1>1 DEF CreateUpsert, States, Active
  <2> QED BY <2>1, RowUpsert
<1>2. CASE FinishUpdate(p)
  <2>1. (Upsert(op[p].s, op[p].st) \/ UNCHANGED row) /\ UNCHANGED pending
    BY <1>2 DEF FinishUpdate
  <2> QED BY <1>0, <2>1, RowUpsert, RowSame
<1>3. CASE TransitionUpsert(p)
  <2>1. (Upsert(op[p].s, op[p].to) \/ UNCHANGED row) /\ UNCHANGED pending
    BY <1>3 DEF TransitionUpsert
  <2> QED BY <1>0, <2>1, RowUpsert, RowSame
<1>4. CASE PersistDelete(p)
  <2>1. MarkDeleted(op[p].s) \/ UNCHANGED <<row, pending>>
    BY <1>4 DEF PersistDelete
  <2> QED BY <2>1, RowMarkDeleted, RowSame
<1>5. CASE PersistRetire(p)
  <2>1. MarkDeleted(op[p].s) \/ UNCHANGED <<row, pending>>
    BY <1>5 DEF PersistRetire
  <2> QED BY <2>1, RowMarkDeleted, RowSame
<1>6. CASE PersistPhysical(p)
  <2> DEFINE s == op[p].s
  <2>1. s \in Sessions
    BY <1>6, HeldCall DEF PersistPhysical, At
  <2>2. pending[s] \in BOOLEAN
    BY <2>1, SInvTypes
  <2>3. ASSUME NEW t \in BOOLEAN, row' = [row EXCEPT ![s] = "none"],
               pending' = [pending EXCEPT ![s] = pending[s] \/ t]
        PROVE  RowStep /\ RowInv'
    <3>1. (pending[s] \/ t) \in BOOLEAN
      OBVIOUS
    <3> QED BY <2>1, <2>3, <3>1, RowRemoved
  <2>4. \/ UNCHANGED <<row, pending>>
        \/ /\ row' = [row EXCEPT ![s] = "none"]
           /\ \E t \in BOOLEAN : pending' = [pending EXCEPT ![s] = pending[s] \/ t]
    BY <1>6, <2>2 DEF PersistPhysical
  <2> QED BY <2>3, <2>4, RowSame
<1> QED BY <1>1, <1>2, <1>3, <1>4, <1>5, <1>6

LEMMA RowNext == SInv /\ RowInv /\ [Next]_vars => RowStep /\ RowInv'
<1> SUFFICES ASSUME SInv, RowInv, [Next]_vars PROVE RowStep /\ RowInv'
  OBVIOUS
<1>1. ASSUME NEW p \in Procs, NEW s \in Sessions, SessionStep(p, s) PROVE RowStep /\ RowInv'
  <2>1. CASE CreateUpsert(p, s)
    BY <2>1, RowWrites
  <2>2. CASE ~CreateUpsert(p, s)
    <3>1. UNCHANGED <<row, pending>>
      BY <1>1, <2>2 DEF SessionStep, StartTransition, StartInput, StartDetach, Get, Lookup,
           UpdateSession, AttachCheck, Delete, DeletePhysical, Retire
    <3> QED BY <3>1, RowSame
  <2> QED BY <2>1, <2>2
<1>2. ASSUME NEW p \in Procs, Continue(p) PROVE RowStep /\ RowInv'
  <2>1. CASE FinishUpdate(p) \/ TransitionUpsert(p)
             \/ PersistDelete(p) \/ PersistPhysical(p) \/ PersistRetire(p)
    BY <2>1, RowWrites
  <2>2. CASE ~(FinishUpdate(p) \/ TransitionUpsert(p)
               \/ PersistDelete(p) \/ PersistPhysical(p) \/ PersistRetire(p))
    <3>1. UNCHANGED <<row, pending>>
      BY <1>2, <2>2 DEF Continue, Install, CreateInstall, TransitionBegin, InputBegin,
           TransitionCommit, AttachAcquire, AttachCommit, Detach, Release, DeleteLoad,
           DropDeleted, Uncache, Retired
    <3> QED BY <3>1, RowSame
  <2> QED BY <2>1, <2>2
<1>3. ASSUME NEW s \in Sessions, DeleteTerminated(s) PROVE RowStep /\ RowInv'
  <2>1. PICK task \in BOOLEAN : pending' = [pending EXCEPT ![s] = task]
    BY <1>3 DEF DeleteTerminated
  <2>2. row' = [row EXCEPT ![s] = "none"]
    BY <1>3 DEF DeleteTerminated
  <2> QED BY <2>1, <2>2, RowRemoved
<1>4. ASSUME NEW s \in Sessions, CleanupDone(s) PROVE RowStep /\ RowInv'
  <2>1. UNCHANGED row /\ pending' = [pending EXCEPT ![s] = FALSE]
    BY <1>4 DEF CleanupDone
  <2>2. pending' \in [Sessions -> BOOLEAN] /\ \A x \in Sessions : pending'[x] => pending[x]
    BY <2>1 DEF RowInv
  <2> QED BY <2>1, <2>2 DEF RowInv, RowStep
<1>5. ASSUME NEW s \in Sessions, Evict(s) PROVE RowStep /\ RowInv'
  BY <1>5, RowSame DEF Evict
<1>6. CASE UpdateLimits
  BY <1>6, RowSame DEF UpdateLimits
<1>7. CASE UNCHANGED vars
  BY <1>7, RowSame DEF vars
<1> QED BY <1>1, <1>2, <1>3, <1>4, <1>5, <1>6, <1>7 DEF Next

\* No transition that read the session before it was deleted, no update, no
\* late create and no retirement brings a deleted row back, or one whose
\* cleanup task is pending.  RowInv is what makes it inductive: a task is
\* pending only for a row that is deleted or gone.
THEOREM DeletionIsFinal == Spec => DeletedStaysDeleted
<1>1. Init => RowInv
  BY DEF Init, RowInv
<1>2. SInv /\ RowInv /\ [Next]_vars => RowInv'
  BY RowNext
<1>3. SInv /\ RowInv /\ [Next]_vars =>
        [\A s \in Sessions :
           /\ row[s] = "deleted" => row'[s] \in {"deleted", "none"}
           /\ pending[s] => row'[s] \in {"deleted", "none"}]_vars
  BY RowNext DEF RowStep
<1> QED BY <1>1, <1>2, <1>3, SInvAlways, PTL DEF Spec, DeletedStaysDeleted
-----------------------------------------------------------------------------
(* No worker is stranded.                                                    *)

\* A deletion that may take its object out of the map without ending a worker.
Ending(c) ==
  /\ c.at \in Deleting
  /\ c.flag \/ c.at \in {"loaddeleted", "physical", "uncache", "retire", "retired"}

\* A deletion owns the object it marked; the object can then get no worker,
\* and those that do not end one themselves have none to begin with.
OInv ==
  /\ \A p \in Procs : op[p].at \in Deleting => ms[op[p].o].deleting
  /\ \A p, q \in Procs :
       p # q /\ op[p].at \in Deleting /\ op[q].at \in Deleting => op[p].o # op[q].o
  /\ \A p \in Procs : Ending(op[p]) => ~Holds(op[p].o)
  /\ \A o \in Objects : ms[o].state = "terminated" => ~Holds(o)

\* What NoOrphan says of a step.
OrphanStep ==
  \A s \in Sessions :
    LET o == cache[s] IN
    o # NoObject /\ cache'[s] # o /\ Holds(o)
    => \/ ms[o].worker \in ended'
       \/ \E p \in Procs : At(p, "install") /\ op[p].s = s

Held(o, m, e) == m[o].worker # NoWorker /\ m[o].worker \notin e

LEMMA OInvStep ==
  ASSUME SInv, OInv, NEW p \in Procs, NEW b \in Call, op' = [op EXCEPT ![p] = b],
         \A q \in Procs \ {p} : op[q].at \in Deleting => ms'[op[q].o].deleting,
         \A o \in Objects : Held(o, ms', ended') => Held(o, ms, ended) \/ ~ms[o].deleting,
         \A o \in Objects : ms'[o].state = "terminated" => ~Held(o, ms', ended'),
         b.at \in Deleting => /\ ms'[b.o].deleting
                              /\ \A q \in Procs \ {p} : op[q].at \in Deleting => op[q].o # b.o,
         Ending(b) => ~Held(b.o, ms', ended')
  PROVE  OInv'
<1>0. op'[p] = b /\ \A q \in Procs \ {p} : op'[q] = op[q]
  BY SInvTypes
<1>1. \A q \in Procs : op'[q].at \in Deleting => ms'[op'[q].o].deleting
  BY <1>0
<1>2. \A q, r \in Procs :
        q # r /\ op'[q].at \in Deleting /\ op'[r].at \in Deleting => op'[q].o # op'[r].o
  BY <1>0 DEF OInv
<1>3. ASSUME NEW q \in Procs, Ending(op'[q]) PROVE ~Held(op'[q].o, ms', ended')
  <2>1. CASE q = p
    BY <1>0, <1>3, <2>1
  <2>2. CASE q # p
    <3>1. op'[q] = op[q] /\ op[q].at \in Deleting
      BY <1>0, <1>3, <2>2 DEF Ending
    <3>2. op[q].o \in Objects /\ ms[op[q].o].deleting /\ ~Held(op[q].o, ms, ended)
      BY <1>3, <3>1, HeldCall DEF OInv, Holding, Held, Holds
    <3> QED BY <3>1, <3>2
  <2> QED BY <2>1, <2>2
<1>4. \A q \in Procs : Ending(op'[q]) => ~Holds(op[q].o)'
  BY <1>3 DEF Held, Holds
<1>5. \A o \in Objects : ms'[o].state = "terminated" => ~Holds(o)'
  BY DEF Held, Holds
<1> QED BY <1>1, <1>2, <1>4, <1>5 DEF OInv, Ending

\* It leaves the objects alone and is not a deletion afterwards.
LEMMA OInvCall ==
  ASSUME SInv, OInv, NEW p \in Procs, NEW b \in Call, op' = [op EXCEPT ![p] = b],
         b.at \notin Deleting, UNCHANGED <<ms, ended>>
  PROVE  OInv'
<1>1. \A q \in Procs \ {p} : op[q].at \in Deleting => ms'[op[q].o].deleting
  BY DEF OInv
<1>2. \A o \in Objects : Held(o, ms', ended') => Held(o, ms, ended) \/ ~ms[o].deleting
  OBVIOUS
<1>3. \A o \in Objects : ms'[o].state = "terminated" => ~Held(o, ms', ended')
  BY DEF OInv, Held, Holds
<1>4. ~Ending(b)
  BY DEF Ending
<1> QED BY <1>1, <1>2, <1>3, <1>4, OInvStep

\* It goes on with the deletion of its object.
LEMMA OInvOn ==
  ASSUME SInv, OInv, NEW p \in Procs, NEW b \in Call, op' = [op EXCEPT ![p] = b],
         op[p].at \in Deleting, b.o = op[p].o, Ending(b) => Ending(op[p]), UNCHANGED <<ms, ended>>
  PROVE  OInv'
<1>1. \A q \in Procs \ {p} : op[q].at \in Deleting => ms'[op[q].o].deleting
  BY DEF OInv
<1>2. \A o \in Objects : Held(o, ms', ended') => Held(o, ms, ended) \/ ~ms[o].deleting
  OBVIOUS
<1>3. \A o \in Objects : ms'[o].state = "terminated" => ~Held(o, ms', ended')
  BY DEF OInv, Held, Holds
<1>4. Ending(b) => ~Held(b.o, ms', ended')
  BY DEF OInv, Held, Holds
<1>5. ms'[b.o].deleting /\ \A q \in Procs \ {p} : op[q].at \in Deleting => op[q].o # b.o
  BY DEF OInv
<1> QED BY <1>1, <1>2, <1>3, <1>4, <1>5, OInvStep

\* It changes an object; only its deletion may unmark it.
LEMMA OInvObject ==
  ASSUME SInv, OInv, NEW p \in Procs, NEW b \in Call, op' = [op EXCEPT ![p] = b],
         b.at \notin Deleting,
         NEW o \in Objects, NEW m \in Object, ms' = [ms EXCEPT ![o] = m], ended \subseteq ended',
         m.deleting = ms[o].deleting \/ (op[p].at \in Deleting /\ op[p].o = o),
         m.worker \in {ms[o].worker, NoWorker} \/ ~ms[o].deleting,
         m.state = "terminated" => \/ m.worker = NoWorker
                                   \/ m.worker = ms[o].worker /\ ms[o].state = "terminated"
  PROVE  OInv'
<1>0. ms'[o] = m /\ \A x \in Objects \ {o} : ms'[x] = ms[x]
  BY SInvTypes
<1>1. ASSUME NEW q \in Procs \ {p}, op[q].at \in Deleting PROVE ms'[op[q].o].deleting
  <2>1. op[q].o \in Objects /\ ms[op[q].o].deleting
    BY <1>1, HeldCall DEF OInv, Holding
  <2>2. CASE op[q].o = o
    <3>1. op[p].at \in Deleting => op[p].o # o
      BY <1>1, <2>2 DEF OInv
    <3> QED BY <1>0, <2>1, <2>2, <3>1
  <2>3. CASE op[q].o # o
    BY <1>0, <2>1, <2>3
  <2> QED BY <2>2, <2>3
<1>2. ASSUME NEW x \in Objects, Held(x, ms', ended') PROVE Held(x, ms, ended) \/ ~ms[x].deleting
  <2>1. CASE x = o
    BY <1>0, <1>2, <2>1 DEF Held
  <2>2. CASE x # o
    BY <1>0, <1>2, <2>2 DEF Held
  <2> QED BY <2>1, <2>2
<1>3. ASSUME NEW x \in Objects, ms'[x].state = "terminated" PROVE ~Held(x, ms', ended')
  <2>1. CASE x = o
    BY <1>0, <1>3, <2>1 DEF Held, OInv, Holds
  <2>2. CASE x # o
    BY <1>0, <1>3, <2>2 DEF Held, OInv, Holds
  <2> QED BY <2>1, <2>2
<1>4. ~Ending(b)
  BY DEF Ending
<1> QED BY <1>1, <1>2, <1>3, <1>4, OInvStep

\* It takes a free object.
LEMMA OInvNew ==
  ASSUME SInv, OInv, NEW p \in Procs, NEW b \in Call, op' = [op EXCEPT ![p] = b],
         NEW o \in Free, NEW m \in Object, ms' = [ms EXCEPT ![o] = m], UNCHANGED ended,
         m.worker = NoWorker, b.at \in Deleting => b.o = o /\ m.deleting
  PROVE  OInv'
<1>0. ms'[o] = m /\ (\A x \in Objects \ {o} : ms'[x] = ms[x]) /\ o \in Objects
      /\ \A q \in Procs : op[q].o # o
  BY SInvTypes, FreeFacts
<1>1. ASSUME NEW q \in Procs \ {p}, op[q].at \in Deleting PROVE ms'[op[q].o].deleting
  <2>1. op[q].o \in Objects /\ ms[op[q].o].deleting /\ op[q].o # o
    BY <1>0, <1>1, HeldCall DEF OInv, Holding
  <2> QED BY <1>0, <2>1
<1>2. \A x \in Objects : Held(x, ms', ended') => Held(x, ms, ended) \/ ~ms[x].deleting
  BY <1>0 DEF Held
<1>3. \A x \in Objects : ms'[x].state = "terminated" => ~Held(x, ms', ended')
  BY <1>0 DEF Held, OInv, Holds
<1>4. Ending(b) => ~Held(b.o, ms', ended')
  BY <1>0 DEF Ending, Held
<1>5. b.at \in Deleting => /\ ms'[b.o].deleting
                           /\ \A q \in Procs \ {p} : op[q].at \in Deleting => op[q].o # b.o
  BY <1>0
<1> QED BY <1>1, <1>2, <1>3, <1>4, <1>5, OInvStep

LEMMA GoToFacts ==
  ASSUME SInv, SInv', NEW p \in Procs, NEW call, GoTo(p, call)
  PROVE  op' = [op EXCEPT ![p] = call] /\ op'[p] = call /\ call \in Call
<1>1. op' = [op EXCEPT ![p] = call] /\ op'[p] = call
  BY SInvTypes DEF GoTo
<1>2. op' \in [Procs -> Call]
  BY DEF SInv, STypeOK
<1> QED BY <1>1, <1>2

LEMMA OQuiet ==
  ASSUME SInv, SInv', OInv, NEW p \in Procs, NEW call, GoTo(p, call), call.at \notin Deleting,
         UNCHANGED <<ms, ended, cache>>
  PROVE  OInv' /\ OrphanStep
<1>1. OInv'
  BY GoToFacts, OInvCall
<1> QED BY <1>1 DEF OrphanStep

LEMMA NotDeleting ==
  {"idle", "load", "transition", "input", "detach", "upsert", "commit", "acquire", "attach",
   "release", "install", "update"} \cap Deleting = {}
BY DEF Deleting

LEMMA OStarts ==
  ASSUME SInv, SInv', OInv, NEW p \in Procs, NEW s \in Sessions,
         \/ \E to \in {"running", "idle", "terminated"} : StartTransition(p, s, to)
         \/ StartInput(p, s)
         \/ \E w \in Workers \cup {NoWorker} : StartDetach(p, s, w)
         \/ Get(p, s) \/ CreateUpsert(p, s) \/ UpdateSession(p, s)
         \/ \E w \in Workers : AttachCheck(p, s, w)
  PROVE  OInv' /\ OrphanStep
<1>0. Idle \in Call
  BY CallIdle
<1>1. ASSUME NEW call, Lookup(p, s, call), call \in Call,
             call.then \in {"idle", "transition", "input", "detach"}
      PROVE  OInv' /\ OrphanStep
  <2>1. \E c : GoTo(p, c) /\ c.at \notin Deleting
    <3>1. CASE cache[s] # NoObject
      <4> DEFINE b == [call EXCEPT !.at = call.then, !.then = "idle", !.s = s, !.o = cache[s]]
      <4>1. GoTo(p, b)
        BY <1>1, <3>1 DEF Lookup
      <4>2. b.at = call.then
        BY <1>1 DEF Call
      <4> HIDE DEF b
      <4> QED BY <1>1, <4>1, <4>2, NotDeleting
    <3>2. CASE cache[s] = NoObject
      <4> DEFINE b == [call EXCEPT !.at = "load", !.s = s, !.st = row[s]]
      <4>1. GoTo(p, b)
        BY <1>1, <3>2 DEF Lookup
      <4>2. b.at = "load"
        BY <1>1 DEF Call
      <4> HIDE DEF b
      <4> QED BY <4>1, <4>2, NotDeleting
    <3> QED BY <3>1, <3>2
  <2> QED BY <1>1, <2>1, OQuiet DEF Lookup
<1>2. ASSUME NEW to \in {"running", "idle", "terminated"}, StartTransition(p, s, to)
      PROVE  OInv' /\ OrphanStep
  <2> DEFINE b == [Idle EXCEPT !.then = "transition", !.to = to]
  <2>0. "transition" \in Positions /\ to \in States \cup {"none"}
    BY DEF Positions, States, Active
  <2>1. b \in Call /\ b.then = "transition"
    BY <1>0, <2>0 DEF Call
  <2> HIDE DEF b
  <2> QED BY <1>1, <1>2, <2>1 DEF StartTransition, b
<1>3. CASE StartInput(p, s)
  <2> DEFINE b == [Idle EXCEPT !.then = "input", !.to = "running"]
  <2>0. "input" \in Positions /\ "running" \in States \cup {"none"}
    BY DEF Positions, States, Active
  <2>1. b \in Call /\ b.then = "input"
    BY <1>0, <2>0 DEF Call
  <2> HIDE DEF b
  <2> QED BY <1>1, <1>3, <2>1 DEF StartInput, b
<1>4. ASSUME NEW w \in Workers \cup {NoWorker}, StartDetach(p, s, w) PROVE OInv' /\ OrphanStep
  <2> DEFINE b == [Idle EXCEPT !.then = "detach", !.w = w]
  <2>1. b \in Call /\ b.then = "detach"
    BY <1>0 DEF Call, Positions
  <2> HIDE DEF b
  <2> QED BY <1>1, <1>4, <2>1 DEF StartDetach, b
<1>5. CASE Get(p, s)
  BY <1>0, <1>1, <1>5 DEF Get, Idle
<1>6. CASE CreateUpsert(p, s)
  <2> DEFINE b == [Idle EXCEPT !.at = "install", !.s = s]
  <2>1. b.at = "install"
    BY DEF Idle
  <2> HIDE DEF b
  <2>2. GoTo(p, b) /\ UNCHANGED <<ms, ended, cache>>
    BY <1>6 DEF CreateUpsert, b
  <2> QED BY <2>1, <2>2, NotDeleting, OQuiet
<1>7. CASE UpdateSession(p, s)
  <2> DEFINE b == [Idle EXCEPT !.at = "update", !.s = s, !.o = cache[s], !.st = ms[cache[s]].state]
  <2>1. b.at = "update"
    BY DEF Idle
  <2> HIDE DEF b
  <2>2. GoTo(p, b) /\ UNCHANGED <<ms, ended, cache>>
    BY <1>7 DEF UpdateSession, b
  <2> QED BY <2>1, <2>2, NotDeleting, OQuiet
<1>8. ASSUME NEW w \in Workers, AttachCheck(p, s, w) PROVE OInv' /\ OrphanStep
  <2> DEFINE b == [Idle EXCEPT !.at = "acquire", !.s = s, !.w = w]
  <2>1. b.at = "acquire"
    BY DEF Idle
  <2> HIDE DEF b
  <2>2. GoTo(p, b) /\ UNCHANGED <<ms, ended, cache>>
    BY <1>8 DEF AttachCheck, b
  <2> QED BY <2>1, <2>2, NotDeleting, OQuiet
<1> QED BY <1>2, <1>3, <1>4, <1>5, <1>6, <1>7, <1>8

LEMMA OFind ==
  ASSUME SInv, SInv', OInv, NEW p \in Procs, Install(p) \/ CreateInstall(p) \/ FinishUpdate(p)
  PROVE  OInv' /\ OrphanStep
<1> DEFINE c == op[p]
<1>0. c \in Call /\ Idle.at \notin Deleting
  BY SInvTypes, NotDeleting DEF Idle
<1>1. CASE Install(p)
  <2> DEFINE next(o) == IF c.then = "idle" THEN Idle
                        ELSE [c EXCEPT !.at = c.then, !.then = "idle", !.o = o, !.st = "none"]
  <2>0. c.s \in Sessions /\ c.then \in {"idle", "transition", "input", "detach"}
    BY <1>1, HeldCall DEF Install, At
  <2>1. \A o : next(o).at \notin Deleting
    <3>1. \A o : [c EXCEPT !.at = c.then, !.then = "idle", !.o = o, !.st = "none"].at = c.then
      BY <1>0 DEF Call
    <3> QED BY <1>0, <2>0, <3>1, NotDeleting
  <2>2. CASE GoTo(p, next(cache[c.s])) /\ UNCHANGED <<cache, ms>>
    <3> HIDE DEF next
    <3> QED BY <1>1, <2>1, <2>2, OQuiet DEF Install
  <2>3. ASSUME NEW o \in Free, cache[c.s] = NoObject, cache' = [cache EXCEPT ![c.s] = o],
               ms' = [ms EXCEPT ![o] = Loaded(c.s, c.st)], GoTo(p, next(o))
        PROVE  OInv' /\ OrphanStep
    <3>1. Loaded(c.s, c.st) \in Object /\ Loaded(c.s, c.st).worker = NoWorker
      BY <1>0, ObjectTypes DEF Loaded, Unused, Call
    <3>2. UNCHANGED ended
      BY <1>1 DEF Install
    <3>3. OInv'
      <4> HIDE DEF next
      <4> QED BY <2>1, <2>3, <3>1, <3>2, GoToFacts, OInvNew
    <3>4. OrphanStep
      BY <2>0, <2>3, SInvTypes DEF OrphanStep
    <3> QED BY <3>3, <3>4
  <2> QED BY <1>1, <2>2, <2>3 DEF Install
<1>2. CASE CreateInstall(p)
  <2>0. c.s \in Sessions /\ At(p, "install") /\ GoTo(p, Idle) /\ UNCHANGED ended
    BY <1>2, HeldCall DEF CreateInstall, At
  <2>1. PICK o \in Free : cache' = [cache EXCEPT ![c.s] = o] /\ ms' = [ms EXCEPT ![o] = Loaded(c.s, "created")]
    BY <1>2 DEF CreateInstall
  <2>2. Loaded(c.s, "created") \in Object /\ Loaded(c.s, "created").worker = NoWorker
    BY <2>0, ObjectTypes DEF Loaded, Unused, States, Active
  <2>3. OInv'
    BY <1>0, <2>0, <2>1, <2>2, GoToFacts, OInvNew
  <2>4. OrphanStep
    BY <2>0, <2>1, SInvTypes DEF OrphanStep
  <2> QED BY <2>3, <2>4
<1>3. CASE FinishUpdate(p)
  BY <1>0, <1>3, OQuiet DEF FinishUpdate
<1> QED BY <1>1, <1>2, <1>3

LEMMA OEndWorker ==
  ASSUME SInv, SInv', OInv, NEW p \in Procs, op[p].at \in Holding, EndWorker(op[p].o), GoTo(p, Idle),
         UNCHANGED cache
  PROVE  OInv' /\ OrphanStep
<1> DEFINE o == op[p].o
           m == [ms[o] EXCEPT !.state = "terminated", !.worker = NoWorker]
<1>1. o \in Objects
  BY HeldCall
<1>2. m \in Object /\ m.worker = NoWorker /\ m.deleting = ms[o].deleting
  BY <1>1, SInvTypes DEF Object, States
<1>3. ms' = [ms EXCEPT ![o] = m] /\ ended \subseteq ended'
  BY <1>1, SInvTypes DEF EndWorker
<1>4. Idle.at \notin Deleting
  BY NotDeleting DEF Idle
<1> HIDE DEF m, o
<1>5. OInv'
  BY <1>1, <1>2, <1>3, <1>4, GoToFacts, OInvObject
<1> QED BY <1>5 DEF OrphanStep

LEMMA OTransition ==
  ASSUME SInv, SInv', OInv, NEW p \in Procs,
         TransitionBegin(p) \/ InputBegin(p) \/ TransitionUpsert(p) \/ TransitionCommit(p)
  PROVE  OInv' /\ OrphanStep
<1> DEFINE c == op[p]
           up == [c EXCEPT !.at = "upsert"]
           over == [c EXCEPT !.at = "upsert", !.to = "terminated", !.flag = TRUE]
           go == [c EXCEPT !.at = "commit"]
<1>0. c \in Call /\ {"transition", "input", "upsert", "commit"} \subseteq Holding
  BY SInvTypes DEF Holding
<1>1. up.at \notin Deleting /\ over.at \notin Deleting /\ go.at \notin Deleting /\ Idle.at \notin Deleting
  <2>1. up.at = "upsert" /\ over.at = "upsert" /\ go.at = "commit" /\ Idle.at = "idle"
    BY <1>0 DEF Call, Idle
  <2> QED BY <2>1, NotDeleting
<1>2. CASE TransitionBegin(p)
  <2>1. (GoTo(p, Idle) \/ GoTo(p, up)) /\ UNCHANGED <<ms, ended, cache>>
    BY <1>2 DEF TransitionBegin
  <2> HIDE DEF up
  <2> QED BY <1>1, <2>1, OQuiet
<1>3. CASE InputBegin(p)
  <2>1. \/ (GoTo(p, Idle) \/ GoTo(p, up) \/ GoTo(p, over)) /\ UNCHANGED <<ms, ended, cache>>
        \/ GoTo(p, Idle) /\ EndWorker(c.o) /\ UNCHANGED cache
    BY <1>3 DEF InputBegin
  <2>2. c.at = "input"
    BY <1>3 DEF InputBegin, At
  <2> HIDE DEF up, over
  <2> QED BY <1>0, <1>1, <2>1, <2>2, OQuiet, OEndWorker
<1>4. CASE TransitionUpsert(p)
  <2>1. (GoTo(p, Idle) \/ GoTo(p, go)) /\ UNCHANGED <<ms, ended, cache>>
    BY <1>4 DEF TransitionUpsert
  <2> HIDE DEF go
  <2> QED BY <1>1, <2>1, OQuiet
<1>5. CASE TransitionCommit(p)
  <2>1. c.at = "commit" /\ GoTo(p, Idle) /\ UNCHANGED cache
    BY <1>5 DEF TransitionCommit, At
  <2>2. CASE EndWorker(c.o)
    BY <1>0, <2>1, <2>2, OEndWorker
  <2>3. CASE c.to # "terminated" /\ ms' = [ms EXCEPT ![c.o].state = c.to] /\ UNCHANGED ended
    <3> DEFINE m == [ms[c.o] EXCEPT !.state = c.to]
    <3>1. c.o \in Objects /\ c.to \in States \cup {"none"}
      BY <1>0, <2>1, HeldCall DEF Call
    <3>2. m \in Object /\ m.state = c.to /\ m.worker = ms[c.o].worker /\ m.deleting = ms[c.o].deleting
      BY <3>1, SInvTypes DEF Object
    <3>3. ms' = [ms EXCEPT ![c.o] = m]
      BY <2>3, <3>1, SInvTypes
    <3> HIDE DEF m
    <3>4. OInv'
      <4>1. op' = [op EXCEPT ![p] = Idle] /\ Idle \in Call
        BY <2>1, GoToFacts
      <4>2. ended \subseteq ended'
        BY <2>3
      <4> QED BY <1>1, <2>3, <3>1, <3>2, <3>3, <4>1, <4>2, OInvObject
    <3> QED BY <2>1, <3>4 DEF OrphanStep
  <2> QED BY <1>5, <2>2, <2>3 DEF TransitionCommit
<1> QED BY <1>2, <1>3, <1>4, <1>5

LEMMA OAttach ==
  ASSUME SInv, SInv', OInv, NEW p \in Procs,
         AttachAcquire(p) \/ AttachCommit(p) \/ Detach(p) \/ Release(p)
  PROVE  OInv' /\ OrphanStep
<1> DEFINE c == op[p]
           on == [c EXCEPT !.at = "attach"]
           off == [c EXCEPT !.at = "release", !.w = NoWorker]
           rel == [Idle EXCEPT !.at = "release", !.s = c.s]
<1>0. c \in Call /\ Idle \in Call /\ "detach" \in Holding
  BY SInvTypes, CallIdle DEF Holding
<1>1. on.at \notin Deleting /\ off.at \notin Deleting /\ rel.at \notin Deleting /\ Idle.at \notin Deleting
  <2>1. on.at = "attach" /\ off.at = "release" /\ rel.at = "release" /\ Idle.at = "idle"
    BY <1>0 DEF Call, Idle
  <2> QED BY <2>1, NotDeleting
<1>2. CASE AttachAcquire(p)
  <2>1. (GoTo(p, Idle) \/ GoTo(p, on)) /\ UNCHANGED <<ms, ended, cache>>
    BY <1>2 DEF AttachAcquire
  <2> HIDE DEF on
  <2> QED BY <1>1, <2>1, OQuiet
<1>3. CASE AttachCommit(p)
  <2> DEFINE o == cache[c.s]
  <2>1. c.at = "attach" /\ UNCHANGED <<cache, ended>>
    BY <1>3 DEF AttachCommit, At
  <2>2. CASE GoTo(p, off) /\ UNCHANGED ms
    <3> HIDE DEF off
    <3> QED BY <1>1, <2>1, <2>2, OQuiet
  <2>3. CASE StillAttachable(o) /\ ms' = [ms EXCEPT ![o].worker = c.w] /\ GoTo(p, Idle)
    <3> DEFINE m == [ms[o] EXCEPT !.worker = c.w]
    <3>1. o \in Objects /\ c.w \in Workers \cup {NoWorker}
      <4>1. c.s \in Sessions /\ o # NoObject
        BY <2>1, <2>3, HeldCall DEF StillAttachable
      <4> QED BY <1>0, <4>1, SInvTypes DEF Call
    <3>2. ~ms[o].deleting /\ ms[o].state # "terminated"
      BY <2>3 DEF StillAttachable, Active
    <3>3. m \in Object /\ m.state = ms[o].state /\ m.deleting = ms[o].deleting
      <4> HIDE DEF o
      <4> QED BY <3>1, SInvTypes DEF Object
    <3>4. ms' = [ms EXCEPT ![o] = m]
      BY <2>3, <3>1, SInvTypes
    <3> HIDE DEF m, o
    <3>5. OInv'
      <4>1. op' = [op EXCEPT ![p] = Idle] /\ Idle \in Call
        BY <2>3, GoToFacts
      <4>2. ended \subseteq ended'
        BY <2>1
      <4> QED BY <1>1, <3>1, <3>2, <3>3, <3>4, <4>1, <4>2, OInvObject
    <3> QED BY <2>1, <3>5 DEF OrphanStep
  <2> QED BY <1>3, <2>2, <2>3 DEF AttachCommit
<1>4. CASE Detach(p)
  <2>1. c.at = "detach" /\ UNCHANGED cache
    BY <1>4 DEF Detach, At
  <2>2. CASE GoTo(p, Idle) /\ UNCHANGED <<ms, ended>>
    BY <1>1, <2>1, <2>2, OQuiet
  <2>3. CASE /\ ms' = [ms EXCEPT ![c.o].worker = NoWorker]
             /\ ended' = ended \cup {ms[c.o].worker} /\ GoTo(p, rel)
    <3> DEFINE m == [ms[c.o] EXCEPT !.worker = NoWorker]
    <3>1. c.o \in Objects
      BY <1>0, <2>1, HeldCall
    <3>2. m \in Object /\ m.worker = NoWorker /\ m.deleting = ms[c.o].deleting
      BY <3>1, SInvTypes DEF Object
    <3>3. ms' = [ms EXCEPT ![c.o] = m] /\ ended \subseteq ended'
      BY <2>3, <3>1, SInvTypes
    <3> HIDE DEF m, rel
    <3>4. OInv'
      <4>1. op' = [op EXCEPT ![p] = rel] /\ rel \in Call
        BY <2>3, GoToFacts
      <4> QED BY <1>1, <3>1, <3>2, <3>3, <4>1, OInvObject
    <3> QED BY <2>1, <3>4 DEF OrphanStep
  <2> QED BY <1>4, <2>2, <2>3 DEF Detach
<1>5. CASE Release(p)
  BY <1>1, <1>5, OQuiet DEF Release
<1> QED BY <1>2, <1>3, <1>4, <1>5

LEMMA OMark ==
  ASSUME SInv, SInv', OInv, NEW p \in Procs, NEW s \in Sessions, NEW hot \in Deleting,
         NEW cold \in Deleting, Mark(p, s, hot, cold), ended \subseteq ended',
         cache[s] = NoObject => UNCHANGED ended,
         hot = "markdeleted" \/ ms[cache[s]].worker \in ended' \cup {NoWorker}
  PROVE  OInv' /\ OrphanStep
<1>1. ASSUME cache[s] # NoObject, ~ms[cache[s]].deleting,
             ms' = [ms EXCEPT ![cache[s]].deleting = TRUE],
             GoTo(p, [Idle EXCEPT !.at = hot, !.s = s, !.o = cache[s]]), UNCHANGED cache
      PROVE  OInv' /\ OrphanStep
  <2> DEFINE o == cache[s]
             m == [ms[o] EXCEPT !.deleting = TRUE]
             b == [Idle EXCEPT !.at = hot, !.s = s, !.o = o]
  <2>1. o \in Objects /\ ms[o] \in Object
    BY <1>1, SInvTypes
  <2>2. m.deleting /\ m.worker = ms[o].worker /\ m.state = ms[o].state
    <3> HIDE DEF o
    <3> QED BY <2>1 DEF Object
  <2>3. ms' = [ms EXCEPT ![o] = m]
    BY <1>1, <2>1, SInvTypes
  <2>4. b.at = hot /\ b.o = o /\ b.flag = FALSE
    BY DEF Idle
  <2>5. op' = [op EXCEPT ![p] = b] /\ b \in Call
    BY <1>1, GoToFacts
  <2> HIDE DEF b, m, o
  <2>6. ms'[o] = m /\ \A x \in Objects \ {o} : ms'[x] = ms[x]
    BY <2>1, <2>3, SInvTypes
  <2>7. ASSUME NEW q \in Procs \ {p}, op[q].at \in Deleting
        PROVE  ms'[op[q].o].deleting /\ op[q].o # o
    <3>1. op[q].o \in Objects /\ ms[op[q].o].deleting
      BY <2>7, HeldCall DEF OInv, Holding
    <3>2. op[q].o # o
      BY <1>1, <3>1 DEF o
    <3> QED BY <2>6, <3>1, <3>2
  <2>8. \A x \in Objects : Held(x, ms', ended') => Held(x, ms, ended) \/ ~ms[x].deleting
    BY <2>2, <2>6 DEF Held
  <2>9. \A x \in Objects : ms'[x].state = "terminated" => ~Held(x, ms', ended')
    BY <2>2, <2>6 DEF Held, OInv, Holds
  <2>10. Ending(b) => ~Held(b.o, ms', ended')
    <3>1. Ending(b) => ms[o].worker \in ended' \cup {NoWorker}
      BY <2>4 DEF Ending, o
    <3> QED BY <2>2, <2>4, <2>6, <3>1 DEF Held
  <2>11. OInv'
    BY <2>2, <2>4, <2>5, <2>6, <2>7, <2>8, <2>9, <2>10, OInvStep
  <2> QED BY <1>1, <2>11 DEF OrphanStep
<1>2. ASSUME NEW o \in Free, cache[s] = NoObject, cache' = [cache EXCEPT ![s] = o],
             ms' = [ms EXCEPT ![o] = Tombstone(s)],
             GoTo(p, [Idle EXCEPT !.at = cold, !.s = s, !.o = o, !.flag = TRUE])
      PROVE  OInv' /\ OrphanStep
  <2> DEFINE b == [Idle EXCEPT !.at = cold, !.s = s, !.o = o, !.flag = TRUE]
  <2>1. Tombstone(s) \in Object /\ Tombstone(s).worker = NoWorker
    BY ObjectTypes DEF Tombstone, Unused
  <2>2. Tombstone(s).deleting
    BY DEF Tombstone, Unused
  <2>3. b.o = o
    BY DEF Idle
  <2>4. op' = [op EXCEPT ![p] = b] /\ b \in Call
    BY <1>2, GoToFacts
  <2> HIDE DEF b
  <2>5. OInv'
    BY <1>2, <2>1, <2>2, <2>3, <2>4, OInvNew
  <2>6. OrphanStep
    BY <1>2, SInvTypes DEF OrphanStep
  <2> QED BY <2>5, <2>6
<1> QED BY <1>1, <1>2 DEF Mark

LEMMA ODeletions ==
  ASSUME SInv, SInv', OInv, NEW p \in Procs, NEW s \in Sessions,
         Delete(p, s) \/ DeletePhysical(p, s) \/ Retire(p, s)
  PROVE  OInv' /\ OrphanStep
<1>0. {"markdeleted", "loaddeleted", "physical", "retire"} \subseteq Deleting
  BY DEF Deleting
<1>1. CASE Delete(p, s)
  BY <1>0, <1>1, OMark DEF Delete
<1>2. ASSUME Retire(p, s), cache[s] # NoObject PROVE OInv' /\ OrphanStep
  BY <1>0, <1>2, OMark DEF Retire
<1>3. ASSUME DeletePhysical(p, s), cache[s] # NoObject PROVE OInv' /\ OrphanStep
  <2>1. Mark(p, s, "physical", "physical") /\ ended' = ended \cup ({ms[cache[s]].worker} \ {NoWorker})
    BY <1>3 DEF DeletePhysical
  <2>2. ended \subseteq ended' /\ ms[cache[s]].worker \in ended' \cup {NoWorker}
    BY <2>1
  <2> QED BY <1>0, <1>3, <2>1, <2>2, OMark
<1>4. ASSUME Retire(p, s) \/ DeletePhysical(p, s), cache[s] = NoObject PROVE OInv' /\ OrphanStep
  <2>1. PICK at \in {"retire", "physical"} : Mark(p, s, at, at)
    BY <1>4 DEF Retire, DeletePhysical
  <2>2. UNCHANGED ended
    BY <1>4 DEF Retire, DeletePhysical
  <2>3. Mark(p, s, "markdeleted", at)
    BY <1>4, <2>1 DEF Mark
  <2> QED BY <1>0, <2>2, <2>3, OMark
<1> QED BY <1>1, <1>2, <1>3, <1>4

\* A deletion that leaves the map alone, or takes out of it an object without
\* a worker.
LEMMA OForget ==
  ASSUME SInv, SInv', OInv, NEW p \in Procs, op[p].at \in Deleting, op[p].s \in Sessions, GoTo(p, Idle),
         UNCHANGED <<ms, ended>>,
         cache' = cache \/ (Ending(op[p]) /\ Current(p) /\ cache' = Forgotten(op[p].s))
  PROVE  OInv' /\ OrphanStep
<1>1. Idle.at \notin Deleting
  BY NotDeleting DEF Idle
<1>2. OInv'
  BY <1>1, GoToFacts, OInvCall
<1>3. CASE cache' = cache
  BY <1>2, <1>3 DEF OrphanStep
<1>4. CASE Ending(op[p]) /\ Current(p) /\ cache' = Forgotten(op[p].s)
  <2>1. ~Holds(cache[op[p].s])
    BY <1>4 DEF OInv, Current
  <2>2. \A s \in Sessions : s # op[p].s => cache'[s] = cache[s]
    BY <1>4, SInvTypes DEF Forgotten
  <2> QED BY <1>2, <2>1, <2>2 DEF OrphanStep
<1> QED BY <1>2, <1>3, <1>4

\* A deletion that changes its object when it ends.
LEMMA OLast ==
  ASSUME SInv, SInv', OInv, NEW p \in Procs, op[p].at \in Deleting, GoTo(p, Idle),
         ended \subseteq ended',
         \/ ms' = [ms EXCEPT ![op[p].o].state = "deleted"]
         \/ ms' = [ms EXCEPT ![op[p].o].deleting = FALSE]
  PROVE  OInv'
<1> DEFINE o == op[p].o
<1>1. o \in Objects /\ ms[o] \in Object
  BY HeldCall, SInvTypes DEF Holding
<1>2. op' = [op EXCEPT ![p] = Idle] /\ Idle \in Call /\ Idle.at \notin Deleting
  BY GoToFacts, NotDeleting DEF Idle
<1>3. CASE ms' = [ms EXCEPT ![o].state = "deleted"]
  <2> DEFINE m == [ms[o] EXCEPT !.state = "deleted"]
  <2>1. m \in Object /\ m.worker = ms[o].worker /\ m.state = "deleted"
    BY <1>1 DEF Object, States
  <2>2. ms' = [ms EXCEPT ![o] = m]
    BY <1>1, <1>3, SInvTypes
  <2> HIDE DEF m, o
  <2> QED BY <1>1, <1>2, <2>1, <2>2, OInvObject DEF o
<1>4. CASE ms' = [ms EXCEPT ![o].deleting = FALSE]
  <2> DEFINE m == [ms[o] EXCEPT !.deleting = FALSE]
  <2>1. m \in Object /\ m.worker = ms[o].worker /\ m.state = ms[o].state
    BY <1>1 DEF Object
  <2>2. ms' = [ms EXCEPT ![o] = m]
    BY <1>1, <1>4, SInvTypes
  <2> HIDE DEF m, o
  <2> QED BY <1>1, <1>2, <2>1, <2>2, OInvObject DEF o
<1> QED BY <1>3, <1>4

LEMMA ODelete ==
  ASSUME SInv, SInv', OInv, NEW p \in Procs, DeleteLoad(p) \/ PersistDelete(p) \/ DropDeleted(p)
  PROVE  OInv' /\ OrphanStep
<1> DEFINE c == op[p]
<1>0. {"loaddeleted", "markdeleted", "dropdeleted"} \subseteq Deleting /\ Deleting \subseteq Holding
  BY DEF Deleting, Holding
<1>0a. c \in Call
  BY SInvTypes
<1>1. CASE DeleteLoad(p)
  <2>1. c.at = "loaddeleted" /\ UNCHANGED <<ms, ended>>
    BY <1>1 DEF DeleteLoad, At
  <2>2. c.s \in Sessions /\ Ending(c)
    BY <1>0, <2>1, HeldCall DEF Ending
  <2>3. CASE GoTo(p, Idle) /\ cache' = IF Current(p) THEN Forgotten(c.s) ELSE cache
    BY <1>0, <2>1, <2>2, <2>3, OForget
  <2>4. CASE GoTo(p, [c EXCEPT !.at = "markdeleted", !.st = row[c.s]]) /\ UNCHANGED cache
    <3> DEFINE b == [c EXCEPT !.at = "markdeleted", !.st = row[c.s]]
    <3>1. b.o = c.o
      BY <1>0a DEF Call
    <3>2. op' = [op EXCEPT ![p] = b] /\ b \in Call
      BY <2>4, GoToFacts
    <3> HIDE DEF b
    <3>3. OInv'
      BY <1>0, <2>1, <2>2, <3>1, <3>2, OInvOn
    <3> QED BY <2>4, <3>3 DEF OrphanStep
  <2> QED BY <1>1, <2>3, <2>4 DEF DeleteLoad
<1>2. CASE PersistDelete(p)
  <2>1. c.at = "markdeleted" /\ UNCHANGED ended
    BY <1>2 DEF PersistDelete, At
  <2>2. c.s \in Sessions /\ c.o \in Objects
    BY <1>0, <2>1, HeldCall
  <2>3. CASE GoTo(p, [c EXCEPT !.at = "dropdeleted"]) /\ UNCHANGED <<cache, ms>>
    <3> DEFINE b == [c EXCEPT !.at = "dropdeleted"]
    <3>1. b.o = c.o /\ b.at = "dropdeleted" /\ b.flag = c.flag
      BY <1>0a DEF Call
    <3>2. op' = [op EXCEPT ![p] = b] /\ b \in Call
      BY <2>3, GoToFacts
    <3> HIDE DEF b
    <3>3. Ending(b) => Ending(c)
      BY <1>0, <2>1, <3>1 DEF Ending
    <3>4. OInv'
      BY <1>0, <2>1, <2>3, <3>1, <3>2, <3>3, OInvOn
    <3> QED BY <2>3, <3>4 DEF OrphanStep
  <2>4. CASE GoTo(p, Idle) /\ UNCHANGED <<cache, ms>>
    BY <1>0, <2>1, <2>2, <2>4, OForget
  <2>5. CASE GoTo(p, Idle) /\ UNCHANGED cache /\ ms' = [ms EXCEPT ![c.o].deleting = FALSE]
    <3>1. OInv'
      BY <1>0, <2>1, <2>5, OLast
    <3> QED BY <2>5, <3>1 DEF OrphanStep
  <2>6. ASSUME NEW o \in Free, GoTo(p, Idle), Current(p), c.flag,
               cache' = [cache EXCEPT ![c.s] = o], ms' = [ms EXCEPT ![o] = Loaded(c.s, c.st)]
        PROVE  OInv' /\ OrphanStep
    <3>1. Loaded(c.s, c.st) \in Object /\ Loaded(c.s, c.st).worker = NoWorker
      BY <1>0a, <2>2, ObjectTypes DEF Loaded, Unused, Call
    <3>2. op' = [op EXCEPT ![p] = Idle] /\ Idle \in Call /\ Idle.at \notin Deleting
      BY <2>6, GoToFacts, NotDeleting DEF Idle
    <3>3. OInv'
      BY <2>1, <2>6, <3>1, <3>2, OInvNew
    <3>4. ~Holds(cache[c.s])
      BY <1>0, <2>1, <2>6 DEF OInv, Ending, Current
    <3>5. \A s \in Sessions : s # c.s => cache'[s] = cache[s]
      BY <2>6, SInvTypes
    <3> QED BY <3>3, <3>4, <3>5 DEF OrphanStep
  <2> QED BY <1>2, <2>3, <2>4, <2>5, <2>6 DEF PersistDelete
<1>3. CASE DropDeleted(p)
  <2>1. c.at = "dropdeleted" /\ GoTo(p, Idle)
    BY <1>3 DEF DropDeleted, At
  <2>2. c.s \in Sessions
    BY <1>0, <2>1, HeldCall
  <2>3. CASE UNCHANGED <<ms, pool, ended, cache>>
    BY <1>0, <2>1, <2>2, <2>3, OForget
  <2>4. CASE /\ Current(p) /\ ms' = [ms EXCEPT ![c.o].state = "deleted"]
             /\ ended' = ended \cup ({ms[c.o].worker} \ {NoWorker}) /\ cache' = Forgotten(c.s)
    <3>1. OInv'
      BY <1>0, <2>1, <2>4, OLast
    <3>2. Holds(cache[c.s]) => ms[cache[c.s]].worker \in ended'
      BY <2>4 DEF Current, Holds
    <3>3. \A s \in Sessions : s # c.s => cache'[s] = cache[s]
      BY <2>4, SInvTypes DEF Forgotten
    <3> QED BY <3>1, <3>2, <3>3 DEF OrphanStep
  <2> QED BY <1>3, <2>3, <2>4 DEF DropDeleted
<1> QED BY <1>1, <1>2, <1>3

LEMMA ORest ==
  ASSUME SInv, SInv', OInv, NEW p \in Procs,
         PersistPhysical(p) \/ Uncache(p) \/ PersistRetire(p) \/ Retired(p)
  PROVE  OInv' /\ OrphanStep
<1> DEFINE c == op[p]
<1>0. {"physical", "uncache", "retire", "retired"} \subseteq Deleting /\ Deleting \subseteq Holding
  BY DEF Deleting, Holding
<1>0a. c \in Call /\ (c.at \in {"physical", "uncache", "retire", "retired"} => c.s \in Sessions /\ Ending(c))
  BY <1>0, SInvTypes, HeldCall DEF Ending
<1>1. CASE PersistPhysical(p)
  <2> DEFINE b == [c EXCEPT !.at = "uncache"]
  <2>1. c.at = "physical" /\ GoTo(p, b) /\ UNCHANGED <<cache, ms, ended>>
    BY <1>1 DEF PersistPhysical, At
  <2>2. b.o = c.o
    BY <1>0a DEF Call
  <2>3. op' = [op EXCEPT ![p] = b] /\ b \in Call
    BY <2>1, GoToFacts
  <2> HIDE DEF b
  <2>4. OInv'
    BY <1>0, <1>0a, <2>1, <2>2, <2>3, OInvOn
  <2> QED BY <2>1, <2>4 DEF OrphanStep
<1>2. CASE Uncache(p)
  <2>1. c.at = "uncache" /\ GoTo(p, Idle) /\ UNCHANGED <<ms, ended>>
        /\ cache' = IF Current(p) THEN Forgotten(c.s) ELSE cache
    BY <1>2 DEF Uncache, At
  <2> QED BY <1>0, <1>0a, <2>1, OForget
<1>3. CASE PersistRetire(p)
  <2>1. c.at = "retire" /\ UNCHANGED ended
    BY <1>3 DEF PersistRetire, At
  <2>2. CASE GoTo(p, [c EXCEPT !.at = "retired"]) /\ UNCHANGED <<cache, ms>>
    <3> DEFINE b == [c EXCEPT !.at = "retired"]
    <3>1. b.o = c.o
      BY <1>0a DEF Call
    <3>2. op' = [op EXCEPT ![p] = b] /\ b \in Call
      BY <2>2, GoToFacts
    <3> HIDE DEF b
    <3>3. OInv'
      BY <1>0, <1>0a, <2>1, <2>2, <3>1, <3>2, OInvOn
    <3> QED BY <2>2, <3>3 DEF OrphanStep
  <2>3. ASSUME GoTo(p, Idle), cache' = IF Current(p) /\ c.flag THEN Forgotten(c.s) ELSE cache,
               ms' = IF Current(p) /\ ~c.flag THEN [ms EXCEPT ![c.o].deleting = FALSE] ELSE ms
        PROVE  OInv' /\ OrphanStep
    <3>1. CASE ms' = ms
      BY <1>0, <1>0a, <2>1, <2>3, <3>1, OForget
    <3>2. CASE cache' = cache /\ ms' = [ms EXCEPT ![c.o].deleting = FALSE]
      <4>1. OInv'
        BY <1>0, <2>1, <2>3, <3>2, OLast
      <4> QED BY <3>2, <4>1 DEF OrphanStep
    <3> QED BY <2>3, <3>1, <3>2
  <2> QED BY <1>3, <2>2, <2>3 DEF PersistRetire
<1>4. CASE Retired(p)
  <2>1. c.at = "retired" /\ GoTo(p, Idle) /\ UNCHANGED ended
    BY <1>4 DEF Retired, At
  <2>2. CASE UNCHANGED <<ms, cache>>
    BY <1>0, <1>0a, <2>1, <2>2, OForget
  <2>3. CASE Current(p) /\ ms' = [ms EXCEPT ![c.o].state = "deleted"] /\ cache' = Forgotten(c.s)
    <3>1. OInv'
      BY <1>0, <2>1, <2>3, OLast
    <3>2. ~Holds(cache[c.s])
      BY <1>0a, <2>1, <2>3 DEF OInv, Current
    <3>3. \A s \in Sessions : s # c.s => cache'[s] = cache[s]
      BY <2>3, SInvTypes DEF Forgotten
    <3> QED BY <3>1, <3>2, <3>3 DEF OrphanStep
  <2> QED BY <1>4, <2>2, <2>3 DEF Retired
<1> QED BY <1>1, <1>2, <1>3, <1>4

LEMMA OInvSame ==
  ASSUME OInv, UNCHANGED <<op, ms, ended>>
  PROVE  OInv'
BY DEF OInv, Holds, Ending

LEMMA OInvNext == SInv /\ OInv /\ [Next]_vars => OInv' /\ OrphanStep
<1> SUFFICES ASSUME SInv, OInv, [Next]_vars PROVE OInv' /\ OrphanStep
  OBVIOUS
<1>0. SInv'
  BY SInvNext
<1>1. ASSUME NEW p \in Procs, NEW s \in Sessions, SessionStep(p, s) PROVE OInv' /\ OrphanStep
  BY <1>0, <1>1, OStarts, ODeletions DEF SessionStep
<1>2. ASSUME NEW p \in Procs, Continue(p) PROVE OInv' /\ OrphanStep
  BY <1>0, <1>2, OFind, OTransition, OAttach, ODelete, ORest DEF Continue
<1>3. ASSUME NEW s \in Sessions, DeleteTerminated(s) \/ CleanupDone(s) PROVE OInv' /\ OrphanStep
  BY <1>3, OInvSame DEF DeleteTerminated, CleanupDone, OrphanStep
<1>4. ASSUME NEW s \in Sessions, Evict(s) PROVE OInv' /\ OrphanStep
  <2>1. OInv'
    BY <1>4, OInvSame DEF Evict
  <2>2. ~Holds(cache[s])
    BY <1>4, SInvTypes DEF Evict, OInv
  <2>3. \A x \in Sessions : x # s => cache'[x] = cache[x]
    BY <1>4, SInvTypes DEF Evict, Forgotten
  <2> QED BY <2>1, <2>2, <2>3 DEF OrphanStep
<1>5. CASE UpdateLimits
  BY <1>5, OInvSame DEF UpdateLimits, OrphanStep
<1>6. CASE UNCHANGED vars
  BY <1>6, OInvSame DEF vars, OrphanStep
<1> QED BY <1>1, <1>2, <1>3, <1>4, <1>5, <1>6 DEF Next

\* No deletion, retirement or eviction takes a session out of the map while
\* its worker runs on with nobody to stop it, in whatever order they race
\* with attaches: the deleting mark is one goroutine's own, and an attach
\* checks it again under the lock.
THEOREM NobodyStranded == Spec => NoOrphan
<1>1. Init => OInv
  BY NotDeleting DEF Init, OInv, Ending, Holds, Idle, Unused
<1>2. SInv /\ OInv /\ [Next]_vars => OInv'
  BY OInvNext
<1>3. SInv /\ OInv /\ [Next]_vars =>
        [\A s \in Sessions :
           LET o == cache[s] IN
           o # NoObject /\ cache'[s] # o /\ Holds(o)
           => \/ ms[o].worker \in ended'
              \/ \E p \in Procs : At(p, "install") /\ op[p].s = s]_vars
  BY OInvNext DEF OrphanStep
<1> QED BY <1>1, <1>2, <1>3, SInvAlways, PTL DEF Spec, NoOrphan

-----------------------------------------------------------------------------
(* Counting who holds quota.                                                 *)

Taking == {"acquire", "attach"}
Between == {"attach", "release"}

\* The two parts of InUse(S), of any objects m, ended workers e and calls c.
Running(S, m, e) == {o \in Objects : Held(o, m, e) /\ m[o].s \in S}
InHand(S, c) == {p \in Procs : c[p].at \in Between /\ c[p].s \in S}
One(s, S) == IF s \in S THEN 1 ELSE 0

LEMMA UseParts ==
  ASSUME NEW S
  PROVE  /\ InUse(S) = Cardinality(Running(S, ms, ended)) + Cardinality(InHand(S, op))
         /\ InUse(S)' = Cardinality(Running(S, ms', ended')) + Cardinality(InHand(S, op'))
<1>1. Running(S, ms, ended) = {o \in Objects : Holds(o) /\ ms[o].s \in S}
  BY DEF Running, Held, Holds
<1>2. InHand(S, op) = {p \in Procs : op[p].at \in {"attach", "release"} /\ op[p].s \in S}
  BY DEF InHand, Between
<1>3. Running(S, ms', ended') = {o \in Objects : Holds(o)' /\ ms'[o].s \in S}
  BY DEF Running, Held, Holds
<1>4. InHand(S, op') = {p \in Procs : op'[p].at \in {"attach", "release"} /\ op'[p].s \in S}
  BY DEF InHand, Between
<1>5. InUse(S) = Cardinality(Running(S, ms, ended)) + Cardinality(InHand(S, op))
  BY <1>1, <1>2 DEF InUse
<1>6. InUse(S)' = Cardinality(Running(S, ms', ended')) + Cardinality(InHand(S, op'))
  BY <1>3, <1>4 DEF InUse
<1> QED BY <1>5, <1>6

LEMMA PartsFinite ==
  \A S, m, e, c : /\ IsFiniteSet(Running(S, m, e)) /\ Cardinality(Running(S, m, e)) \in Nat
                  /\ IsFiniteSet(InHand(S, c)) /\ Cardinality(InHand(S, c)) \in Nat
<1> SUFFICES ASSUME NEW S, NEW m, NEW e, NEW c
             PROVE  /\ IsFiniteSet(Running(S, m, e)) /\ Cardinality(Running(S, m, e)) \in Nat
                    /\ IsFiniteSet(InHand(S, c)) /\ Cardinality(InHand(S, c)) \in Nat
  OBVIOUS
<1>1. Running(S, m, e) \subseteq Objects /\ InHand(S, c) \subseteq Procs
  BY DEF Running, InHand
<1>2. IsFiniteSet(Running(S, m, e)) /\ IsFiniteSet(InHand(S, c))
  BY <1>1, PoolAssumption, FS_Subset
<1> QED BY <1>2, FS_CardinalityType

LEMMA UseNat == \A S : InUse(S) \in Nat
BY UseParts, PartsFinite

LEMMA RunningSame ==
  ASSUME NEW S, NEW m, NEW e, NEW n, NEW f,
         \A o \in Objects : /\ Held(o, n, f) <=> Held(o, m, e)
                            /\ Held(o, m, e) => n[o].s = m[o].s
  PROVE  Running(S, n, f) = Running(S, m, e)
BY DEF Running

\* From (m, e) to (n, f) one object stops holding quota.
LEMMA RunningLess ==
  ASSUME NEW S, NEW m, NEW e, NEW n, NEW f, NEW o \in Objects, Held(o, m, e), ~Held(o, n, f),
         \A x \in Objects \ {o} : /\ Held(x, n, f) <=> Held(x, m, e)
                                  /\ Held(x, m, e) => n[x].s = m[x].s
  PROVE  Cardinality(Running(S, n, f)) = Cardinality(Running(S, m, e)) - One(m[o].s, S)
<1>1. CASE m[o].s \in S
  <2>1. Running(S, n, f) = Running(S, m, e) \ {o} /\ o \in Running(S, m, e)
    BY <1>1 DEF Running
  <2> QED BY <1>1, <2>1, PartsFinite, FS_RemoveElement DEF One
<1>2. CASE m[o].s \notin S
  <2>1. Running(S, n, f) = Running(S, m, e)
    BY <1>2 DEF Running
  <2> QED BY <1>2, <2>1, PartsFinite DEF One
<1> QED BY <1>1, <1>2

LEMMA InHandSame ==
  ASSUME NEW S, NEW c, NEW d,
         \A p \in Procs : /\ d[p].at \in Between <=> c[p].at \in Between
                          /\ c[p].at \in Between => d[p].s = c[p].s
  PROVE  InHand(S, d) = InHand(S, c)
BY DEF InHand

LEMMA InHandLess ==
  ASSUME NEW S, NEW c, NEW d, NEW p \in Procs, c[p].at \in Between, d[p].at \notin Between,
         \A q \in Procs \ {p} : d[q] = c[q]
  PROVE  Cardinality(InHand(S, d)) = Cardinality(InHand(S, c)) - One(c[p].s, S)
<1>1. CASE c[p].s \in S
  <2>1. InHand(S, d) = InHand(S, c) \ {p} /\ p \in InHand(S, c)
    BY <1>1 DEF InHand
  <2> QED BY <1>1, <2>1, PartsFinite, FS_RemoveElement DEF One
<1>2. CASE c[p].s \notin S
  <2>1. InHand(S, d) = InHand(S, c)
    BY <1>2 DEF InHand
  <2> QED BY <1>2, <2>1, PartsFinite DEF One
<1> QED BY <1>1, <1>2

\* A worker belongs to one object, or to the one attach that is about to bring
\* it; before a deletion no object keeps a worker that has been ended.
QInv ==
  /\ \A o, x \in Objects : o # x /\ ms[o].worker = ms[x].worker => ms[o].worker = NoWorker
  /\ \A p \in Procs : op[p].at \in Taking =>
       /\ op[p].w \in Workers \ ended
       /\ \A o \in Objects : ms[o].worker # op[p].w
  /\ \A p, q \in Procs : p # q /\ op[p].at \in Taking /\ op[q].at \in Taking => op[p].w # op[q].w
  /\ deletes = 0 => /\ \A p \in Procs : op[p].at \notin Deleting
                    /\ \A o \in Objects : ms[o].worker \notin ended

SameUse == \A S \in SUBSET Sessions : InUse(S)' = InUse(S)
MoreUse(s) == \A S \in SUBSET Sessions : InUse(S)' = InUse(S) + One(s, S)
LessUse(s) == \A S \in SUBSET Sessions : InUse(S)' = InUse(S) - One(s, S)

\* What a step may do to the counters and to what is in use.  Only after a
\* deletion may the two drift apart, and only towards counting too little.
Balanced ==
  \/ SameUse /\ (pool' = pool \/ pool' = [pool EXCEPT !.mem = [u \in Users |-> 0]])
  \/ \E s \in Sessions : MoreUse(s) /\ pool' = Acquired(s)
  \/ \E s \in Sessions : LessUse(s) /\ pool' = Released(s)
  \/ deletes' # 0 /\ \E s \in Sessions : SameUse /\ pool' = Released(s)
  \/ deletes' # 0 /\ \E s \in Sessions : MoreUse(s) /\ pool' = pool

\* Most steps neither take nor return quota: at most they empty an object
\* that holds none.
Plain(p) ==
  /\ \A q \in Procs \ {p} : op'[q] = op[q]
  /\ op[p].at \notin Between /\ op'[p].at \notin Between \cup Taking
  /\ op'[p].at \in Deleting => op[p].at \in Deleting \/ deletes' # 0
  /\ \A o \in Objects : \/ ms'[o].worker = ms[o].worker /\ ms'[o].s = ms[o].s
                        \/ ~Holds(o) /\ ms'[o].worker = NoWorker
  /\ UNCHANGED <<pool, ended>> /\ (deletes' = 0 => deletes = 0)

LEMMA QPlain ==
  ASSUME SInv, SInv', QInv, NEW p \in Procs, Plain(p)
  PROVE  QInv' /\ Balanced
<1>0. NoWorker \notin Workers /\ NoWorker \notin ended /\ ended' = ended
  BY PoolAssumption, SInvTypes DEF Plain
<1>1. \A o \in Objects : ms'[o].worker \in {ms[o].worker, NoWorker}
  BY DEF Plain
<1>2. \A q \in Procs : op'[q].at \in Taking => op[q].at \in Taking /\ op'[q].w = op[q].w
  BY DEF Plain
<1>3. QInv'
  <2>1. \A o, x \in Objects : o # x /\ ms'[o].worker = ms'[x].worker => ms'[o].worker = NoWorker
    BY <1>1 DEF QInv
  <2>2. \A q \in Procs : op'[q].at \in Taking =>
          op'[q].w \in Workers \ ended' /\ \A o \in Objects : ms'[o].worker # op'[q].w
    BY <1>0, <1>1, <1>2 DEF QInv
  <2>3. \A q, r \in Procs : q # r /\ op'[q].at \in Taking /\ op'[r].at \in Taking => op'[q].w # op'[r].w
    BY <1>2 DEF QInv
  <2>4. deletes' = 0 => /\ \A q \in Procs : op'[q].at \notin Deleting
                        /\ \A o \in Objects : ms'[o].worker \notin ended'
    BY <1>0, <1>1 DEF QInv, Plain
  <2> QED BY <2>1, <2>2, <2>3, <2>4 DEF QInv
<1>4. \A o \in Objects : /\ Held(o, ms', ended') <=> Held(o, ms, ended)
                         /\ Held(o, ms, ended) => ms'[o].s = ms[o].s
  BY <1>0 DEF Plain, Held, Holds
<1>5. \A q \in Procs : /\ op'[q].at \in Between <=> op[q].at \in Between
                       /\ op[q].at \in Between => op'[q].s = op[q].s
  BY DEF Plain
<1>6. \A S : Running(S, ms', ended') = Running(S, ms, ended) /\ InHand(S, op') = InHand(S, op)
  BY <1>4, <1>5, RunningSame, InHandSame
<1>7. SameUse
  BY <1>6, UseParts DEF SameUse
<1> QED BY <1>3, <1>7 DEF Balanced, Plain

\* The worker of an object ends, and its quota goes back.
Ends(p, o) ==
  /\ \A q \in Procs \ {p} : op'[q] = op[q]
  /\ op[p].at \notin Between /\ op'[p].at \notin Between \cup Taking
  /\ op'[p].at \in Deleting => op[p].at \in Deleting \/ deletes' # 0
  /\ \A x \in Objects \ {o} : ms'[x] = ms[x]
  /\ ms'[o].s = ms[o].s
  /\ ms'[o].worker = NoWorker \/ (ms'[o].worker = ms[o].worker /\ deletes' # 0)
  /\ ended' = ended \cup ({ms[o].worker} \ {NoWorker})
  /\ pool' = ReleaseIfAttached(o)
  /\ deletes' = 0 => deletes = 0

LEMMA QEnds ==
  ASSUME SInv, SInv', QInv, NEW p \in Procs, NEW o \in Objects, ms[o].s \in Sessions, Ends(p, o)
  PROVE  QInv' /\ Balanced
<1>0. NoWorker \notin Workers /\ NoWorker \notin ended
  BY PoolAssumption, SInvTypes
<1>1. \A x \in Objects : ms'[x].worker \in {ms[x].worker, NoWorker}
  BY DEF Ends
<1>2. \A q \in Procs : op'[q].at \in Taking => op[q].at \in Taking /\ op'[q].w = op[q].w
  BY DEF Ends
<1>3. QInv'
  <2>1. \A a, x \in Objects : a # x /\ ms'[a].worker = ms'[x].worker => ms'[a].worker = NoWorker
    BY <1>1 DEF QInv
  <2>2. ASSUME NEW q \in Procs, op'[q].at \in Taking
        PROVE  op'[q].w \in Workers \ ended' /\ \A x \in Objects : ms'[x].worker # op'[q].w
    <3>1. op[q].at \in Taking /\ op'[q].w = op[q].w
      BY <1>2, <2>2
    <3>2. op[q].w \in Workers \ ended /\ \A x \in Objects : ms[x].worker # op[q].w
      BY <3>1 DEF QInv
    <3> QED BY <1>0, <1>1, <3>1, <3>2 DEF Ends
  <2>3. \A q, r \in Procs : q # r /\ op'[q].at \in Taking /\ op'[r].at \in Taking => op'[q].w # op'[r].w
    BY <1>2 DEF QInv
  <2>4. ASSUME deletes' = 0
        PROVE  /\ \A q \in Procs : op'[q].at \notin Deleting
               /\ \A x \in Objects : ms'[x].worker \notin ended'
    <3>1. ms'[o].worker = NoWorker /\ deletes = 0
      BY <2>4 DEF Ends
    <3>2. \A x \in Objects \ {o} : ms'[x].worker \notin ended'
      BY <1>0, <3>1 DEF Ends, QInv
    <3> QED BY <1>0, <2>4, <3>1, <3>2 DEF Ends, QInv
  <2> QED BY <2>1, <2>2, <2>3, <2>4 DEF QInv
<1>4. \A q \in Procs : /\ op'[q].at \in Between <=> op[q].at \in Between
                       /\ op[q].at \in Between => op'[q].s = op[q].s
  BY DEF Ends
<1>5. \A S : InHand(S, op') = InHand(S, op)
  BY <1>4, InHandSame
<1>6. \A x \in Objects \ {o} : /\ Held(x, ms', ended') <=> Held(x, ms, ended)
                               /\ Held(x, ms, ended) => ms'[x].s = ms[x].s
  BY DEF Ends, Held, QInv
<1>7. ~Held(o, ms', ended')
  BY DEF Ends, Held
<1>8. CASE Held(o, ms, ended)
  <2>1. \A S : Cardinality(Running(S, ms', ended')) = Cardinality(Running(S, ms, ended)) - One(ms[o].s, S)
    BY <1>6, <1>7, <1>8, RunningLess
  <2>2. LessUse(ms[o].s)
    BY <1>5, <2>1, UseParts, PartsFinite DEF LessUse, One
  <2>3. pool' = Released(ms[o].s)
    BY <1>8 DEF Ends, Held, ReleaseIfAttached
  <2> QED BY <1>3, <2>2, <2>3 DEF Balanced
<1>9. CASE ~Held(o, ms, ended)
  <2>1. \A S : Running(S, ms', ended') = Running(S, ms, ended)
    BY <1>6, <1>7, <1>9, RunningSame
  <2>2. SameUse
    BY <1>5, <2>1, UseParts DEF SameUse
  <2>3. CASE ms[o].worker = NoWorker
    <3>1. pool' = pool
      BY <2>3 DEF Ends, ReleaseIfAttached
    <3> QED BY <1>3, <2>2, <3>1 DEF Balanced
  <2>4. CASE ms[o].worker # NoWorker
    <3>1. pool' = Released(ms[o].s)
      BY <2>4 DEF Ends, ReleaseIfAttached
    <3>2. deletes' # 0
      BY <1>9, <2>4 DEF Ends, QInv, Held
    <3> QED BY <1>3, <2>2, <3>1, <3>2 DEF Balanced
  <2> QED BY <2>3, <2>4
<1> QED BY <1>8, <1>9

\* The four steps that move quota.
LEMMA QAttachCheck ==
  ASSUME SInv, SInv', QInv, NEW p \in Procs, NEW s \in Sessions, NEW w \in Workers,
         AttachCheck(p, s, w)
  PROVE  QInv' /\ Balanced
<1> DEFINE b == [Idle EXCEPT !.at = "acquire", !.s = s, !.w = w]
<1>0. At(p, "idle") /\ Fresh(w) /\ GoTo(p, b) /\ UNCHANGED <<ms, pool, deletes, ended>>
  BY DEF AttachCheck
<1>1. b.at = "acquire" /\ b.w = w
  BY DEF Idle
<1> HIDE DEF b
<1>2. op'[p] = b /\ \A q \in Procs \ {p} : op'[q] = op[q]
  BY <1>0, GoToFacts, SInvTypes
<1>3. op[p].at \notin Between /\ op'[p].at \notin Between /\ op'[p].at \notin Deleting
  BY <1>0, <1>1, <1>2, NotDeleting DEF At, Between
<1>4. QInv'
  <2>1. w \notin ended /\ (\A o \in Objects : ms[o].worker # w) /\ \A q \in Procs : op[q].w # w
    BY <1>0 DEF Fresh
  <2>2. \A q \in Procs : op'[q].at \in Taking =>
          op'[q].w \in Workers \ ended' /\ \A o \in Objects : ms'[o].worker # op'[q].w
    BY <1>0, <1>1, <1>2, <2>1 DEF QInv
  <2>3. \A q, r \in Procs : q # r /\ op'[q].at \in Taking /\ op'[r].at \in Taking => op'[q].w # op'[r].w
    BY <1>1, <1>2, <2>1 DEF QInv
  <2>4. deletes' = 0 => /\ \A q \in Procs : op'[q].at \notin Deleting
                        /\ \A o \in Objects : ms'[o].worker \notin ended'
    BY <1>0, <1>2, <1>3 DEF QInv
  <2>5. \A a, x \in Objects : a # x /\ ms'[a].worker = ms'[x].worker => ms'[a].worker = NoWorker
    BY <1>0 DEF QInv
  <2> QED BY <2>2, <2>3, <2>4, <2>5 DEF QInv
<1>5. \A S : InHand(S, op') = InHand(S, op)
  BY <1>2, <1>3, InHandSame
<1>6. SameUse
  BY <1>0, <1>5, UseParts DEF SameUse
<1> QED BY <1>0, <1>4, <1>6 DEF Balanced

LEMMA QAttachAcquire ==
  ASSUME SInv, SInv', QInv, NEW p \in Procs, AttachAcquire(p), CanAcquire(op[p].s)
  PROVE  QInv' /\ Balanced
<1> DEFINE c == op[p]
           b == [c EXCEPT !.at = "attach"]
<1>0. c.at = "acquire" /\ GoTo(p, b) /\ pool' = Acquired(c.s) /\ UNCHANGED <<ms, deletes, ended>>
  BY DEF AttachAcquire, At
<1>1. b.at = "attach" /\ b.w = c.w /\ b.s = c.s
  BY SInvTypes DEF Call
<1>1a. c.s \in Sessions
  BY <1>0, HeldCall
<1> HIDE DEF b
<1>2. op'[p] = b /\ \A q \in Procs \ {p} : op'[q] = op[q]
  BY <1>0, GoToFacts, SInvTypes
<1>3. op[p].at \notin Between /\ op'[p].at \in Between /\ op'[p].at \notin Deleting
      /\ op[p].at \in Taking
  BY <1>0, <1>1, <1>2, NotDeleting DEF At, Between, Taking
<1>4. QInv'
  <2>1. \A q \in Procs : op'[q].at \in Taking => op[q].at \in Taking /\ op'[q].w = op[q].w
    BY <1>1, <1>2, <1>3
  <2>2. \A q \in Procs : op'[q].at \in Taking =>
          op'[q].w \in Workers \ ended' /\ \A o \in Objects : ms'[o].worker # op'[q].w
    BY <1>0, <2>1 DEF QInv
  <2>3. \A q, r \in Procs : q # r /\ op'[q].at \in Taking /\ op'[r].at \in Taking => op'[q].w # op'[r].w
    BY <2>1 DEF QInv
  <2>4. deletes' = 0 => /\ \A q \in Procs : op'[q].at \notin Deleting
                        /\ \A o \in Objects : ms'[o].worker \notin ended'
    BY <1>0, <1>2, <1>3 DEF QInv
  <2>5. \A a, x \in Objects : a # x /\ ms'[a].worker = ms'[x].worker => ms'[a].worker = NoWorker
    BY <1>0 DEF QInv
  <2> QED BY <2>2, <2>3, <2>4, <2>5 DEF QInv
<1>5. \A S : Cardinality(InHand(S, op)) = Cardinality(InHand(S, op')) - One(c.s, S)
  BY <1>1, <1>2, <1>3, InHandLess
<1>6. MoreUse(c.s)
  BY <1>0, <1>5, UseParts, PartsFinite DEF MoreUse, One
<1> QED BY <1>0, <1>1a, <1>4, <1>6 DEF Balanced

LEMMA QAttachCommit ==
  ASSUME SInv, SInv', QInv, NEW p \in Procs, AttachCommit(p)
  PROVE  QInv' /\ Balanced
<1> DEFINE c == op[p]
           o == cache[c.s]
           off == [c EXCEPT !.at = "release", !.w = NoWorker]
<1>0. c.at = "attach" /\ UNCHANGED <<pool, deletes, ended>>
  BY DEF AttachCommit, At
<1>0a. c.at \in Between /\ c.at \in Taking
  BY <1>0 DEF Between, Taking
<1>0b. c.w \in Workers \ ended /\ (\A x \in Objects : ms[x].worker # c.w) /\ c.w # NoWorker
  BY <1>0a, PoolAssumption DEF QInv
<1>1. CASE GoTo(p, off) /\ UNCHANGED ms
  <2>1. off.at = "release" /\ off.s = c.s
    BY SInvTypes DEF Call
  <2> HIDE DEF off
  <2>2. op'[p] = off /\ \A q \in Procs \ {p} : op'[q] = op[q]
    BY <1>1, GoToFacts, SInvTypes
  <2>3. op'[p].at \in Between /\ op'[p].at \notin Deleting /\ op'[p].at \notin Taking
    BY <2>1, <2>2, NotDeleting DEF Between, Taking
  <2>4. QInv'
    <3>1. \A q \in Procs : op'[q].at \in Taking => op[q].at \in Taking /\ op'[q].w = op[q].w
      BY <2>2, <2>3
    <3>2. \A q \in Procs : op'[q].at \in Taking =>
            op'[q].w \in Workers \ ended' /\ \A x \in Objects : ms'[x].worker # op'[q].w
      BY <1>0, <1>1, <3>1 DEF QInv
    <3>3. \A q, r \in Procs : q # r /\ op'[q].at \in Taking /\ op'[r].at \in Taking => op'[q].w # op'[r].w
      BY <3>1 DEF QInv
    <3>4. deletes' = 0 => /\ \A q \in Procs : op'[q].at \notin Deleting
                          /\ \A x \in Objects : ms'[x].worker \notin ended'
      BY <1>0, <1>1, <2>2, <2>3 DEF QInv
    <3>5. \A a, x \in Objects : a # x /\ ms'[a].worker = ms'[x].worker => ms'[a].worker = NoWorker
      BY <1>1 DEF QInv
    <3> QED BY <3>2, <3>3, <3>4, <3>5 DEF QInv
  <2>5. \A S : InHand(S, op') = InHand(S, op)
    BY <1>0a, <2>1, <2>2, <2>3, InHandSame
  <2>6. SameUse
    BY <1>0, <1>1, <2>5, UseParts DEF SameUse
  <2> QED BY <1>0, <2>4, <2>6 DEF Balanced
<1>2. CASE StillAttachable(o) /\ ms' = [ms EXCEPT ![o].worker = c.w] /\ GoTo(p, Idle)
  <2>0. o \in Objects /\ ms[o].worker = NoWorker /\ ms[o].s = c.s
    <3>1. c.s \in Sessions /\ o # NoObject /\ ms[o].worker = NoWorker
      BY <1>0, <1>2, HeldCall DEF StillAttachable
    <3> QED BY <3>1, SInvTypes DEF SInv
  <2>1. op'[p] = Idle /\ \A q \in Procs \ {p} : op'[q] = op[q]
    BY <1>2, GoToFacts, SInvTypes
  <2>2. op'[p].at \notin Between /\ op'[p].at \notin Deleting /\ op'[p].at \notin Taking
    BY <2>1, NotDeleting DEF Between, Taking, Idle
  <2>3. ms'[o].worker = c.w /\ ms'[o].s = c.s /\ \A x \in Objects \ {o} : ms'[x] = ms[x]
    <3>1. ms[o] \in Object
      BY <2>0, SInvTypes
    <3>2. [ms[o] EXCEPT !.worker = c.w].worker = c.w /\ [ms[o] EXCEPT !.worker = c.w].s = ms[o].s
      <4> HIDE DEF o
      <4> QED BY <3>1 DEF Object
    <3>3. ms'[o] = [ms[o] EXCEPT !.worker = c.w] /\ \A x \in Objects \ {o} : ms'[x] = ms[x]
      BY <1>2, <2>0, SInvTypes
    <3> QED BY <2>0, <3>2, <3>3
  <2> HIDE DEF o
  <2>4. QInv'
    <3>1. \A q \in Procs : op'[q].at \in Taking => q # p /\ op[q].at \in Taking /\ op'[q] = op[q]
      BY <2>1, <2>2
    <3>2. ASSUME NEW q \in Procs, op'[q].at \in Taking
          PROVE  op'[q].w \in Workers \ ended' /\ \A x \in Objects : ms'[x].worker # op'[q].w
      <4>1. op[q].w # c.w
        BY <1>0a, <3>1, <3>2 DEF QInv
      <4> QED BY <1>0, <2>3, <3>1, <3>2, <4>1 DEF QInv
    <3>3. \A q, r \in Procs : q # r /\ op'[q].at \in Taking /\ op'[r].at \in Taking => op'[q].w # op'[r].w
      BY <3>1 DEF QInv
    <3>4. deletes' = 0 => /\ \A q \in Procs : op'[q].at \notin Deleting
                          /\ \A x \in Objects : ms'[x].worker \notin ended'
      BY <1>0, <1>0b, <2>1, <2>2, <2>3 DEF QInv
    <3>5. \A a, x \in Objects : a # x /\ ms'[a].worker = ms'[x].worker => ms'[a].worker = NoWorker
      BY <1>0b, <2>3 DEF QInv
    <3> QED BY <3>2, <3>3, <3>4, <3>5 DEF QInv
  <2>5. \A S : Cardinality(InHand(S, op')) = Cardinality(InHand(S, op)) - One(c.s, S)
    BY <1>0a, <2>1, <2>2, InHandLess
  <2>6. Held(o, ms', ended') /\ ~Held(o, ms, ended)
    BY <1>0, <1>0b, <2>0, <2>3 DEF Held
  <2>7. \A x \in Objects \ {o} : /\ Held(x, ms, ended) <=> Held(x, ms', ended')
                                 /\ Held(x, ms', ended') => ms[x].s = ms'[x].s
    BY <1>0, <2>3 DEF Held
  <2>8. \A S : Cardinality(Running(S, ms, ended)) = Cardinality(Running(S, ms', ended')) - One(ms'[o].s, S)
    BY <2>0, <2>6, <2>7, RunningLess
  <2>9. SameUse
    BY <2>3, <2>5, <2>8, UseParts, PartsFinite DEF SameUse, One
  <2> QED BY <1>0, <2>4, <2>9 DEF Balanced
<1> QED BY <1>1, <1>2 DEF AttachCommit

LEMMA QDetach ==
  ASSUME SInv, SInv', QInv, NEW p \in Procs, Detach(p), ~GoTo(p, Idle)
  PROVE  QInv' /\ Balanced
<1> DEFINE c == op[p]
           o == c.o
           rel == [Idle EXCEPT !.at = "release", !.s = c.s]
<1>0. /\ c.at = "detach" /\ GoTo(p, rel) /\ UNCHANGED <<pool, deletes>>
      /\ ms[o].worker # NoWorker /\ ms' = [ms EXCEPT ![o].worker = NoWorker]
      /\ ended' = ended \cup {ms[o].worker}
  BY DEF Detach, At
<1>1. o \in Objects /\ c.s \in Sessions /\ ms[o].s = c.s
  BY <1>0, HeldCall DEF Holding
<1>2. rel.at = "release" /\ rel.s = c.s
  BY DEF Idle
<1> HIDE DEF rel
<1>3. op'[p] = rel /\ \A q \in Procs \ {p} : op'[q] = op[q]
  BY <1>0, GoToFacts, SInvTypes
<1>4. op'[p].at \in Between /\ op'[p].at \notin Deleting /\ op'[p].at \notin Taking
      /\ c.at \notin Between
  BY <1>0, <1>2, <1>3, NotDeleting DEF Between, Taking
<1>5. ms'[o].worker = NoWorker /\ \A x \in Objects \ {o} : ms'[x] = ms[x]
  <2>1. [ms[o] EXCEPT !.worker = NoWorker].worker = NoWorker
    BY <1>1, SInvTypes DEF Object
  <2>2. ms'[o] = [ms[o] EXCEPT !.worker = NoWorker] /\ \A x \in Objects \ {o} : ms'[x] = ms[x]
    BY <1>0, <1>1, SInvTypes
  <2> QED BY <2>1, <2>2
<1> HIDE DEF o
<1>5a. NoWorker \notin Workers /\ NoWorker \notin ended
  BY PoolAssumption, SInvTypes
<1>6. QInv'
  <2>1. \A q \in Procs : op'[q].at \in Taking => op[q].at \in Taking /\ op'[q] = op[q]
    BY <1>3, <1>4
  <2>2. ASSUME NEW q \in Procs, op'[q].at \in Taking
        PROVE  op'[q].w \in Workers \ ended' /\ \A x \in Objects : ms'[x].worker # op'[q].w
    <3>1. op[q].w \in Workers \ ended /\ (\A x \in Objects : ms[x].worker # op[q].w) /\ op'[q] = op[q]
      BY <2>1, <2>2 DEF QInv
    <3> QED BY <1>0, <1>1, <1>5, <1>5a, <3>1
  <2>3. \A q, r \in Procs : q # r /\ op'[q].at \in Taking /\ op'[r].at \in Taking => op'[q].w # op'[r].w
    BY <2>1 DEF QInv
  <2>4. deletes' = 0 => /\ \A q \in Procs : op'[q].at \notin Deleting
                        /\ \A x \in Objects : ms'[x].worker \notin ended'
    BY <1>0, <1>1, <1>3, <1>4, <1>5, <1>5a DEF QInv
  <2>5. \A a, x \in Objects : a # x /\ ms'[a].worker = ms'[x].worker => ms'[a].worker = NoWorker
    BY <1>5 DEF QInv
  <2> QED BY <2>2, <2>3, <2>4, <2>5 DEF QInv
<1>7. \A S : Cardinality(InHand(S, op)) = Cardinality(InHand(S, op')) - One(c.s, S)
  BY <1>2, <1>3, <1>4, InHandLess
<1>8. \A x \in Objects \ {o} : /\ Held(x, ms', ended') <=> Held(x, ms, ended)
                               /\ Held(x, ms, ended) => ms'[x].s = ms[x].s
  BY <1>0, <1>1, <1>5 DEF Held, QInv
<1>9. ~Held(o, ms', ended')
  BY <1>5 DEF Held
<1>10. CASE Held(o, ms, ended)
  <2>1. \A S : Cardinality(Running(S, ms', ended')) = Cardinality(Running(S, ms, ended)) - One(c.s, S)
    BY <1>1, <1>8, <1>9, <1>10, RunningLess
  <2>2. SameUse
    BY <1>7, <2>1, UseParts, PartsFinite DEF SameUse, One
  <2> QED BY <1>0, <1>6, <2>2 DEF Balanced
<1>11. CASE ~Held(o, ms, ended)
  <2>1. \A S : Running(S, ms', ended') = Running(S, ms, ended)
    BY <1>1, <1>8, <1>9, <1>11, RunningSame
  <2>2. MoreUse(c.s)
    BY <1>7, <2>1, UseParts, PartsFinite DEF MoreUse, One
  <2>3. deletes' # 0
    BY <1>0, <1>1, <1>11 DEF Held, QInv
  <2> QED BY <1>0, <1>1, <1>6, <2>2, <2>3 DEF Balanced
<1> QED BY <1>10, <1>11

LEMMA QRelease ==
  ASSUME SInv, SInv', QInv, NEW p \in Procs, Release(p)
  PROVE  QInv' /\ Balanced
<1> DEFINE c == op[p]
<1>0. c.at = "release" /\ GoTo(p, Idle) /\ pool' = Released(c.s) /\ UNCHANGED <<ms, deletes, ended>>
  BY DEF Release, At
<1>1. op'[p] = Idle /\ \A q \in Procs \ {p} : op'[q] = op[q]
  BY <1>0, GoToFacts, SInvTypes
<1>2. op'[p].at \notin Between /\ op'[p].at \notin Deleting /\ op'[p].at \notin Taking /\ c.at \in Between
  BY <1>0, <1>1, NotDeleting DEF Between, Taking, Idle
<1>3. c.s \in Sessions
  BY <1>0, HeldCall
<1>4. QInv'
  <2>1. \A q \in Procs : op'[q].at \in Taking => op[q].at \in Taking /\ op'[q].w = op[q].w
    BY <1>1, <1>2
  <2>2. \A q \in Procs : op'[q].at \in Taking =>
          op'[q].w \in Workers \ ended' /\ \A x \in Objects : ms'[x].worker # op'[q].w
    BY <1>0, <2>1 DEF QInv
  <2>3. \A q, r \in Procs : q # r /\ op'[q].at \in Taking /\ op'[r].at \in Taking => op'[q].w # op'[r].w
    BY <2>1 DEF QInv
  <2>4. deletes' = 0 => /\ \A q \in Procs : op'[q].at \notin Deleting
                        /\ \A x \in Objects : ms'[x].worker \notin ended'
    BY <1>0, <1>1, <1>2 DEF QInv
  <2>5. \A a, x \in Objects : a # x /\ ms'[a].worker = ms'[x].worker => ms'[a].worker = NoWorker
    BY <1>0 DEF QInv
  <2> QED BY <2>2, <2>3, <2>4, <2>5 DEF QInv
<1>5. \A S : Cardinality(InHand(S, op')) = Cardinality(InHand(S, op)) - One(c.s, S)
  BY <1>1, <1>2, InHandLess
<1>6. LessUse(c.s)
  BY <1>0, <1>5, UseParts, PartsFinite DEF LessUse, One
<1> QED BY <1>0, <1>3, <1>4, <1>6 DEF Balanced

\* The steps that are plain, by what they do to the objects.
LEMMA QCall ==
  ASSUME SInv, SInv', QInv, NEW p \in Procs, NEW call, GoTo(p, call),
         op[p].at \notin Between, call.at \notin Between \cup Taking,
         call.at \in Deleting => op[p].at \in Deleting \/ deletes' # 0,
         deletes' = 0 => deletes = 0,
         \A o \in Objects : ms'[o].worker = ms[o].worker /\ ms'[o].s = ms[o].s,
         UNCHANGED <<pool, ended>>
  PROVE  QInv' /\ Balanced
<1>1. op'[p] = call /\ \A q \in Procs \ {p} : op'[q] = op[q]
  BY GoToFacts, SInvTypes
<1>2. Plain(p)
  BY <1>1 DEF Plain
<1> QED BY <1>2, QPlain

LEMMA QNew ==
  ASSUME SInv, SInv', QInv, NEW p \in Procs, NEW call, GoTo(p, call),
         op[p].at \notin Between, call.at \notin Between \cup Taking,
         call.at \in Deleting => deletes' # 0, deletes' = 0 => deletes = 0,
         NEW o \in Free, NEW m, m.worker = NoWorker, ms' = [ms EXCEPT ![o] = m],
         UNCHANGED <<pool, ended>>
  PROVE  QInv' /\ Balanced
<1>1. op'[p] = call /\ \A q \in Procs \ {p} : op'[q] = op[q]
  BY GoToFacts, SInvTypes
<1>2. o \in Objects /\ ~Holds(o) /\ ms'[o] = m /\ \A x \in Objects \ {o} : ms'[x] = ms[x]
  BY FreeFacts, SInvTypes
<1>3. Plain(p)
  BY <1>1, <1>2 DEF Plain
<1> QED BY <1>3, QPlain

\* Where calls go, as far as quota is concerned.
LEMMA Apart ==
  /\ ({"idle", "load", "transition", "input", "detach", "upsert", "commit", "install", "update"}
      \cup Deleting) \cap (Between \cup Taking) = {}
  /\ Idle.at = "idle" /\ "acquire" \notin Between
BY DEF Deleting, Between, Taking, Idle

LEMMA QStarts ==
  ASSUME SInv, SInv', QInv, NEW p \in Procs, NEW s \in Sessions,
         \/ \E to \in {"running", "idle", "terminated"} : StartTransition(p, s, to)
         \/ StartInput(p, s)
         \/ \E w \in Workers \cup {NoWorker} : StartDetach(p, s, w)
         \/ Get(p, s) \/ CreateUpsert(p, s) \/ UpdateSession(p, s)
  PROVE  QInv' /\ Balanced
<1>0. Idle \in Call
  BY CallIdle
<1>0a. ASSUME NEW c, GoTo(p, c), At(p, "idle"), UNCHANGED <<ms, pool, deletes, ended>>,
             c.at \in {"load", "idle", "transition", "input", "detach", "install", "update"}
      PROVE  QInv' /\ Balanced
  BY <1>0a, Apart, NotDeleting, QCall DEF At
<1>1. ASSUME NEW call, Lookup(p, s, call), call \in Call,
             call.then \in {"idle", "transition", "input", "detach"}
      PROVE  QInv' /\ Balanced
  <2>0. At(p, "idle") /\ UNCHANGED <<ms, pool, deletes, ended>>
    BY <1>1 DEF Lookup
  <2>1. CASE cache[s] # NoObject
    <3> DEFINE b == [call EXCEPT !.at = call.then, !.then = "idle", !.s = s, !.o = cache[s]]
    <3>1. GoTo(p, b)
      BY <1>1, <2>1 DEF Lookup
    <3>2. b.at = call.then
      BY <1>1 DEF Call
    <3> HIDE DEF b
    <3> QED BY <1>0a, <1>1, <2>0, <3>1, <3>2
  <2>2. CASE cache[s] = NoObject
    <3> DEFINE b == [call EXCEPT !.at = "load", !.s = s, !.st = row[s]]
    <3>1. GoTo(p, b)
      BY <1>1, <2>2 DEF Lookup
    <3>2. b.at = "load"
      BY <1>1 DEF Call
    <3> HIDE DEF b
    <3> QED BY <1>0a, <2>0, <3>1, <3>2
  <2> QED BY <2>1, <2>2
<1>2. ASSUME NEW to \in {"running", "idle", "terminated"}, StartTransition(p, s, to)
      PROVE  QInv' /\ Balanced
  <2> DEFINE b == [Idle EXCEPT !.then = "transition", !.to = to]
  <2>0. "transition" \in Positions /\ to \in States \cup {"none"}
    BY DEF Positions, States, Active
  <2>1. b \in Call /\ b.then = "transition"
    BY <1>0, <2>0 DEF Call
  <2> HIDE DEF b
  <2> QED BY <1>1, <1>2, <2>1 DEF StartTransition, b
<1>3. CASE StartInput(p, s)
  <2> DEFINE b == [Idle EXCEPT !.then = "input", !.to = "running"]
  <2>0. "input" \in Positions /\ "running" \in States \cup {"none"}
    BY DEF Positions, States, Active
  <2>1. b \in Call /\ b.then = "input"
    BY <1>0, <2>0 DEF Call
  <2> HIDE DEF b
  <2> QED BY <1>1, <1>3, <2>1 DEF StartInput, b
<1>4. ASSUME NEW w \in Workers \cup {NoWorker}, StartDetach(p, s, w) PROVE QInv' /\ Balanced
  <2> DEFINE b == [Idle EXCEPT !.then = "detach", !.w = w]
  <2>0. "detach" \in Positions
    BY DEF Positions
  <2>1. b \in Call /\ b.then = "detach"
    BY <1>0, <2>0 DEF Call
  <2> HIDE DEF b
  <2> QED BY <1>1, <1>4, <2>1 DEF StartDetach, b
<1>5. CASE Get(p, s)
  BY <1>0, <1>1, <1>5 DEF Get, Idle
<1>6. CASE CreateUpsert(p, s)
  <2> DEFINE b == [Idle EXCEPT !.at = "install", !.s = s]
  <2>1. b.at = "install"
    BY DEF Idle
  <2> HIDE DEF b
  <2>2. GoTo(p, b) /\ At(p, "idle") /\ UNCHANGED <<ms, pool, deletes, ended>>
    BY <1>6 DEF CreateUpsert, b
  <2> QED BY <1>0a, <2>1, <2>2
<1>7. CASE UpdateSession(p, s)
  <2> DEFINE b == [Idle EXCEPT !.at = "update", !.s = s, !.o = cache[s], !.st = ms[cache[s]].state]
  <2>1. b.at = "update"
    BY DEF Idle
  <2> HIDE DEF b
  <2>2. GoTo(p, b) /\ At(p, "idle") /\ UNCHANGED <<ms, pool, deletes, ended>>
    BY <1>7 DEF UpdateSession, b
  <2> QED BY <1>0a, <2>1, <2>2
<1> QED BY <1>2, <1>3, <1>4, <1>5, <1>6, <1>7

LEMMA QFind ==
  ASSUME SInv, SInv', QInv, NEW p \in Procs, Install(p) \/ CreateInstall(p) \/ FinishUpdate(p)
  PROVE  QInv' /\ Balanced
<1> DEFINE c == op[p]
<1>0. c \in Call /\ Idle.at \notin Between \cup Taking /\ Idle.at \notin Deleting
  BY SInvTypes, Apart, NotDeleting
<1>0a. Loaded(c.s, c.st).worker = NoWorker /\ Loaded(c.s, "created").worker = NoWorker
  BY DEF Loaded, Unused
<1>1. CASE Install(p)
  <2> DEFINE next(o) == IF c.then = "idle" THEN Idle
                        ELSE [c EXCEPT !.at = c.then, !.then = "idle", !.o = o, !.st = "none"]
  <2>0. c.at = "load" /\ UNCHANGED <<pool, deletes, ended>>
    BY <1>1 DEF Install, At
  <2>0a. c.then \in {"idle", "transition", "input", "detach"} /\ c.at \notin Between
    BY <2>0, HeldCall, Apart
  <2>1. \A o : next(o).at \notin Between \cup Taking /\ next(o).at \notin Deleting
    <3>1. \A o : [c EXCEPT !.at = c.then, !.then = "idle", !.o = o, !.st = "none"].at = c.then
      BY <1>0 DEF Call
    <3> QED BY <1>0, <2>0a, <3>1, Apart, NotDeleting
  <2> HIDE DEF next
  <2>2. CASE GoTo(p, next(cache[c.s])) /\ UNCHANGED ms
    BY <2>0, <2>0a, <2>1, <2>2, QCall
  <2>3. ASSUME NEW o \in Free, ms' = [ms EXCEPT ![o] = Loaded(c.s, c.st)], GoTo(p, next(o))
        PROVE  QInv' /\ Balanced
    BY <1>0a, <2>0, <2>0a, <2>1, <2>3, QNew
  <2> QED BY <1>1, <2>2, <2>3 DEF Install, next
<1>2. CASE CreateInstall(p)
  <2>0. c.at = "install" /\ GoTo(p, Idle) /\ UNCHANGED <<pool, deletes, ended>>
    BY <1>2 DEF CreateInstall, At
  <2>1. PICK o \in Free : ms' = [ms EXCEPT ![o] = Loaded(c.s, "created")]
    BY <1>2 DEF CreateInstall
  <2> QED BY <1>0, <1>0a, <2>0, <2>1, Apart, QNew
<1>3. CASE FinishUpdate(p)
  <2>0. c.at = "update" /\ GoTo(p, Idle) /\ UNCHANGED <<ms, pool, deletes, ended>>
    BY <1>3 DEF FinishUpdate, At
  <2> QED BY <1>0, <2>0, Apart, QCall
<1> QED BY <1>1, <1>2, <1>3

LEMMA QEndWorker ==
  ASSUME SInv, SInv', QInv, NEW p \in Procs, op[p].at \in Holding \ Deleting, EndWorker(op[p].o),
         GoTo(p, Idle), UNCHANGED deletes
  PROVE  QInv' /\ Balanced
<1> DEFINE o == op[p].o
           m == [ms[o] EXCEPT !.state = "terminated", !.worker = NoWorker]
<1>1. o \in Objects /\ ms[o].s \in Sessions
  BY HeldCall
<1>2. m.worker = NoWorker /\ m.s = ms[o].s
  BY <1>1, SInvTypes DEF Object
<1>3. ms' = [ms EXCEPT ![o] = m]
  BY <1>1, SInvTypes DEF EndWorker
<1>4. op'[p] = Idle /\ \A q \in Procs \ {p} : op'[q] = op[q]
  BY GoToFacts, SInvTypes
<1>5. op[p].at \notin Between
  BY Apart DEF Holding
<1> HIDE DEF m
<1>6. ms'[o] = m /\ \A x \in Objects \ {o} : ms'[x] = ms[x]
  BY <1>1, <1>3, SInvTypes
<1>7. Idle.at \notin Between \cup Taking /\ Idle.at \notin Deleting
  BY Apart, NotDeleting
<1>8. ended' = ended \cup ({ms[o].worker} \ {NoWorker}) /\ pool' = ReleaseIfAttached(o)
  BY DEF EndWorker
<1> HIDE DEF o
<1>9. Ends(p, o)
  BY <1>2, <1>4, <1>5, <1>6, <1>7, <1>8 DEF Ends
<1> QED BY <1>1, <1>9, QEnds

LEMMA QTransition ==
  ASSUME SInv, SInv', QInv, NEW p \in Procs,
         TransitionBegin(p) \/ InputBegin(p) \/ TransitionUpsert(p) \/ TransitionCommit(p)
  PROVE  QInv' /\ Balanced
<1> DEFINE c == op[p]
           up == [c EXCEPT !.at = "upsert"]
           over == [c EXCEPT !.at = "upsert", !.to = "terminated", !.flag = TRUE]
           go == [c EXCEPT !.at = "commit"]
<1>0. c \in Call /\ {"input", "commit"} \subseteq Holding \ Deleting
  BY SInvTypes DEF Holding, Deleting
<1>1. up.at = "upsert" /\ over.at = "upsert" /\ go.at = "commit" /\ Idle.at = "idle"
  BY <1>0 DEF Call, Idle
<1> HIDE DEF up, over, go
<1>2. ASSUME NEW b, GoTo(p, b), UNCHANGED <<ms, pool, deletes, ended>>,
             b.at \in {"idle", "upsert", "commit"}, c.at \in {"transition", "input", "upsert", "commit"}
      PROVE  QInv' /\ Balanced
  BY <1>2, Apart, NotDeleting, QCall
<1>3. CASE TransitionBegin(p)
  <2>1. (GoTo(p, Idle) \/ GoTo(p, up)) /\ c.at = "transition" /\ UNCHANGED <<ms, pool, deletes, ended>>
    BY <1>3 DEF TransitionBegin, At, up
  <2> QED BY <1>1, <1>2, <2>1
<1>4. CASE InputBegin(p)
  <2>1. /\ c.at = "input" /\ UNCHANGED deletes
        /\ \/ (GoTo(p, Idle) \/ GoTo(p, up) \/ GoTo(p, over)) /\ UNCHANGED <<ms, pool, ended>>
           \/ GoTo(p, Idle) /\ EndWorker(c.o)
    BY <1>4 DEF InputBegin, At, up, over
  <2> QED BY <1>0, <1>1, <1>2, <2>1, QEndWorker
<1>5. CASE TransitionUpsert(p)
  <2>1. (GoTo(p, Idle) \/ GoTo(p, go)) /\ c.at = "upsert" /\ UNCHANGED <<ms, pool, deletes, ended>>
    BY <1>5 DEF TransitionUpsert, At, go
  <2> QED BY <1>1, <1>2, <2>1
<1>6. CASE TransitionCommit(p)
  <2>1. c.at = "commit" /\ GoTo(p, Idle) /\ UNCHANGED deletes
    BY <1>6 DEF TransitionCommit, At
  <2>2. CASE EndWorker(c.o)
    BY <1>0, <2>1, <2>2, QEndWorker
  <2>3. CASE ms' = [ms EXCEPT ![c.o].state = c.to] /\ UNCHANGED <<pool, ended>>
    <3>1. \A x \in Objects : ms'[x].worker = ms[x].worker /\ ms'[x].s = ms[x].s
      BY <2>3, SInvTypes DEF Object
    <3> QED BY <1>1, <2>1, <2>3, <3>1, Apart, NotDeleting, QCall
  <2> QED BY <1>6, <2>2, <2>3 DEF TransitionCommit
<1> QED BY <1>3, <1>4, <1>5, <1>6

LEMMA QAttach ==
  ASSUME SInv, SInv', QInv, NEW p \in Procs,
         AttachAcquire(p) \/ AttachCommit(p) \/ Detach(p) \/ Release(p)
  PROVE  QInv' /\ Balanced
<1>0. Idle.at \notin Between \cup Taking /\ Idle.at \notin Deleting
  BY Apart, NotDeleting
<1>1. CASE AttachAcquire(p) /\ ~CanAcquire(op[p].s)
  <2>1. op[p].at = "acquire" /\ GoTo(p, Idle) /\ UNCHANGED <<ms, pool, deletes, ended>>
    BY <1>1 DEF AttachAcquire, At
  <2> QED BY <1>0, <2>1, Apart, QCall
<1>2. CASE Detach(p) /\ GoTo(p, Idle)
  <2>1. op[p].at = "detach" /\ UNCHANGED <<pool, deletes>>
    BY <1>2 DEF Detach, At
  <2>2. UNCHANGED <<ms, ended>>
    <3>1. op'[p] = Idle
      BY <1>2, GoToFacts
    <3>2. GoTo(p, [Idle EXCEPT !.at = "release", !.s = op[p].s]) => op'[p].at = "release"
      <4> DEFINE rel == [Idle EXCEPT !.at = "release", !.s = op[p].s]
      <4>1. rel.at = "release"
        BY DEF Idle
      <4> HIDE DEF rel
      <4>2. GoTo(p, rel) => op'[p].at = "release"
        BY <4>1, GoToFacts
      <4> QED BY <4>2 DEF rel
    <3>3. op'[p].at = "idle"
      BY <3>1 DEF Idle
    <3> QED BY <1>2, <3>2, <3>3 DEF Detach
  <2> QED BY <1>0, <1>2, <2>1, <2>2, Apart, QCall
<1> QED BY <1>1, <1>2, QAttachAcquire, QAttachCommit, QDetach, QRelease

LEMMA QMark ==
  ASSUME SInv, SInv', QInv, NEW p \in Procs, NEW s \in Sessions, NEW hot \in Deleting,
         NEW cold \in Deleting, Mark(p, s, hot, cold),
         \/ UNCHANGED <<pool, ended>>
         \/ /\ cache[s] # NoObject /\ pool' = ReleaseIfAttached(cache[s])
            /\ ended' = ended \cup ({ms[cache[s]].worker} \ {NoWorker})
  PROVE  QInv' /\ Balanced
<1>0. op[p].at = "idle" /\ op[p].at \notin Between /\ deletes' # 0
  <2>1. op[p].at = "idle" /\ deletes' = deletes + 1
    BY DEF Mark, At
  <2> QED BY <2>1, Apart, SInvTypes, PoolAssumption
<1>0a. hot \notin Between \cup Taking /\ cold \notin Between \cup Taking
  BY Apart
<1>1. ASSUME cache[s] # NoObject, ms' = [ms EXCEPT ![cache[s]].deleting = TRUE],
             GoTo(p, [Idle EXCEPT !.at = hot, !.s = s, !.o = cache[s]])
      PROVE  QInv' /\ Balanced
  <2> DEFINE o == cache[s]
             b == [Idle EXCEPT !.at = hot, !.s = s, !.o = o]
  <2>1. o \in Objects /\ ms[o].s \in Sessions
    BY <1>1, SInvTypes DEF SInv
  <2>2. b.at = hot
    BY DEF Idle
  <2>3. \A x \in Objects : ms'[x].worker = ms[x].worker /\ ms'[x].s = ms[x].s
    BY <1>1, SInvTypes DEF Object
  <2>4. \A x \in Objects \ {o} : ms'[x] = ms[x]
    BY <1>1, SInvTypes
  <2>5. GoTo(p, b)
    BY <1>1
  <2> HIDE DEF b
  <2>6. CASE UNCHANGED <<pool, ended>>
    BY <1>0, <1>0a, <2>2, <2>3, <2>5, <2>6, QCall
  <2>7. CASE pool' = ReleaseIfAttached(o) /\ ended' = ended \cup ({ms[o].worker} \ {NoWorker})
    <3>1. op'[p] = b /\ \A q \in Procs \ {p} : op'[q] = op[q]
      BY <2>5, GoToFacts, SInvTypes
    <3> HIDE DEF o
    <3>2. Ends(p, o)
      BY <1>0, <1>0a, <2>1, <2>2, <2>3, <2>4, <2>7, <3>1 DEF Ends
    <3> QED BY <2>1, <3>2, QEnds
  <2> QED BY <2>6, <2>7
<1>2. ASSUME NEW o \in Free, cache[s] = NoObject, ms' = [ms EXCEPT ![o] = Tombstone(s)],
             GoTo(p, [Idle EXCEPT !.at = cold, !.s = s, !.o = o, !.flag = TRUE])
      PROVE  QInv' /\ Balanced
  <2> DEFINE b == [Idle EXCEPT !.at = cold, !.s = s, !.o = o, !.flag = TRUE]
  <2>1. b.at = cold /\ Tombstone(s).worker = NoWorker
    BY DEF Idle, Tombstone, Unused
  <2>2. GoTo(p, b)
    BY <1>2
  <2> HIDE DEF b
  <2> QED BY <1>0, <1>0a, <1>2, <2>1, <2>2, QNew
<1> QED BY <1>1, <1>2 DEF Mark

LEMMA QDeletions ==
  ASSUME SInv, SInv', QInv, NEW p \in Procs, NEW s \in Sessions,
         Delete(p, s) \/ DeletePhysical(p, s) \/ Retire(p, s)
  PROVE  QInv' /\ Balanced
<1>0. {"markdeleted", "loaddeleted", "physical", "retire"} \subseteq Deleting
  BY DEF Deleting
<1>1. CASE Delete(p, s)
  BY <1>0, <1>1, QMark DEF Delete
<1>2. CASE Retire(p, s)
  BY <1>0, <1>2, QMark DEF Retire
<1>3. CASE DeletePhysical(p, s)
  BY <1>0, <1>3, QMark DEF DeletePhysical
<1> QED BY <1>1, <1>2, <1>3

LEMMA QDelete ==
  ASSUME SInv, SInv', QInv, NEW p \in Procs,
         \/ DeleteLoad(p) \/ PersistDelete(p) \/ DropDeleted(p)
         \/ PersistPhysical(p) \/ Uncache(p) \/ PersistRetire(p) \/ Retired(p)
  PROVE  QInv' /\ Balanced
<1> DEFINE c == op[p]
<1>0. c \in Call
  BY SInvTypes
<1>1. c.at \in Deleting /\ UNCHANGED deletes
  BY DEF Deleting, At, DeleteLoad, PersistDelete, DropDeleted, PersistPhysical, Uncache, PersistRetire, Retired
<1>2. c.at \notin Between /\ c.o \in Objects /\ c.s \in Sessions /\ ms[c.o].s = c.s
  BY <1>1, HeldCall, Apart DEF Holding
<1>3. \A at : [c EXCEPT !.at = at].at = at
  BY <1>0 DEF Call
<1>4. ASSUME NEW b, GoTo(p, b), b.at \in {"idle"} \cup Deleting, UNCHANGED <<pool, ended>>,
             \A o \in Objects : ms'[o].worker = ms[o].worker /\ ms'[o].s = ms[o].s
      PROVE  QInv' /\ Balanced
  BY <1>1, <1>2, <1>4, Apart, QCall
<1>5. Idle.at = "idle"
  BY DEF Idle
<1>6. ASSUME NEW st, ms' = [ms EXCEPT ![c.o].state = st] \/ ms' = [ms EXCEPT ![c.o].deleting = st]
      PROVE  /\ \A o \in Objects : ms'[o].worker = ms[o].worker /\ ms'[o].s = ms[o].s
             /\ \A o \in Objects \ {c.o} : ms'[o] = ms[o]
  BY <1>6, SInvTypes DEF Object
<1>7. CASE DeleteLoad(p)
  <2> DEFINE b == [c EXCEPT !.at = "markdeleted", !.st = row[c.s]]
  <2>1. b.at = "markdeleted" /\ "markdeleted" \in Deleting
    BY <1>0 DEF Call, Deleting
  <2>2. (GoTo(p, Idle) \/ GoTo(p, b)) /\ UNCHANGED <<ms, pool, ended>>
    BY <1>7 DEF DeleteLoad
  <2> HIDE DEF b
  <2> QED BY <1>4, <1>5, <2>1, <2>2
<1>8. CASE PersistDelete(p)
  <2>0. UNCHANGED <<pool, ended>> /\ "dropdeleted" \in Deleting
    BY <1>8 DEF PersistDelete, Deleting
  <2>1. CASE GoTo(p, [c EXCEPT !.at = "dropdeleted"]) /\ UNCHANGED ms
    BY <1>3, <1>4, <2>0, <2>1
  <2>2. CASE GoTo(p, Idle) /\ UNCHANGED ms
    BY <1>4, <1>5, <2>0, <2>2
  <2>3. CASE GoTo(p, Idle) /\ ms' = [ms EXCEPT ![c.o].deleting = FALSE]
    BY <1>4, <1>5, <1>6, <2>0, <2>3
  <2>4. ASSUME NEW o \in Free, GoTo(p, Idle), ms' = [ms EXCEPT ![o] = Loaded(c.s, c.st)]
        PROVE  QInv' /\ Balanced
    <3>1. Loaded(c.s, c.st).worker = NoWorker
      BY DEF Loaded, Unused
    <3>2. Idle.at \notin Between \cup Taking /\ Idle.at \notin Deleting
      BY Apart, NotDeleting
    <3> QED BY <1>1, <1>2, <2>0, <2>4, <3>1, <3>2, QNew
  <2> QED BY <1>8, <2>1, <2>2, <2>3, <2>4 DEF PersistDelete
<1>9. CASE DropDeleted(p)
  <2>0. GoTo(p, Idle)
    BY <1>9 DEF DropDeleted
  <2>1. CASE UNCHANGED <<ms, pool, ended>>
    BY <1>4, <1>5, <2>0, <2>1
  <2>2. CASE /\ ms' = [ms EXCEPT ![c.o].state = "deleted"] /\ pool' = ReleaseIfAttached(c.o)
             /\ ended' = ended \cup ({ms[c.o].worker} \ {NoWorker})
    <3>1. op'[p] = Idle /\ \A q \in Procs \ {p} : op'[q] = op[q]
      BY <2>0, GoToFacts, SInvTypes
    <3>2. Idle.at \notin Between \cup Taking /\ Idle.at \notin Deleting
      BY Apart, NotDeleting
    <3>3. deletes' # 0
      BY <1>1 DEF QInv
    <3>4. Ends(p, c.o)
      BY <1>1, <1>2, <1>6, <2>2, <3>1, <3>2, <3>3 DEF Ends
    <3> QED BY <1>2, <3>4, QEnds
  <2> QED BY <1>9, <2>1, <2>2 DEF DropDeleted
<1>10. CASE PersistPhysical(p)
  <2>1. GoTo(p, [c EXCEPT !.at = "uncache"]) /\ UNCHANGED <<ms, pool, ended>> /\ "uncache" \in Deleting
    BY <1>10 DEF PersistPhysical, Deleting
  <2> QED BY <1>3, <1>4, <2>1
<1>11. CASE Uncache(p)
  BY <1>4, <1>5, <1>11 DEF Uncache
<1>12. CASE PersistRetire(p)
  <2>0. UNCHANGED <<pool, ended>> /\ "retired" \in Deleting
    BY <1>12 DEF PersistRetire, Deleting
  <2>1. CASE GoTo(p, [c EXCEPT !.at = "retired"]) /\ UNCHANGED ms
    BY <1>3, <1>4, <2>0, <2>1
  <2>2. CASE GoTo(p, Idle) /\ (ms' = ms \/ ms' = [ms EXCEPT ![c.o].deleting = FALSE])
    BY <1>4, <1>5, <1>6, <2>0, <2>2
  <2> QED BY <1>12, <2>1, <2>2 DEF PersistRetire
<1>13. CASE Retired(p)
  <2>1. /\ GoTo(p, Idle) /\ UNCHANGED <<pool, ended>>
        /\ ms' = ms \/ ms' = [ms EXCEPT ![c.o].state = "deleted"]
    BY <1>13 DEF Retired
  <2> QED BY <1>4, <1>5, <1>6, <2>1
<1> QED BY <1>7, <1>8, <1>9, <1>10, <1>11, <1>12, <1>13

LEMMA QInvNext == SInv /\ QInv /\ [Next]_vars => QInv' /\ Balanced
<1> SUFFICES ASSUME SInv, QInv, [Next]_vars PROVE QInv' /\ Balanced
  OBVIOUS
<1>0. SInv'
  BY SInvNext
<1>1. ASSUME NEW p \in Procs, NEW s \in Sessions, SessionStep(p, s) PROVE QInv' /\ Balanced
  BY <1>0, <1>1, QStarts, QAttachCheck, QDeletions DEF SessionStep
<1>2. ASSUME NEW p \in Procs, Continue(p) PROVE QInv' /\ Balanced
  BY <1>0, <1>2, QFind, QTransition, QAttach, QDelete DEF Continue
<1>3. ASSUME UNCHANGED <<op, ms, deletes, ended>>,
             pool' = pool \/ pool' = [pool EXCEPT !.mem = [u \in Users |-> 0]]
      PROVE  QInv' /\ Balanced
  <2>1. SameUse
    BY <1>3, UseParts DEF SameUse
  <2>2. QInv'
    BY <1>3 DEF QInv
  <2> QED BY <1>3, <2>1, <2>2 DEF Balanced
<1>4. ASSUME NEW s \in Sessions, DeleteTerminated(s) \/ CleanupDone(s) \/ Evict(s)
      PROVE  QInv' /\ Balanced
  BY <1>3, <1>4 DEF DeleteTerminated, CleanupDone, Evict
<1>5. CASE UpdateLimits
  BY <1>3, <1>5 DEF UpdateLimits
<1>6. CASE UNCHANGED vars
  BY <1>3, <1>6 DEF vars
<1> QED BY <1>1, <1>2, <1>4, <1>5, <1>6 DEF Next

LEMMA QInvInit == Init => QInv
<1> SUFFICES ASSUME Init PROVE QInv
  OBVIOUS
<1>1. \A p \in Procs : op[p].at = "idle"
  BY DEF Init, Idle
<1>2. \A o \in Objects : ms[o].worker = NoWorker
  BY DEF Init, Unused
<1>3. \A p \in Procs : op[p].at \notin Taking /\ op[p].at \notin Deleting
  BY <1>1 DEF Taking, Deleting
<1> QED BY <1>2, <1>3 DEF QInv, Init

-----------------------------------------------------------------------------
(* The counters.                                                             *)

LEMMA Counters ==
  ASSUME SInv
  PROVE  /\ pool.total \in Nat /\ pool.user \in [Users -> Nat]
         /\ pool.wksp \in [Workspaces -> Nat] /\ pool.mem \in [Users -> Nat]
BY SInvTypes DEF PoolType

LEMMA Ones ==
  ASSUME NEW s \in Sessions
  PROVE  /\ \A u : One(s, OfUser(u)) = IF u = UserOf[s] THEN 1 ELSE 0
         /\ \A x : One(s, InSpace(x)) = IF x = HomeOf[s] THEN 1 ELSE 0
         /\ One(s, Sessions) = 1
BY DEF One, OfUser, InSpace

LEMMA AcquiredCounts ==
  ASSUME SInv, NEW s \in Sessions
  PROVE  /\ Acquired(s).total = pool.total + 1
         /\ \A u \in Users : Acquired(s).user[u] = pool.user[u] + One(s, OfUser(u))
         /\ \A x \in Workspaces : Acquired(s).wksp[x] = pool.wksp[x] + One(s, InSpace(x))
         /\ \A u \in Users : Acquired(s).mem[u] <= pool.mem[u] + One(s, OfUser(u))
<1>0. UserOf[s] \in Users /\ HomeOf[s] \in Workspaces \cup {NoWorkspace} /\ NoWorkspace \notin Workspaces
  BY PoolAssumption
<1>1. /\ Acquired(s).total = pool.total + 1
      /\ Acquired(s).user = More(pool.user, UserOf[s])
      /\ Acquired(s).wksp = IF HomeOf[s] = NoWorkspace THEN pool.wksp ELSE More(pool.wksp, HomeOf[s])
      /\ Acquired(s).mem = IF limits.mem = 0 THEN pool.mem ELSE More(pool.mem, UserOf[s])
  BY DEF Acquired
<1>2. \A u \in Users : Acquired(s).user[u] = pool.user[u] + One(s, OfUser(u))
  BY <1>0, <1>1, Counters, Ones DEF More
<1>3. \A x \in Workspaces : Acquired(s).wksp[x] = pool.wksp[x] + One(s, InSpace(x))
  BY <1>0, <1>1, Counters, Ones DEF More
<1>4. \A u \in Users : Acquired(s).mem[u] <= pool.mem[u] + One(s, OfUser(u))
  BY <1>0, <1>1, Counters, Ones DEF More
<1> QED BY <1>1, <1>2, <1>3, <1>4

\* Releasing what is counted takes one from each counter; without a slot of the
\* user it only lowers the memory.
LEMMA ReleasedCounts ==
  ASSUME SInv, NEW s \in Sessions
  PROVE  /\ pool.user[UserOf[s]] > 0 /\ pool.total > 0 =>
              /\ Released(s).total = pool.total - 1
              /\ \A u \in Users : Released(s).user[u] = pool.user[u] - One(s, OfUser(u))
              /\ \A x \in Workspaces :
                   pool.wksp[x] > 0 \/ x # HomeOf[s] =>
                     Released(s).wksp[x] = pool.wksp[x] - One(s, InSpace(x))
         /\ pool.user[UserOf[s]] = 0 \/ pool.total = 0 =>
              Released(s).total = pool.total /\ Released(s).user = pool.user
         /\ \A u \in Users : Released(s).mem[u] =
              IF pool.mem[u] > 0 THEN pool.mem[u] - One(s, OfUser(u)) ELSE 0
<1>0. UserOf[s] \in Users /\ HomeOf[s] \in Workspaces \cup {NoWorkspace} /\ NoWorkspace \notin Workspaces
  BY PoolAssumption
<1>1. \A u \in Users : Less(pool.mem, UserOf[s])[u] =
        IF pool.mem[u] > 0 THEN pool.mem[u] - One(s, OfUser(u)) ELSE 0
  BY <1>0, Counters, Ones DEF Less
<1>2. CASE pool.user[UserOf[s]] = 0 \/ pool.total = 0
  <2>1. Released(s) = [pool EXCEPT !.mem = Less(pool.mem, UserOf[s])]
    BY <1>2 DEF Released
  <2>2. /\ Released(s).total = pool.total /\ Released(s).user = pool.user
        /\ Released(s).mem = Less(pool.mem, UserOf[s])
    BY <2>1, SInvTypes DEF PoolType
  <2> QED BY <1>0, <1>1, <1>2, <2>2, Counters
<1>3. CASE ~(pool.user[UserOf[s]] = 0 \/ pool.total = 0)
  <2>1. /\ Released(s).total = pool.total - 1
        /\ Released(s).user = Less(pool.user, UserOf[s])
        /\ Released(s).wksp = IF HomeOf[s] = NoWorkspace THEN pool.wksp ELSE Less(pool.wksp, HomeOf[s])
        /\ Released(s).mem = Less(pool.mem, UserOf[s])
    BY <1>3 DEF Released
  <2>2. \A u \in Users : Released(s).user[u] = pool.user[u] - One(s, OfUser(u))
    BY <1>0, <1>3, <2>1, Counters, Ones DEF Less
  <2>3. \A x \in Workspaces : pool.wksp[x] > 0 \/ x # HomeOf[s] =>
          Released(s).wksp[x] = pool.wksp[x] - One(s, InSpace(x))
    BY <1>0, <2>1, Counters, Ones DEF Less
  <2> QED BY <1>1, <1>3, <2>1, <2>2, <2>3
<1> QED BY <1>2, <1>3

LEMMA DeletesStart == SInv /\ [Next]_vars /\ deletes' = 0 => deletes = 0
<1> SUFFICES ASSUME SInv, [Next]_vars PROVE deletes' = deletes \/ deletes' = deletes + 1
  BY SInvTypes, PoolAssumption
<1>1. ASSUME NEW p \in Procs, NEW s \in Sessions, SessionStep(p, s)
      PROVE  deletes' = deletes \/ deletes' = deletes + 1
  BY <1>1 DEF SessionStep, StartTransition, StartInput, StartDetach, Get, Lookup, CreateUpsert,
       UpdateSession, AttachCheck, Delete, DeletePhysical, Retire, Mark
<1>2. ASSUME NEW p \in Procs, Continue(p) PROVE deletes' = deletes
  BY <1>2 DEF Continue, Install, CreateInstall, FinishUpdate, TransitionBegin, InputBegin,
       TransitionUpsert, TransitionCommit, AttachAcquire, AttachCommit, Detach, Release,
       DeleteLoad, PersistDelete, DropDeleted, PersistPhysical, Uncache, PersistRetire, Retired
<1>3. CASE UpdateLimits \/ \E s \in Sessions : DeleteTerminated(s) \/ CleanupDone(s) \/ Evict(s)
  BY <1>3 DEF UpdateLimits, DeleteTerminated, CleanupDone, Evict
<1>4. CASE UNCHANGED vars
  BY <1>4 DEF vars
<1> QED BY <1>1, <1>2, <1>3, <1>4 DEF Next

LEMMA NothingInUse == Init => \A S : InUse(S) = 0
<1> SUFFICES ASSUME Init, NEW S PROVE InUse(S) = 0
  OBVIOUS
<1>1. Running(S, ms, ended) = {}
  BY DEF Init, Running, Held, Unused
<1>2. InHand(S, op) = {}
  BY DEF Init, InHand, Between, Idle
<1> QED BY <1>1, <1>2, UseParts, FS_EmptySet

LEMMA Subsets ==
  /\ \A u : OfUser(u) \in SUBSET Sessions
  /\ \A x : InSpace(x) \in SUBSET Sessions
  /\ Sessions \in SUBSET Sessions
BY DEF OfUser, InSpace

LEMMA ExactNext == SInv /\ QInv /\ QuotaExact /\ [Next]_vars => QuotaExact'
<1> SUFFICES ASSUME SInv, QInv, QuotaExact, [Next]_vars, deletes' = 0
             PROVE  /\ pool'.total = InUse(Sessions)'
                    /\ \A u \in Users : pool'.user[u] = InUse(OfUser(u))'
                    /\ \A x \in Workspaces : pool'.wksp[x] = InUse(InSpace(x))'
  BY DEF QuotaExact
<1>0. deletes = 0
  BY DeletesStart
<1>1. /\ pool.total = InUse(Sessions)
      /\ \A u \in Users : pool.user[u] = InUse(OfUser(u))
      /\ \A x \in Workspaces : pool.wksp[x] = InUse(InSpace(x))
  BY <1>0 DEF QuotaExact
<1>2. /\ InUse(Sessions)' \in Nat /\ \A u : InUse(OfUser(u))' \in Nat
      /\ \A x : InUse(InSpace(x))' \in Nat
  BY UseParts, PartsFinite
<1>3. /\ InUse(Sessions) \in Nat /\ \A u : InUse(OfUser(u)) \in Nat
      /\ \A x : InUse(InSpace(x)) \in Nat
  BY UseNat
<1>4. CASE SameUse /\ (pool' = pool \/ pool' = [pool EXCEPT !.mem = [u \in Users |-> 0]])
  <2>1. pool'.total = pool.total /\ pool'.user = pool.user /\ pool'.wksp = pool.wksp
    BY <1>4, SInvTypes DEF PoolType
  <2>2. /\ InUse(Sessions)' = InUse(Sessions)
        /\ \A u : InUse(OfUser(u))' = InUse(OfUser(u))
        /\ \A x : InUse(InSpace(x))' = InUse(InSpace(x))
    BY <1>4, Subsets DEF SameUse
  <2> QED BY <1>1, <2>1, <2>2
<1>5. ASSUME NEW s \in Sessions, MoreUse(s), pool' = Acquired(s)
      PROVE  /\ pool'.total = InUse(Sessions)'
             /\ \A u \in Users : pool'.user[u] = InUse(OfUser(u))'
             /\ \A x \in Workspaces : pool'.wksp[x] = InUse(InSpace(x))'
  <2>1. /\ InUse(Sessions)' = InUse(Sessions) + 1
        /\ \A u : InUse(OfUser(u))' = InUse(OfUser(u)) + One(s, OfUser(u))
        /\ \A x : InUse(InSpace(x))' = InUse(InSpace(x)) + One(s, InSpace(x))
    BY <1>5, Subsets, Ones DEF MoreUse
  <2> QED BY <1>1, <1>5, <2>1, AcquiredCounts
<1>6. ASSUME NEW s \in Sessions, LessUse(s), pool' = Released(s)
      PROVE  /\ pool'.total = InUse(Sessions)'
             /\ \A u \in Users : pool'.user[u] = InUse(OfUser(u))'
             /\ \A x \in Workspaces : pool'.wksp[x] = InUse(InSpace(x))'
  <2>1. /\ InUse(Sessions)' = InUse(Sessions) - 1
        /\ \A u : InUse(OfUser(u))' = InUse(OfUser(u)) - One(s, OfUser(u))
        /\ \A x : InUse(InSpace(x))' = InUse(InSpace(x)) - One(s, InSpace(x))
    BY <1>6, Subsets, Ones DEF LessUse
  <2>2. UserOf[s] \in Users
    BY PoolAssumption
  <2>3. pool.total > 0 /\ pool.user[UserOf[s]] > 0
    BY <1>1, <1>2, <1>3, <2>1, <2>2, Ones
  <2>4. \A x \in Workspaces : pool.wksp[x] > 0 \/ x # HomeOf[s]
    BY <1>1, <1>2, <1>3, <2>1, Ones
  <2> QED BY <1>1, <1>6, <2>1, <2>3, <2>4, ReleasedCounts
<1>7. Balanced
  BY QInvNext
<1> QED BY <1>4, <1>5, <1>6, <1>7 DEF Balanced

\* However attaches, detaches, terminations, evictions and reloads of the
\* limits interleave, and whichever of them fail half way: before the first
\* deletion every counter of the pool is what is in use.
THEOREM CountersExact == Spec => []QuotaExact
<1>1. Init => QuotaExact
  BY NothingInUse DEF Init, QuotaExact
<1>2. SInv /\ QInv /\ [Next]_vars => QInv'
  BY QInvNext
<1> QED BY <1>1, <1>2, QInvInit, ExactNext, SInvAlways, PTL DEF Spec

-----------------------------------------------------------------------------
(* Nothing leaks.                                                            *)

\* A release that finds no slot of its user leaves the total as it is, so that
\* the total is bounded by what is in use only because it is the sum of the
\* users' counters.  A counter is a set of slots here, and the sum is the
\* number of slots of all users.
Slots(V, f) == {x \in V \X Nat : x[2] < f[x[1]]}
OfUsers(V) == {s \in Sessions : UserOf[s] \in V}

LInv ==
  /\ IsFiniteSet(Slots(Users, pool.user)) /\ pool.total = Cardinality(Slots(Users, pool.user))
  /\ \A V \in SUBSET Users : Cardinality(Slots(V, pool.user)) <= InUse(OfUsers(V))
  /\ \A u \in Users : /\ pool.user[u] <= InUse(OfUser(u))
                      /\ pool.mem[u] <= InUse(OfUser(u))

LEMMA SlotsMore ==
  ASSUME NEW f \in [Users -> Nat], NEW g \in [Users -> Nat], NEW u \in Users, g[u] = f[u] + 1,
         \A x \in Users \ {u} : g[x] = f[x], NEW V \in SUBSET Users
  PROVE  /\ u \in V => Slots(V, g) = Slots(V, f) \cup {<<u, f[u]>>}
         /\ u \notin V => Slots(V, g) = Slots(V, f)
         /\ <<u, f[u]>> \notin Slots(V, f)
<1>1. <<u, f[u]>> \notin Slots(V, f)
  BY DEF Slots
<1>2. ASSUME u \in V PROVE Slots(V, g) = Slots(V, f) \cup {<<u, f[u]>>}
  <2>1. ASSUME NEW x \in V \X Nat PROVE x[2] < g[x[1]] <=> x[2] < f[x[1]] \/ x = <<u, f[u]>>
    <3>1. x[1] \in Users /\ x[2] \in Nat /\ x = <<x[1], x[2]>>
      OBVIOUS
    <3>2. CASE x[1] = u
      BY <3>1, <3>2
    <3>3. CASE x[1] # u
      BY <3>1, <3>3
    <3> QED BY <3>2, <3>3
  <2>2. <<u, f[u]>> \in V \X Nat
    BY <1>2
  <2> QED BY <2>1, <2>2 DEF Slots
<1>3. ASSUME u \notin V PROVE Slots(V, g) = Slots(V, f)
  <2>1. \A x \in V \X Nat : g[x[1]] = f[x[1]]
    BY <1>3
  <2> QED BY <2>1 DEF Slots
<1> QED BY <1>1, <1>2, <1>3

LEMMA SlotsFinite ==
  ASSUME NEW f, IsFiniteSet(Slots(Users, f)), NEW V \in SUBSET Users
  PROVE  IsFiniteSet(Slots(V, f)) /\ Cardinality(Slots(V, f)) \in Nat
<1>1. Slots(V, f) \subseteq Slots(Users, f)
  BY DEF Slots
<1> QED BY <1>1, FS_Subset, FS_CardinalityType

\* One slot more or one less of a user.
LEMMA SlotsCount ==
  ASSUME NEW f \in [Users -> Nat], NEW g \in [Users -> Nat], NEW u \in Users, g[u] = f[u] + 1,
         \A x \in Users \ {u} : g[x] = f[x],
         IsFiniteSet(Slots(Users, f)) \/ IsFiniteSet(Slots(Users, g))
  PROVE  /\ IsFiniteSet(Slots(Users, f)) /\ IsFiniteSet(Slots(Users, g))
         /\ \A V \in SUBSET Users :
              Cardinality(Slots(V, g)) = Cardinality(Slots(V, f)) + IF u \in V THEN 1 ELSE 0
<1>0. \A V \in SUBSET Users : /\ u \in V => Slots(V, g) = Slots(V, f) \cup {<<u, f[u]>>}
                              /\ u \notin V => Slots(V, g) = Slots(V, f)
                              /\ <<u, f[u]>> \notin Slots(V, f)
  BY SlotsMore
<1>1. Slots(Users, g) = Slots(Users, f) \cup {<<u, f[u]>>}
  BY <1>0
<1>2. IsFiniteSet(Slots(Users, f)) /\ IsFiniteSet(Slots(Users, g))
  <2>1. Slots(Users, f) \subseteq Slots(Users, g)
    BY <1>1
  <2>2. CASE IsFiniteSet(Slots(Users, f))
    <3>1. IsFiniteSet(Slots(Users, f) \cup {<<u, f[u]>>})
      BY <2>2, FS_AddElement
    <3> QED BY <1>1, <2>2, <3>1
  <2>3. CASE IsFiniteSet(Slots(Users, g))
    BY <2>1, <2>3, FS_Subset
  <2> QED BY <2>2, <2>3
<1>3. ASSUME NEW V \in SUBSET Users
      PROVE  Cardinality(Slots(V, g)) = Cardinality(Slots(V, f)) + IF u \in V THEN 1 ELSE 0
  <2>1. IsFiniteSet(Slots(V, f)) /\ Cardinality(Slots(V, f)) \in Nat
    BY <1>2, SlotsFinite
  <2>2. CASE u \in V
    <3>1. Slots(V, g) = Slots(V, f) \cup {<<u, f[u]>>} /\ <<u, f[u]>> \notin Slots(V, f)
      BY <1>0, <2>2
    <3> QED BY <2>1, <2>2, <3>1, FS_AddElement
  <2>3. CASE u \notin V
    <3>1. Slots(V, g) = Slots(V, f)
      BY <1>0, <2>3
    <3> QED BY <2>1, <2>3, <3>1
  <2> QED BY <2>2, <2>3
<1> QED BY <1>2, <1>3

\* More sessions have no less in use.
LEMMA UseMonotone ==
  ASSUME NEW S, NEW T, S \subseteq T
  PROVE  InUse(S)' <= InUse(T)' /\ InUse(S) <= InUse(T)
<1>1. ASSUME NEW m, NEW e, NEW c
      PROVE  Cardinality(Running(S, m, e)) + Cardinality(InHand(S, c))
               <= Cardinality(Running(T, m, e)) + Cardinality(InHand(T, c))
  <2>1. Running(S, m, e) \subseteq Running(T, m, e) /\ InHand(S, c) \subseteq InHand(T, c)
    BY DEF Running, InHand
  <2>2. Cardinality(Running(S, m, e)) <= Cardinality(Running(T, m, e))
    BY <2>1, PartsFinite, FS_Subset
  <2>3. Cardinality(InHand(S, c)) <= Cardinality(InHand(T, c))
    BY <2>1, PartsFinite, FS_Subset
  <2> QED BY <2>2, <2>3, PartsFinite
<1>2. InUse(S)' <= InUse(T)'
  BY <1>1, UseParts
<1>3. InUse(S) <= InUse(T)
  BY <1>1, UseParts
<1> QED BY <1>2, <1>3

LEMMA OneOfUsers ==
  ASSUME NEW s \in Sessions, NEW V
  PROVE  One(s, OfUsers(V)) = (IF UserOf[s] \in V THEN 1 ELSE 0) /\ OfUsers(V) \in SUBSET Sessions
BY DEF One, OfUsers

\* The counters stay within what is in use when nothing of it is lost.
LEMMA LeakKept ==
  ASSUME SInv, SInv', LInv, UNCHANGED <<pool.total, pool.user>>,
         \A u \in Users : pool'.mem[u] <= pool.mem[u],
         \A S \in SUBSET Sessions : InUse(S)' >= InUse(S)
  PROVE  LInv'
<1>0. /\ pool'.mem \in [Users -> Nat] /\ pool.mem \in [Users -> Nat]
      /\ pool.user \in [Users -> Nat] /\ pool'.user = pool.user
  BY Counters DEF SInv, STypeOK
<1>1. /\ \A V : InUse(OfUsers(V))' \in Nat /\ InUse(OfUsers(V)) \in Nat
      /\ \A u : InUse(OfUser(u))' \in Nat /\ InUse(OfUser(u)) \in Nat
  BY UseParts, PartsFinite
<1>2. /\ \A V : InUse(OfUsers(V))' >= InUse(OfUsers(V))
      /\ \A u : InUse(OfUser(u))' >= InUse(OfUser(u))
  BY DEF OfUsers, OfUser
<1>3. \A V \in SUBSET Users : Cardinality(Slots(V, pool'.user)) <= InUse(OfUsers(V))'
  <2>1. \A V \in SUBSET Users : Cardinality(Slots(V, pool.user)) \in Nat
    BY SlotsFinite DEF LInv
  <2> QED BY <1>0, <1>1, <1>2, <2>1 DEF LInv
<1>4. \A u \in Users : pool'.user[u] <= InUse(OfUser(u))' /\ pool'.mem[u] <= InUse(OfUser(u))'
  BY <1>0, <1>1, <1>2 DEF LInv
<1>5. IsFiniteSet(Slots(Users, pool'.user)) /\ pool'.total = Cardinality(Slots(Users, pool'.user))
  BY <1>0 DEF LInv
<1> QED BY <1>3, <1>4, <1>5 DEF LInv

LEMMA LeakAcquired ==
  ASSUME SInv, SInv', LInv, NEW s \in Sessions, MoreUse(s), pool' = Acquired(s)
  PROVE  LInv'
<1> DEFINE u == UserOf[s]
<1>0. /\ u \in Users /\ pool.user \in [Users -> Nat] /\ pool'.user \in [Users -> Nat]
      /\ pool.mem \in [Users -> Nat] /\ pool'.mem \in [Users -> Nat]
  BY PoolAssumption, Counters DEF SInv, STypeOK
<1>1. /\ pool'.total = pool.total + 1
      /\ \A x \in Users : pool'.user[x] = pool.user[x] + One(s, OfUser(x))
      /\ \A x \in Users : pool'.mem[x] <= pool.mem[x] + One(s, OfUser(x))
  BY AcquiredCounts
<1>2. pool'.user[u] = pool.user[u] + 1 /\ \A x \in Users \ {u} : pool'.user[x] = pool.user[x]
  BY <1>0, <1>1, Ones
<1>3. /\ IsFiniteSet(Slots(Users, pool.user)) /\ IsFiniteSet(Slots(Users, pool'.user))
      /\ \A V \in SUBSET Users : Cardinality(Slots(V, pool'.user)) =
           Cardinality(Slots(V, pool.user)) + IF u \in V THEN 1 ELSE 0
  <2>1. IsFiniteSet(Slots(Users, pool.user))
    BY DEF LInv
  <2> HIDE DEF u
  <2> QED BY <1>0, <1>2, <2>1, SlotsCount
<1>4. /\ \A V : InUse(OfUsers(V))' = InUse(OfUsers(V)) + IF u \in V THEN 1 ELSE 0
      /\ \A x : InUse(OfUser(x))' = InUse(OfUser(x)) + One(s, OfUser(x))
  BY Subsets, OneOfUsers DEF MoreUse
<1>5. /\ \A V : InUse(OfUsers(V)) \in Nat
      /\ \A x : InUse(OfUser(x)) \in Nat
  BY UseNat
<1>5a. \A V \in SUBSET Users : Cardinality(Slots(V, pool.user)) \in Nat
  BY <1>3, SlotsFinite
<1> HIDE DEF u
<1>6. \A V \in SUBSET Users : Cardinality(Slots(V, pool'.user)) <= InUse(OfUsers(V))'
  BY <1>3, <1>4, <1>5, <1>5a DEF LInv
<1>7. pool'.total = Cardinality(Slots(Users, pool'.user))
  BY <1>0, <1>1, <1>3 DEF LInv
<1>8. \A x \in Users : pool'.user[x] <= InUse(OfUser(x))' /\ pool'.mem[x] <= InUse(OfUser(x))'
  <2>1. \A x \in Users : One(s, OfUser(x)) \in Nat
    BY Ones
  <2> QED BY <1>0, <1>1, <1>4, <1>5, <2>1 DEF LInv
<1> QED BY <1>3, <1>6, <1>7, <1>8 DEF LInv

\* What a release does to the slots, whatever becomes of what is in use.
LEMMA LeakReleased ==
  ASSUME SInv, SInv', LInv, NEW s \in Sessions, pool' = Released(s),
         SameUse \/ LessUse(s)
  PROVE  LInv'
<1> DEFINE u == UserOf[s]
<1>0. /\ u \in Users /\ pool.user \in [Users -> Nat] /\ pool'.user \in [Users -> Nat]
      /\ pool.mem \in [Users -> Nat] /\ pool'.mem \in [Users -> Nat] /\ pool.total \in Nat
  BY PoolAssumption, Counters DEF SInv, STypeOK
<1>1. \A x \in Users : One(s, OfUser(x)) = IF x = u THEN 1 ELSE 0
  BY Ones
<1>2. /\ \A V : InUse(OfUsers(V))' \in Nat /\ InUse(OfUsers(V)) \in Nat
      /\ \A x : InUse(OfUser(x))' \in Nat /\ InUse(OfUser(x)) \in Nat
  BY UseParts, PartsFinite
<1>3. /\ \A V : InUse(OfUsers(V))' >= InUse(OfUsers(V)) - IF u \in V THEN 1 ELSE 0
      /\ \A x : InUse(OfUser(x))' >= InUse(OfUser(x)) - One(s, OfUser(x))
  <2>1. CASE SameUse
    <3>1. /\ \A V : InUse(OfUsers(V))' = InUse(OfUsers(V))
          /\ \A x : InUse(OfUser(x))' = InUse(OfUser(x))
      BY <2>1, Subsets, OneOfUsers DEF SameUse
    <3> QED BY <1>2, <3>1 DEF One
  <2>2. CASE LessUse(s)
    <3>1. /\ \A V : InUse(OfUsers(V))' = InUse(OfUsers(V)) - IF u \in V THEN 1 ELSE 0
          /\ \A x : InUse(OfUser(x))' = InUse(OfUser(x)) - One(s, OfUser(x))
      BY <2>2, Subsets, OneOfUsers DEF LessUse
    <3> QED BY <1>2, <3>1 DEF One
  <2> QED BY <2>1, <2>2
<1>4. IsFiniteSet(Slots(Users, pool.user)) /\ pool.total = Cardinality(Slots(Users, pool.user))
  BY DEF LInv
<1>4a. \A V \in SUBSET Users : Cardinality(Slots(V, pool.user)) \in Nat
  BY <1>4, SlotsFinite
<1>5. pool.user[u] > 0 => pool.total > 0
  <2>1. pool.user[u] > 0 => <<u, 0>> \in Slots(Users, pool.user)
    BY <1>0 DEF Slots
  <2>2. Slots(Users, pool.user) # {} => Cardinality(Slots(Users, pool.user)) # 0
    BY <1>4, FS_EmptySet
  <2> QED BY <1>0, <1>4, <2>1, <2>2
<1>6. \A x \in Users : pool'.mem[x] = IF pool.mem[x] > 0 THEN pool.mem[x] - One(s, OfUser(x)) ELSE 0
  BY ReleasedCounts
<1>7. \A x \in Users : pool'.mem[x] <= InUse(OfUser(x))'
  BY <1>0, <1>1, <1>2, <1>3, <1>6 DEF LInv
<1>8. CASE pool.user[u] > 0
  <2>1. /\ pool'.total = pool.total - 1
        /\ \A x \in Users : pool'.user[x] = pool.user[x] - One(s, OfUser(x))
    BY <1>5, <1>8, ReleasedCounts
  <2>2. pool.user[u] = pool'.user[u] + 1 /\ \A x \in Users \ {u} : pool.user[x] = pool'.user[x]
    BY <1>0, <1>1, <2>1
  <2> HIDE DEF u
  <2>3. /\ IsFiniteSet(Slots(Users, pool'.user))
        /\ \A V \in SUBSET Users : Cardinality(Slots(V, pool.user)) =
             Cardinality(Slots(V, pool'.user)) + IF u \in V THEN 1 ELSE 0
    BY <1>0, <1>4, <2>2, SlotsCount
  <2>4. \A V \in SUBSET Users : Cardinality(Slots(V, pool'.user)) \in Nat
    BY <2>3, SlotsFinite
  <2>5. \A V \in SUBSET Users : Cardinality(Slots(V, pool'.user)) <= InUse(OfUsers(V))'
    BY <1>2, <1>3, <1>4a, <2>3, <2>4 DEF LInv
  <2>6. pool'.total = Cardinality(Slots(Users, pool'.user))
    <3>1. Cardinality(Slots(Users, pool.user)) = Cardinality(Slots(Users, pool'.user)) + 1
          /\ Cardinality(Slots(Users, pool'.user)) \in Nat
      BY <1>0, <2>3, <2>4
    <3> QED BY <1>0, <1>4, <2>1, <3>1
  <2>7. \A x \in Users : pool'.user[x] <= InUse(OfUser(x))'
    BY <1>0, <1>1, <1>2, <1>3, <2>1 DEF LInv
  <2> QED BY <1>7, <2>3, <2>5, <2>6, <2>7 DEF LInv
<1>9. CASE pool.user[u] = 0
  <2>1. pool'.total = pool.total /\ pool'.user = pool.user
    BY <1>9, ReleasedCounts
  <2>2. ASSUME NEW V \in SUBSET Users
        PROVE  Cardinality(Slots(V, pool'.user)) <= InUse(OfUsers(V))'
    <3> DEFINE X == V \ {u}
    <3>1. Slots(V, pool.user) = Slots(X, pool.user)
      <4>1. \A x \in V \X Nat : x[2] < pool.user[x[1]] => x \in X \X Nat
        BY <1>0, <1>9
      <4> QED BY <4>1 DEF Slots
    <3>2. Cardinality(Slots(X, pool.user)) <= InUse(OfUsers(X))
      BY DEF LInv
    <3>3. InUse(OfUsers(X))' >= InUse(OfUsers(X))
      <4>1. u \notin X
        OBVIOUS
      <4>2. InUse(OfUsers(X))' >= InUse(OfUsers(X)) - 0
        <5> HIDE DEF X
        <5> QED BY <1>3, <4>1
      <4> QED BY <1>2, <4>2
    <3>4. InUse(OfUsers(X))' <= InUse(OfUsers(V))'
      <4>1. OfUsers(X) \subseteq OfUsers(V)
        BY DEF OfUsers
      <4> QED BY <4>1, UseMonotone
    <3>5. Cardinality(Slots(X, pool.user)) \in Nat
      BY <1>4a
    <3> HIDE DEF X
    <3> QED BY <1>2, <2>1, <3>1, <3>2, <3>3, <3>4, <3>5
  <2>3. \A x \in Users : pool'.user[x] <= InUse(OfUser(x))'
    BY <1>0, <1>1, <1>2, <1>3, <1>9, <2>1 DEF LInv
  <2> QED BY <1>4, <1>7, <2>1, <2>2, <2>3 DEF LInv
<1> QED BY <1>0, <1>8, <1>9

LEMMA LInvNext == SInv /\ QInv /\ LInv /\ [Next]_vars => LInv'
<1> SUFFICES ASSUME SInv, QInv, LInv, [Next]_vars PROVE LInv'
  OBVIOUS
<1>0. SInv' /\ Balanced
  BY SInvNext, QInvNext
<1>1. CASE SameUse /\ (pool' = pool \/ pool' = [pool EXCEPT !.mem = [u \in Users |-> 0]])
  <2>1. UNCHANGED <<pool.total, pool.user>> /\ \A u \in Users : pool'.mem[u] <= pool.mem[u]
    <3>1. pool.mem \in [Users -> Nat]
      BY Counters
    <3> QED BY <1>1, <3>1, SInvTypes DEF PoolType
  <2>2. \A S \in SUBSET Sessions : InUse(S)' >= InUse(S)
    BY <1>1, UseNat DEF SameUse
  <2> QED BY <1>0, <2>1, <2>2, LeakKept
<1>2. ASSUME NEW s \in Sessions, MoreUse(s), pool' = pool PROVE LInv'
  <2>1. UNCHANGED <<pool.total, pool.user>> /\ \A u \in Users : pool'.mem[u] <= pool.mem[u]
    BY <1>2, Counters
  <2>2. \A S \in SUBSET Sessions : InUse(S)' >= InUse(S)
    BY <1>2, UseNat DEF MoreUse, One
  <2> QED BY <1>0, <2>1, <2>2, LeakKept
<1> QED BY <1>0, <1>1, <1>2, LeakAcquired, LeakReleased DEF Balanced

\* No exit of any operation keeps quota, deletions and double releases
\* included: what the pool counts of slots, of a user's slots and of a user's
\* memory is at most what is in use, so that free capacity is never refused.
THEOREM NothingLeaks == Spec => []NoSlotLeak
<1>1. Init => LInv
  <2> SUFFICES ASSUME Init PROVE LInv
    OBVIOUS
  <2>1. /\ pool.total = 0 /\ pool.user = [u \in Users |-> 0] /\ pool.mem = [u \in Users |-> 0]
    BY DEF Init
  <2>2. \A V \in SUBSET Users : Slots(V, pool.user) = {}
    BY <2>1 DEF Slots
  <2>3. IsFiniteSet({}) /\ Cardinality({}) = 0
    BY FS_EmptySet
  <2>4. \A S : InUse(S) = 0
    BY NothingInUse
  <2>5. IsFiniteSet(Slots(Users, pool.user)) /\ pool.total = Cardinality(Slots(Users, pool.user))
    BY <2>1, <2>2, <2>3
  <2>6. \A V \in SUBSET Users : Cardinality(Slots(V, pool.user)) <= InUse(OfUsers(V))
    BY <2>2, <2>3, <2>4
  <2>7. \A u \in Users : pool.user[u] <= InUse(OfUser(u)) /\ pool.mem[u] <= InUse(OfUser(u))
    BY <2>1, <2>4
  <2> QED BY <2>5, <2>6, <2>7 DEF LInv
<1>2. SInv /\ QInv /\ [Next]_vars => QInv'
  BY QInvNext
<1>3. SInv /\ LInv => NoSlotLeak
  <2> SUFFICES ASSUME SInv, LInv PROVE NoSlotLeak
    OBVIOUS
  <2>1. OfUsers(Users) = Sessions
    BY PoolAssumption DEF OfUsers
  <2>2. Cardinality(Slots(Users, pool.user)) <= InUse(OfUsers(Users))
    BY DEF LInv
  <2>3. pool.total <= InUse(Sessions)
    BY <2>1, <2>2 DEF LInv
  <2> QED BY <2>3 DEF NoSlotLeak, LInv
<1> QED BY <1>1, <1>2, <1>3, QInvInit, LInvNext, SInvAlways, PTL DEF Spec
=============================================================================
