----------------------------- MODULE EventStream -----------------------------
(***************************************************************************)
(* The events of one session on their way to its clients and to the event  *)
(* store: sequence numbers (gateway/seq.go and the barrier and order locks *)
(* of gateway/hub.go), the broadcast channel and its router, the WebSocket *)
(* connections (gateway/conn.go) and the collector                         *)
(* (eventstore/collector.go).                                              *)
(*                                                                         *)
(* Sessions share only lock shards and the channel, so one is modelled.    *)
(* Its producers are a worker's forwarder, which numbers, sends and        *)
(* captures an event under a read lease of the barrier and the order lock; *)
(* a handler that lets SendToSession number its event under the order      *)
(* lock; the state notifier, which numbers without that lock; and the      *)
(* reader of client messages, whose number is captured later.  Handshakes  *)
(* and deletions take the barrier for writing.                             *)
(***************************************************************************)
EXTENDS Integers, Sequences, FiniteSets

CONSTANTS
  Conns,        \* WebSocket connections
  NoConn,
  Broadcast,    \* capacity of the broadcast channel
  WriteCap,     \* capacity of a connection's write channel
  CaptureCap,   \* capacity of the collector's channel
  Budgets       \* bound: how often each goroutine starts over, the gateway
                \* crashes, a flush or a commit fails, and the worker produces
                \* each kind of event; a set of such limits

ASSUME StreamAssumption ==
  /\ NoConn \notin Conns
  /\ Budgets \subseteq [{"forwarder", "sender", "notifier", "inbound", "deleter", "crash",
                          "fault", "delta", "raw", "plain", "done", "error"} \cup Conns -> Nat]
  /\ Conns \cap {"forwarder", "sender", "notifier", "inbound", "deleter", "crash", "fault",
                   "delta", "raw", "plain", "done", "error"} = {}
  /\ Broadcast \in Nat \ {0} /\ WriteCap \in Nat \ {0} /\ CaptureCap \in Nat \ {0}

VARIABLES
  row,       \* the session: none, live or deleted
  run,       \* a worker of the session is producing events
  counter, hydrated,   \* SeqGen
  gen,       \* history: which counter numbers come from
  pc,        \* where each goroutine is
  job,       \* what a goroutine takes the barrier for: hydrate, fresh, release
  ev,        \* the event in each goroutine's hand
  held,      \* the forwarder's buffered error
  order,     \* holder of the order lock
  bcast,     \* the broadcast channel
  accum,     \* the delta accumulator's entry, if any
  capture,   \* the collector's channel
  stored,    \* the events table
  owner,     \* the session's WebChat owner
  conn,      \* each connection's state, its init buffer and write channel
  last,      \* history: the last ordered event each client received
  due,       \* history: guaranteed events each client has not received
  left       \* what remains of the behaviour's limits

tables == <<row, run, counter, hydrated, gen>>
routing == <<bcast, owner, conn, last, due>>
collector == <<accum, capture, stored>>
vars == <<tables, pc, job, ev, held, order, routing, collector, left>>

Procs == {"forwarder", "sender", "notifier", "inbound", "deleter"} \cup Conns

\* delta and raw may be dropped by the channel, raw by a connection as well; a
\* producer of done waits until it is routed.
Kinds == {"delta", "raw", "plain", "done"}
NoEvent == [n |-> 0, gen |-> 0, kind |-> "plain", ordered |-> FALSE, safe |-> FALSE]
Outside == [st |-> "out", joined |-> FALSE, box |-> <<>>, out |-> <<>>]

Init ==
  /\ row = "none" /\ run = FALSE
  /\ counter = 0 /\ hydrated = FALSE /\ gen = 0
  /\ pc = [p \in Procs |-> "idle"]
  /\ job = [p \in Procs |-> "none"]
  /\ ev = [p \in Procs |-> NoEvent]
  /\ held = NoEvent
  /\ order = "none"
  /\ bcast = <<>> /\ owner = NoConn
  /\ conn = [c \in Conns |-> Outside]
  /\ last = [c \in Conns |-> NoEvent]
  /\ due = [c \in Conns |-> {}]
  /\ accum = <<>> /\ capture = <<>> /\ stored = {}
  /\ left \in Budgets

Goes(p, where) == pc' = [pc EXCEPT ![p] = where]
Spend(p) == left[p] > 0 /\ left' = [left EXCEPT ![p] = @ - 1]
-----------------------------------------------------------------------------
(* The barrier, the counter and the order lock. *)

\* Positions at which a goroutine holds the barrier for reading.
Pinned == {"pinned", "send", "await", "capture", "held", "heldwait", "hidden", "hiddenwait",
           "exit", "exitwait", "last", "fact", "notify"}
Readers == {p \in {"forwarder", "notifier"} : pc[p] \in Pinned}

\* A writer that waits for the readers already keeps new readers out.
RLockable == \A p \in Procs : pc[p] # "lock"

Announce(p) ==
  /\ pc[p] = "wait" /\ RLockable
  /\ Goes(p, "lock")
  /\ UNCHANGED <<tables, job, ev, held, order, routing, collector, left>>

\* What a writer does inside is one step, taken when the readers have left.
Locked(p) == pc[p] = "lock" /\ Readers = {}

\* Defect: the order lock is not exclusive.
OrderFreeAlways == TRUE

OrderFree == order = "none"

\* SeqGen.Next.  safe: the counter was raised above the stored events and the
\* producer keeps its lease until the event is captured.
Number(kind, ordered, pinned) ==
  [n |-> counter + 1, gen |-> gen, kind |-> kind, ordered |-> ordered,
   safe |-> pinned /\ hydrated]

TakeNumber == counter' = counter + 1
-----------------------------------------------------------------------------
(* The broadcast channel. *)

Full == Len(bcast) >= Broadcast
Droppable(e) == e.kind \in {"delta", "raw"}

\* sendBroadcast waits for room, trySendBroadcast drops; a guaranteed event is
\* from now on owed to every connection that is subscribed.
Enqueue(e) ==
  \/ /\ ~Full
     /\ bcast' = Append(bcast, e)
     /\ due' = [c \in Conns |-> IF conn[c].st \in {"init", "open"} /\ ~Droppable(e)
                                THEN due[c] \cup {e} ELSE due[c]]
  \/ Full /\ Droppable(e) /\ UNCHANGED <<bcast, due>>

InChannel(e) == \E i \in DOMAIN bcast : bcast[i] = e
-----------------------------------------------------------------------------
(* The collector. *)

Entry(e) == [n |-> e.n, gen |-> e.gen, safe |-> e.safe]

\* send drops what does not fit.
Sent(queue, entries) ==
  IF Len(queue) + Len(entries) <= CaptureCap THEN queue \o entries
  ELSE queue \o SubSeq(entries, 1, CaptureCap - Len(queue))

\* A delta joins the accumulator, whose entry has the number of its last part
\* and which may be full with it; any other event first flushes it, and raw is
\* not stored.
Capture(e) ==
  \/ e.kind = "delta" /\ accum' = <<Entry(e)>> /\ UNCHANGED capture
  \/ e.kind = "delta" /\ accum' = <<>> /\ capture' = Sent(capture, <<Entry(e)>>)
  \/ e.kind = "raw" /\ UNCHANGED <<accum, capture>>
  \/ /\ e.kind \in {"plain", "done"}
     /\ accum' = <<>>
     /\ capture' = Sent(capture, accum \o <<Entry(e)>>)

\* The unique index on (session, seq) refuses a number that is there.
Fresh(x) == \A y \in stored : y.n # x.n
Insert(x) == IF Fresh(x) THEN stored \cup {x} ELSE stored

\* The writer: one request of its batch, or a whole batch is lost.
Write ==
  /\ capture # <<>>
  /\ \/ stored' = Insert(Head(capture)) /\ capture' = Tail(capture) /\ UNCHANGED left
     \/ capture' = <<>> /\ Spend("fault") /\ UNCHANGED stored
  /\ UNCHANGED <<tables, pc, job, ev, held, order, routing, accum>>

\* The timer hands an old accumulator to the writer, past the channel.
FlushTimedOutAccumulators ==
  /\ accum # <<>>
  /\ accum' = <<>>
  /\ stored' = Insert(accum[1])
  /\ UNCHANGED <<tables, pc, job, ev, held, order, routing, capture, left>>

\* Defect: the flush does not wait for the writer.
FlushSessionAsync == UNCHANGED <<accum, capture, stored>>

\* FlushSession: the accumulator goes into the channel if it fits, and what is
\* there is stored unless its number is taken.
\* No producer captures meanwhile: the callers hold the barrier for writing.
FlushSession ==
  LET all == Sent(capture, accum)
      Earlier(i) == {all[j].n : j \in 1..i - 1} IN
  /\ stored' = stored \cup {all[i] : i \in {k \in DOMAIN all :
                               Fresh(all[k]) /\ all[k].n \notin Earlier(k)}}
  /\ accum' = <<>> /\ capture' = <<>>

LatestSeq(table) ==
  IF table = {} THEN 0 ELSE CHOOSE n \in {x.n : x \in table} : \A y \in table : y.n <= n
-----------------------------------------------------------------------------
(* Forwarding a worker's events: processForwardedEvent. *)

ForwardBegin ==
  /\ pc["forwarder"] = "idle" /\ run
  /\ RLockable /\ row = "live" /\ Spend("forwarder")
  /\ Goes("forwarder", "pinned")
  /\ UNCHANGED <<tables, job, ev, held, order, routing, collector>>

\* Under the order lock: an event is numbered and goes out; an error is held
\* back, in case the turn is retried; a failed done with an error held back stays
\* hidden and sends that error; or the event is suppressed or a retry follows.
ForwardNumber ==
  /\ pc["forwarder"] = "pinned" /\ OrderFree
  /\ \/ \E kind \in Kinds :
          /\ Spend(kind) /\ TakeNumber
          /\ ev' = [ev EXCEPT !["forwarder"] = Number(kind, TRUE, TRUE)]
          /\ order' = "forwarder" /\ Goes("forwarder", "send")
          /\ UNCHANGED held
     \/ /\ Spend("error") /\ TakeNumber
        /\ held' = Number("done", FALSE, FALSE)
        /\ Goes("forwarder", "idle") /\ UNCHANGED <<ev, order>>
     \/ /\ held # NoEvent /\ Spend("done")
        /\ order' = "forwarder" /\ Goes("forwarder", "hidden")
        /\ UNCHANGED <<ev, held, counter>>
     \/ /\ (TakeNumber /\ UNCHANGED held) \/ (UNCHANGED counter /\ held' = NoEvent)
        /\ Goes("forwarder", "idle") /\ UNCHANGED <<ev, order, left>>
  /\ UNCHANGED <<row, run, hydrated, gen, job, routing, collector>>

ForwardSend ==
  LET e == ev["forwarder"] IN
  /\ pc["forwarder"] = "send"
  /\ Enqueue(e)
  /\ Goes("forwarder", IF e.kind = "done" THEN "await" ELSE "capture")
  /\ UNCHANGED <<tables, job, ev, held, order, owner, conn, last, collector, left>>

\* SendToSession returns to a producer of done when it is routed.
ForwardAwait ==
  /\ pc["forwarder"] = "await" /\ ~InChannel(ev["forwarder"])
  /\ Goes("forwarder", "capture")
  /\ UNCHANGED <<tables, job, ev, held, order, routing, collector, left>>

\* Capture, then: done is followed by its runtime fact; a held error goes out
\* behind another event, unless the turn had its terminal event already.
ForwardCapture ==
  LET e == ev["forwarder"] IN
  /\ pc["forwarder"] = "capture"
  /\ Capture(e)
  /\ ev' = [ev EXCEPT !["forwarder"] = NoEvent]
  /\ \/ e.kind = "done" /\ Goes("forwarder", "fact") /\ held' = NoEvent /\ UNCHANGED order
     \/ /\ e.kind # "done" /\ held # NoEvent
        /\ Goes("forwarder", "held") /\ UNCHANGED <<held, order>>
     \/ /\ e.kind # "done" /\ held' \in {held, NoEvent}
        /\ Goes("forwarder", "idle") /\ order' = "none"
  /\ UNCHANGED <<tables, job, routing, stored, left>>

\* sendPendingError, and the same at the end of the stream without the order
\* lock: the held error is sent, routed and captured.
Routing == [held |-> "heldwait", hidden |-> "hiddenwait", exit |-> "exitwait"]

ForwardHeld ==
  /\ pc["forwarder"] \in DOMAIN Routing
  /\ Enqueue(held)
  /\ Goes("forwarder", Routing[pc["forwarder"]])
  /\ UNCHANGED <<tables, job, ev, held, order, owner, conn, last, collector, left>>

ForwardHeldCapture ==
  /\ pc["forwarder"] \in {"heldwait", "hiddenwait", "exitwait"} /\ ~InChannel(held)
  /\ Capture(held)
  /\ held' = NoEvent
  /\ Goes("forwarder", IF pc["forwarder"] = "hiddenwait" THEN "last" ELSE "idle")
  /\ order' = IF pc["forwarder"] = "heldwait" THEN "none" ELSE order
  /\ UNCHANGED <<tables, job, ev, routing, stored, left>>

\* The done of a failed turn is only captured.
ForwardHidden ==
  /\ pc["forwarder"] = "last"
  /\ TakeNumber
  /\ Capture(Number("done", FALSE, TRUE))
  /\ Goes("forwarder", "fact")
  /\ UNCHANGED <<row, run, hydrated, gen, job, ev, held, order, routing, stored, left>>

\* emitRuntimeFactOnDone, if the ledger had a record of the turn.
ForwardFact ==
  /\ pc["forwarder"] = "fact"
  /\ \/ TakeNumber /\ Enqueue(Number("plain", TRUE, FALSE))
     \/ UNCHANGED <<counter, bcast, due>>
  /\ Goes("forwarder", "idle") /\ order' = "none"
  /\ UNCHANGED <<row, run, hydrated, gen, job, ev, held, owner, conn, last, collector, left>>

\* The worker's stream ends; a held error goes out if the turn had no terminal
\* event.  The forwarder of a next worker is the same actor, after this one.
WorkerEnds ==
  /\ run /\ pc["forwarder"] = "idle"
  /\ run' = FALSE
  /\ \/ held' = NoEvent /\ UNCHANGED pc
     \/ /\ held # NoEvent /\ RLockable /\ row = "live"
        /\ Goes("forwarder", "exit") /\ UNCHANGED held
  /\ UNCHANGED <<row, counter, hydrated, gen, job, ev, order, routing, collector, left>>
-----------------------------------------------------------------------------
(* The other producers. *)

\* SendToSession of an event without a number.
SendLock ==
  /\ pc["sender"] = "idle" /\ OrderFree /\ Spend("sender")
  /\ order' = "sender" /\ Goes("sender", "numbering")
  /\ UNCHANGED <<tables, job, ev, held, routing, collector>>

SendNumber ==
  /\ pc["sender"] = "numbering" /\ RLockable
  /\ \/ /\ row = "live" /\ TakeNumber
        /\ \E kind \in {"plain", "done"} :
             ev' = [ev EXCEPT !["sender"] = Number(kind, TRUE, FALSE)]
        /\ Goes("sender", "sending") /\ UNCHANGED order
     \/ /\ row # "live"
        /\ Goes("sender", "idle") /\ order' = "none" /\ UNCHANGED <<counter, ev>>
  /\ UNCHANGED <<row, run, hydrated, gen, job, held, routing, collector, left>>

SendEnqueue ==
  LET e == ev["sender"] IN
  /\ pc["sender"] = "sending"
  /\ Enqueue(e)
  /\ IF e.kind = "done" THEN Goes("sender", "waiting") /\ UNCHANGED <<ev, order>>
     ELSE /\ Goes("sender", "idle") /\ order' = "none"
          /\ ev' = [ev EXCEPT !["sender"] = NoEvent]
  /\ UNCHANGED <<tables, job, held, owner, conn, last, collector, left>>

SendAwait ==
  /\ pc["sender"] = "waiting" /\ ~InChannel(ev["sender"])
  /\ Goes("sender", "idle") /\ order' = "none"
  /\ ev' = [ev EXCEPT !["sender"] = NoEvent]
  /\ UNCHANGED <<tables, job, held, routing, collector, left>>

\* StateNotifier numbers under its lease and sends as it is.
NotifyNumber ==
  /\ pc["notifier"] = "idle"
  /\ RLockable /\ row = "live" /\ TakeNumber /\ Spend("notifier")
  /\ ev' = [ev EXCEPT !["notifier"] = Number("plain", FALSE, FALSE)]
  /\ Goes("notifier", "notify")
  /\ UNCHANGED <<row, run, hydrated, gen, job, held, order, routing, collector>>

NotifyEnqueue ==
  /\ pc["notifier"] = "notify"
  /\ Enqueue(ev["notifier"])
  /\ ev' = [ev EXCEPT !["notifier"] = NoEvent]
  /\ Goes("notifier", "idle")
  /\ UNCHANGED <<tables, job, held, order, owner, conn, last, collector, left>>

\* ReadPump numbers a client's message; CaptureInbound stores it later.
ReadNumber ==
  /\ pc["inbound"] = "idle"
  /\ RLockable /\ row = "live" /\ TakeNumber /\ Spend("inbound")
  /\ \E c \in Conns : conn[c].st = "open"
  /\ ev' = [ev EXCEPT !["inbound"] = Number("plain", FALSE, FALSE)]
  /\ Goes("inbound", "captureinbound")
  /\ UNCHANGED <<row, run, hydrated, gen, job, held, order, routing, collector>>

CaptureInbound ==
  /\ pc["inbound"] = "captureinbound" /\ RLockable
  /\ IF row = "live" THEN Capture(ev["inbound"]) ELSE UNCHANGED <<accum, capture>>
  /\ ev' = [ev EXCEPT !["inbound"] = NoEvent]
  /\ Goes("inbound", "idle")
  /\ UNCHANGED <<tables, job, held, order, routing, stored, left>>
-----------------------------------------------------------------------------
(* Deletion and release. *)

\* Delete, up to its notice; the worker is only told to stop later.
Delete ==
  /\ pc["deleter"] = "idle" /\ row = "live"
  /\ Spend("deleter")
  /\ row' = "deleted"
  /\ Goes("deleter", "notice")
  /\ UNCHANGED <<run, counter, hydrated, gen, job, ev, held, order, routing, collector>>

\* NextSeqBeforeRelease does not ask whether the session exists.
NoticeNumber ==
  /\ pc["deleter"] = "notice" /\ RLockable /\ TakeNumber
  /\ ev' = [ev EXCEPT !["deleter"] = Number("plain", FALSE, FALSE)]
  /\ Goes("deleter", "tell")
  /\ UNCHANGED <<row, run, hydrated, gen, job, held, order, routing, collector, left>>

NoticeEnqueue ==
  /\ pc["deleter"] = "tell"
  /\ Enqueue(ev["deleter"])
  /\ ev' = [ev EXCEPT !["deleter"] = NoEvent]
  /\ Goes("deleter", "wait")
  /\ job' = [job EXCEPT !["deleter"] = "release"]
  /\ UNCHANGED <<tables, held, order, owner, conn, last, collector, left>>

\* What a goroutine does after ReleaseSeq: a handshake creates the session.
AfterRelease(p) == IF p \in Conns /\ job[p] = "release" THEN "create"
                   ELSE IF p \in Conns THEN "failed" ELSE "idle"

\* ReleaseSeq: drain, then forget; a failed drain keeps the counter.
ReleaseSeq(p) ==
  /\ Locked(p) /\ job[p] \in {"release", "undo"}
  /\ \/ /\ IF counter = 0 THEN UNCHANGED collector ELSE FlushSession
        /\ counter' = 0 /\ hydrated' = FALSE /\ gen' = gen + 1
        /\ UNCHANGED left
     \/ Spend("fault") /\ counter > 0 /\ UNCHANGED <<collector, counter, hydrated, gen>>
  /\ Goes(p, AfterRelease(p))
  /\ job' = [job EXCEPT ![p] = "none"]
  /\ UNCHANGED <<row, run, ev, held, order, routing>>
-----------------------------------------------------------------------------
(* Connections: handshake, routing, writing, end. *)

\* resolveSession: become the owner and join; then the session is hydrated,
\* created, or removed for good and created again.  The look at the row, the
\* claim of the owner and the joining are merged into one step; what others do
\* between these calls is left out.
Handshake(c) ==
  /\ conn[c].st = "out" /\ Spend(c)
  /\ owner # NoConn => owner # c /\ conn[owner].st = "closed"
  /\ owner' = c
  /\ conn' = [conn EXCEPT ![c] = [Outside EXCEPT !.st = "init", !.joined = TRUE]]
  /\ Goes(c, IF row = "none" THEN "create" ELSE "wait")
  /\ job' = [job EXCEPT ![c] = CASE row = "live" -> "hydrate"
                                 [] row = "deleted" -> "release"
                                 [] OTHER -> "none"]
  /\ row' = IF row = "deleted" THEN "none" ELSE row
  /\ UNCHANGED <<run, counter, hydrated, gen, ev, held, order, bcast, last, due,
                 collector>>

\* CreateSession; the owner's handshake is the only one.
CreateSession(c) ==
  /\ pc[c] = "create" /\ row = "none"
  /\ row' = "live"
  /\ Goes(c, "wait") /\ job' = [job EXCEPT ![c] = "fresh"]
  /\ UNCHANGED <<run, counter, hydrated, gen, ev, held, order, routing, collector, left>>

\* SeqGen.Init never lowers the counter.
Raised(latest) == IF latest > counter THEN latest ELSE counter

\* EnsureSeqHydrated: only once per counter, only for a session that exists.
\* A failure ends the handshake, and removes a session it has just created.
EnsureSeqHydrated(c) ==
  /\ Locked(c) /\ job[c] \in {"hydrate", "fresh"}
  /\ \/ /\ row = "live"
        /\ IF hydrated THEN UNCHANGED <<collector, counter>>
           ELSE /\ FlushSession
                /\ counter' = Raised(LatestSeq(stored'))
        /\ hydrated' = TRUE
        /\ Goes(c, "start") /\ job' = [job EXCEPT ![c] = "none"]
        /\ UNCHANGED <<row, left>>
     \/ /\ row = "live" /\ ~hydrated /\ Spend("fault")
        /\ IF job[c] = "fresh"
           THEN row' = "none" /\ Goes(c, "wait") /\ job' = [job EXCEPT ![c] = "undo"]
           ELSE Goes(c, "failed") /\ job' = [job EXCEPT ![c] = "none"] /\ UNCHANGED row
        /\ UNCHANGED <<collector, counter, hydrated>>
     \/ /\ row # "live"
        /\ Goes(c, "failed") /\ job' = [job EXCEPT ![c] = "none"]
        /\ UNCHANGED <<row, collector, counter, hydrated, left>>
  /\ UNCHANGED <<run, gen, ev, held, order, routing>>

\* The worker is started, resumed or found running.
StartWorker(c) ==
  /\ pc[c] = "start"
  /\ run' = (run \/ row = "live")
  /\ Goes(c, "ack")
  /\ UNCHANGED <<row, counter, hydrated, gen, job, ev, held, order, routing, collector, left>>

\* finalizeInit: the acknowledgement is numbered and is the first frame.
InitAck(c) ==
  /\ pc[c] = "ack" /\ RLockable
  /\ IF row = "live" THEN TakeNumber ELSE UNCHANGED counter
  /\ conn' = [conn EXCEPT ![c].out =
                IF conn[c].st = "init"
                THEN Append(@, IF row = "live" THEN Number("plain", FALSE, FALSE) ELSE NoEvent)
                ELSE @]
  /\ Goes(c, IF conn[c].st = "init" THEN "flush" ELSE "failed")
  /\ UNCHANGED <<row, run, hydrated, gen, job, ev, held, order, bcast, owner, last, due,
                 collector, left>>

Shut(x) == [x EXCEPT !.st = "closed", !.box = <<>>, !.out = <<>>]

\* Defect: what does not fit in the write channel is dropped.
OfferDropping(x, e) ==
  CASE x.st = "init" -> [x EXCEPT !.box = Append(@, e)]
    [] x.st = "open" /\ Len(x.out) < WriteCap -> [x EXCEPT !.out = Append(@, e)]
    [] OTHER -> x

\* writeDispatch: buffer during the handshake; a client too slow for anything
\* but raw is disconnected; a closed one is unsubscribed.
Offer(x, e) ==
  CASE x.st = "init" -> [x EXCEPT !.box = Append(@, e)]
    [] x.st = "open" /\ Len(x.out) < WriteCap -> [x EXCEPT !.out = Append(@, e)]
    [] x.st = "open" /\ Len(x.out) >= WriteCap /\ e.kind = "raw" -> x
    [] OTHER -> [Shut(x) EXCEPT !.joined = FALSE]

\* markInitDone flushes the buffer.
MarkInitDone(c) ==
  LET x == conn[c] IN
  /\ pc[c] = "flush"
  /\ conn' = [conn EXCEPT ![c] =
       CASE x.st = "closed" -> x
         [] x.st # "closed" /\ Len(x.out) + Len(x.box) <= WriteCap ->
              [x EXCEPT !.st = "open", !.out = @ \o x.box, !.box = <<>>]
         [] OTHER -> Shut(x)]
  /\ due' = IF conn'[c].st = "closed" THEN [due EXCEPT ![c] = {}] ELSE due
  /\ Goes(c, "idle")
  /\ UNCHANGED <<tables, job, ev, held, order, bcast, owner, last, collector, left>>

\* Run and routeMessage.
Route ==
  /\ bcast # <<>>
  /\ bcast' = Tail(bcast)
  /\ conn' = [c \in Conns |-> IF conn[c].joined THEN Offer(conn[c], Head(bcast)) ELSE conn[c]]
  /\ due' = [c \in Conns |-> IF conn'[c].st = "closed" THEN {} ELSE due[c]]
  /\ UNCHANGED <<tables, pc, job, ev, held, order, owner, last, collector, left>>

\* The client receives a frame.
WritePump(c) ==
  LET e == Head(conn[c].out) IN
  /\ conn[c].st \in {"init", "open"} /\ conn[c].out # <<>>
  /\ conn' = [conn EXCEPT ![c].out = Tail(@)]
  /\ last' = [last EXCEPT ![c] = IF e.ordered THEN e ELSE @]
  /\ due' = [due EXCEPT ![c] = @ \ {e}]
  /\ UNCHANGED <<tables, pc, job, ev, held, order, bcast, owner, collector, left>>

\* The client goes away, or its handshake failed.
Disconnect(c) ==
  /\ conn[c].st \in {"init", "open"} /\ pc[c] \in {"idle", "failed"}
  /\ conn' = [conn EXCEPT ![c] = Shut(@)]
  /\ due' = [due EXCEPT ![c] = {}]
  /\ UNCHANGED <<tables, pc, job, ev, held, order, bcast, owner, last, collector, left>>

\* The end of ReadPump; only the current owner gives the session up.
UnregisterConn(c) ==
  /\ conn[c].st = "closed" /\ pc[c] \in {"idle", "failed"}
  /\ conn' = [conn EXCEPT ![c] = Outside]
  /\ owner' = IF owner = c THEN NoConn ELSE owner
  /\ last' = [last EXCEPT ![c] = NoEvent]
  /\ Goes(c, "idle")
  /\ UNCHANGED <<tables, job, ev, held, order, bcast, due, collector, left>>

\* The gateway stops; rows and stored events remain.
Crash ==
  /\ Spend("crash")
  /\ run' = FALSE /\ counter' = 0 /\ hydrated' = FALSE /\ gen' = gen + 1
  /\ pc' = [p \in Procs |-> "idle"]
  /\ job' = [p \in Procs |-> "none"]
  /\ ev' = [p \in Procs |-> NoEvent]
  /\ held' = NoEvent /\ order' = "none"
  /\ bcast' = <<>> /\ owner' = NoConn
  /\ conn' = [c \in Conns |-> Outside]
  /\ last' = [c \in Conns |-> NoEvent]
  /\ due' = [c \in Conns |-> {}]
  /\ accum' = <<>> /\ capture' = <<>>
  /\ UNCHANGED <<row, stored>>

Producer ==
  \/ ForwardBegin \/ ForwardNumber \/ ForwardSend \/ ForwardAwait \/ ForwardCapture
  \/ ForwardHeld \/ ForwardHeldCapture \/ ForwardHidden \/ ForwardFact \/ WorkerEnds
  \/ SendLock \/ SendNumber \/ SendEnqueue \/ SendAwait
  \/ NotifyNumber \/ NotifyEnqueue \/ ReadNumber \/ CaptureInbound

Next ==
  \/ Producer
  \/ Delete \/ NoticeNumber \/ NoticeEnqueue
  \/ \E p \in Procs : Announce(p) \/ ReleaseSeq(p)
  \/ \E c \in Conns :
       \/ Handshake(c) \/ CreateSession(c) \/ EnsureSeqHydrated(c) \/ StartWorker(c)
       \/ InitAck(c) \/ MarkInitDone(c) \/ WritePump(c) \/ Disconnect(c) \/ UnregisterConn(c)
  \/ Route \/ Write \/ FlushTimedOutAccumulators
  \/ Crash

Spec == Init /\ [][Next]_vars
-----------------------------------------------------------------------------
(* Properties. *)

Events == [n: Nat, gen: Nat, kind: Kinds, ordered: BOOLEAN, safe: BOOLEAN]
Entries == [n: Nat, gen: Nat, safe: BOOLEAN]
Connections == [st: {"out", "init", "open", "closed"}, joined: BOOLEAN,
                box: Seq(Events), out: Seq(Events)]
Places == Pinned \cup {"idle", "wait", "lock", "create", "start", "ack", "flush", "failed",
                      "numbering", "sending", "waiting", "captureinbound", "notice", "tell"}
Jobs == {"none", "hydrate", "fresh", "release", "undo"}

\* Type invariant: every lock, channel and table holds a value of its type, within
\* the capacity the gateway gives it.
HTypeOK ==
  /\ row \in {"none", "live", "deleted"} /\ run \in BOOLEAN
  /\ counter \in Nat /\ hydrated \in BOOLEAN /\ gen \in Nat
  /\ pc \in [Procs -> Places] /\ job \in [Procs -> Jobs]
  /\ ev \in [Procs -> Events] /\ held \in Events
  /\ order \in {"none", "forwarder", "sender"}
  /\ bcast \in Seq(Events) /\ Len(bcast) <= Broadcast
  /\ accum \in Seq(Entries) /\ Len(accum) <= 1
  /\ capture \in Seq(Entries) /\ Len(capture) <= CaptureCap
  /\ stored \subseteq Entries
  /\ owner \in Conns \cup {NoConn}
  /\ conn \in [Conns -> Connections] /\ \A c \in Conns : Len(conn[c].out) <= WriteCap
  /\ last \in [Conns -> Events] /\ due \in [Conns -> SUBSET Events]

\* Worker events on their way to the events table.
InHand == IF pc["forwarder"] \in {"send", "await", "capture"}
          THEN <<Entry(ev["forwarder"])>> ELSE <<>>
Pending == capture \o accum \o InHand

\* Two worker events that claim the same row of the events table.
Meet(x, y) == x.safe /\ y.safe /\ x.n = y.n

\* A worker event numbered from a hydrated counter never meets another such event
\* under its number in the events table, whatever deletion, recreation, crash,
\* failed flush and reconnection happen between numbering and storing: hydration
\* and release wait for the producers and drain the collector first.
NoCollision ==
  \A i \in DOMAIN Pending :
    /\ \A j \in DOMAIN Pending : Meet(Pending[i], Pending[j]) => i = j
    /\ \A y \in stored : ~Meet(y, Pending[i])

\* What a subscribed client has last received and will receive next.
Ahead(c) == <<last[c]>> \o conn[c].out \o conn[c].box
              \o (IF conn[c].joined THEN bcast ELSE <<>>)

\* b may come after a: if one counter numbered both under the order lock, a first.
MayFollow(a, b) == a.ordered /\ b.ordered /\ a.gen = b.gen => a.n < b.n

\* A client sees the events numbered under the order lock in the order of their
\* numbers, through the channel, the handshake's buffer and the write channel.
InOrder ==
  \A c \in Conns : \A i, j \in DOMAIN Ahead(c) : i < j => MayFollow(Ahead(c)[i], Ahead(c)[j])

Contents(q) == {q[i] : i \in DOMAIN q}

\* A client that is connected has received, or still will, every guaranteed event
\* sent since it joined: a slow client is disconnected, never served with a gap.
NothingSkipped ==
  \A c \in Conns :
    conn[c].st \in {"init", "open"} =>
      due[c] \subseteq Contents(bcast) \cup Contents(conn[c].box) \cup Contents(conn[c].out)

\* No goroutine waits for itself behind the barrier.  The comment of NextSeqHeld
\* warns of taking the barrier twice while a release is queued; the order lock
\* closes the same circle over three goroutines: the forwarder has the barrier
\* and waits for the order lock, whose holder waits for the barrier, which a
\* queued writer keeps from it.
NoStandstill ==
  ~ /\ pc["forwarder"] = "pinned"
    /\ order = "sender" /\ pc["sender"] = "numbering"
    /\ \E p \in Procs : pc[p] = "lock"
==============================================================================
