---------------------------- MODULE EventFanout ----------------------------
(***************************************************************************)
(* The WebSocket fan-out of backend/app/websocket/manager.py and the       *)
(* handler of /ws/live in backend/app/main.py: a bounded queue and a       *)
(* sender task for each browser, so that a slow browser blocks nobody.     *)
(*                                                                         *)
(* asyncio switches tasks only where one suspends.  Enqueueing does not;   *)
(* connect and send_to do not once the socket is accepted; `disconnect'    *)
(* suspends until the sender it cancelled has ended, and with it the       *)
(* broadcast that dropped the browser.  Nothing is assumed of the browsers *)
(* and of the network: a frame may stay in transit for ever.               *)
(***************************************************************************)
EXTENDS Naturals, FiniteSets, SequencesExt

CONSTANTS
    Clients,     \* connections; a browser that reconnects has a new one
    Tasks,       \* tasks of the application that broadcast
    Types,       \* the types of event they broadcast
    QueueSize,
    MaxEvents,   \* bound: events broadcast
    None

LOSSY_EVENT_TYPES == {"audio_level", "partial_transcript",
                      "translation_pending", "translation_status",
                      "session_status"}
CRITICAL_EVENT_TYPES == {"state", "final_transcript", "translation",
                         "translation_error", "session_created",
                         "session_finalized", "session_recovered", "error",
                         "snapshot"}

ASSUME FanoutAssumption ==
    /\ QueueSize \in Nat \ {0}
    /\ MaxEvents \in Nat
    /\ Types \subseteq STRING \ {"snapshot"}
    /\ None \notin Clients \cup [type : Types \cup {"snapshot"}, number : Nat]

VARIABLES
    log,        \* history: the types of the events broadcast, in order
    clients,    \* _clients: the connections events are queued for
    queue,      \* the queue of each
    sender,     \* the sender task of each, and the event it is sending
    handler,    \* where the /ws/live handler of each is
    since,      \* the number of events broadcast when it was registered
    open,       \* the connections the network still carries
    received,   \* history: the critical events received while it is registered
    task,       \* the broadcast each task is in
    sunk,       \* history: the events the sinks have received
    closing     \* whether the application stops

vars == <<log, clients, queue, sender, handler, since, open, received, task,
          sunk, closing>>

\* An event is its place in the log.  A snapshot stands for the state after
\* the events before it.
Event == [type : Types \cup {"snapshot"}, number : 0 .. MaxEvents]

SenderState == [phase : {"none", "waiting", "sending", "cancelled", "ended"},
                event : Event \cup {None}]
Waiting == [phase |-> "waiting", event |-> None]
Ended == [phase |-> "ended", event |-> None]

\* A broadcast that found browsers to drop: those it has still to drop, and
\* the one whose sender it awaits.
TaskState == [event : (1 .. MaxEvents) \cup {None}, stale : SUBSET Clients,
              awaits : Clients \cup {None}]
Idle == [event |-> None, stale |-> {}, awaits |-> None]

-----------------------------------------------------------------------------
(* _enqueue *)

Full(c) == Len(queue[c]) >= QueueSize

CoalescedAny(q, event) == Append(Tail(q), event)  \* mutant

CoalescedReversed(q, event) ==  \* mutant: the queue is refilled from behind
    LET same == {i \in DOMAIN q : q[i].type = event.type}
    IN  IF same = {} THEN q
        ELSE Append(Reverse(RemoveAt(q, CHOOSE i \in same :
                                            \A j \in same : i <= j)), event)

\* A lossy event takes the place of the oldest of its type, at the end of the
\* queue; without one it is dropped.
Coalesced(q, event) ==
    LET same == {i \in DOMAIN q : q[i].type = event.type}
    IN  IF same = {} THEN q
        ELSE Append(RemoveAt(q, CHOOSE i \in same : \A j \in same : i <= j),
                    event)

Enqueued(c, event) ==
    IF ~Full(c) THEN Append(queue[c], event)
    ELSE IF event.type \in LOSSY_EVENT_TYPES THEN Coalesced(queue[c], event)
    ELSE queue[c]

\* _enqueue returned False
Overflows(c, event) == Full(c) /\ event.type \in CRITICAL_EVENT_TYPES

-----------------------------------------------------------------------------
(* disconnect, up to the await of the sender *)

\* The sender that the caller of disconnect(c) waits for, if any.
Awaited(c) == IF c \in clients THEN c ELSE None

Drops(c) ==
    /\ clients' = clients \ {c}
    /\ sender' = IF c \in clients /\ sender[c].phase # "ended"
                 THEN [sender EXCEPT ![c].phase = "cancelled"] ELSE sender

-----------------------------------------------------------------------------
(* The handler of a connection *)

\* connect registers the browser and, before anything else runs, the handler
\* reads the state of the capture for its snapshot.
Connect(c) ==
    /\ handler[c] = "none" /\ ~closing
    /\ handler' = [handler EXCEPT ![c] = "snapshot"]
    /\ since' = [since EXCEPT ![c] = Len(log)]
    /\ clients' = clients \cup {c}
    /\ sender' = [sender EXCEPT ![c] = Waiting]
    /\ UNCHANGED <<log, queue, open, received, task, sunk, closing>>

\* The rest of the snapshot is built across awaits; send_to does not look at
\* what _enqueue returns.
SendSnapshot(c) ==
    /\ handler[c] = "snapshot"
    /\ handler' = [handler EXCEPT ![c] = "serving"]
    /\ queue' = IF c \in clients
                THEN [queue EXCEPT ![c] = Enqueued(c,
                         [type |-> "snapshot", number |-> since[c]])]
                ELSE queue
    /\ UNCHANGED <<log, clients, sender, since, open, received, task, sunk,
                   closing>>

HandlerEndsQuietly(c) ==  \* mutant: it does not
    /\ handler[c] = "serving" /\ c \notin open
    /\ handler' = [handler EXCEPT ![c] = "ended"]
    /\ UNCHANGED <<clients, sender, log, queue, since, open, received, task,
                   sunk, closing>>

\* receive_json raises: the finally block disconnects.
HandlerNotices(c) ==
    /\ handler[c] = "serving" /\ c \notin open
    /\ handler' = [handler EXCEPT ![c] =
                       IF Awaited(c) = None THEN "ended" ELSE "closing"]
    /\ Drops(c)
    /\ UNCHANGED <<log, queue, since, open, received, task, sunk, closing>>

HandlerEnds(c) ==
    /\ handler[c] = "closing" /\ sender[c].phase = "ended"
    /\ handler' = [handler EXCEPT ![c] = "ended"]
    /\ UNCHANGED <<log, clients, queue, sender, since, open, received, task,
                   sunk, closing>>

-----------------------------------------------------------------------------
(* The sender task of a connection *)

SenderTakes(c) ==
    /\ sender[c].phase = "waiting" /\ queue[c] # <<>>
    /\ sender' = [sender EXCEPT ![c] = [phase |-> "sending",
                                        event |-> Head(queue[c])]]
    /\ queue' = [queue EXCEPT ![c] = Tail(@)]
    /\ UNCHANGED <<log, clients, handler, since, open, received, task, sunk,
                   closing>>

Critical(event) == event.type \in CRITICAL_EVENT_TYPES \ {"snapshot"}

Deliver(c) ==
    received' = IF Critical(sender[c].event)
                THEN [received EXCEPT ![c] = Append(@, sender[c].event)]
                ELSE received

\* The queue goes with its sender, and what the browser had is of the past.
SenderGone(c) ==
    /\ sender' = [sender EXCEPT ![c] = Ended]
    /\ queue' = [queue EXCEPT ![c] = <<>>]
    /\ received' = [received EXCEPT ![c] = <<>>]
    /\ since' = [since EXCEPT ![c] = 0]

Sends(c) ==
    /\ sender[c].phase = "sending" /\ c \in open
    /\ Deliver(c)
    /\ sender' = [sender EXCEPT ![c] = Waiting]
    /\ UNCHANGED <<log, clients, queue, handler, since, open, task, sunk,
                   closing>>

\* send_json raises: the sender disconnects itself, and nobody awaits it.
SendFails(c) ==
    /\ sender[c].phase = "sending" /\ c \notin open
    /\ SenderGone(c)
    /\ clients' = clients \ {c}
    /\ UNCHANGED <<log, handler, open, task, sunk, closing>>

\* The cancellation is delivered, to get() or to send_json.
SenderEnds(c) ==
    /\ sender[c].phase = "cancelled"
    /\ SenderGone(c)
    /\ UNCHANGED <<log, clients, handler, open, task, sunk, closing>>

\* The browser closes the connection, or the network does.
Closes(c) ==
    /\ c \in open /\ handler[c] # "none"
    /\ open' = open \ {c}
    /\ UNCHANGED <<log, clients, queue, sender, handler, since, received, task,
                   sunk, closing>>

-----------------------------------------------------------------------------
(* broadcast and close_all *)

\* Every queue gets the event before the task can suspend.  Without browsers
\* to drop it goes on to the sinks.
Broadcast(b, type) ==
    /\ task[b] = Idle /\ ~closing
    /\ Len(log) < MaxEvents
    /\ log' = Append(log, type)
    /\ LET event == [type |-> type, number |-> Len(log) + 1]
           stale == {c \in clients : Overflows(c, event)}
       IN  /\ queue' = [c \in Clients |->
                           IF c \in clients THEN Enqueued(c, event)
                           ELSE queue[c]]
           /\ task' = [task EXCEPT ![b] =
                          IF stale = {} THEN Idle
                          ELSE [event |-> event.number, stale |-> stale,
                                awaits |-> None]]
           /\ sunk' = IF stale = {} THEN sunk \cup {event.number} ELSE sunk
    /\ UNCHANGED <<clients, sender, handler, since, open, received, closing>>

\* close_all disconnects the browsers there are when it begins.
CloseAll(b) ==
    /\ ~closing /\ \A t \in Tasks : task[t] = Idle
    /\ closing' = TRUE
    /\ task' = [task EXCEPT ![b] = [Idle EXCEPT !.stale = clients]]
    /\ UNCHANGED <<log, clients, queue, sender, handler, since, open, received,
                   sunk>>

\* The first one is dropped before the task suspends; a step of its own only
\* adds interleavings.
Drop(b, c) ==
    /\ task[b].awaits = None /\ c \in task[b].stale
    /\ Drops(c)
    /\ task' = [task EXCEPT ![b].stale = @ \ {c}, ![b].awaits = Awaited(c)]
    /\ UNCHANGED <<log, queue, handler, since, open, received, sunk, closing>>

Dropped(b) ==
    /\ task[b].awaits # None
    /\ sender[task[b].awaits].phase = "ended"
    /\ task' = [task EXCEPT ![b].awaits = None]
    /\ UNCHANGED <<log, clients, queue, sender, handler, since, open, received,
                   sunk, closing>>

BroadcastEnds(b) ==
    /\ task[b].event # None
    /\ task[b].stale = {} /\ task[b].awaits = None
    /\ sunk' = sunk \cup {task[b].event}
    /\ task' = [task EXCEPT ![b] = Idle]
    /\ UNCHANGED <<log, clients, queue, sender, handler, since, open, received,
                   closing>>

-----------------------------------------------------------------------------
Init ==
    /\ log = <<>>
    /\ clients = {}
    /\ queue = [c \in Clients |-> <<>>]
    /\ sender = [c \in Clients |-> [phase |-> "none", event |-> None]]
    /\ handler = [c \in Clients |-> "none"]
    /\ since = [c \in Clients |-> 0]
    /\ open = Clients
    /\ received = [c \in Clients |-> <<>>]
    /\ task = [b \in Tasks |-> Idle]
    /\ sunk = {}
    /\ closing = FALSE

\* What the event loop runs by itself: neither a browser nor a new event.
Handler(c) == SendSnapshot(c) \/ HandlerNotices(c) \/ HandlerEnds(c)
Sender(c) == SenderTakes(c) \/ SendFails(c) \/ SenderEnds(c)
Continue(b) ==
    \/ \E c \in Clients : Drop(b, c)
    \/ Dropped(b)
    \/ BroadcastEnds(b)

Next ==
    \/ \E c \in Clients :
           Connect(c) \/ Handler(c) \/ Sender(c) \/ Sends(c) \/ Closes(c)
    \/ \E b \in Tasks, type \in Types : Broadcast(b, type)
    \/ \E b \in Tasks : CloseAll(b) \/ Continue(b)

Spec == Init /\ [][Next]_vars

\* The event loop runs every ready task; browsers and network need not move.
FairSpec ==
    /\ Spec
    /\ \A c \in Clients : WF_vars(Handler(c)) /\ WF_vars(Sender(c))
    /\ \A b \in Tasks : WF_vars(Continue(b))

-----------------------------------------------------------------------------
(* Properties *)

\* The types of the state of the manager and of its tasks; a queue never
\* exceeds its size, and only a registered browser has a sender at work that
\* nobody cancelled (_Client).
TypeOK ==
    /\ log \in Seq(Types) /\ Len(log) <= MaxEvents
    /\ clients \subseteq Clients /\ open \subseteq Clients
    /\ \A c \in Clients :
           /\ queue[c] \in Seq(Event) /\ Len(queue[c]) <= QueueSize
           /\ received[c] \in Seq(Event)
           /\ c \in clients <=> sender[c].phase \in {"waiting", "sending"}
    /\ sender \in [Clients -> SenderState]
    /\ handler \in [Clients ->
           {"none", "snapshot", "serving", "closing", "ended"}]
    /\ since \in [Clients -> 0 .. MaxEvents]
    /\ task \in [Tasks -> TaskState]
    /\ sunk \subseteq 1 .. MaxEvents
    /\ closing \in BOOLEAN

\* What a browser has received and what is on its way to it.
Way(c) ==
    received[c] \o
    (IF sender[c].event = None THEN <<>> ELSE <<sender[c].event>>) \o queue[c]

\* A broadcast under way is about to drop the browser.
Condemned(c) == \E b \in Tasks : c \in task[b].stale

\* A registered browser that no broadcast is about to drop misses no critical
\* event since the state its snapshot shows, and gets them in their order,
\* whatever was coalesced and whoever else was dropped (_enqueue, broadcast,
\* live).
CriticalComplete ==
    \A c \in Clients :
        handler[c] = "serving" /\ c \in open /\ ~Condemned(c)
        /\ sender[c].phase \notin {"cancelled", "ended"} =>
            {Way(c)[i].number : i \in {j \in DOMAIN Way(c) : Critical(Way(c)[j])}} =
                {n \in since[c] + 1 .. Len(log) : log[n] \in CRITICAL_EVENT_TYPES}

\* No browser sees an event after a later one, nor twice: coalescing never
\* takes an event out of its place (_enqueue, _sender_loop).
DeliveredInOrder ==
    \A c \in Clients : \A i, j \in DOMAIN Way(c) :
        i < j /\ Way(c)[i].type # "snapshot" /\ Way(c)[j].type # "snapshot" =>
            Way(c)[i].number < Way(c)[j].number

\* What a browser gets is complete and in order, and the bounds of the queues hold.
DeliveryHolds == TypeOK /\ CriticalComplete /\ DeliveredInOrder

\* What waits for a browser is never displaced by another type of event: the
\* queue loses an event to the sender, or to a newer one of its own lossy type
\* (_enqueue).
OnlyCoalesced ==
    [][\A c \in clients \cap clients' :
           \A i \in DOMAIN queue[c] :
               LET event == queue[c][i]
               IN  \/ event = sender'[c].event
                   \/ \E j \in DOMAIN queue'[c] : queue'[c][j] = event
                   \/ /\ event.type \in LOSSY_EVENT_TYPES
                      /\ Last(queue'[c]).type = event.type
                      /\ Last(queue'[c]).number > event.number]_vars

\* No browser holds up a broadcast: it reaches the sinks and its caller goes
\* on although frames stay in transit for ever (the manager's docstring).
BroadcastsEnd == \A b \in Tasks : task[b] # Idle ~> task[b] = Idle

\* A connection that is gone is forgotten, whoever notices first: its handler,
\* its sender or a broadcast (live, disconnect).
ClosedIsForgotten ==
    \A c \in Clients : c \notin open ~> c \notin clients /\ handler[c] = "ended"

\* Neither a browser that reads nothing nor one that is gone holds anybody up.
NobodyHeldUp == BroadcastsEnd /\ ClosedIsForgotten

\* manager.py:139: a browser that cannot take a critical event is
\* disconnected, and so reconnects and gets a new snapshot.
DroppedIsClosed ==
    \A c \in Clients :
        c \notin clients /\ handler[c] = "serving" /\ ~closing ~>
            c \notin open \/ closing

-----------------------------------------------------------------------------
(* The inductive invariant *)

\* An event that was broadcast after the first n, as the log l has it.
Fits(x, n, l) ==
    x.type # "snapshot" =>
        n < x.number /\ x.number <= Len(l) /\ x.type = l[x.number]
Before(x, y) ==
    x.type # "snapshot" /\ y.type # "snapshot" => x.number < y.number
Ascending(s) == \A i, j \in 1 .. Len(s) : i < j => Before(s[i], s[j])

\* The line of a browser: the queue q, the event e in transit, what it has
\* received r, of the events of the log l after the first n.
Lined(q, e, r, n, l) ==
    /\ \A i \in 1 .. Len(q) : Fits(q[i], n, l)
    /\ Ascending(q) /\ Ascending(r)
    /\ e # None => Fits(e, n, l) /\ \A j \in 1 .. Len(q) : Before(e, q[j])
    /\ \A i \in 1 .. Len(r) :
           /\ Fits(r[i], n, l) /\ Critical(r[i])
           /\ \A j \in 1 .. Len(q) : Before(r[i], q[j])
           /\ e # None => Before(r[i], e)

Is(x, k) == x.type # "snapshot" /\ x.number = k
Served(k, q, e, r) ==
    \/ \E i \in 1 .. Len(q) : Is(q[i], k)
    \/ e # None /\ Is(e, k)
    \/ \E i \in 1 .. Len(r) : Is(r[i], k)
Complete(q, e, r, n, l) ==
    \A k \in n + 1 .. Len(l) : l[k] \in CRITICAL_EVENT_TYPES => Served(k, q, e, r)

Typed ==
    /\ log \in Seq(Types) /\ Len(log) <= MaxEvents
    /\ clients \subseteq Clients /\ open \subseteq Clients
    /\ queue \in [Clients -> Seq(Event)] /\ received \in [Clients -> Seq(Event)]
    /\ \A c \in Clients : Len(queue[c]) <= QueueSize
    /\ sender \in [Clients -> SenderState]
    /\ handler \in [Clients -> {"none", "snapshot", "serving", "closing", "ended"}]
    /\ since \in [Clients -> 0 .. MaxEvents]
    /\ task \in [Tasks -> TaskState]
    /\ sunk \subseteq 1 .. MaxEvents
    /\ closing \in BOOLEAN

\* A browser is registered as long as its sender is at work, and nothing is
\* queued for one that never connected.
Registered ==
    \A c \in Clients :
        /\ c \in clients <=> sender[c].phase \in {"waiting", "sending"}
        /\ sender[c].phase = "none" <=> handler[c] = "none"
        /\ sender[c].phase = "sending" => sender[c].event # None
        /\ sender[c].phase \in {"none", "waiting"} => sender[c].event = None
        /\ since[c] <= Len(log)
        /\ handler[c] = "none" => queue[c] = <<>> /\ received[c] = <<>>

InLine == \A c \in Clients : Lined(queue[c], sender[c].event, received[c], since[c], log)

NoneMissed ==
    \A c \in clients :
        ~Condemned(c) => Complete(queue[c], sender[c].event, received[c], since[c], log)

IInv == Typed /\ Registered /\ InLine /\ NoneMissed
=============================================================================
