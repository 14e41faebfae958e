----------------------------- MODULE LiveShare -----------------------------
(***************************************************************************)
(* Live sharing, backend/app/sharing/manager.py: the events the browsers   *)
(* get are queued for a relay while a room is open, and one worker posts   *)
(* them in batches.  The requests of the host to start and to stop a room  *)
(* and to read its access log, the heartbeat and the worker take turns by  *)
(* a fair lock; a second one keeps the access logs.  Requests of a kind may *)
(* overlap.                                                                *)
(*                                                                         *)
(* The relay is outside: a request takes effect or not, and its answer may *)
(* be lost in either case.  A step goes from one suspension to the next.   *)
(***************************************************************************)
EXTENDS Naturals, FiniteSets, SequencesExt

CONSTANTS
    Starters, Stoppers, Readers,   \* the requests of the host, by kind
    QueueSize, BatchSize,
    MaxAttempts,   \* attempts to post a batch
    MaxRooms,      \* bound: rooms the host asks for
    MaxEvents      \* bound: events published

ASSUME ShareAssumption ==
    /\ {QueueSize, BatchSize, MaxAttempts} \subseteq Nat \ {0}
    /\ {MaxRooms, MaxEvents} \subseteq Nat
    /\ Starters \cap Stoppers = {} /\ Starters \cap Readers = {}
    /\ Stoppers \cap Readers = {}
    /\ {"worker", "heartbeat"} \cap (Starters \cup Stoppers \cup Readers) = {}

VARIABLES
    room,        \* _room_id, _host_token: the open room or None
    relay,       \* of each room: not created, open or gone
    queue,       \* _queue
    published,   \* the number of events published
    worker,      \* the task that runs _worker_loop
    starting,    \* of each request that runs start_share, how far it is
    stopping,    \* likewise, stop_share
    reading,     \* likewise, access_logs
    heartbeat,   \* the task that runs _heartbeat_loop
    lock,        \* _send_lock: its holder and those who wait for it
    audit,       \* _audit_lock: likewise
    accessLog,   \* of each room, the status in the log that was kept last
    seen,        \* history: the events the relay has of each room
    replaced,    \* history: the rooms that another start took the place of
    life         \* "running", "closing" or "closed"

host == <<starting, stopping, reading, heartbeat>>
feed == <<queue, published>>
outside == <<relay, seen, replaced>>
logs == <<audit, accessLog>>
vars == <<room, feed, worker, host, lock, logs, outside, life>>

None == 0
Rooms == 1 .. MaxRooms

\* Events are numbered; the types matter only as lossy or not.
Event == [number : 1 .. MaxEvents, lossy : BOOLEAN]

Gathering(batch) == [phase |-> "gathering", batch |-> batch, room |-> None,
                     attempt |-> 1]
Idle == Gathering(<<>>)

Calm == [phase |-> "none", room |-> None]
At(phase, r) == [phase |-> phase, room |-> r]

-----------------------------------------------------------------------------
(* The locks: the head of the sequence is the holder, asyncio.Lock is fair. *)

Holds(task, waiters) == waiters # <<>> /\ Head(waiters) = task
Without(task, waiters) == RemoveFirst(waiters, task)

-----------------------------------------------------------------------------
(* publish_event *)

\* The types that reach the viewers, of all that are broadcast.
SharedTypes ==
    {"partial_transcript", "partial_clear", "final_transcript",
     "translation_pending", "translation", "translation_error",
     "decision_radar_updated", "decision_radar_status",
     "decision_radar_error", "state"}
LossyTypes ==
    {"partial_transcript", "partial_clear", "translation_pending",
     "decision_radar_status", "state"}

QueuedNewestGone(e) ==  \* mutant: the last event makes room
    IF Len(queue) < QueueSize THEN Append(queue, e)
    ELSE IF e.lossy THEN queue
    ELSE Append(Front(queue), e)

\* In a full queue a lossy event is dropped; another one takes the place of
\* the oldest lossy one, or is dropped if there is none.
Queued(e) ==
    LET first == CHOOSE i \in DOMAIN queue :
                     queue[i].lossy /\ \A j \in 1 .. i - 1 : ~queue[j].lossy
    IN  IF Len(queue) < QueueSize THEN Append(queue, e)
        ELSE IF e.lossy \/ ~\E i \in DOMAIN queue : queue[i].lossy THEN queue
        ELSE Append(RemoveAt(queue, first), e)

Publish(type) ==
    /\ room # None /\ life = "running" /\ published < MaxEvents
    /\ type \in SharedTypes
    /\ published' = published + 1
    /\ queue' = Queued([number |-> published + 1,
                        lossy |-> type \in LossyTypes])
    /\ UNCHANGED <<room, worker, host, lock, logs, outside, life>>

-----------------------------------------------------------------------------
(* _worker_loop *)

Take ==
    /\ worker.phase = "gathering" /\ queue # <<>>
    /\ Len(worker.batch) < BatchSize
    /\ worker' = [worker EXCEPT !.batch = Append(@, Head(queue))]
    /\ queue' = Tail(queue)
    /\ UNCHANGED <<room, published, host, lock, logs, outside, life>>

\* The batch is full or its time is over.  It goes to the room there is now,
\* or is forgotten.
CloseBatch ==
    /\ worker.phase = "gathering" /\ worker.batch # <<>>
    /\ IF room = None
       THEN worker' = Idle /\ UNCHANGED lock
       ELSE /\ worker' = [worker EXCEPT !.phase = "waiting", !.room = room]
            /\ lock' = Append(lock, "worker")
    /\ UNCHANGED <<room, feed, host, logs, outside, life>>

PostAnyway ==  \* mutant: the room is not looked at again
    /\ worker.phase = "waiting" /\ Holds("worker", lock)
    /\ worker' = [worker EXCEPT !.phase = "posting"]
    /\ UNCHANGED <<room, feed, host, lock, logs, outside, life>>

\* It posts the batch unless the room was left while it waited for the lock.
Post ==
    /\ worker.phase = "waiting" /\ Holds("worker", lock)
    /\ IF worker.room = room
       THEN worker' = [worker EXCEPT !.phase = "posting"] /\ UNCHANGED lock
       ELSE worker' = Idle /\ lock' = Without("worker", lock)
    /\ UNCHANGED <<room, feed, host, logs, outside, life>>

\* The relay takes the batch: it has its events, once or again.
Reaches(r) ==
    seen' = [seen EXCEPT ![r] = @ \cup {e.number : e \in ToSet(worker.batch)}]

Posted ==
    /\ worker.phase = "posting" /\ relay[worker.room] = "open"
    /\ Reaches(worker.room)
    /\ worker' = Idle /\ lock' = Without("worker", lock)
    /\ UNCHANGED <<room, feed, host, logs, relay, replaced, life>>

\* Another attempt is due, after a pause, or none is left.
Retried == [worker EXCEPT !.phase = "pausing", !.attempt = @ + 1]
Dropped == IF worker.attempt < MaxAttempts THEN Retried ELSE Idle

RoomForgotten ==  \* mutant: the room is left on any error of its relay
    /\ worker.phase = "posting"
    /\ worker' = Idle /\ lock' = Without("worker", lock)
    /\ room' = None
    /\ UNCHANGED <<feed, host, logs, outside, life>>

PostFails ==
    /\ worker.phase = "posting"
    /\ worker' = Dropped /\ lock' = Without("worker", lock)
    /\ Reaches(worker.room) \/ UNCHANGED seen
    /\ UNCHANGED <<room, feed, host, logs, relay, replaced, life>>

Resume ==
    /\ worker.phase = "pausing"
    /\ worker' = [worker EXCEPT !.phase = "waiting"]
    /\ lock' = Append(lock, "worker")
    /\ UNCHANGED <<room, feed, host, logs, outside, life>>

\* The relay does not know the room any more (401, 404, 410).
PostRefused ==
    /\ worker.phase = "posting" /\ relay[worker.room] = "gone"
    /\ room' = None
    /\ worker' = Idle /\ lock' = Without("worker", lock)
    /\ UNCHANGED <<feed, host, logs, outside, life>>

-----------------------------------------------------------------------------
(* start_share *)

\* It looks whether a room is open before it waits for the lock, and not again.
StartAsked(k) ==
    /\ starting[k] = Calm /\ room = None /\ life = "running"
    /\ starting' = [starting EXCEPT ![k] = At("waiting", None)]
    /\ lock' = Append(lock, k)
    /\ UNCHANGED <<room, feed, worker, stopping, reading, heartbeat, logs,
                   outside, life>>

\* The relay creates a room; its answer may be lost.
Create(k) ==
    /\ starting[k].phase = "waiting" /\ Holds(k, lock)
    /\ \E r \in Rooms :
          /\ relay[r] = "none" /\ \A x \in 1 .. r - 1 : relay[x] # "none"
          /\ relay' = [relay EXCEPT ![r] = "open"]
          /\ starting' = [starting EXCEPT ![k] = At("creating", r)]
    /\ UNCHANGED <<room, feed, worker, stopping, reading, heartbeat, lock,
                   logs, seen, replaced, life>>

\* The new room takes the place of the one there is by now, if another start
\* was faster: nobody knows of that one any more.
Created(k) ==
    /\ starting[k].phase = "creating"
    /\ room' = starting[k].room
    /\ replaced' = replaced \cup ({room} \ {None})
    /\ starting' = [starting EXCEPT ![k].phase = "keeping"]
    /\ lock' = Without(k, lock) /\ audit' = Append(audit, k)
    /\ UNCHANGED <<feed, worker, stopping, reading, heartbeat, accessLog,
                   relay, seen, life>>

\* The request fails, with or without a room that nobody knows of.
CreateFails(k) ==
    /\ starting[k].phase \in {"waiting", "creating"} /\ Holds(k, lock)
    /\ starting' = [starting EXCEPT ![k] = Calm]
    /\ lock' = Without(k, lock)
    /\ relay' = IF starting[k].room = None THEN relay
                ELSE [relay EXCEPT ![starting[k].room] = "lost"]
    /\ UNCHANGED <<room, feed, worker, stopping, reading, heartbeat, logs,
                   seen, replaced, life>>

\* The heartbeat starts unless one is still alive.
Started(k) ==
    /\ starting[k].phase = "keeping" /\ Holds(k, audit)
    /\ accessLog' = [accessLog EXCEPT ![starting[k].room] = "active"]
    /\ audit' = Without(k, audit)
    /\ starting' = [starting EXCEPT ![k] = Calm]
    /\ heartbeat' = IF heartbeat.phase = "none" THEN At("sleeping", None)
                    ELSE heartbeat
    /\ UNCHANGED <<room, feed, worker, stopping, reading, lock, outside, life>>

-----------------------------------------------------------------------------
(* stop_share and shutdown *)

\* No request is under way any more when the server closes.
Alone ==
    /\ \A k \in Starters : starting[k] = Calm
    /\ \A k \in Stoppers : stopping[k] = Calm
    /\ \A k \in Readers : reading[k] = Calm

\* The room is left before anything else; its heartbeat is cancelled.
StopAsked(k, final) ==
    /\ stopping[k] = Calm /\ life = "running"
    /\ final => Alone
    /\ life' = IF final THEN "closing" ELSE life
    /\ room' = None /\ queue' = <<>>
    /\ heartbeat' = Calm
    /\ stopping' = [stopping EXCEPT ![k] = IF room # None THEN At("waiting", room)
                                           ELSE IF final THEN At("stopped", None)
                                           ELSE Calm]
    /\ lock' = LET others == Without("heartbeat", lock)
               IN  IF room = None THEN others ELSE Append(others, k)
    /\ UNCHANGED <<published, worker, starting, reading, logs, outside>>

Delete(k) ==
    /\ stopping[k].phase = "waiting" /\ Holds(k, lock)
    /\ stopping' = [stopping EXCEPT ![k].phase = "deleting"]
    /\ UNCHANGED <<room, feed, worker, starting, reading, heartbeat, lock,
                   logs, outside, life>>

Deleted(k) ==
    /\ stopping[k].phase = "deleting"
    /\ relay' = [relay EXCEPT ![stopping[k].room] = "gone"]
    /\ stopping' = [stopping EXCEPT ![k].phase = "keeping"]
    /\ lock' = Without(k, lock) /\ audit' = Append(audit, k)
    /\ UNCHANGED <<room, feed, worker, starting, reading, heartbeat,
                   accessLog, seen, replaced, life>>

\* The relay will expire the room, if it still has it.
DeleteFails(k) ==
    /\ stopping[k].phase = "deleting"
    /\ relay' = [relay EXCEPT ![stopping[k].room] = "lost"]
    /\ stopping' = [stopping EXCEPT ![k] = At("stopped", None)]
    /\ lock' = Without(k, lock)
    /\ UNCHANGED <<room, feed, worker, starting, reading, heartbeat, logs,
                   seen, replaced, life>>

LogEnded(k) ==
    /\ stopping[k].phase = "keeping" /\ Holds(k, audit)
    /\ accessLog' = [accessLog EXCEPT ![stopping[k].room] = "ended"]
    /\ audit' = Without(k, audit)
    /\ stopping' = [stopping EXCEPT ![k] = At("stopped", None)]
    /\ UNCHANGED <<room, feed, worker, starting, reading, heartbeat, lock,
                   outside, life>>

\* shutdown goes on to cancel the worker.
Stopped(k) ==
    /\ stopping[k].phase = "stopped"
    /\ stopping' = [stopping EXCEPT ![k] = Calm]
    /\ IF life = "closing"
       THEN /\ life' = "closed"
            /\ worker' = [Idle EXCEPT !.phase = "cancelled"]
            /\ lock' = Without("worker", lock)
       ELSE UNCHANGED <<life, worker, lock>>
    /\ UNCHANGED <<room, feed, starting, reading, heartbeat, logs, outside>>

-----------------------------------------------------------------------------
(* access_logs *)

\* The files are read first, under the lock of the logs.
ReadAsked(k) ==
    /\ reading[k] = Calm /\ life = "running"
    /\ reading' = [reading EXCEPT ![k] = At("loading", None)]
    /\ audit' = Append(audit, k)
    /\ UNCHANGED <<room, feed, worker, starting, stopping, heartbeat, lock,
                   accessLog, outside, life>>

Loaded(k) ==
    /\ reading[k].phase = "loading" /\ Holds(k, audit)
    /\ audit' = Without(k, audit)
    /\ IF room = None
       THEN reading' = [reading EXCEPT ![k] = Calm] /\ UNCHANGED lock
       ELSE /\ reading' = [reading EXCEPT ![k] = At("waiting", room)]
            /\ lock' = Append(lock, k)
    /\ UNCHANGED <<room, feed, worker, starting, stopping, heartbeat,
                   accessLog, outside, life>>

Fetch(k) ==
    /\ reading[k].phase = "waiting" /\ Holds(k, lock)
    /\ reading' = [reading EXCEPT ![k].phase = "fetching"]
    /\ UNCHANGED <<room, feed, worker, starting, stopping, heartbeat, lock,
                   logs, outside, life>>

\* The relay answers with the log of a room it has, and refuses otherwise.
Fetched(k) ==
    /\ reading[k].phase = "fetching" /\ relay[reading[k].room] = "open"
    /\ reading' = [reading EXCEPT ![k].phase = "keeping"]
    /\ lock' = Without(k, lock) /\ audit' = Append(audit, k)
    /\ UNCHANGED <<room, feed, worker, starting, stopping, heartbeat,
                   accessLog, outside, life>>

FetchFails(k) ==
    /\ reading[k].phase = "fetching"
    /\ reading' = [reading EXCEPT ![k] = Calm]
    /\ lock' = Without(k, lock)
    /\ UNCHANGED <<room, feed, worker, starting, stopping, heartbeat, logs,
                   outside, life>>

ReadKept(k) ==
    /\ reading[k].phase = "keeping" /\ Holds(k, audit)
    /\ accessLog' = [accessLog EXCEPT ![reading[k].room] = "active"]
    /\ audit' = Without(k, audit)
    /\ reading' = [reading EXCEPT ![k] = Calm]
    /\ UNCHANGED <<room, feed, worker, starting, stopping, heartbeat, lock,
                   outside, life>>

-----------------------------------------------------------------------------
(* _heartbeat_loop; nothing depends on what the relay answers *)

Beat ==
    /\ heartbeat.phase = "sleeping"
    /\ IF room = None
       THEN heartbeat' = Calm /\ UNCHANGED lock
       ELSE heartbeat' = At("waiting", room) /\ lock' = Append(lock, "heartbeat")
    /\ UNCHANGED <<room, feed, worker, starting, stopping, reading, logs,
                   outside, life>>

BeatSent ==
    /\ heartbeat.phase = "waiting" /\ Holds("heartbeat", lock)
    /\ heartbeat' = At("beating", heartbeat.room)
    /\ UNCHANGED <<room, feed, worker, starting, stopping, reading, lock, logs,
                   outside, life>>

BeatEnds ==
    /\ heartbeat.phase = "beating"
    /\ heartbeat' = IF room = None THEN Calm ELSE At("sleeping", None)
    /\ lock' = Without("heartbeat", lock)
    /\ UNCHANGED <<room, feed, worker, starting, stopping, reading, logs,
                   outside, life>>

\* The relay ends a room by itself: its time is over.
Expire(r) ==
    /\ relay[r] = "open" /\ \A k \in Starters : starting[k].room # r
    /\ relay' = [relay EXCEPT ![r] = "gone"]
    /\ UNCHANGED <<room, feed, worker, host, lock, logs, seen, replaced, life>>

-----------------------------------------------------------------------------
Init ==
    /\ room = None
    /\ relay = [r \in Rooms |-> "none"]
    /\ queue = <<>> /\ published = 0
    /\ worker = Idle
    /\ starting = [k \in Starters |-> Calm]
    /\ stopping = [k \in Stoppers |-> Calm]
    /\ reading = [k \in Readers |-> Calm]
    /\ heartbeat = Calm
    /\ lock = <<>> /\ audit = <<>>
    /\ accessLog = [r \in Rooms |-> "none"]
    /\ seen = [r \in Rooms |-> {}] /\ replaced = {}
    /\ life = "running"

Work == Take \/ CloseBatch \/ Post \/ Posted \/ PostFails \/ Resume
            \/ PostRefused
Start(k) == StartAsked(k) \/ Create(k) \/ Created(k) \/ CreateFails(k) \/ Started(k)
Stop(k) == \/ \E final \in BOOLEAN : StopAsked(k, final)
           \/ Delete(k) \/ Deleted(k) \/ DeleteFails(k) \/ LogEnded(k) \/ Stopped(k)
Read(k) == \/ ReadAsked(k) \/ Loaded(k) \/ Fetch(k) \/ Fetched(k)
           \/ FetchFails(k) \/ ReadKept(k)
Heart == Beat \/ BeatSent \/ BeatEnds

Next ==
    \/ \E type \in SharedTypes : Publish(type)
    \/ Work
    \/ \E k \in Starters : Start(k)
    \/ \E k \in Stoppers : Stop(k)
    \/ \E k \in Readers : Read(k)
    \/ Heart
    \/ \E r \in Rooms : Expire(r)

Spec == Init /\ [][Next]_vars

-----------------------------------------------------------------------------
(* Properties *)

\* The types of the state; nobody waits twice for a lock, and the room that is
\* open is one that the relay was asked for.
TypeOK ==
    /\ room \in Rooms \cup {None}
    /\ relay \in [Rooms -> {"none", "open", "gone", "lost"}]
    /\ queue \in Seq(Event) /\ Len(queue) <= QueueSize
    /\ published \in 0 .. MaxEvents
    /\ worker.phase \in
           {"gathering", "waiting", "posting", "pausing", "cancelled"}
    /\ worker.batch \in Seq(Event) /\ Len(worker.batch) <= BatchSize
    /\ worker.attempt \in 1 .. MaxAttempts
    /\ IsInjective(lock) /\ IsInjective(audit)
    /\ accessLog \in [Rooms -> {"none", "active", "ended"}]
    /\ room # None => relay[room] # "none"
    /\ replaced \subseteq Rooms
    /\ life \in {"running", "closing", "closed"}

\* Viewers get the captions in their order: what is new to a room is later
\* than all it has, whatever was dropped, evicted or sent again (_worker_loop,
\* publish_event).
InOrder ==
    [][\A r \in Rooms : \A n \in seen'[r] \ seen[r], k \in seen[r] : k < n]_vars

\* A final caption, a translation or a result leaves the queue only for the
\* worker as long as a room is open, and a new one finds a place
\* unless nothing lossy waits in a full queue (publish_event).
CriticalLast ==
    [][room' # None =>
       /\ \A e \in ToSet(queue) \ ToSet(queue') :
              e.lossy \/ e \in ToSet(worker'.batch)
       /\ published' # published /\ queue' = queue =>
              \/ Len(queue) = QueueSize /\ \A e \in ToSet(queue) : ~e.lossy
              \/ \E type \in LossyTypes : Publish(type)]_vars

\* Once the host has left a room and the request that deletes it is on its
\* way, no caption is sent to it any more (stop_share, _worker_loop).
NothingAfterDelete ==
    \A k \in Stoppers : stopping[k].phase \in {"deleting", "keeping"} =>
        ~(worker.phase = "posting" /\ worker.room = stopping[k].room)

\* A room the relay has is one the host can leave, or is being made or
\* deleted, unless an answer of the relay was lost or another start has put
\* its room in the place of this one (start_share, stop_share, _worker_loop).
NoOrphan ==
    \A r \in Rooms : relay[r] = "open" =>
        \/ r = room \/ r \in replaced
        \/ \E k \in Starters : starting[k].room = r
        \/ \E k \in Stoppers : stopping[k].room = r

\* No room is lost to another start where the starts do not overlap
\* (start_share).
Unhurried ==
    (\A j, k \in Starters : j = k) => replaced = {}

\* The log of a room that was ended stays the one the relay gave at the end:
\* an older answer, or the empty one of the start, never replaces it
\* (_remember_access_log).
EndedLogIsFinal ==
    [][\A r \in Rooms : accessLog[r] = "ended" => accessLog'[r] = "ended"]_vars

\* Every room is accounted for, and the limits of the queue and the batch hold.
RoomsAccounted == TypeOK /\ NoOrphan /\ Unhurried

\* What viewers see and what the host keeps: captions in order, the ones that
\* matter last to go, and the log of the end.
ViewersServed == InOrder /\ CriticalLast /\ EndedLogIsFinal
=============================================================================
