------------------------- MODULE TranslationManager -------------------------
(***************************************************************************)
(* The translation manager of backend/app/translation/manager.py with its  *)
(* bounded queue (queue.py): finalized captions are admitted by the        *)
(* capture path, retried by the browser, translated by a pool of asyncio   *)
(* worker tasks through an external provider, and cancelled when the       *)
(* provider is switched or the application stops.                          *)
(*                                                                         *)
(* asyncio runs one task at a time and only switches at a suspension, so   *)
(* an action is the whole run of a task from one suspension to the next.   *)
(* The suspensions of the application are: the provider call, the backoff  *)
(* sleep, and the emission of `translation' and `translation_error', whose *)
(* sink (services.py) persists the event in a thread.  The other events    *)
(* are delivered without suspending.                                       *)
(*                                                                         *)
(* A submission is a pair (segment, submission number): a retry of the     *)
(* same caption has the next number.  Texts, languages, latency counters   *)
(* and the glossary context are abstracted.                                *)
(***************************************************************************)
EXTENDS Integers, Sequences, FiniteSets

CONSTANTS
    Segments,         \* the captions (segment_id)
    UnknownSegments,  \* those whose source language is `unknown'
    Workers,          \* the worker tasks, max_concurrency of them
    Providers,        \* provider objects; each is installed at most once
    FirstProvider,    \* the provider the manager is built with
    NoneProvider,     \* the provider named `none', if it is in Providers
    QueueMax,         \* queue_max_size
    MaxRetries,       \* max_retries
    MaxSubmissions,   \* bound: submissions of one caption
    CancelAPI,        \* whether a client calls cancel(segment_id)
    None

ASSUME TranslationAssumption ==
    /\ UnknownSegments \subseteq Segments
    /\ FirstProvider \in Providers
    /\ QueueMax \in Nat \ {0}
    /\ MaxRetries \in Nat
    /\ MaxSubmissions \in Nat
    /\ CancelAPI \in BOOLEAN
    /\ None \notin Segments /\ None \notin Workers /\ None \notin Providers
    /\ None # "translation"

VARIABLES
    rec,          \* _records: per caption, its last submission
    queue,        \* the jobs waiting in TranslationQueue
    waiting,      \* the keys of _pending_since
    cancelled,    \* the jobs whose cancel_event is set
    worker,       \* the local state of each worker task
    call,         \* the provider call task of each worker
    interrupt,    \* worker.cancel(): requested, or swallowed by wait_for
    active,       \* _active_jobs, keyed by caption
    activeCall,   \* _active_calls, keyed by caption: the worker awaiting it
    provider,     \* the current provider
    closedProviders,
    switch,       \* the switch_provider call that installs each provider
    closing,      \* shutdown()
    mixed         \* history: captions in two hands (see Take, CancelJobs)

vars == <<rec, queue, waiting, cancelled, worker, call, interrupt, active,
          activeCall, provider, closedProviders, switch, closing, mixed>>

-----------------------------------------------------------------------------
(* Data *)

InProgress == {"pending", "translating"}
Status == InProgress \cup
    {"absent", "disabled", "skipped", "completed", "failed", "cancelled"}
ErrorCode == {"none", "queue_full", "provider", "cancelled"}

\* result: the submission whose COMPLETED result the record keeps, 0 if none
Record == [sub : Nat, status : Status, result : Nat, error : ErrorCode]

Job == [seg : Segments, sub : Nat, provider : Providers]

ASSUME NoneAssumption == None \notin Job

\* The local state of a worker task.  holds: whether the `finally' that pops
\* _active_calls is still to run.
Local(pc, j, attempt, timedOut, event, holds) ==
    [pc |-> pc, job |-> j, attempt |-> attempt, timedOut |-> timedOut,
     event |-> event, holds |-> holds]

Idle == Local("idle", None, 0, FALSE, None, FALSE)
Dead == Local("dead", None, 0, FALSE, None, FALSE)
Calling(j, n) == Local("calling", j, n, FALSE, None, TRUE)
BackingOff(j, n) == Local("backoff", j, n, FALSE, None, FALSE)
Emitting(j, event, holds) == Local("emitting", j, 0, FALSE, event, holds)

Absent == [sub |-> 0, status |-> "absent", result |-> 0, error |-> "none"]

\* The local state of a switch_provider call.
SwitchState(pc, old, jobs, calls, removed) ==
    [pc |-> pc, old |-> old, jobs |-> jobs, calls |-> calls, removed |-> removed]

Ready == SwitchState("ready", None, {}, {}, {})
Done == SwitchState("done", None, {}, {}, {})
Switching(old, jobs, calls, removed) == SwitchState("switching", old, jobs, calls, removed)

Init ==
    /\ rec = [s \in Segments |-> Absent]
    /\ queue = << >>
    /\ waiting = {}
    /\ cancelled = {}
    /\ worker = [w \in Workers |-> Idle]
    /\ call = [w \in Workers |-> "none"]
    /\ interrupt = [w \in Workers |-> "no"]
    /\ active = [s \in Segments |-> None]
    /\ activeCall = [s \in Segments |-> None]
    /\ provider = FirstProvider
    /\ closedProviders = {}
    /\ switch = [p \in Providers |-> Ready]
    /\ closing = [phase |-> "no", jobs |-> {}]
    /\ mixed = {}

-----------------------------------------------------------------------------
(* The queue *)

\* The positions of S in increasing order.
Enumerations(S) ==
    {f \in UNION {[1..n -> S] : n \in 0..QueueMax} :
        /\ \A i, k \in DOMAIN f : i < k => f[i] < f[k]
        /\ \A p \in S : \E i \in DOMAIN f : f[i] = p}

Queued == {queue[i] : i \in 1..Len(queue)}

\* TranslationQueue.remove: the others keep their order.
RemoveFromQueue(J) ==
    \E f \in Enumerations({i \in 1..Len(queue) : queue[i] \notin J}) :
        queue' = [i \in DOMAIN f |-> queue[f[i]]]

-----------------------------------------------------------------------------
(* Records *)

\* Whether _finish_error changes the record of j, and so emits an event.
Reportable(j, code) ==
    LET r == rec[j.seg] IN
    /\ r.sub = j.sub
    /\ r.status # "completed"
    /\ ~(r.status \in {"failed", "cancelled"} /\ r.error = code)

\* The records after _finish_error of every job of J.
Failing(J, code) ==
    [s \in Segments |->
        IF \E j \in J : j.seg = s /\ Reportable(j, code)
        THEN [sub |-> rec[s].sub, result |-> rec[s].result, error |-> code,
              status |-> IF code = "cancelled" THEN "cancelled" ELSE "failed"]
        ELSE rec[s]]

-----------------------------------------------------------------------------
(* Submission: submit_event, submit and retry *)

\* start(), the first thing submit does: a pool whose tasks are all done is
\* created anew.
Revived ==
    IF \A w \in Workers : worker[w].pc = "dead"
    THEN [w \in Workers |-> Idle]
    ELSE worker

Accepting == closing.phase = "no"

\* A first submission and a retry (force) are refused alike while one is in
\* progress, and the capture path never submits a caption twice.
Admissible(s) ==
    /\ Accepting
    /\ rec[s].status \notin InProgress
    /\ rec[s].sub < MaxSubmissions

Renewed(s, status, result, error) ==
    rec' = [rec EXCEPT ![s] = [sub |-> rec[s].sub + 1, status |-> status,
                               result |-> result, error |-> error]]

submitFrame == <<cancelled, call, interrupt, active, activeCall, provider,
                 closedProviders, switch, closing, mixed>>

Refuse(s) ==
    /\ closing.phase \in {"no", "joining"}
    /\ ~Accepting \/ rec[s].status \in InProgress
    /\ worker' = Revived
    /\ UNCHANGED <<rec, queue, waiting, submitFrame>>

Skip(s) ==
    /\ Admissible(s)
    /\ s \in UnknownSegments
    /\ Renewed(s, "skipped", 0, "none")
    /\ worker' = Revived
    /\ UNCHANGED <<queue, waiting, submitFrame>>

Disable(s) ==
    /\ Admissible(s)
    /\ s \notin UnknownSegments
    /\ provider = NoneProvider
    /\ Renewed(s, "disabled", 0, "none")
    /\ worker' = Revived
    /\ UNCHANGED <<queue, waiting, submitFrame>>

Overflow(s) ==
    /\ Admissible(s)
    /\ s \notin UnknownSegments
    /\ provider # NoneProvider
    /\ Len(queue) >= QueueMax
    /\ Renewed(s, "failed", rec[s].result, "queue_full")
    /\ worker' = Revived
    /\ UNCHANGED <<queue, waiting, submitFrame>>

Enqueue(s) ==
    /\ Admissible(s)
    /\ s \notin UnknownSegments
    /\ provider # NoneProvider
    /\ Len(queue) < QueueMax
    /\ Renewed(s, "pending", rec[s].result, "none")
    /\ queue' = Append(queue, [seg |-> s, sub |-> rec[s].sub + 1, provider |-> provider])
    /\ waiting' = waiting \cup {s}
    /\ worker' = Revived
    /\ UNCHANGED submitFrame

Submit(s) == Refuse(s) \/ Skip(s) \/ Disable(s) \/ Overflow(s) \/ Enqueue(s)

-----------------------------------------------------------------------------
(* The worker tasks: _worker and _process_job *)

Runs(w) == interrupt[w] # "pending"

Working(w) == worker[w].pc \in {"calling", "backoff", "emitting"}

\* The captions that workers are busy with.
InHands == {worker[w].job.seg : w \in {v \in Workers : Working(v)}}

\* One turn of the attempt loop, up to the await of the provider call.
StartAttempt(w, j, n) ==
    /\ rec' = IF rec[j.seg].sub = j.sub
              THEN [rec EXCEPT ![j.seg].status = "translating"]
              ELSE rec
    /\ worker' = [worker EXCEPT ![w] = Calling(j, n)]
    /\ call' = [call EXCEPT ![w] = "running"]
    /\ activeCall' = [activeCall EXCEPT ![j.seg] = w]

\* The `finally' blocks of _worker and _process_job: the entries of the
\* caption are popped, whosever they are.
Popped(dict, s, really) == IF really THEN [dict EXCEPT ![s] = None] ELSE dict

Leave(w, next) ==
    /\ worker' = [worker EXCEPT ![w] = next]
    /\ active' = [active EXCEPT ![worker[w].job.seg] = None]

\* _finish_error, then the `finally' blocks unless the event suspends it.
GiveUp(w, code, holds) ==
    LET j == worker[w].job IN
    \/ /\ Reportable(j, code)
       /\ rec' = Failing({j}, code)
       /\ worker' = [worker EXCEPT ![w] = Emitting(j, "error", holds)]
       /\ UNCHANGED <<active, activeCall>>
    \/ /\ ~Reportable(j, code)
       /\ Leave(w, Idle)
       /\ activeCall' = Popped(activeCall, j.seg, holds)
       /\ UNCHANGED rec

workerFrame == <<provider, closedProviders, switch, closing>>

\* Mutant: the job is read from the queue and not removed from it.
TakePeeks(w) ==
    /\ worker[w].pc = "idle" /\ Runs(w)
    /\ queue # << >>
    /\ LET j == Head(queue) IN
        /\ waiting' = waiting \ {j.seg}
        /\ active' = [active EXCEPT ![j.seg] = j]
        /\ mixed' = mixed \cup ({j.seg} \cap InHands)
        /\ StartAttempt(w, j, 1)
    /\ UNCHANGED <<queue, cancelled, interrupt, workerFrame>>

Take(w) ==
    /\ worker[w].pc = "idle" /\ Runs(w)
    /\ queue # << >>
    /\ LET j == Head(queue) IN
        /\ queue' = Tail(queue)
        /\ waiting' = waiting \ {j.seg}
        /\ active' = [active EXCEPT ![j.seg] = j]
        /\ mixed' = mixed \cup ({j.seg} \cap InHands)
        /\ StartAttempt(w, j, 1)
    /\ UNCHANGED <<cancelled, interrupt, workerFrame>>

\* wait_for's timer: the call is cancelled and its outcome is a timeout.
Timeout(w) ==
    /\ worker[w].pc = "calling" /\ ~worker[w].timedOut /\ Runs(w)
    /\ call[w] \in {"running", "cancelling"}
    /\ worker' = [worker EXCEPT ![w].timedOut = TRUE]
    /\ call' = [call EXCEPT ![w] = "cancelling"]
    /\ UNCHANGED <<rec, queue, waiting, cancelled, interrupt, active, activeCall,
                   mixed, workerFrame>>

\* The provider's answer; "ok" is a complete, well-formed result.
CallEnds(w) ==
    /\ \/ /\ call[w] = "running"
          /\ \E outcome \in {"ok", "retryable", "fatal"} :
                call' = [call EXCEPT ![w] = outcome]
       \/ /\ call[w] = "cancelling"
          /\ call' = [call EXCEPT ![w] = IF worker[w].timedOut THEN "retryable" ELSE "cancelled"]
    /\ UNCHANGED <<rec, queue, waiting, cancelled, worker, interrupt, active,
                   activeCall, mixed, workerFrame>>

Answered(w, outcome) ==
    /\ worker[w].pc = "calling" /\ Runs(w)
    /\ call[w] = outcome
    /\ call' = [call EXCEPT ![w] = "none"]
    /\ UNCHANGED <<queue, waiting, cancelled, interrupt, mixed, workerFrame>>

\* Mutant: the answer of an older submission is recorded too.
SucceedLate(w) ==
    LET j == worker[w].job IN
    /\ Answered(w, "ok")
    /\ rec' = [rec EXCEPT ![j.seg] = [sub |-> j.sub, status |-> "completed",
                                      result |-> j.sub, error |-> "none"]]
    /\ worker' = [worker EXCEPT ![w] = Emitting(j, "translation", TRUE)]
    /\ UNCHANGED <<active, activeCall>>

\* _finish_success: only the current, still open submission is completed.
Succeed(w) ==
    LET j == worker[w].job IN
    /\ Answered(w, "ok")
    /\ \/ /\ rec[j.seg].sub = j.sub
          /\ rec[j.seg].status \notin {"completed", "cancelled"}
          /\ rec' = [rec EXCEPT ![j.seg] = [sub |-> j.sub, status |-> "completed",
                                            result |-> j.sub, error |-> "none"]]
          /\ worker' = [worker EXCEPT ![w] = Emitting(j, "translation", TRUE)]
          /\ UNCHANGED <<active, activeCall>>
       \/ /\ rec[j.seg].sub # j.sub \/ rec[j.seg].status \in {"completed", "cancelled"}
          /\ Leave(w, Idle)
          /\ activeCall' = Popped(activeCall, j.seg, TRUE)
          /\ UNCHANGED rec

\* The call failed: back off if the error and the attempt allow, else fail.
Fail(w) ==
    LET j == worker[w].job IN
    \/ /\ Answered(w, "retryable")
       /\ worker[w].attempt <= MaxRetries
       /\ worker' = [worker EXCEPT ![w] = BackingOff(j, worker[w].attempt)]
       /\ activeCall' = [activeCall EXCEPT ![j.seg] = None]
       /\ UNCHANGED <<rec, active>>
    \/ /\ \/ Answered(w, "fatal")
          \/ Answered(w, "retryable") /\ worker[w].attempt > MaxRetries
       /\ activeCall' = [activeCall EXCEPT ![j.seg] = None]
       /\ \/ /\ Reportable(j, "provider")
             /\ rec' = Failing({j}, "provider")
             /\ worker' = [worker EXCEPT ![w] = Emitting(j, "error", FALSE)]
             /\ UNCHANGED active
          \/ /\ ~Reportable(j, "provider")
             /\ Leave(w, Idle)
             /\ UNCHANGED rec

\* The call was cancelled.  A cancellation of the worker itself, or of the
\* call of a job that nobody cancelled, ends the task.
Cancelled(w) ==
    LET j == worker[w].job IN
    /\ Answered(w, "cancelled")
    /\ \/ /\ interrupt[w] = "no" /\ j \in cancelled
          /\ GiveUp(w, "cancelled", TRUE)
       \/ /\ interrupt[w] # "no" \/ j \notin cancelled
          /\ Leave(w, Dead)
          /\ activeCall' = Popped(activeCall, j.seg, TRUE)
          /\ UNCHANGED rec

\* Mutant: after the backoff the attempt loop is left instead of continued.
BackoffForgets(w) ==
    /\ worker[w].pc = "backoff" /\ Runs(w)
    /\ Leave(w, Idle)
    /\ UNCHANGED <<rec, queue, waiting, cancelled, call, interrupt, activeCall,
                   mixed, workerFrame>>

\* _backoff_or_cancel, and the next turn of the attempt loop.
BackoffEnds(w) ==
    LET j == worker[w].job IN
    /\ worker[w].pc = "backoff" /\ Runs(w)
    /\ \/ /\ j \in cancelled
          /\ GiveUp(w, "cancelled", FALSE)
          /\ UNCHANGED call
       \/ /\ j \notin cancelled
          /\ StartAttempt(w, j, worker[w].attempt + 1)
          /\ UNCHANGED active
    /\ UNCHANGED <<queue, waiting, cancelled, interrupt, mixed, workerFrame>>

\* The sink returned, or only logged its failure (services.py): the task does not
\* learn whether the event was appended to the session.
EmitEnds(w) ==
    /\ worker[w].pc = "emitting" /\ Runs(w)
    /\ Leave(w, Idle)
    /\ activeCall' = Popped(activeCall, worker[w].job.seg, worker[w].holds)
    /\ UNCHANGED <<rec, queue, waiting, cancelled, call, interrupt, mixed, workerFrame>>

-----------------------------------------------------------------------------
(* Cancellation of calls, shared by cancel, switch_provider and shutdown *)

CallsOf(J) == {activeCall[j.seg] : j \in J} \ {None}

\* task.cancel() on the calls of the workers W: a call that is done stays so.
Cancelling(W) ==
    [w \in Workers |-> IF w \in W /\ call[w] = "running" THEN "cancelling" ELSE call[w]]

-----------------------------------------------------------------------------
(* cancel(segment_id) *)

Cancel(s) ==
    LET removed == {j \in Queued : j.seg = s}
        running == {active[s]} \ {None}
    IN
    /\ CancelAPI /\ closing.phase = "no"
    /\ removed \cup running # {}
    /\ RemoveFromQueue(removed)
    /\ waiting' = waiting \ {j.seg : j \in removed}
    /\ cancelled' = cancelled \cup removed \cup running
    /\ call' = Cancelling(CallsOf(running))
    /\ rec' = Failing(removed, "cancelled")
    /\ UNCHANGED <<worker, interrupt, active, activeCall, mixed, workerFrame>>

-----------------------------------------------------------------------------
(* switch_provider(p, cancel_pending=True) *)

\* The jobs of J whose caption has by now the running call of another job.
Mistaken(J) ==
    {j \in J : \E w \in Workers :
        activeCall[j.seg] = w /\ call[w] = "running" /\ worker[w].job # j}

\* One run of the loop over the jobs of call s, up to the first one whose error
\* event suspends it.  The list s.jobs is as old as the call; the dictionary of
\* calls is read now.
CancelJobs(p, s) ==
    \E done \in SUBSET s.jobs :
        /\ LET loud == {j \in done : Reportable(j, "cancelled")} IN
            \/ \E j \in done : loud = {j}
            \/ loud = {} /\ done = s.jobs
        /\ cancelled' = cancelled \cup done
        /\ call' = Cancelling(CallsOf(done))
        /\ rec' = Failing(done, "cancelled")
        /\ mixed' = mixed \cup {j.seg : j \in Mistaken(done)}
        /\ switch' = [switch EXCEPT ![p] =
                Switching(s.old, s.jobs \ done, s.calls \cup CallsOf(done), s.removed)]

SwitchBegins(p) ==
    LET removed == {j \in Queued : j.provider = provider}
        running == {j \in {active[s] : s \in Segments} \ {None} : j.provider = provider}
    IN
    /\ switch[p].pc = "ready" /\ p # FirstProvider
    /\ closing.phase = "no"
    /\ provider' = p
    /\ RemoveFromQueue(removed)
    /\ CancelJobs(p, Switching(provider, running, {}, removed))
    /\ UNCHANGED <<waiting, worker, interrupt, active, activeCall,
                   closedProviders, closing>>

SwitchCancels(p) ==
    /\ switch[p].pc = "switching" /\ switch[p].jobs # {}
    /\ CancelJobs(p, switch[p])
    /\ UNCHANGED <<queue, waiting, worker, interrupt, active, activeCall,
                   provider, closedProviders, closing>>

\* The loop is over and the gathered calls have ended.
CallsGathered(p) ==
    /\ switch[p].pc = "switching" /\ switch[p].jobs = {}
    /\ \A w \in switch[p].calls : call[w] # "cancelling"

\* Mutant: _pending_since keeps the key of a dropped caption.
SwitchDropsQuietly(p) ==
    /\ CallsGathered(p)
    /\ \E j \in switch[p].removed :
        /\ cancelled' = cancelled \cup {j}
        /\ rec' = Failing({j}, "cancelled")
        /\ switch' = [switch EXCEPT ![p] =
                Switching(switch[p].old, {}, {}, switch[p].removed \ {j})]
    /\ UNCHANGED <<queue, waiting, worker, call, interrupt, active, activeCall,
                   provider, closedProviders, closing, mixed>>

SwitchDrops(p) ==
    /\ CallsGathered(p)
    /\ \E j \in switch[p].removed :
        /\ waiting' = waiting \ {j.seg}
        /\ cancelled' = cancelled \cup {j}
        /\ rec' = Failing({j}, "cancelled")
        /\ switch' = [switch EXCEPT ![p] =
                Switching(switch[p].old, {}, {}, switch[p].removed \ {j})]
    /\ UNCHANGED <<queue, worker, call, interrupt, active, activeCall, provider,
                   closedProviders, closing, mixed>>

SwitchCloses(p) ==
    /\ CallsGathered(p) /\ switch[p].removed = {}
    /\ closedProviders' = closedProviders \cup {switch[p].old}
    /\ switch' = [switch EXCEPT ![p] = Done]
    /\ UNCHANGED <<rec, queue, waiting, cancelled, worker, call, interrupt,
                   active, activeCall, provider, closing, mixed>>

Switch(p) == SwitchBegins(p) \/ SwitchCancels(p) \/ SwitchDrops(p) \/ SwitchCloses(p)

-----------------------------------------------------------------------------
(* shutdown() *)

\* Requests are over when the application stops: no switch is in flight.
ShutdownBegins ==
    /\ closing.phase = "no"
    /\ \A p \in Providers : switch[p].pc # "switching"
    /\ closing' = [closing EXCEPT !.phase = "joining"]
    /\ UNCHANGED <<rec, queue, waiting, cancelled, worker, call, interrupt,
                   active, activeCall, provider, closedProviders, switch, mixed>>

\* Mutant: the drained jobs are not reported.
ShutdownCancelsActive ==
    LET running == {active[s] : s \in Segments} \ {None} IN
    /\ closing.phase = "joining"
    /\ closing' = [phase |-> "gathering", jobs |-> running]
    /\ queue' = << >>
    /\ waiting' = waiting \ {j.seg : j \in Queued}
    /\ cancelled' = cancelled \cup running
    /\ call' = Cancelling({activeCall[s] : s \in Segments} \ {None})
    /\ interrupt' = [w \in Workers |-> IF worker[w].pc = "dead" THEN interrupt[w] ELSE "pending"]
    /\ UNCHANGED <<rec, worker, active, activeCall, provider, closedProviders,
                   switch, mixed>>

\* queue.join() returned or timed out: everything is cancelled at once.
ShutdownCancels ==
    LET running == {active[s] : s \in Segments} \ {None} IN
    /\ closing.phase = "joining"
    /\ closing' = [phase |-> "gathering", jobs |-> Queued \cup running]
    /\ queue' = << >>
    /\ waiting' = waiting \ {j.seg : j \in Queued}
    /\ cancelled' = cancelled \cup running
    /\ call' = Cancelling({activeCall[s] : s \in Segments} \ {None})
    /\ interrupt' = [w \in Workers |-> IF worker[w].pc = "dead" THEN interrupt[w] ELSE "pending"]
    /\ UNCHANGED <<rec, worker, active, activeCall, provider, closedProviders,
                   switch, mixed>>

\* The CancelledError reaches the worker.  wait_for (Python 3.11) returns the
\* outcome of a call that is already done and the cancellation is lost;
\* everywhere else the task ends, after its call if it has one.
Interrupted(w) ==
    LET j == worker[w].job IN
    /\ interrupt[w] = "pending"
    /\ interrupt' = [interrupt EXCEPT ![w] = "taken"]
    /\ \/ /\ worker[w].pc = "calling" /\ ~worker[w].timedOut
          /\ call[w] \in {"ok", "retryable", "fatal"}
          /\ UNCHANGED <<worker, call, active, activeCall>>
       \/ /\ worker[w].pc = "calling"
          /\ worker[w].timedOut \/ call[w] \in {"running", "cancelling", "cancelled"}
          /\ Leave(w, Dead)
          /\ call' = [call EXCEPT ![w] = "none"]
          /\ activeCall' = Popped(activeCall, j.seg, TRUE)
       \/ /\ worker[w].pc \in {"backoff", "emitting"}
          /\ Leave(w, Dead)
          /\ activeCall' = Popped(activeCall, j.seg, worker[w].holds)
          /\ UNCHANGED call
       \/ /\ worker[w].pc = "idle"
          /\ worker' = [worker EXCEPT ![w] = Dead]
          /\ UNCHANGED <<call, active, activeCall>>
    /\ UNCHANGED <<rec, queue, waiting, cancelled, mixed, workerFrame>>

\* gather returned: the drained and the active jobs are reported one by one.
WorkersGone ==
    /\ closing.phase = "gathering"
    /\ \A w \in Workers : worker[w].pc = "dead"

ShutdownReports ==
    /\ WorkersGone
    /\ \E j \in closing.jobs :
        /\ rec' = Failing({j}, "cancelled")
        /\ closing' = [closing EXCEPT !.jobs = @ \ {j}]
    /\ UNCHANGED <<queue, waiting, cancelled, worker, call, interrupt, active,
                   activeCall, provider, closedProviders, switch, mixed>>

ShutdownEnds ==
    /\ WorkersGone /\ closing.jobs = {}
    /\ closedProviders' = closedProviders \cup {provider}
    /\ closing' = [closing EXCEPT !.phase = "closed"]
    /\ UNCHANGED <<rec, queue, waiting, cancelled, worker, call, interrupt, active,
                   activeCall, provider, switch, mixed>>

Shutdown == ShutdownBegins \/ ShutdownCancels \/ ShutdownReports \/ ShutdownEnds

-----------------------------------------------------------------------------
Work(w) ==
    \/ Take(w) \/ CallEnds(w) \/ Succeed(w) \/ Fail(w) \/ Cancelled(w)
    \/ BackoffEnds(w) \/ EmitEnds(w) \/ Interrupted(w)

Next ==
    \/ \E s \in Segments : Submit(s) \/ Cancel(s)
    \/ \E w \in Workers : Work(w) \/ Timeout(w)
    \/ \E p \in Providers : Switch(p)
    \/ Shutdown

Spec == Init /\ [][Next]_vars

\* Every call of a provider ends, by its answer or by the timer of wait_for,
\* and a task that can run eventually runs.
Fairness ==
    /\ \A w \in Workers : WF_vars(Work(w))
    /\ \A p \in Providers : WF_vars(SwitchCancels(p) \/ SwitchDrops(p) \/ SwitchCloses(p))
    /\ WF_vars(ShutdownCancels \/ ShutdownReports \/ ShutdownEnds)

FairSpec == Spec /\ Fairness
-----------------------------------------------------------------------------
(* Properties *)

WorkerState ==
    [pc : {"idle", "calling", "backoff", "emitting", "dead"},
     job : Job \cup {None}, attempt : Nat, timedOut : BOOLEAN,
     event : {"translation", "error", None}, holds : BOOLEAN]
CallState == {"none", "running", "cancelling", "ok", "retryable", "fatal", "cancelled"}
SwitchStates ==
    [pc : {"ready", "switching", "done"}, old : Providers \cup {None},
     jobs : SUBSET Job, calls : SUBSET Workers, removed : SUBSET Job]

\* Every variable has its type.
TypeOK ==
    /\ rec \in [Segments -> Record]
    /\ queue \in Seq(Job)
    /\ waiting \subseteq Segments
    /\ cancelled \subseteq Job
    /\ worker \in [Workers -> WorkerState]
    /\ call \in [Workers -> CallState]
    /\ interrupt \in [Workers -> {"no", "pending", "taken"}]
    /\ active \in [Segments -> Job \cup {None}]
    /\ activeCall \in [Segments -> Workers \cup {None}]
    /\ provider \in Providers
    /\ closedProviders \subseteq Providers
    /\ switch \in [Providers -> SwitchStates]
    /\ closing \in [phase : {"no", "joining", "gathering", "closed"}, jobs : SUBSET Job]
    /\ mixed \subseteq Segments

\* A submission is processed by at most one owner: it waits at one place of the
\* queue or one worker holds it (TranslationManager._worker, queue.py remove).
OneOwner ==
    /\ \A i, k \in 1..Len(queue) : i # k => queue[i].seg # queue[k].seg
    /\ \A w \in Workers : Working(w) =>
        /\ \A i \in 1..Len(queue) : queue[i].seg = worker[w].job.seg =>
                queue[i].sub > worker[w].job.sub
        /\ \A v \in Workers \ {w} : Working(v) /\ worker[v].job.seg = worker[w].job.seg =>
                worker[v].job.sub # worker[w].job.sub

\* The jobs that a switch or the shutdown took from the queue and has still to
\* report.
Dropped == (UNION {switch[p].removed : p \in Providers}) \cup closing.jobs

\* While the application runs, a caption that is shown as pending or translating
\* has somebody who will settle it: a place in the queue, a worker, or the
\* cancellation under way.
NothingLost ==
    closing.phase \in {"no", "joining"} =>
    \A s \in Segments :
        /\ rec[s].status = "pending" =>
            \E j \in Queued \cup Dropped : j.seg = s /\ j.sub = rec[s].sub
        /\ rec[s].status = "translating" =>
            \E w \in Workers : /\ worker[w].pc \in {"calling", "backoff"}
                               /\ worker[w].job.seg = s /\ worker[w].job.sub = rec[s].sub

\* snapshot() measures the oldest wait from _pending_since: it has a key for
\* exactly the captions that wait, although it is keyed by caption and popped
\* by whoever takes or drops a job of that caption.
WaitClockMatchesBacklog ==
    closing.phase \in {"no", "joining"} =>
        waiting = {j.seg : j \in Queued \cup Dropped}

\* switch_provider cancels and gathers the calls of the old provider before it
\* closes it, and shutdown those of the last one: of every caption but the mixed
\* ones, whose entries in the dictionaries another worker overwrote or removed.
ClosedProviderIsIdle ==
    \A w \in Workers :
        call[w] \in {"running", "cancelling"} =>
            \/ worker[w].job.provider \notin closedProviders
            \/ worker[w].job.seg \in mixed

\* The records behave as CaptionLedger says.
Shown == [s \in Segments |-> [sub |-> rec[s].sub, status |-> rec[s].status,
                              result |-> rec[s].result]]
Ledger == INSTANCE CaptionLedger WITH ledger <- Shown
ImplementsLedger == Ledger!LedgerSpec

\* A kept translation is only replaced by the translation of a later submission.
TranslationKept ==
    [][\A s \in Segments : rec'[s].result >= rec[s].result]_vars

\* After shutdown no caption is in progress, but for the mixed ones: a worker
\* whose call a switch cancelled in place of an older job left its caption open.
NothingOpenAfterShutdown ==
    closing.phase = "closed" =>
        \A s \in Segments \ mixed : rec[s].status \notin InProgress

\* The captions in progress are the ones somebody works at, and the oldest wait
\* that snapshot() shows is one of a caption that waits.
BacklogHolds == NothingLost /\ WaitClockMatchesBacklog

\* What a switch or the shutdown has ended stays ended: no call on a provider
\* that was closed, no caption that says it is in progress.
EndedStaysEnded == ClosedProviderIsIdle /\ NothingOpenAfterShutdown

\* Every submission is settled, or the application stops.
EverySubmissionSettles ==
    \A s \in Segments :
        rec[s].status \in InProgress ~> rec[s].status \notin InProgress \/ ~Accepting

\* shutdown() returns.
ShutdownTerminates == closing.phase = "joining" ~> closing.phase = "closed"
=============================================================================
