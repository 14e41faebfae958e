-------------------------- MODULE WorkerSupervisor --------------------------
(***************************************************************************)
(* The supervisor of the local translation worker, backend/app/translation/*)
(* worker_provider.py, with the worker process itself,                     *)
(* scripts/local_translation_worker.py: one process with the model, that   *)
(* is started with the server, asked for translations over a pipe, watched,*)
(* replaced when it fails, and found again by its pid file when the server *)
(* was killed.                                                             *)
(*                                                                         *)
(* Tasks of one event loop take turns: a step goes from one suspension to  *)
(* the next.  _lifecycle_lock and _request_lock are fair.  The runtime and *)
(* the model are installed.                                                *)
(***************************************************************************)
EXTENDS Naturals, FiniteSets, SequencesExt

CONSTANTS
    Processes,     \* process identifiers; one that is gone may come again
    Requests,      \* the tasks of the translation manager that translate
    MaxFailures,   \* _max_consecutive_failures
    MaxCrashes,    \* bound: times the server is killed and started again
    MaxRestarts    \* bound: explicit restarts asked for

None == 0

ASSUME WorkerAssumption ==
    /\ None \notin Processes
    /\ {"start", "restart", "stop", "monitor"} \cap Requests = {}
    /\ MaxFailures \in Nat \ {0}
    /\ {MaxCrashes, MaxRestarts} \subseteq Nat

VARIABLES
    desired,     \* _desired_running
    process,     \* _process
    pid,         \* _actual_pid
    state,       \* _state; "starting" stands for "restarting" too
    failures,    \* _consecutive_failures
    event,       \* _ready_event
    local,       \* of each task: what it does, to which process
    lifecycle,   \* _lifecycle_lock: its holder and those who wait for it
    requests,    \* _request_lock: likewise
    pipe,        \* the requests written to the process, their answers unread
    os,          \* of each process identifier, how far its process is
    pidFile,     \* the pid file
    life,        \* the server: "starting", "running" or "closing"
    crashes, restarts

memory == <<desired, process, pid, state, failures, event>>
locks == <<lifecycle, requests>>
system == <<os, pidFile>>
bounds == <<life, crashes, restarts>>
vars == <<memory, local, locks, pipe, system, bounds>>

Tasks == {"start", "restart", "stop", "monitor"} \cup Requests

Calm == [phase |-> "none", job |-> "none", proc |-> None]
At(phase, job, p) == [phase |-> phase, job |-> job, proc |-> p]
Looking == At("looking", "none", None)
Waiting(job) == At("waiting", job, None)

Set(k, l) == [local EXCEPT ![k] = l]

Holds(k, waiters) == waiters # <<>> /\ Head(waiters) = k
Without(k, waiters) ==
    LET places == {i \in DOMAIN waiters : waiters[i] = k}
    IN  IF places = {} THEN waiters ELSE RemoveAt(waiters, CHOOSE i \in places : TRUE)

\* "silent" until it says its pid, "named" until the model is loaded; what is
\* left when the server is killed is an orphan.  "unheard": it lives, has not
\* said its pid, and nobody holds it any more: its server was killed, or has
\* killed it and waited no longer.
Phases == {"gone", "silent", "named", "serving", "orphan", "unheard"}
Alive(p) == os[p] # "gone"
Children == {p \in Processes : os[p] \in {"silent", "named", "serving"}}

\* snapshot()["available"]
Available ==
    state = "ready" /\ process # None /\ Alive(process) /\ pid # None

Counted == IF failures < MaxFailures THEN failures + 1 ELSE failures

-----------------------------------------------------------------------------
(* A task is cancelled: it leaves what it waits for, but a start in progress *)
(* first ends its process.                                                   *)

Cancelled(k) ==
    IF local[k].phase = "launching"
    THEN /\ local' = Set(k, [local[k] EXCEPT !.phase = "disposing",
                                             !.job = "cancelled"])
         /\ UNCHANGED lifecycle
    ELSE /\ local' = Set(k, Calm)
         /\ lifecycle' = Without(k, lifecycle)

\* restart and stop first cancel the monitor, and go on when it has ended.
MonitorCancelled(k) ==
    IF local["monitor"] = Calm
    THEN /\ local' = Set(k, At("queued", k, None))
         /\ requests' = Append(requests, k)
         /\ UNCHANGED lifecycle
    ELSE /\ LET m == local["monitor"]
                launching == m.phase = "launching"
            IN  /\ local' = [local EXCEPT
                       ![k] = At("joining", k, None),
                       !["monitor"] =
                           IF launching THEN At("disposing", "cancelled", m.proc)
                           ELSE Calm]
                /\ lifecycle' = IF launching THEN lifecycle
                                ELSE Without("monitor", lifecycle)
         /\ UNCHANGED requests

Joined(k) ==
    /\ local[k].phase = "joining" /\ local["monitor"] = Calm
    /\ local' = Set(k, At("queued", k, None))
    /\ requests' = Append(requests, k)
    /\ UNCHANGED <<memory, lifecycle, pipe, system, bounds>>

-----------------------------------------------------------------------------
(* start, restart and stop *)

StartAsked ==
    /\ life = "starting"
    /\ life' = "running"
    /\ desired' = TRUE
    /\ local' = Set("start", Waiting("spawn"))
    /\ lifecycle' = Append(lifecycle, "start")
    /\ UNCHANGED <<process, pid, state, failures, event, requests, pipe, system,
                   crashes, restarts>>

RestartAsked ==
    /\ life = "running" /\ local["restart"] = Calm /\ restarts < MaxRestarts
    /\ restarts' = restarts + 1
    /\ desired' = TRUE /\ failures' = 0
    /\ MonitorCancelled("restart")
    /\ UNCHANGED <<process, pid, state, event, pipe, system, life, crashes>>

StopAsked ==
    /\ local["stop"] = Calm /\ life # "starting"
    /\ life = "closing" => local["start"] = Calm
    /\ desired' = FALSE
    /\ MonitorCancelled("stop")
    /\ UNCHANGED <<process, pid, state, failures, event, pipe, system, bounds>>

\* The server closes: the start in progress is cancelled, then stop is called.
Close ==
    /\ life = "running"
    /\ local["restart"] = Calm /\ local["stop"] = Calm
    /\ life' = "closing"
    /\ Cancelled("start")
    /\ UNCHANGED <<memory, requests, pipe, system, crashes, restarts>>

\* Both go on under the two locks.
Entered(k) ==
    /\ local[k].phase = "queued" /\ k \in {"restart", "stop"}
    /\ Holds(k, requests)
    /\ local' = Set(k, Waiting(k))
    /\ lifecycle' = Append(lifecycle, k)
    /\ UNCHANGED <<memory, requests, pipe, system, bounds>>

-----------------------------------------------------------------------------
(* The monitor *)

\* What it does when it knows of no process, f being the failures so far.
Account(f) ==
    IF ~desired
    THEN local' = Set("monitor", Calm) /\ UNCHANGED state
    ELSE IF f >= MaxFailures
    THEN local' = Set("monitor", Calm) /\ state' = "degraded"
    ELSE local' = Set("monitor", At("sleeping", "none", None))
         /\ state' = "starting"

Look ==
    /\ local["monitor"] = Looking
    /\ IF desired /\ process # None
       THEN /\ local' = Set("monitor", At("watching", "exit", process))
            /\ UNCHANGED state
       ELSE Account(failures)
    /\ UNCHANGED <<desired, process, pid, failures, event, locks, pipe, system,
                   bounds>>

Exited ==
    /\ local["monitor"].phase = "watching" /\ ~Alive(local["monitor"].proc)
    /\ IF desired
       THEN /\ local' = Set("monitor", [local["monitor"] EXCEPT
                                            !.phase = "waiting"])
            /\ lifecycle' = Append(lifecycle, "monitor")
       ELSE local' = Set("monitor", Calm) /\ UNCHANGED lifecycle
    /\ UNCHANGED <<memory, requests, pipe, system, bounds>>

Wake ==
    /\ local["monitor"].phase = "sleeping"
    /\ IF desired
       THEN /\ local' = Set("monitor", Waiting("spawn"))
            /\ lifecycle' = Append(lifecycle, "monitor")
       ELSE local' = Set("monitor", Calm) /\ UNCHANGED lifecycle
    /\ UNCHANGED <<memory, requests, pipe, system, bounds>>

-----------------------------------------------------------------------------
(* Under _lifecycle_lock *)

\* _spawn returns: the monitor looks again; start makes one unless there is
\* one, after those who waited for the end of the last.
SpawnEnds(k) ==
    /\ k # "monitor" => \A j \in Tasks : local[j].phase # "joining"
    /\ local' = IF k = "monitor" THEN Set(k, Looking)
                ELSE [local EXCEPT ![k] = Calm,
                          !["monitor"] = IF @ = Calm THEN Looking ELSE @]
    /\ lifecycle' = Without(k, lifecycle)

Disposes(k, job) ==
    /\ event' = FALSE
    /\ local' = Set(k, [local[k] EXCEPT !.phase = "disposing", !.job = job])

Released(k) ==
    lifecycle' = Without(k, lifecycle) /\ requests' = Without(k, requests)

Granted(k, job) ==
    local[k].phase = "waiting" /\ local[k].job = job /\ Holds(k, lifecycle)

Spawn(k) ==
    /\ Granted(k, "spawn")
    /\ IF ~desired \/ (state = "ready" /\ process # None /\ Alive(process))
       THEN SpawnEnds(k) /\ UNCHANGED event
       ELSE Disposes(k, "spawn") /\ UNCHANGED lifecycle
    /\ UNCHANGED <<desired, process, pid, state, failures, requests, pipe,
                   system, bounds>>

WatchEnds ==  \* mutant: the monitor ends with the process it did not lose
    /\ Granted("monitor", "exit")
    /\ local' = Set("monitor", IF process = local["monitor"].proc THEN
                        [local["monitor"] EXCEPT !.phase = "disposing"] ELSE Calm)
    /\ event' = FALSE
    /\ lifecycle' = IF process = local["monitor"].proc THEN lifecycle
                    ELSE Without("monitor", lifecycle)
    /\ UNCHANGED <<desired, process, pid, state, failures, requests, pipe,
                   system, bounds>>

\* The monitor: the process it watched is still the one of the supervisor, or
\* was replaced or taken away.
Replace ==
    /\ Granted("monitor", "exit")
    /\ IF process = local["monitor"].proc
       THEN /\ state' = "degraded" /\ failures' = Counted
            /\ Disposes("monitor", "exit") /\ UNCHANGED lifecycle
       ELSE /\ Account(failures)
            /\ lifecycle' = Without("monitor", lifecycle)
            /\ UNCHANGED <<failures, event>>
    /\ UNCHANGED <<desired, process, pid, requests, pipe, system, bounds>>

Restart ==
    /\ Granted("restart", "restart")
    /\ Disposes("restart", "restart")
    /\ UNCHANGED <<desired, process, pid, state, failures, locks, pipe, system,
                   bounds>>

\* stop asks the worker to leave, and ends it in any case.
Stop ==
    /\ Granted("stop", "stop")
    /\ IF process # None /\ Alive(process)
       THEN /\ local' = Set("stop", At("asking", "stop", process))
            /\ pipe' = Append(pipe, "stop")
            /\ UNCHANGED event
       ELSE Disposes("stop", "stop") /\ UNCHANGED pipe
    /\ UNCHANGED <<desired, process, pid, state, failures, locks, system, bounds>>

\* The worker has left (Exit), or does not in time.
Asked ==
    /\ local["stop"].phase = "asking"
    /\ Disposes("stop", "stop")
    /\ UNCHANGED <<desired, process, pid, state, failures, locks, pipe, system,
                   bounds>>

\* _break_worker: nothing to do if the process was replaced.
Break(t) ==
    /\ local[t].phase = "waiting" /\ Holds(t, lifecycle)
    /\ IF process = local[t].proc
       THEN /\ state' = "degraded"
            /\ Disposes(t, local[t].job) /\ UNCHANGED locks
       ELSE /\ local' = Set(t, Calm) /\ Released(t)
            /\ UNCHANGED <<state, event>>
    /\ UNCHANGED <<desired, process, pid, failures, pipe, system, bounds>>

-----------------------------------------------------------------------------
(* The end of _dispose_process_locked, and what its caller does then *)

\* The callers that go on in the same way whether it succeeded or not.
Concluded(k) ==
    \/ /\ local[k].job = "failed"
       /\ SpawnEnds(k) /\ UNCHANGED requests
    \/ /\ local[k].job \in {"cancelled", "stop", "break", "shielded"}
       /\ local' = Set(k, Calm) /\ Released(k)

\* Whoever waits for the end of a process hears of it at the same time.
Noticed ==
    local["monitor"].phase = "watching" => Alive(local["monitor"].proc)

\* The process whose pid is known has ended (Exit), and its pid file goes with
\* it; one that has not said its pid is killed, and let go after five seconds.
Disposed(k) ==
    /\ local[k].phase = "disposing" /\ Noticed
    /\ pid # None => ~Alive(pid)
    /\ os' = [p \in Processes |-> IF p = process /\ Alive(p) THEN "unheard" ELSE os[p]]
    /\ process' = None /\ pid' = None /\ pipe' = <<>>
    /\ pidFile' = IF pid # None /\ pidFile = pid THEN None ELSE pidFile
    /\ \/ /\ local[k].job = "spawn"
          /\ local' = Set(k, At(IF pidFile' = None THEN "launching"
                                ELSE "reconciling", "spawn", None))
          /\ state' = IF pidFile' = None THEN "starting" ELSE state
          /\ UNCHANGED <<locks, desired>>
       \/ /\ local[k].job = "exit"
          /\ Account(failures)
          /\ lifecycle' = Without(k, lifecycle)
          /\ UNCHANGED <<desired, requests>>
       \/ /\ local[k].job = "restart"
          /\ desired' = TRUE
          /\ local' = Set(k, Waiting("spawn"))
          /\ lifecycle' = Append(Without(k, lifecycle), k)
          /\ requests' = Without(k, requests)
          /\ UNCHANGED state
       \/ /\ Concluded(k)
          /\ state' = IF local[k].job = "stop" THEN "stopped" ELSE state
          /\ UNCHANGED desired
    /\ UNCHANGED <<failures, event, bounds>>

\* The system does not tell whether the process is gone: the supervisor keeps
\* its pid, and starts no other one.
DisposeFails(k) ==
    /\ local[k].phase = "disposing" /\ Noticed /\ pid # None
    /\ process' = IF process # None /\ ~Alive(process) THEN None ELSE process
    /\ state' = "degraded" /\ pipe' = <<>>
    /\ \/ /\ local[k].job = "spawn"
          /\ failures' = Counted
          /\ SpawnEnds(k) /\ UNCHANGED requests
       \/ /\ local[k].job \in {"exit", "restart"}
          /\ local' = Set(k, Calm) /\ Released(k)
          /\ UNCHANGED failures
       \/ Concluded(k) /\ UNCHANGED failures
    /\ UNCHANGED <<desired, pid, event, system, bounds>>

-----------------------------------------------------------------------------
(* _spawn: from the pid file to the ready message *)

FileDropped(k) ==  \* mutant: the pid file is dropped, what it names goes on
    /\ local[k].phase = "reconciling"
    /\ pidFile' = None
    /\ state' = "starting"
    /\ local' = Set(k, At("launching", "spawn", None))
    /\ UNCHANGED <<desired, process, pid, failures, event, locks, pipe, os,
                   bounds>>

\* A worker that outlived its server is ended first.
Reconciled(k) ==
    /\ local[k].phase = "reconciling" /\ ~Alive(pidFile)
    /\ pidFile' = None
    /\ state' = "starting"
    /\ local' = Set(k, At("launching", "spawn", None))
    /\ UNCHANGED <<desired, process, pid, failures, event, locks, pipe, os,
                   bounds>>

ReconcileFails(k) ==
    /\ local[k].phase = "reconciling" /\ Alive(pidFile)
    /\ state' = "degraded" /\ failures' = Counted
    /\ SpawnEnds(k)
    /\ UNCHANGED <<desired, process, pid, event, requests, pipe, system, bounds>>

Launch(k) ==
    /\ local[k].phase = "launching" /\ local[k].proc = None
    /\ \E p \in Processes :
          /\ ~Alive(p) /\ \A j \in Tasks : local[j].proc # p
          /\ os' = [os EXCEPT ![p] = "silent"]
          /\ process' = p
          /\ local' = Set(k, [local[k] EXCEPT !.proc = p])
    /\ UNCHANGED <<desired, pid, state, failures, event, locks, pipe, pidFile,
                   bounds>>

\* The worker says its pid before it loads the model.
Named(k) ==
    /\ local[k].phase = "launching" /\ local[k].proc # None
    /\ os[process] = "silent"
    /\ os' = [os EXCEPT ![process] = "named"]
    /\ pid' = process /\ pidFile' = process
    /\ UNCHANGED <<desired, process, state, failures, event, local, locks, pipe,
                   bounds>>

Ready(k) ==
    /\ local[k].phase = "launching" /\ local[k].proc # None
    /\ os[process] = "named"
    /\ os' = [os EXCEPT ![process] = "serving"]
    /\ state' = "ready" /\ failures' = 0 /\ event' = TRUE
    /\ SpawnEnds(k)
    /\ UNCHANGED <<desired, process, pid, requests, pipe, pidFile, bounds>>

\* It cannot be launched, leaves, reports an error, or takes too long.
StartupFails(k) ==
    /\ local[k].phase = "launching"
    /\ state' = "degraded" /\ failures' = Counted
    /\ Disposes(k, "failed")
    /\ UNCHANGED <<desired, process, pid, locks, pipe, system, bounds>>

-----------------------------------------------------------------------------
(* translate *)

Refused(t) ==
    local' = Set(t, Calm) /\ requests' = Without(t, requests)

\* _wait_ready before the lock.
Ask(t) ==
    /\ local[t] = Calm /\ life = "running" /\ (Available \/ desired)
    /\ IF Available
       THEN /\ local' = Set(t, At("queued", "break", None))
            /\ requests' = Append(requests, t)
       ELSE /\ local' = Set(t, At("readying", "break", None))
            /\ UNCHANGED requests
    /\ UNCHANGED <<memory, lifecycle, pipe, system, bounds>>

Writes(t) ==
    /\ local' = Set(t, At("sent", "break", process))
    /\ pipe' = Append(pipe, t)

ReadyAwaited(t) ==  \* mutant: without a time limit
    /\ local[t].phase = "readying" /\ Available
    /\ IF Holds(t, requests)
       THEN Writes(t) /\ UNCHANGED requests
       ELSE /\ local' = Set(t, At("queued", "break", None))
            /\ requests' = Append(requests, t)
            /\ UNCHANGED pipe
    /\ UNCHANGED <<memory, lifecycle, system, bounds>>

\* The event is set, or recovery_wait_seconds are over.
Readied(t) ==
    /\ local[t].phase = "readying"
    /\ IF ~Available THEN Refused(t) /\ UNCHANGED pipe
       ELSE IF Holds(t, requests)
       THEN Writes(t) /\ UNCHANGED requests
       ELSE /\ local' = Set(t, At("queued", "break", None))
            /\ requests' = Append(requests, t)
            /\ UNCHANGED pipe
    /\ UNCHANGED <<memory, lifecycle, system, bounds>>

\* Under the lock it looks again.
Send(t) ==
    /\ local[t].phase = "queued" /\ Holds(t, requests)
    /\ IF Available THEN Writes(t) /\ UNCHANGED requests
       ELSE IF desired
       THEN /\ local' = Set(t, [local[t] EXCEPT !.phase = "readying"])
            /\ UNCHANGED <<pipe, requests>>
       ELSE Refused(t) /\ UNCHANGED pipe
    /\ UNCHANGED <<memory, lifecycle, system, bounds>>

\* The worker answers one line for each that it reads, in their order.
Replies(t) ==
    /\ process = local[t].proc /\ os[process] = "serving"
    /\ pipe # <<>> /\ Head(pipe) = t

\* A translation, or an error that the worker reports.
Answered(t) ==
    /\ local[t].phase = "sent" /\ Replies(t)
    /\ pipe' = Tail(pipe)
    /\ Refused(t)
    /\ UNCHANGED <<memory, lifecycle, system, bounds>>

AnswerLeft(t, job) ==  \* mutant: a late answer is left to be read
    /\ local[t].phase = "sent"
    /\ Refused(t)
    /\ UNCHANGED <<memory, lifecycle, pipe, system, bounds>>

\* The answer is late or the pipe is closed, or the task is cancelled: the
\* worker is ended, for its answer would be taken for another one.
Fails(t, job) ==
    /\ local[t].phase = "sent"
    /\ local' = Set(t, [local[t] EXCEPT !.phase = "waiting", !.job = job])
    /\ lifecycle' = Append(lifecycle, t)
    /\ UNCHANGED <<memory, requests, pipe, system, bounds>>

\* The task is cancelled elsewhere.  What it does to end the worker after its
\* own cancellation goes on, under the lock of the requests no more.
Leave(t) ==
    /\ \/ /\ local[t].phase \in {"readying", "queued"}
          /\ Refused(t) /\ UNCHANGED lifecycle
       \/ /\ local[t].phase \in {"waiting", "disposing"}
          /\ local[t].job = "break"
          /\ local' = Set(t, Calm) /\ Released(t)
       \/ /\ local[t].phase \in {"waiting", "disposing"}
          /\ local[t].job = "shielded" /\ t \in ToSet(requests)
          /\ requests' = Without(t, requests)
          /\ UNCHANGED <<local, lifecycle>>
    /\ UNCHANGED <<memory, pipe, system, bounds>>

-----------------------------------------------------------------------------
(* The worker process and the server *)

\* A worker may end at any time, and does when it is told to, killed, its
\* stdin is closed or its server is gone.
Exit(p) ==
    /\ Alive(p)
    /\ os' = [os EXCEPT ![p] = "gone"]
    /\ UNCHANGED <<memory, local, locks, pipe, pidFile, bounds>>

\* The server is killed: its processes and the pid file are left.
Crash ==
    /\ crashes < MaxCrashes /\ life = "running"
    /\ crashes' = crashes + 1
    /\ life' = "starting"
    /\ desired' = FALSE /\ process' = None /\ pid' = None
    /\ state' = "stopped" /\ failures' = 0 /\ event' = FALSE
    /\ local' = [k \in Tasks |-> Calm]
    /\ lifecycle' = <<>> /\ requests' = <<>> /\ pipe' = <<>>
    /\ os' = [p \in Processes |->
                  CASE os[p] = "silent" -> "unheard"
                    [] os[p] \in {"named", "serving"} -> "orphan"
                    [] OTHER -> os[p]]
    /\ UNCHANGED <<pidFile, restarts>>

Init ==
    /\ desired = FALSE /\ process = None /\ pid = None
    /\ state = "stopped" /\ failures = 0 /\ event = FALSE
    /\ local = [k \in Tasks |-> Calm]
    /\ lifecycle = <<>> /\ requests = <<>> /\ pipe = <<>>
    /\ life = "starting"
    /\ os = [p \in Processes |-> "gone"]
    /\ pidFile = None
    /\ crashes = 0 /\ restarts = 0

\* The task a lock is handed to goes on before anything else happens, and so
\* does the monitor whose loop begins.
HandedOver ==
    \/ local["monitor"] = Looking
    \/ \E k \in Tasks :
          \/ local[k].phase = "waiting" /\ Holds(k, lifecycle)
          \/ local[k].phase = "queued" /\ Holds(k, requests)

TakeLock(k) ==
    \/ Joined(k) \/ Entered(k) \/ Spawn(k)
    \/ k = "monitor" /\ (Look \/ Replace)
    \/ k = "restart" /\ Restart
    \/ k = "stop" /\ Stop
    \/ k \in Requests /\ (Send(k) \/ Break(k))

Run(k) ==
    \/ Disposed(k) \/ DisposeFails(k)
    \/ Reconciled(k) \/ ReconcileFails(k)
    \/ Launch(k) \/ Named(k) \/ Ready(k) \/ StartupFails(k)
    \/ k = "monitor" /\ (Exited \/ Wake)
    \/ k = "stop" /\ Asked
    \/ /\ k \in Requests
       /\ \/ Readied(k) \/ Answered(k)
          \/ \E job \in {"break", "shielded"} : Fails(k, job)

Called ==
    \/ StartAsked \/ RestartAsked \/ StopAsked \/ Close
    \/ \E t \in Requests : Ask(t) \/ Leave(t)

Next ==
    \/ \E k \in Tasks : TakeLock(k)
    \/ /\ ~HandedOver
       /\ \/ Called
          \/ \E k \in Tasks : Run(k)
          \/ \E p \in Processes : Exit(p)
          \/ Crash

Spec == Init /\ [][Next]_vars

\* A process that has lost its server, that was asked to leave or to end, or
\* whose stdin is closed since then.
Ends(p) ==
    /\ ~HandedOver /\ Exit(p)
    /\ \/ os[p] \in {"orphan", "unheard"}
       \/ state = "degraded" /\ p \in {process, pid}
       \/ \E k \in Tasks : local[k].phase \in {"disposing", "asking"}

\* The event loop runs every task that can go on, startups and requests have
\* their time limits, and processes that are ended end.
FairSpec ==
    /\ Spec
    /\ \A k \in Tasks : WF_vars(TakeLock(k)) /\ SF_vars(~HandedOver /\ Run(k))
    /\ \A p \in Processes : SF_vars(Ends(p))

-----------------------------------------------------------------------------
(* Properties *)

\* The types of the state; only tasks that are under way wait for the locks,
\* once each.
TypeOK ==
    /\ desired \in BOOLEAN /\ event \in BOOLEAN
    /\ {process, pid, pidFile} \subseteq Processes \cup {None}
    /\ state \in {"stopped", "starting", "ready", "degraded"}
    /\ failures \in 0 .. MaxFailures
    /\ os \in [Processes -> Phases]
    /\ \A k \in Tasks : local[k].proc \in Processes \cup {None}
    /\ IsInjective(lifecycle) /\ IsInjective(requests)
    /\ ToSet(lifecycle) \subseteq {k \in Tasks : local[k] # Calm}
    /\ ToSet(requests) \subseteq {k \in Tasks : local[k] # Calm}
    /\ life \in {"starting", "running", "closing"}

\* The server holds one worker at most, and there is no one beside it that has
\* said its pid to it or to a server killed before, across failures to end a
\* process, restarts and crashes (_dispose_process_locked,
\* _reconcile_stale_pid_file_locked).  Beside it there may be some that were
\* killed, and let go, before they said their pid.
OneWorker ==
    Cardinality(Children \cup {p \in Processes : os[p] = "orphan"}) <= 1

\* A worker of the server that lives is one the supervisor knows and will end
\* before it starts another one, and the pid file names it as soon as it has
\* said its pid: what stops the project can find it.  One that was let go is
\* never taken for it again, although identifiers are reused.
WorkerKnown ==
    /\ \A p \in Children :
          /\ p \in {process, pid}
          /\ os[p] # "silent" => pidFile = p
    /\ \A p \in Processes : os[p] = "unheard" => p \notin {process, pid, pidFile}

\* The answer that a request reads is its own: nothing else was written to the
\* worker, or is still to be read, when it was sent (translate).
PipeClean ==
    \A t \in Requests :
        local[t].phase = "sent" /\ process = local[t].proc => pipe = <<t>>

\* After stop has ended the server holds no worker, and none comes as long as
\* nobody starts or restarts it: a start that was under way does not survive it.
StoppedIsStopped ==
    state = "stopped" /\ ~desired => Children = {}

\* The worker that is held is one, known, and none after a stop.
OneKnownWorker == TypeOK /\ OneWorker /\ WorkerKnown /\ StoppedIsStopped

\* A worker that is wanted comes back, whatever ended it, unless the
\* supervisor has given up, as it could not end a worker or too many startups
\* in a row have failed, or was stopped (_monitor_loop).
GivenUp == local["monitor"] = Calm /\ state \in {"degraded", "stopped"}
Recovers == desired ~> Available \/ GivenUp \/ ~desired \/ life = "closing"

\* Every translation that is asked for ends.
RequestsEnd == \A t \in Requests : local[t] # Calm ~> local[t] = Calm
=============================================================================
