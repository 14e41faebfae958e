-------------------------- MODULE AnalysisManager --------------------------
(***************************************************************************)
(* The analysis of a stored meeting, backend/app/analysis: the requests to *)
(* analyse a session, to cancel and to change the provider, the task that  *)
(* asks the provider chunk by chunk, and the shutdown.                     *)
(*                                                                         *)
(* The repository is called in threads (asyncio.to_thread): a task that is *)
(* cancelled leaves its call behind, which is still carried out, and calls *)
(* that overlap take the lock of the repository in any order.  A step goes *)
(* from one suspension of the event loop to the next.                      *)
(***************************************************************************)
EXTENDS Integers, FiniteSets, Sequences

CONSTANTS
    Sessions, Providers, None,
    NoneProvider,             \* the provider that disables the analysis
    Ends,                     \* of each session, the characters up to the end of
                              \* each of its segments
    MaxSegments, MaxCharacters, MaxRetries,
    Citations,                \* what an answer may cite: sets of segments
    Requests,                 \* bound: calls of submit that are open at a time
    Retries,                  \* those of retry, which submits with force
    MaxRuns,                  \* bound: submissions that are accepted
    MaxOrders,                \* bound: cancellations and switches asked for
    MaxFaults                 \* bound: failing calls of the repository and crashes

ASSUME AnalysisAssumption ==
    /\ NoneProvider \in Providers /\ Retries \subseteq Requests
    /\ None \notin Sessions \cup Providers
    /\ Ends \in [Sessions -> Seq(Nat)]
    /\ \A s \in Sessions : \A j, k \in DOMAIN Ends[s] : j <= k => Ends[s][j] <= Ends[s][k]
    /\ Citations \subseteq SUBSET Nat
    /\ {MaxSegments, MaxCharacters} \subseteq Nat \ {0}
    /\ {MaxRetries, MaxRuns, MaxOrders, MaxFaults} \subseteq Nat

VARIABLES
    provider,    \* self.provider
    run,         \* the runs: each with the record and the task of _execute
    record,      \* _records: of each session the run whose record it is, or 0
    task,        \* _tasks: of each session the run whose task it is, or 0
    request,     \* the calls of submit
    cancel,      \* what cancels: a request, switch_provider and shutdown
    closed,      \* _closed
    disk,        \* of each session, what the repository holds
    calls,       \* calls of the repository that are under way
    orders, faults

memory == <<provider, run, record, task, request, cancel, closed>>
bounds == <<orders, faults>>
vars == <<memory, disk, calls, bounds>>

Runs == 1 .. MaxRuns

\* What the result takes from the answer to a chunk: the segments it cites.
\* Of the answers' items merge_analyses drops one kind only, the purposes
\* behind the first, so that this may be any of what an answer cites.
Part == [chunk : Nat, cites : SUBSET Nat]

\* Results: of a revision, merged from parts.  A run of the none provider has
\* a result too, which says nothing.
NoResult == [revision |-> 0, parts |-> {}]
Blank == [revision |-> 0, parts |-> {[chunk |-> 0, cites |-> {}]}]
Result == [revision : 0 .. MaxRuns, parts : SUBSET Part]

Unused == [at |-> "unused", session |-> None, by |-> None, status |-> "pending",
           revision |-> 0, result |-> NoResult, chunk |-> 1, attempt |-> 0,
           parts |-> {}]

\* What is left of a run that is over: its record.
Over(i) == [Unused EXCEPT !.at = "over", !.session = run[i].session,
              !.status = run[i].status, !.revision = run[i].revision,
              !.result = run[i].result]

Live(i) == run[i].at \notin {"unused", "over"}

\* running_session_id: what _tasks knows of.
Running == {s \in Sessions : task[s] # 0 /\ Live(task[s])}

-----------------------------------------------------------------------------
(* chunk_segments: a chunk is closed before or after a segment.  The chunks  *)
(* of a session are known by their first segments.                           *)

Segments(s) == DOMAIN Ends[s]

\* The characters of the segments f to j.
Span(s, f, j) == Ends[s][j] - (IF f = 1 THEN 0 ELSE Ends[s][f - 1])

\* A chunk that begins with f ends before the segment j: it has the most
\* segments or characters there may be, or would have too many of them.
Closed(s, f, j) ==
    \/ j - f >= MaxSegments
    \/ Span(s, f, j - 1) >= MaxCharacters
    \/ Span(s, f, j) > MaxCharacters

\* The chunk that begins with f, and the segments behind it.
Chunk(s, f) == {j \in Segments(s) : f <= j /\ \A k \in f + 1 .. j : ~Closed(s, f, k)}
RestUnflushed(s, f) ==  \* mutant: the last segment alone makes no chunk
    {j \in Segments(s) : f < j /\ \E k \in Segments(s) : j < k} \ Chunk(s, f)
Rest(s, f) == {j \in Segments(s) : f < j} \ Chunk(s, f)

-----------------------------------------------------------------------------
(* The repository.  A call knows who made it; what it writes is a status or *)
(* a result.                                                                 *)

Task(i) == <<"run", i>>
Canceller(who) == <<who, 0>>
Nobody == <<"nobody", 0>>

Call(who, s, status, result) ==
    [who |-> who, session |-> s, status |-> status, result |-> result]

Awaits(who) == \E c \in calls : c.who = who

\* A call takes the repository's lock.  Two of one caller are never open.
Store(c) ==
    /\ c \in calls
    /\ calls' = calls \ {c}
    /\ disk' = [disk EXCEPT ![c.session] =
                  [status |-> c.status,
                   result |-> IF c.status = "completed" THEN c.result ELSE @.result]]
    /\ UNCHANGED <<memory, bounds>>

-----------------------------------------------------------------------------
(* submit *)

Asked == [at |-> "none", session |-> None,
          loaded |-> [revision |-> 0, result |-> NoResult]]

\* Up to the first suspension: the provider is looked at, then _tasks.
Submit(q, s) ==
    /\ request[q].at = "none"
    /\ provider # NoneProvider
    /\ ~closed
    /\ Running = {}
    /\ request' = [request EXCEPT ![q] =
                     [Asked EXCEPT !.at = "loading", !.session = s]]
    /\ UNCHANGED <<provider, run, record, task, cancel, closed, disk, calls, bounds>>

\* What there is of a session: its record or else the stored result.
Known(s) ==
    IF record[s] # 0
    THEN [revision |-> run[record[s]].revision, result |-> run[record[s]].result]
    ELSE [revision |-> disk[s].result.revision, result |-> disk[s].result]

Load(q) ==
    /\ request[q].at = "loading"
    /\ request' = [request EXCEPT ![q].at = "loaded",
                                  ![q].loaded = Known(request[q].session)]
    /\ UNCHANGED <<provider, run, record, task, cancel, closed, disk, calls, bounds>>

\* The record there is now or, for want of one, what was loaded.
Previous(q) == IF record[request[q].session] # 0 THEN Known(request[q].session)
               ELSE request[q].loaded

\* mutant
RefusedEarly(q) ==
    \/ closed
    \/ (Previous(q).result # NoResult /\ q \notin Retries)

\* What the second look under the lock refuses.
Refused(q) ==
    \/ closed
    \/ Running # {}
    \/ (Previous(q).result # NoResult /\ q \notin Retries)

\* mutant
RegisteredBare(q, i) ==
    [Unused EXCEPT !.at = "new", !.session = request[q].session, !.by = provider,
                   !.revision = Previous(q).revision + 1]

\* The record of a new run: a result from before stays in it.
Registered(q, i) ==
    [Unused EXCEPT !.at = "new", !.session = request[q].session, !.by = provider,
                   !.revision = Previous(q).revision + 1,
                   !.result = Previous(q).result]

Register(q) ==
    /\ request[q].at = "loaded"
    /\ request' = [request EXCEPT ![q] = Asked]
    /\ \/ /\ Refused(q)
          /\ UNCHANGED <<run, record, task>>
       \/ /\ ~Refused(q)
          /\ \E i \in Runs :
               /\ run[i].at = "unused"
               /\ \A j \in Runs : j < i => run[j].at # "unused"
               /\ run' = [run EXCEPT ![i] = Registered(q, i)]
               /\ record' = [record EXCEPT ![request[q].session] = i]
               /\ task' = [task EXCEPT ![request[q].session] = i]
    /\ UNCHANGED <<provider, cancel, closed, disk, calls, bounds>>

-----------------------------------------------------------------------------
(* _execute *)

others == <<provider, record, request, cancel, closed, disk, bounds>>

\* _tasks after the task of a run that began is over.
Dropped(i) == IF task[run[i].session] = i
              THEN [task EXCEPT ![run[i].session] = 0] ELSE task

\* The step to `at' that gives the record a status and stores it.
Marks(i, at, status) ==
    /\ run' = [run EXCEPT ![i].at = at, ![i].status = status]
    /\ calls' = calls \cup {Call(Task(i), run[i].session, status, NoResult)}
    /\ UNCHANGED task

\* The status is stored as pending and then as running.
Begin(i) ==
    /\ run[i].at = "new"
    /\ Marks(i, "pending", "pending")
    /\ UNCHANGED others

Announce(i) ==
    /\ run[i].at = "pending" /\ ~Awaits(Task(i))
    /\ Marks(i, "running", "running")
    /\ UNCHANGED others

\* The merged result of the chunks is saved under the run's revision.
Saves(i, parts) ==
    /\ run' = [run EXCEPT ![i].at = "saving", ![i].parts = parts]
    /\ calls' = calls \cup {Call(Task(i), run[i].session, "completed",
                                 [revision |-> run[i].revision, parts |-> parts])}
    /\ UNCHANGED task

\* What follows the status: the none provider has nothing to say, a session
\* without segments needs no provider, and the others are asked.
Proceed(i) ==
    /\ run[i].at = "running" /\ ~Awaits(Task(i))
    /\ \/ /\ run[i].by = NoneProvider
          /\ run' = [run EXCEPT ![i].at = "skipping", ![i].status = "not_started",
                                ![i].result = Blank]
          /\ calls' = calls \cup {Call(Task(i), run[i].session, "not_started", NoResult)}
          /\ UNCHANGED task
       \/ /\ run[i].by # NoneProvider
          /\ Segments(run[i].session) = {}
          /\ Saves(i, {})
       \/ /\ run[i].by # NoneProvider
          /\ Segments(run[i].session) # {}
          /\ run' = [run EXCEPT ![i].at = "asking"]
          /\ UNCHANGED <<calls, task>>
    /\ UNCHANGED others

\* validate_evidence: an item needs evidence, and it is of the chunk.  The
\* answer may have no item and an undecided purpose, and then cites nothing.
Valid(i, cites) == cites \subseteq Chunk(run[i].session, run[i].chunk)

Answer(i, cites) ==
    /\ run[i].at = "asking"
    /\ Valid(i, cites)
    /\ LET parts == run[i].parts \cup {[chunk |-> run[i].chunk, cites |-> cites]}
           rest == Rest(run[i].session, run[i].chunk)
       IN  \/ \E next \in rest :
                /\ \A j \in rest : next <= j
                /\ run' = [run EXCEPT ![i].chunk = next, ![i].attempt = 0,
                                      ![i].parts = parts]
                /\ UNCHANGED <<calls, task>>
           \/ rest = {} /\ Saves(i, parts)
    /\ UNCHANGED others

\* A timeout, a refused connection, a rate limit: asked again after a pause.
Retryable(i) ==
    /\ run[i].at = "asking"
    /\ run[i].attempt < MaxRetries
    /\ run' = [run EXCEPT ![i].at = "pausing"]
    /\ UNCHANGED <<task, calls, others>>

AskAgain(i) ==
    /\ run[i].at = "pausing"
    /\ run' = [run EXCEPT ![i].at = "asking", ![i].attempt = @ + 1]
    /\ UNCHANGED <<task, calls, others>>

\* The last attempt fails, or the error or the evidence is final.
Fail(i) ==
    /\ run[i].at = "asking"
    /\ Marks(i, "failing", "failed")
    /\ UNCHANGED others

\* The record of a run whose result was saved.
Completes(i) ==
    [run[i] EXCEPT !.at = "announcing", !.status = "completed",
        !.result = [revision |-> run[i].revision, parts |-> run[i].parts]]

Saved(i) ==
    /\ run[i].at = "saving" /\ ~Awaits(Task(i))
    /\ run' = [run EXCEPT ![i] = Completes(i)]
    /\ UNCHANGED <<task, calls, others>>

\* The last call or emission of the task is over.
End(i) ==
    /\ run[i].at \in {"skipping", "announcing", "cancelling", "failing"}
    /\ ~Awaits(Task(i))
    /\ run' = [run EXCEPT ![i] = Over(i)]
    /\ task' = Dropped(i)
    /\ UNCHANGED <<calls, others>>

\* A call fails: a status that could not be stored is logged and no more, a
\* result that could not be saved fails the run that waits for it.
CallFails(c) ==
    /\ c \in calls
    /\ faults < MaxFaults
    /\ faults' = faults + 1
    /\ IF c.status = "completed" /\ c.who # Nobody
       THEN /\ run' = [run EXCEPT ![c.who[2]].at = "failing", ![c.who[2]].status = "failed"]
            /\ calls' = (calls \ {c}) \cup {Call(c.who, c.session, "failed", NoResult)}
       ELSE /\ calls' = calls \ {c}
            /\ UNCHANGED run
    /\ UNCHANGED <<provider, record, task, request, cancel, closed, disk, orders>>

-----------------------------------------------------------------------------
(* Cancellation *)

\* A cancelled task leaves its call behind.
Abandoned(dead) == {c \in calls : c.who \in {Task(i) : i \in dead}}
Left(dead) == (calls \ Abandoned(dead)) \cup {[c EXCEPT !.who = Nobody] : c \in Abandoned(dead)}

\* A task that has not begun, or that is in the handler of an exception, is
\* over at once; elsewhere the handler of CancelledError marks the record.
Handles(i) == run[i].at \notin {"new", "cancelling", "failing"}

\* task.cancel() of live tasks.
Cut(dead) ==
    /\ run' = [i \in Runs |->
                 IF i \notin dead THEN run[i]
                 ELSE IF Handles(i)
                 THEN [run[i] EXCEPT !.at = "cancelling", !.status = "cancelled"]
                 ELSE Over(i)]
    /\ calls' = Left(dead) \cup
                  {Call(Task(i), run[i].session, "cancelled", NoResult) :
                     i \in {j \in dead : Handles(j)}}
    /\ task' = [s \in Sessions |->
                  IF task[s] \in dead /\ ~Handles(task[s]) /\ run[task[s]].at # "new"
                  THEN 0 ELSE task[s]]

\* What waits for the tasks it cancelled, then for the status of a record.
Idle == [at |-> "idle", of |-> {}, to |-> None]
Cancels(who, of, to) ==
    cancel' = [cancel EXCEPT ![who] = [at |-> "gathering", of |-> of, to |-> to]]

\* cancel: the request of a page
CancelAsked(s) ==
    /\ orders < MaxOrders
    /\ orders' = orders + 1
    /\ cancel["user"] = Idle
    /\ ~closed
    /\ s \in Running
    /\ Cut({task[s]})
    /\ Cancels("user", {task[s]}, None)
    /\ UNCHANGED <<provider, record, request, closed, disk, faults>>

\* switch_provider, after the health check of the new provider.
Switch(p) ==
    /\ orders < MaxOrders
    /\ orders' = orders + 1
    /\ cancel["switch"] = Idle
    /\ ~closed
    /\ p # provider
    /\ \/ /\ Running = {}
          /\ provider' = p
          /\ UNCHANGED <<run, task, cancel, calls>>
       \/ /\ Running # {}
          /\ LET dead == {task[s] : s \in Running} IN
             /\ Cut(dead)
             /\ Cancels("switch", dead, p)
          /\ UNCHANGED provider
    /\ UNCHANGED <<record, request, closed, disk, faults>>

Shutdown ==
    /\ ~closed
    /\ closed' = TRUE
    /\ LET dead == {task[s] : s \in Running} IN
       /\ Cut(dead)
       /\ Cancels("shutdown", dead, None)
    /\ UNCHANGED <<provider, record, request, disk, bounds>>

\* The last step for a cancelled run: its session's entry of _tasks goes,
\* whatever it holds by now, and a switch gets its provider.
Forgets(who, i) ==
    LET left == cancel[who].of \ {i} IN
    /\ cancel' = [cancel EXCEPT ![who] =
                    IF left = {} THEN Idle ELSE [@ EXCEPT !.at = "gathering", !.of = left]]
    /\ task' = [task EXCEPT ![run[i].session] = 0]
    /\ provider' = IF who = "switch" THEN cancel[who].to ELSE provider

\* The tasks are gathered; _ensure_cancelled_state looks at the record that
\* the session has now.
Ensure(who, i) ==
    /\ cancel[who].at = "gathering"
    /\ i \in cancel[who].of
    /\ \A j \in cancel[who].of : ~Live(j)
    /\ LET s == run[i].session
           j == record[s]
       IN  \/ /\ run[j].status = "cancelled"
              /\ Forgets(who, i)
              /\ UNCHANGED <<run, calls>>
           \/ /\ run[j].status # "cancelled"
              /\ run' = [run EXCEPT ![j].status = "cancelled"]
              /\ calls' = calls \cup {Call(Canceller(who), s, "cancelled", NoResult)}
              /\ cancel' = [cancel EXCEPT ![who].at = "storing"]
              /\ UNCHANGED <<task, provider>>
    /\ UNCHANGED <<record, request, closed, disk, bounds>>

Ensured(who, i) ==
    /\ cancel[who].at = "storing"
    /\ i \in cancel[who].of
    /\ ~Awaits(Canceller(who))
    /\ Forgets(who, i)
    /\ UNCHANGED <<run, record, request, closed, disk, calls, bounds>>

\* shutdown with nothing to cancel
Emptied ==
    /\ cancel["shutdown"].at = "gathering" /\ cancel["shutdown"].of = {}
    /\ cancel' = [cancel EXCEPT !["shutdown"] = Idle]
    /\ UNCHANGED <<provider, run, record, task, request, closed, disk, calls, bounds>>

-----------------------------------------------------------------------------
\* The server is killed and comes back: what it had in memory is gone.
Crash ==
    /\ faults < MaxFaults
    /\ faults' = faults + 1
    /\ provider' \in Providers
    /\ run' = [i \in Runs |-> IF run[i].at = "unused" THEN Unused
                              ELSE [Unused EXCEPT !.at = "over"]]
    /\ record' = [s \in Sessions |-> 0]
    /\ task' = record'
    /\ request' = [q \in Requests |-> Asked]
    /\ cancel' = [who \in DOMAIN cancel |-> Idle]
    /\ closed' = FALSE
    /\ calls' = {}
    /\ UNCHANGED <<disk, orders>>

Init ==
    /\ provider \in Providers
    /\ run = [i \in Runs |-> Unused]
    /\ record = [s \in Sessions |-> 0]
    /\ task = record
    /\ request = [q \in Requests |-> Asked]
    /\ cancel = [who \in {"user", "switch", "shutdown"} |-> Idle]
    /\ closed = FALSE
    /\ disk = [s \in Sessions |-> [status |-> "not_started", result |-> NoResult]]
    /\ calls = {}
    /\ orders = 0 /\ faults = 0

Execute(i) ==
    \/ Begin(i) \/ Announce(i) \/ Proceed(i)
    \/ \E cites \in Citations : Answer(i, cites)
    \/ Retryable(i) \/ AskAgain(i) \/ Fail(i) \/ Saved(i) \/ End(i)

Cancelling(who) == \E i \in Runs : Ensure(who, i) \/ Ensured(who, i)

Stop == Shutdown \/ Emptied

Next ==
    \/ \E q \in Requests :
         (\E s \in Sessions : Submit(q, s)) \/ Load(q) \/ Register(q)
    \/ \E i \in Runs : Execute(i)
    \/ \E c \in calls : Store(c) \/ CallFails(c)
    \/ \E s \in Sessions : CancelAsked(s)
    \/ \E p \in Providers : Switch(p)
    \/ \E who \in DOMAIN cancel : Cancelling(who)
    \/ Stop
    \/ Crash

Spec == Init /\ [][Next]_vars

-----------------------------------------------------------------------------
(* Properties *)

Status == {"not_started", "pending", "running", "completed", "failed", "cancelled"}

\* The types of the variables.
TypeOK ==
    /\ provider \in Providers
    /\ run \in [Runs -> [at : {"unused", "new", "pending", "running", "skipping",
                               "asking", "pausing", "saving", "announcing",
                               "cancelling", "failing", "over"},
                         session : Sessions \cup {None}, by : Providers \cup {None},
                         status : Status, revision : 0 .. MaxRuns,
                         result : Result, chunk : Nat, attempt : 0 .. MaxRetries,
                         parts : SUBSET Part]]
    /\ {record, task} \subseteq [Sessions -> Runs \cup {0}]
    /\ \A q \in Requests :
         /\ request[q].at \in {"none", "loading", "loaded"}
         /\ request[q].loaded.result \in Result
    /\ \A who \in DOMAIN cancel :
         /\ cancel[who].at \in {"idle", "gathering", "storing"}
         /\ cancel[who].of \subseteq Runs
    /\ closed \in BOOLEAN
    /\ disk \in [Sessions -> [status : Status, result : Result]]
    /\ \A c \in calls : c.session \in Sessions /\ c.status \in Status
    /\ orders \in 0 .. MaxOrders /\ faults \in 0 .. MaxFaults

\* The look under the lock before a run is registered: of any two sessions at
\* most one has a task that is not done, however the requests overlap.
OneTracked == Cardinality(Running) <= 1

\* "Only one session analysis runs at a time" (manager.py:49).
OneRun == Cardinality({i \in Runs : Live(i)}) <= 1

\* After the shutdown no task of _tasks is live, whichever requests were on
\* their way when it began.
ShutdownIsFinal == closed /\ cancel["shutdown"] = Idle => Running = {}

\* Tasks are tracked one at a time, and none outlives the shutdown.
TasksTracked == TypeOK /\ OneTracked /\ ShutdownIsFinal

\* Two segments may share a chunk.
Together(s, j, k) == k < j + MaxSegments /\ Span(s, j, k) <= MaxCharacters

\* An answer cites segments of its chunk, which keeps the limits (a segment on
\* its own may be longer).
Proper(s, part) ==
    LET chunk == Chunk(s, part.chunk) IN
    /\ part.chunk \in chunk /\ part.cites \subseteq chunk
    /\ \A j, k \in chunk : j < k => Together(s, j, k)

\* Each of the segments js was in one chunk that was answered, and no others.
Heard(s, parts, js) ==
    /\ \A part \in parts : Proper(s, part) /\ Chunk(s, part.chunk) \subseteq js
    /\ \A j \in js : \E part \in parts : j \in Chunk(s, part.chunk)
    /\ \A a, b \in parts : a # b => Chunk(s, a.chunk) \cap Chunk(s, b.chunk) = {}

\* A stored result rests on the whole session: whatever retries, cancellations,
\* left-behind calls and crashes came between, it was merged from an answer to
\* each chunk, which share out the segments, and cites what the answer was
\* shown (chunk_segments, validate_evidence, save_analysis).
ResultWhole ==
    \A s \in Sessions :
        disk[s].result.revision > 0 => Heard(s, disk[s].result.parts, Segments(s))

\* The result detail() shows of a session.
Shown(s) == Known(s).result

\* A result that was shown is never lost to a run that fails, that is cancelled
\* or that a crash ends; only a run of the none provider takes its place.
ResultKept ==
    [][\A s \in Sessions :
         Shown(s).revision > 0 =>
            \/ Shown(s)'.revision > 0
            \/ record'[s] # 0 /\ run'[record'[s]].result = Blank]_vars

\* A new run has a later revision than the stored result of its session and
\* than any run before it, whatever was loaded when it was asked for.
RevisionGrows ==
    [][\A i \in Runs :
         run[i].at = "unused" /\ run'[i].at = "new" =>
            LET s == run'[i].session IN
            /\ run'[i].revision > disk[s].result.revision
            /\ \A j \in Runs : run[j].session = s => run'[i].revision > run[j].revision]_vars

\* Results accumulate: each has a revision of its own, and stays until the next.
ResultsAccumulate == ResultKept /\ RevisionGrows
=============================================================================
