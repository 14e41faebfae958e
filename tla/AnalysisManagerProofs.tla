------------------------ MODULE AnalysisManagerProofs ------------------------
(***************************************************************************)
(* TasksTracked, ResultWhole and ResultsAccumulate hold for any number of  *)
(* sessions, providers, requests, runs and answers.  That no two tasks     *)
(* are tracked follows from the look under the lock, and from no other     *)
(* step bringing a task to life; that results accumulate, from what a      *)
(* request has loaded being the stored result as long as its session has   *)
(* no record; that they rest on the whole session, from a run having, of   *)
(* each chunk before the one it asks for, one part.                        *)
(***************************************************************************)
EXTENDS AnalysisManager, FiniteSetTheorems, TLAPS

-----------------------------------------------------------------------------
(* The inductive invariant *)

Places == {"unused", "new", "pending", "running", "skipping", "asking", "pausing",
           "saving", "announcing", "cancelling", "failing", "over"}
RunSet == [at : Places, session : Sessions \cup {None}, by : Providers \cup {None},
           status : Status, revision : 0 .. MaxRuns, result : Result, chunk : Nat,
           attempt : 0 .. MaxRetries, parts : SUBSET Part]
Cancellers == {"user", "switch", "shutdown"}
Loaded == [revision : 0 .. MaxRuns, result : Result]
RequestSet == [at : {"none", "loading", "loaded"}, session : Sessions \cup {None},
               loaded : Loaded]
CancelSet == [at : {"idle", "gathering", "storing"}, of : SUBSET Runs,
              to : Providers \cup {None}]
Callers == ({"run"} \X Runs) \cup ({"nobody", "user", "switch", "shutdown"} \X {0})
CallSet == [who : Callers, session : Sessions, status : Status, result : Result]
Stored == [status : Status, result : Result]

Types ==
    /\ provider \in Providers /\ run \in [Runs -> RunSet]
    /\ record \in [Sessions -> {0} \cup Runs] /\ task \in [Sessions -> {0} \cup Runs]
    /\ request \in [Requests -> RequestSet] /\ cancel \in [Cancellers -> CancelSet]
    /\ closed \in BOOLEAN /\ disk \in [Sessions -> Stored] /\ calls \in SUBSET CallSet
    /\ orders \in 0 .. MaxOrders /\ faults \in 0 .. MaxFaults

\* The runs there have been; they are used in the order of their numbers.
Used == {i \in Runs : run[i].at # "unused"}

\* A revision that was given, or none.
Given(r) == r = 0 \/ r \in Used

RunsSound ==
    /\ \A i \in Used, j \in Runs : j < i => j \in Used
    /\ \A i \in Runs : /\ i \notin Used => run[i] = Unused
                       /\ Live(i) => run[i].session \in Sessions /\ run[i].revision > 0
                       /\ run[i].at = "pausing" => run[i].attempt < MaxRetries
                       /\ Given(run[i].revision)
    /\ \A s \in Sessions : Given(task[s]) /\ Given(record[s])
    /\ \A q \in Requests :
         /\ Given(request[q].loaded.revision)
         /\ request[q].at # "none" => request[q].session \in Sessions
    /\ \A s \in Sessions : Given(disk[s].result.revision)
    /\ \A c \in calls : Given(c.result.revision)

\* What cancels knows whom, and a switch to which provider.
CancelSound ==
    /\ \A who \in Cancellers : \A i \in cancel[who].of : run[i].session \in Sessions
    /\ cancel["switch"].of # {} => cancel["switch"].to \in Providers

\* At most one session has a live task; once closed, only the shutdown has
\* still to see it end.
Tracked ==
    /\ \A s, t \in Running : s = t
    /\ closed => \A s \in Running :
                    /\ cancel["shutdown"].at = "gathering"
                    /\ task[s] \in cancel["shutdown"].of

\* Without a record nothing happens to a session, and what was loaded of it is
\* what is stored; the record is of the session's latest run.
Fresh(s) ==
    /\ \A i \in Runs : run[i].session # s
    /\ \A c \in calls : c.session # s
    /\ \A q \in Requests :
         request[q].at = "loaded" /\ request[q].session = s =>
            request[q].loaded = [revision |-> disk[s].result.revision,
                                 result |-> disk[s].result]
Latest(s) ==
    LET r == run[record[s]] IN
    /\ r.session = s
    /\ \A i \in Runs : run[i].session = s => run[i].revision <= r.revision
    /\ disk[s].result.revision <= r.revision
    /\ \A c \in calls : c.session = s => c.result.revision <= r.revision
Recorded == \A s \in Sessions : IF record[s] = 0 THEN Fresh(s) ELSE Latest(s)

\* A result on its way is of a run that waits for it, and of that call alone;
\* a run that waits no longer has a result on the disk.
Kept ==
    /\ \A c \in calls :
         c.status = "completed" =>
            /\ c.result.revision > 0
            /\ c.who = Nobody \/ \E i \in Runs : /\ c.who = Task(i) /\ run[i].at = "saving"
                                                 /\ run[i].session = c.session
    /\ \A c, d \in calls :
         c.status = "completed" /\ d.status = "completed" /\ c.who = d.who =>
            c.who = Nobody \/ c = d
    /\ \A i \in Runs :
         run[i].at = "saving" =>
            \/ \E c \in calls : c.who = Task(i) /\ c.status = "completed"
            \/ disk[run[i].session].result.revision > 0
    /\ \A i \in Runs :
         run[i].session \in Sessions /\ run[i].result.revision > 0 =>
            disk[run[i].session].result.revision > 0

IInv == Types /\ RunsSound /\ CancelSound /\ Tracked /\ Recorded /\ Kept

\* A run that has asked for no chunk has no parts; one that asks has those of
\* all segments before its chunk; and what is to be stored, or is, rests on the
\* whole session.
Progress(i) ==
    /\ run[i].at \in {"new", "pending", "running"} => run[i].chunk = 1 /\ run[i].parts = {}
    /\ run[i].at \in {"asking", "pausing"} =>
         /\ run[i].chunk \in Segments(run[i].session)
         /\ Heard(run[i].session, run[i].parts,
                  {j \in Segments(run[i].session) : j < run[i].chunk})
Whole(c) == c.status = "completed" => Heard(c.session, c.result.parts, Segments(c.session))
EvidenceInv ==
    /\ \A i \in Runs : Progress(i)
    /\ \A c \in calls : Whole(c)
    /\ ResultWhole

-----------------------------------------------------------------------------
(* Steps that register no run *)

\* No run comes to life, each keeps its session and its revision, and entries
\* of _tasks only go.
Steady ==
    /\ record' = record
    /\ \A i \in Runs :
         /\ run'[i].session = run[i].session /\ run'[i].revision = run[i].revision
         /\ IF i \in Used THEN run'[i].at # "unused" ELSE run'[i] = run[i]
         /\ run'[i].at \notin {"unused", "over"} => Live(i)
         /\ run'[i].at = "pausing" => run'[i].attempt < MaxRetries
    /\ \A s \in Sessions : task'[s] \in {0, task[s]}

\* A call is of one that was open, or of a run and of its revision at most.
Descends(d) ==
    \/ \E c \in calls : c.session = d.session /\ c.result = d.result
    \/ \E i \in Runs : /\ run[i].session = d.session
                       /\ d.result.revision \in {0, run[i].revision}
Heirs == \A d \in calls' : Descends(d)

LEMMA SteadyFacts ==
    ASSUME IInv, Steady, Types'
    PROVE /\ Used' = Used /\ Running' \subseteq Running
          /\ \A s \in Running' : task'[s] = task[s]
<1>1. Used' = Used
  BY DEF Steady, Used
<1>2. \A s \in Sessions : task'[s] # 0 => task'[s] = task[s] /\ task[s] \in Runs
  BY DEF Steady, IInv, Types
<1>3. \A s \in Running' : s \in Running /\ task'[s] = task[s]
  <2> SUFFICES ASSUME NEW s \in Sessions, task'[s] # 0,
                      run'[task'[s]].at \notin {"unused", "over"}
               PROVE s \in Running /\ task'[s] = task[s]
    BY DEF Running, Live
  <2>1. task'[s] = task[s] /\ task[s] \in Runs
    BY <1>2
  <2>2. Live(task[s])
    BY <2>1 DEF Steady
  <2> QED BY <2>1, <2>2 DEF Running
<1> QED BY <1>1, <1>3

LEMMA SteadyRuns ==
    ASSUME IInv, Steady, Types', Heirs, request' = request, disk' = disk
    PROVE RunsSound'
<1>1. Used' = Used
  BY SteadyFacts
<1>2. \A i \in Used', j \in Runs : j < i => j \in Used'
  BY <1>1 DEF IInv, RunsSound
<1>3. ASSUME NEW i \in Runs
      PROVE /\ i \notin Used' => run'[i] = Unused
            /\ Live(i)' => run'[i].session \in Sessions /\ run'[i].revision > 0
            /\ run'[i].at = "pausing" => run'[i].attempt < MaxRetries
            /\ Given(run[i].revision)'
  BY <1>1, <1>3 DEF Steady, IInv, RunsSound, Live, Given
<1>4. ASSUME NEW s \in Sessions
      PROVE Given(task[s])' /\ Given(record[s])' /\ Given(disk[s].result.revision)'
  BY <1>1, <1>4 DEF Steady, IInv, RunsSound, Given
<1>5. ASSUME NEW q \in Requests
      PROVE /\ Given(request[q].loaded.revision)'
            /\ request'[q].at # "none" => request'[q].session \in Sessions
  BY <1>1, <1>5 DEF IInv, RunsSound, Given
<1>6. ASSUME NEW d \in calls' PROVE d.result.revision = 0 \/ d.result.revision \in Used
  BY <1>6 DEF Heirs, Descends, IInv, RunsSound, Given
<1>7. \A d \in calls' : Given(d.result.revision)'
  BY <1>1, <1>6 DEF Given
<1> QED BY <1>2, <1>3, <1>4, <1>5, <1>7 DEF RunsSound

LEMMA SteadyRecords ==
    ASSUME IInv, Steady, Types', Heirs, request' = request, disk' = disk
    PROVE Recorded'
<1> SUFFICES ASSUME NEW s \in Sessions
             PROVE IF record'[s] = 0 THEN Fresh(s)' ELSE Latest(s)'
  BY DEF Recorded
<1>1. record' = record
  BY DEF Steady
<1>2. CASE record[s] = 0
  <2>1. Fresh(s)
    BY <1>2 DEF IInv, Recorded
  <2>2. \A i \in Runs : run'[i].session # s
    BY <2>1 DEF Fresh, Steady
  <2>3. \A d \in calls' : d.session # s
    BY <2>1 DEF Fresh, Heirs, Descends
  <2>4. Fresh(s)'
    BY <2>1, <2>2, <2>3 DEF Fresh
  <2> QED BY <1>1, <1>2, <2>4
<1>3. CASE record[s] # 0
  <2>1. Latest(s) /\ record[s] \in Runs
    BY <1>3 DEF IInv, Recorded, Types
  <2>2. /\ run'[record[s]].session = run[record[s]].session
        /\ run'[record[s]].revision = run[record[s]].revision
        /\ run[record[s]].revision \in Nat
    BY <2>1 DEF Steady, IInv, Types, RunSet
  <2>3. run'[record[s]].session = s /\ disk'[s].result.revision <= run'[record[s]].revision
    BY <2>1, <2>2 DEF Latest
  <2>4. \A i \in Runs : run'[i].session = s => run'[i].revision <= run'[record[s]].revision
    BY <2>1, <2>2 DEF Latest, Steady
  <2>5. ASSUME NEW d \in calls', d.session = s
        PROVE d.result.revision <= run'[record[s]].revision
    <3>1. CASE \E c \in calls : c.session = d.session /\ c.result = d.result
      BY <2>1, <2>2, <2>5, <3>1 DEF Latest
    <3>2. CASE \E i \in Runs : /\ run[i].session = d.session
                               /\ d.result.revision \in {0, run[i].revision}
      BY <2>1, <2>2, <2>5, <3>2 DEF Latest
    <3> QED BY <2>5, <3>1, <3>2 DEF Heirs, Descends
  <2>6. Latest(s)'
    BY <1>1, <2>3, <2>4, <2>5 DEF Latest
  <2> QED BY <1>1, <1>3, <2>6
<1> QED BY <1>2, <1>3

\* What cancels, and what is tracked, when nobody cancels.
LEMMA SteadyTracks ==
    ASSUME IInv, Steady, Types', cancel' = cancel, closed' = closed
    PROVE CancelSound' /\ Tracked'
<1>1. Running' \subseteq Running /\ \A s \in Running' : task'[s] = task[s]
  BY SteadyFacts
<1>2. CancelSound'
  <2>1. \A who \in Cancellers : cancel[who].of \subseteq Runs
    BY DEF IInv, Types, CancelSet
  <2> QED BY <2>1 DEF IInv, CancelSound, Steady
<1>3. Tracked'
  BY <1>1 DEF IInv, Tracked
<1> QED BY <1>2, <1>3

-----------------------------------------------------------------------------
(* The results *)

\* A run moves, or is marked, without a result to save before or after.
LEMMA KeptByMove ==
    ASSUME IInv, Types', disk' = disk, calls \subseteq calls',
           \A d \in calls' : d \in calls \/ d.status # "completed",
           NEW i \in Runs, \A j \in Runs : j # i => run'[j] = run[j],
           run'[i].session = run[i].session,
           run[i].at = "saving" <=> run'[i].at = "saving",
           run'[i].result = run[i].result \/ run'[i].result.revision = 0
    PROVE Kept'
<1>1. ASSUME NEW c \in calls', c.status = "completed"
      PROVE /\ c.result.revision > 0
            /\ c.who = Nobody \/ \E k \in Runs : /\ c.who = Task(k) /\ run'[k].at = "saving"
                                                 /\ run'[k].session = c.session
  <2>1. c \in calls
    BY <1>1
  <2>2. c.result.revision > 0
    BY <1>1, <2>1 DEF IInv, Kept
  <2>3. CASE c.who = Nobody
    BY <2>2, <2>3
  <2>4. CASE c.who # Nobody
    <3>1. PICK k \in Runs : c.who = Task(k) /\ run[k].at = "saving" /\ run[k].session = c.session
      BY <1>1, <2>1, <2>4 DEF IInv, Kept
    <3>2. run'[k].at = "saving" /\ run'[k].session = c.session
      BY <3>1
    <3> QED BY <2>2, <3>1, <3>2
  <2> QED BY <2>3, <2>4
<1>2. \A c, d \in calls' :
         c.status = "completed" /\ d.status = "completed" /\ c.who = d.who =>
            c.who = Nobody \/ c = d
  BY DEF IInv, Kept
<1>3. ASSUME NEW k \in Runs, run'[k].at = "saving"
      PROVE \/ \E c \in calls' : c.who = Task(k) /\ c.status = "completed"
            \/ disk'[run'[k].session].result.revision > 0
  <2>1. run[k].at = "saving" /\ run'[k].session = run[k].session
    BY <1>3
  <2> QED BY <2>1 DEF IInv, Kept
<1>4. ASSUME NEW k \in Runs, run'[k].session \in Sessions, run'[k].result.revision > 0
      PROVE disk'[run'[k].session].result.revision > 0
  <2>1. run'[k].session = run[k].session /\ (run'[k].result = run[k].result \/ run'[k].result.revision = 0)
    BY <1>4
  <2>2. run'[k].result = run[k].result
    BY <1>4, <2>1
  <2> QED BY <1>4, <2>1, <2>2 DEF IInv, Kept
<1> QED BY <1>1, <1>2, <1>3, <1>4 DEF Kept
-----------------------------------------------------------------------------
(* _execute *)

LEMMA RevisionsAre == MaxRuns \in Nat
BY AnalysisAssumption

\* The segments of a session are numbered from 1, and so are their ends.
LEMMA SegmentsAre ==
    ASSUME NEW s \in Sessions
    PROVE /\ Ends[s] \in Seq(Nat) /\ Segments(s) = 1 .. Len(Ends[s]) /\ Len(Ends[s]) \in Nat
          /\ \A j \in Segments(s) : j \in Nat /\ j >= 1 /\ Ends[s][j] \in Nat
<1>1. Ends[s] \in Seq(Nat)
  BY AnalysisAssumption
<1> QED BY <1>1 DEF Segments


\* The run i goes on as r.
Goes(i, r) ==
    /\ run' = [run EXCEPT ![i] = r]
    /\ r \in RunSet /\ r.at # "unused"
    /\ r.session = run[i].session /\ r.revision = run[i].revision
    /\ r.at = "pausing" => r.attempt < MaxRetries

LEMMA StringsDiffer ==
    /\ \A i, j : Task(i) = Task(j) => i = j
    /\ \A i : Task(i) # Nobody /\ \A who \in Cancellers : Task(i) # Canceller(who)
    /\ \A who \in Cancellers : Canceller(who) # Nobody
BY DEF Task, Nobody, Canceller, Cancellers

LEMMA GoesOn ==
    ASSUME IInv, NEW i \in Runs, Live(i), NEW r, Goes(i, r), UNCHANGED others,
           task' = task \/ task' = [task EXCEPT ![run[i].session] = 0],
           calls' \in SUBSET CallSet, Heirs
    PROVE /\ Types' /\ RunsSound' /\ CancelSound' /\ Tracked' /\ Recorded'
          /\ run'[i] = r /\ run'[i].session = run[i].session
          /\ \A j \in Runs : j # i => run'[j] = run[j]
<1>1. run' \in [Runs -> RunSet] /\ run'[i] = r /\ \A j \in Runs : j # i => run'[j] = run[j]
  BY DEF Goes, IInv, Types
<1>2. /\ task' \in [Sessions -> {0} \cup Runs]
      /\ \A s \in Sessions : task'[s] \in {0, task[s]}
  BY DEF IInv, Types
<1>3. Types'
  BY <1>1, <1>2 DEF IInv, Types, others, bounds
<1>4. Steady
  <2>1. record' = record
    BY DEF others
  <2>2. ASSUME NEW j \in Runs
        PROVE /\ run'[j].session = run[j].session /\ run'[j].revision = run[j].revision
              /\ IF j \in Used THEN run'[j].at # "unused" ELSE run'[j] = run[j]
              /\ run'[j].at \notin {"unused", "over"} => Live(j)
              /\ run'[j].at = "pausing" => run'[j].attempt < MaxRetries
    <3>1. CASE j = i
      BY <1>1, <3>1 DEF Goes, Live, Used
    <3>2. CASE j # i
      BY <1>1, <3>2 DEF Live, Used, IInv, RunsSound
    <3> QED BY <3>1, <3>2
  <2> QED BY <1>2, <2>1, <2>2 DEF Steady
<1>5. RunsSound' /\ Recorded'
  BY <1>3, <1>4, SteadyRuns, SteadyRecords DEF others
<1>6. CancelSound' /\ Tracked'
  BY <1>3, <1>4, SteadyTracks DEF others
<1> QED BY <1>1, <1>3, <1>5, <1>6 DEF Goes

\* What a live run is.
LEMMA LiveRun ==
    ASSUME IInv, NEW i \in Runs, Live(i)
    PROVE /\ run[i] \in RunSet /\ run[i].session \in Sessions
          /\ run[i].revision \in 1 .. MaxRuns
BY AnalysisAssumption DEF IInv, Types, RunsSound, RunSet

LEMMA NewCall ==
    ASSUME IInv, NEW i \in Runs, run[i].session \in Sessions, NEW who \in Callers,
           NEW st \in Status, NEW res \in Result, res.revision \in {0, run[i].revision},
           calls' = calls \cup {Call(who, run[i].session, st, res)}
    PROVE calls' \in SUBSET CallSet /\ Heirs
<1>1. Call(who, run[i].session, st, res) \in CallSet
  BY DEF Call, CallSet
<1>2. Descends(Call(who, run[i].session, st, res))
  BY DEF Descends, Call
<1>3. \A c \in calls : Descends(c)
  BY DEF Descends
<1> QED BY <1>1, <1>2, <1>3 DEF Heirs, IInv, Types

LEMMA NoResultIs == NoResult \in Result /\ NoResult.revision = 0 /\ Blank \in Result /\ Blank.revision = 0
BY AnalysisAssumption DEF NoResult, Blank, Result, Part

LEMMA TaskCalls == ASSUME NEW i \in Runs PROVE Task(i) \in Callers
BY DEF Task, Callers

LEMMA CallsStay == ASSUME calls' = calls PROVE Heirs
BY DEF Heirs, Descends

\* A status is stored by a run that has no result to save.
LEMMA MarksKeep ==
    ASSUME IInv, NEW i \in Runs, Live(i), NEW at, NEW st, Marks(i, at, st), UNCHANGED others,
           run[i].at # "saving", at \in Places \ {"saving", "unused", "pausing"},
           st \in Status \ {"completed"}
    PROVE IInv'
<1>1. PICK r : r = [run[i] EXCEPT !.at = at, !.status = st]
  OBVIOUS
<1>2. run[i] \in RunSet /\ run[i].session \in Sessions
  BY LiveRun
<1>3. /\ r \in RunSet /\ r.at = at /\ r.session = run[i].session
      /\ r.revision = run[i].revision /\ r.result = run[i].result
  BY <1>1, <1>2 DEF RunSet
<1>4. run' = [run EXCEPT ![i] = r]
  BY <1>1 DEF Marks, IInv, Types
<1>5. Goes(i, r)
  BY <1>3, <1>4 DEF Goes
<1>6. calls' \in SUBSET CallSet /\ Heirs
  BY <1>2, NewCall, TaskCalls, NoResultIs DEF Marks
<1>7. /\ Types' /\ RunsSound' /\ CancelSound' /\ Tracked' /\ Recorded'
      /\ run'[i] = r /\ run'[i].session = run[i].session
      /\ \A j \in Runs : j # i => run'[j] = run[j]
  BY <1>5, <1>6, GoesOn DEF Marks
<1>8. calls \subseteq calls' /\ \A d \in calls' : d \in calls \/ d.status # "completed"
  BY DEF Marks, Call
<1>9. Kept'
  BY <1>3, <1>7, <1>8, KeptByMove DEF others
<1> QED BY <1>7, <1>9 DEF IInv

\* A run goes on without a call, and without a result to save.
LEMMA SilentKeeps ==
    ASSUME IInv, NEW i \in Runs, Live(i), NEW r, Goes(i, r), UNCHANGED <<task, calls, others>>,
           run[i].at # "saving", r.at # "saving", r.result = run[i].result
    PROVE IInv'
<1>1. calls' \in SUBSET CallSet /\ Heirs
  BY CallsStay DEF IInv, Types
<1>2. /\ Types' /\ RunsSound' /\ CancelSound' /\ Tracked' /\ Recorded'
      /\ run'[i] = r /\ run'[i].session = run[i].session
      /\ \A j \in Runs : j # i => run'[j] = run[j]
  BY <1>1, GoesOn
<1>3. Kept'
  BY <1>2, KeptByMove DEF others
<1> QED BY <1>2, <1>3 DEF IInv

\* The result is handed to the repository.
LEMMA SavesKeeps ==
    ASSUME IInv, NEW i \in Runs, Live(i), NEW parts \in SUBSET Part, Saves(i, parts),
           UNCHANGED others, run[i].at # "saving"
    PROVE IInv'
<1>1. PICK r : r = [run[i] EXCEPT !.at = "saving", !.parts = parts]
  OBVIOUS
<1>2. PICK res : res = [revision |-> run[i].revision, parts |-> parts]
  OBVIOUS
<1>3. /\ run[i] \in RunSet /\ run[i].session \in Sessions
      /\ run[i].revision \in 1 .. MaxRuns
  BY LiveRun
<1>4. /\ r \in RunSet /\ r.at = "saving" /\ r.session = run[i].session
      /\ r.revision = run[i].revision /\ r.result = run[i].result
  BY <1>1, <1>3 DEF RunSet, Places
<1>5. res \in Result /\ res.revision = run[i].revision /\ res.revision > 0
  BY <1>2, <1>3 DEF Result
<1>6. Goes(i, r)
  <2>1. run' = [run EXCEPT ![i] = r]
    BY <1>1 DEF Saves, IInv, Types
  <2> QED BY <1>4, <2>1 DEF Goes
<1>7. PICK e : e = Call(Task(i), run[i].session, "completed", res)
  OBVIOUS
<1>8. /\ calls' = calls \cup {e}
      /\ e.who = Task(i) /\ e.session = run[i].session /\ e.status = "completed" /\ e.result = res
  BY <1>2, <1>7 DEF Saves, Call
<1>9. calls' \in SUBSET CallSet /\ Heirs
  BY <1>3, <1>5, <1>7, <1>8, NewCall, TaskCalls DEF Status
<1>10. /\ Types' /\ RunsSound' /\ CancelSound' /\ Tracked' /\ Recorded'
       /\ run'[i] = r /\ run'[i].session = run[i].session
       /\ \A j \in Runs : j # i => run'[j] = run[j]
  BY <1>6, <1>9, GoesOn DEF Saves
<1>11. \A c \in calls : c.status = "completed" => c.who # Task(i)
  BY StringsDiffer DEF IInv, Kept
<1>12. Kept'
  <2>1. ASSUME NEW c \in calls', c.status = "completed"
        PROVE /\ c.result.revision > 0
              /\ c.who = Nobody \/ \E k \in Runs : /\ c.who = Task(k) /\ run'[k].at = "saving"
                                                   /\ run'[k].session = c.session
    <3>1. CASE c = e
      BY <1>4, <1>5, <1>8, <1>10, <3>1
    <3>2. CASE c \in calls
      <4>1. c.result.revision > 0
        BY <2>1, <3>2 DEF IInv, Kept
      <4>2. CASE c.who = Nobody
        BY <4>1, <4>2
      <4>3. CASE c.who # Nobody
        <5>1. PICK k \in Runs : c.who = Task(k) /\ run[k].at = "saving" /\ run[k].session = c.session
          BY <2>1, <3>2, <4>3 DEF IInv, Kept
        <5> QED BY <4>1, <5>1, <1>10
      <4> QED BY <4>2, <4>3
    <3> QED BY <1>8, <2>1, <3>1, <3>2
  <2>2. ASSUME NEW c \in calls', NEW d \in calls', c.status = "completed",
               d.status = "completed", c.who = d.who
        PROVE c.who = Nobody \/ c = d
    BY <1>8, <1>11, <2>2 DEF IInv, Kept
  <2>3. ASSUME NEW k \in Runs, run'[k].at = "saving"
        PROVE \/ \E c \in calls' : c.who = Task(k) /\ c.status = "completed"
              \/ disk'[run'[k].session].result.revision > 0
    <3>1. CASE k = i
      BY <1>8, <3>1
    <3>2. CASE k # i
      BY <1>8, <1>10, <2>3, <3>2 DEF IInv, Kept, others
    <3> QED BY <3>1, <3>2
  <2>4. ASSUME NEW k \in Runs, run'[k].session \in Sessions, run'[k].result.revision > 0
        PROVE disk'[run'[k].session].result.revision > 0
    <3>1. run'[k].session = run[k].session /\ run'[k].result = run[k].result /\ disk' = disk
      BY <1>4, <1>10 DEF others
    <3> QED BY <2>4, <3>1 DEF IInv, Kept
  <2> QED BY <2>1, <2>2, <2>3, <2>4 DEF Kept
<1> QED BY <1>10, <1>12 DEF IInv
\* Whether a live run waits for its call, or is done with it, is all that the
\* steps of _execute differ in.
LEMMA BeginKeeps == ASSUME IInv, NEW i \in Runs, Begin(i) PROVE IInv'
BY MarksKeep DEF Begin, Live, Places, Status

LEMMA AnnounceKeeps == ASSUME IInv, NEW i \in Runs, Announce(i) PROVE IInv'
BY MarksKeep DEF Announce, Live, Places, Status

LEMMA FailKeeps == ASSUME IInv, NEW i \in Runs, Fail(i) PROVE IInv'
BY MarksKeep DEF Fail, Live, Places, Status

LEMMA ProceedKeeps == ASSUME IInv, NEW i \in Runs, Proceed(i) PROVE IInv'
<1>1. Live(i) /\ run[i].at = "running" /\ UNCHANGED others
  BY DEF Proceed, Live
<1>2. run[i] \in RunSet /\ run[i].session \in Sessions
  BY <1>1, LiveRun
<1>3. CASE /\ run' = [run EXCEPT ![i].at = "skipping", ![i].status = "not_started",
                                 ![i].result = Blank]
           /\ calls' = calls \cup {Call(Task(i), run[i].session, "not_started", NoResult)}
           /\ UNCHANGED task
  <2>1. PICK r : r = [run[i] EXCEPT !.at = "skipping", !.status = "not_started", !.result = Blank]
    OBVIOUS
  <2>2. /\ r \in RunSet /\ r.at = "skipping" /\ r.session = run[i].session
        /\ r.revision = run[i].revision /\ r.result.revision = 0
    BY <1>2, <2>1, NoResultIs DEF RunSet, Places, Status
  <2>3. Goes(i, r)
    <3>1. run' = [run EXCEPT ![i] = r]
      BY <1>3, <2>1 DEF IInv, Types
    <3> QED BY <2>2, <3>1 DEF Goes
  <2>4. calls' \in SUBSET CallSet /\ Heirs
    BY <1>2, <1>3, NewCall, TaskCalls, NoResultIs DEF Status
  <2>5. /\ Types' /\ RunsSound' /\ CancelSound' /\ Tracked' /\ Recorded'
        /\ run'[i] = r /\ run'[i].session = run[i].session
        /\ \A j \in Runs : j # i => run'[j] = run[j]
    BY <1>1, <1>3, <2>3, <2>4, GoesOn
  <2>6. calls \subseteq calls' /\ \A d \in calls' : d \in calls \/ d.status # "completed"
    BY <1>3 DEF Call
  <2>7. Kept'
    BY <1>1, <2>2, <2>5, <2>6, KeptByMove DEF others
  <2> QED BY <2>5, <2>7 DEF IInv
<1>4. CASE Saves(i, {})
  BY <1>1, <1>4, SavesKeeps
<1>5. CASE run' = [run EXCEPT ![i].at = "asking"] /\ UNCHANGED <<calls, task>>
  <2>1. PICK r : r = [run[i] EXCEPT !.at = "asking"]
    OBVIOUS
  <2>2. /\ r \in RunSet /\ r.at = "asking" /\ r.session = run[i].session
        /\ r.revision = run[i].revision /\ r.result = run[i].result
    BY <1>2, <2>1 DEF RunSet, Places
  <2>3. run' = [run EXCEPT ![i] = r]
    BY <1>5, <2>1 DEF IInv, Types
  <2>4. Goes(i, r)
    BY <2>2, <2>3 DEF Goes
  <2> QED BY <1>1, <1>5, <2>2, <2>4, SilentKeeps
<1> QED BY <1>3, <1>4, <1>5 DEF Proceed

LEMMA AnswerKeeps ==
    ASSUME IInv, NEW i \in Runs, NEW cites \in SUBSET Nat, Answer(i, cites) PROVE IInv'
<1>1. Live(i) /\ run[i].at = "asking" /\ UNCHANGED others
  BY DEF Answer, Live
<1>2. run[i] \in RunSet
  BY <1>1, LiveRun
<1>3. PICK parts : parts = run[i].parts \cup {[chunk |-> run[i].chunk, cites |-> cites]}
  OBVIOUS
<1>4. parts \in SUBSET Part
  <2>1. run[i].parts \in SUBSET Part /\ run[i].chunk \in Nat
    BY <1>2 DEF RunSet
  <2>2. [chunk |-> run[i].chunk, cites |-> cites] \in Part
    BY <2>1 DEF Part
  <2> QED BY <1>3, <2>1, <2>2
<1>5. ASSUME NEW next \in Rest(run[i].session, run[i].chunk),
             run' = [run EXCEPT ![i].chunk = next, ![i].attempt = 0, ![i].parts = parts],
             UNCHANGED <<calls, task>>
      PROVE IInv'
  <2>1. PICK r : r = [run[i] EXCEPT !.chunk = next, !.attempt = 0, !.parts = parts]
    OBVIOUS
  <2>2. /\ r \in RunSet /\ r.at = "asking" /\ r.session = run[i].session
        /\ r.revision = run[i].revision /\ r.result = run[i].result
    <3>1. next \in Nat /\ 0 \in 0 .. MaxRetries
      BY <1>1, LiveRun, SegmentsAre, AnalysisAssumption DEF Rest
    <3> QED BY <1>1, <1>2, <1>4, <2>1, <3>1 DEF RunSet
  <2>3. run' = [run EXCEPT ![i] = r]
    BY <1>5, <2>1 DEF IInv, Types
  <2>4. Goes(i, r)
    BY <2>2, <2>3 DEF Goes
  <2> QED BY <1>1, <1>5, <2>2, <2>4, SilentKeeps
<1>6. CASE Saves(i, parts)
  BY <1>1, <1>4, <1>6, SavesKeeps
<1> QED BY <1>3, <1>5, <1>6 DEF Answer

LEMMA PauseKeeps ==
    ASSUME IInv, NEW i \in Runs, Retryable(i) \/ AskAgain(i) PROVE IInv'
<1>1. /\ Live(i) /\ run[i].at \in {"asking", "pausing"} /\ run[i].attempt < MaxRetries
      /\ UNCHANGED <<task, calls, others>>
  BY DEF Retryable, AskAgain, Live, IInv, RunsSound
<1>2. run[i] \in RunSet
  BY <1>1, LiveRun
<1>3. CASE Retryable(i)
  <2>1. PICK r : r = [run[i] EXCEPT !.at = "pausing"]
    OBVIOUS
  <2>2. /\ r \in RunSet /\ r.at = "pausing" /\ r.session = run[i].session
        /\ r.revision = run[i].revision /\ r.result = run[i].result /\ r.attempt < MaxRetries
    BY <1>1, <1>2, <2>1 DEF RunSet, Places
  <2>3. run' = [run EXCEPT ![i] = r]
    BY <1>3, <2>1 DEF Retryable, IInv, Types
  <2>4. Goes(i, r)
    BY <2>2, <2>3 DEF Goes
  <2> QED BY <1>1, <2>2, <2>4, SilentKeeps
<1>4. CASE AskAgain(i)
  <2>1. PICK r : r = [run[i] EXCEPT !.at = "asking", !.attempt = @ + 1]
    OBVIOUS
  <2>2. /\ r \in RunSet /\ r.at = "asking" /\ r.session = run[i].session
        /\ r.revision = run[i].revision /\ r.result = run[i].result
    <3>1. run[i].attempt + 1 \in 0 .. MaxRetries
      BY <1>1, <1>2, AnalysisAssumption DEF RunSet
    <3> QED BY <1>2, <2>1, <3>1 DEF RunSet, Places
  <2>3. run' = [run EXCEPT ![i] = r]
    BY <1>4, <2>1 DEF AskAgain, IInv, Types
  <2>4. Goes(i, r)
    BY <2>2, <2>3 DEF Goes
  <2> QED BY <1>1, <2>2, <2>4, SilentKeeps
<1> QED BY <1>3, <1>4

LEMMA OverIs ==
    ASSUME IInv, NEW i \in Runs
    PROVE /\ Over(i) \in RunSet /\ Over(i).at = "over" /\ Over(i).session = run[i].session
          /\ Over(i).revision = run[i].revision /\ Over(i).result = run[i].result
<1>1. run[i] \in RunSet
  BY DEF IInv, Types
<1>2. 1 \in Nat /\ 0 \in 0 .. MaxRetries
  BY AnalysisAssumption
<1> QED BY <1>1, <1>2 DEF Over, Unused, RunSet, Places

LEMMA EndKeeps == ASSUME IInv, NEW i \in Runs, End(i) PROVE IInv'
<1>1. Live(i) /\ run[i].at # "saving" /\ UNCHANGED <<calls, others>>
  BY DEF End, Live
<1>2. PICK r : r = Over(i)
  OBVIOUS
<1>3. /\ r \in RunSet /\ r.at = "over" /\ r.session = run[i].session
      /\ r.revision = run[i].revision /\ r.result = run[i].result
  BY <1>2, OverIs
<1>4. Goes(i, r)
  BY <1>2, <1>3 DEF End, Goes
<1>5. task' = task \/ task' = [task EXCEPT ![run[i].session] = 0]
  BY DEF End, Dropped
<1>6. calls' \in SUBSET CallSet /\ Heirs
  BY <1>1, CallsStay DEF IInv, Types
<1>7. /\ Types' /\ RunsSound' /\ CancelSound' /\ Tracked' /\ Recorded'
      /\ run'[i] = r /\ run'[i].session = run[i].session
      /\ \A j \in Runs : j # i => run'[j] = run[j]
  BY <1>1, <1>4, <1>5, <1>6, GoesOn
<1>8. Kept'
  BY <1>1, <1>3, <1>7, KeptByMove DEF others
<1> QED BY <1>7, <1>8 DEF IInv

\* The call of a run that no longer waits was carried out.
LEMMA SavedKeeps ==
    ASSUME IInv, NEW i \in Runs, Saved(i)
    PROVE IInv' /\ run'[i].result.revision > 0 /\ \A j \in Runs : j # i => run'[j] = run[j]
<1>1. Live(i) /\ run[i].at = "saving" /\ ~Awaits(Task(i)) /\ UNCHANGED <<task, calls, others>>
  BY DEF Saved, Live
<1>2. /\ run[i] \in RunSet /\ run[i].session \in Sessions
      /\ run[i].revision \in 1 .. MaxRuns
  BY <1>1, LiveRun
<1>3. PICK r : r = Completes(i)
  OBVIOUS
<1>4. /\ r \in RunSet /\ r.at = "announcing" /\ r.session = run[i].session
      /\ r.revision = run[i].revision /\ r.result.revision = run[i].revision
  BY <1>2, <1>3 DEF Completes, RunSet, Result, Places, Status
<1>5. Goes(i, r)
  BY <1>3, <1>4 DEF Goes, Saved
<1>6. calls' \in SUBSET CallSet /\ Heirs
  BY <1>1, CallsStay DEF IInv, Types
<1>7. /\ Types' /\ RunsSound' /\ CancelSound' /\ Tracked' /\ Recorded'
      /\ run'[i] = r /\ run'[i].session = run[i].session
      /\ \A j \in Runs : j # i => run'[j] = run[j]
  BY <1>1, <1>5, <1>6, GoesOn
<1>8. \A c \in calls : c.who # Task(i)
  BY <1>1 DEF Awaits
<1>9. disk[run[i].session].result.revision > 0
  BY <1>1, <1>8 DEF IInv, Kept
<1>10. Kept'
  <2>1. ASSUME NEW c \in calls', c.status = "completed"
        PROVE /\ c.result.revision > 0
              /\ c.who = Nobody \/ \E k \in Runs : /\ c.who = Task(k) /\ run'[k].at = "saving"
                                                   /\ run'[k].session = c.session
    <3>1. c \in calls /\ c.who # Task(i) /\ c.result.revision > 0
      BY <1>1, <1>8, <2>1 DEF IInv, Kept
    <3>2. CASE c.who # Nobody
      <4>1. PICK k \in Runs : c.who = Task(k) /\ run[k].at = "saving" /\ run[k].session = c.session
        BY <2>1, <3>1, <3>2 DEF IInv, Kept
      <4>2. k # i
        BY <3>1, <4>1
      <4> QED BY <1>7, <3>1, <4>1, <4>2
    <3> QED BY <3>1, <3>2
  <2>2. \A c, d \in calls' :
           c.status = "completed" /\ d.status = "completed" /\ c.who = d.who =>
              c.who = Nobody \/ c = d
    BY <1>1 DEF IInv, Kept
  <2>3. ASSUME NEW k \in Runs, run'[k].at = "saving"
        PROVE \/ \E c \in calls' : c.who = Task(k) /\ c.status = "completed"
              \/ disk'[run'[k].session].result.revision > 0
    <3>1. k # i /\ run'[k] = run[k]
      BY <1>4, <1>7, <2>3
    <3> QED BY <1>1, <2>3, <3>1 DEF IInv, Kept, others
  <2>4. ASSUME NEW k \in Runs, run'[k].session \in Sessions, run'[k].result.revision > 0
        PROVE disk'[run'[k].session].result.revision > 0
    <3>1. CASE k = i
      BY <1>1, <1>7, <1>9, <3>1 DEF others
    <3>2. CASE k # i
      BY <1>1, <1>7, <2>4, <3>2 DEF IInv, Kept, others
    <3> QED BY <3>1, <3>2
  <2> QED BY <2>1, <2>2, <2>3, <2>4 DEF Kept
<1> QED BY <1>2, <1>4, <1>7, <1>10 DEF IInv

LEMMA ExecuteKeeps == ASSUME IInv, NEW i \in Runs, Execute(i) PROVE IInv'
<1>1. ASSUME NEW cites \in Citations, Answer(i, cites)
      PROVE IInv'
  <2>1. cites \in SUBSET Nat
    BY AnalysisAssumption
  <2> QED BY <1>1, <2>1, AnswerKeeps
<1> QED BY <1>1, BeginKeeps, AnnounceKeeps, ProceedKeeps, PauseKeeps, FailKeeps,
          SavedKeeps, EndKeeps DEF Execute
-----------------------------------------------------------------------------
(* submit *)

\* Nothing happens to the runs, the calls or the disk.
LEMMA KeptStays == ASSUME IInv, UNCHANGED <<run, calls, disk>> PROVE Kept'
BY DEF IInv, Kept

LEMMA AskedIs ==
    /\ Asked \in RequestSet /\ Asked.at = "none" /\ Asked.loaded.revision = 0
BY NoResultIs, AnalysisAssumption DEF Asked, RequestSet, Loaded

LEMMA RestsSteady ==
    ASSUME IInv, UNCHANGED <<run, record, task>> PROVE Steady
BY DEF IInv, RunsSound, Steady, Used, Live

LEMMA SubmitKeeps ==
    ASSUME IInv, NEW q \in Requests, NEW s \in Sessions, Submit(q, s) PROVE IInv'
<1> DEFINE asking == [Asked EXCEPT !.at = "loading", !.session = s]
<1>1. /\ request' = [request EXCEPT ![q] = asking]
      /\ UNCHANGED <<provider, run, record, task, cancel, closed, disk, calls, bounds>>
  BY DEF Submit
<1>2. asking \in RequestSet /\ asking.at = "loading" /\ asking.session = s
      /\ asking.loaded.revision = 0
  BY AskedIs DEF RequestSet
<1> HIDE DEF asking
<1>3. /\ request' \in [Requests -> RequestSet] /\ request'[q] = asking
      /\ \A p \in Requests : p # q => request'[p] = request[p]
  BY <1>1, <1>2 DEF IInv, Types
<1>4. Types'
  BY <1>1, <1>3 DEF IInv, Types, bounds
<1>5. Used' = Used
  BY <1>1 DEF Used
<1>6. RunsSound'
  <2>1. \A p \in Requests : /\ Given(request[p].loaded.revision)'
                            /\ request'[p].at # "none" => request'[p].session \in Sessions
    BY <1>2, <1>3, <1>5 DEF IInv, RunsSound, Given
  <2> QED BY <1>1, <1>5, <2>1 DEF IInv, RunsSound, Given, Live
<1>7. CancelSound' /\ Tracked'
  BY <1>1, <1>4, RestsSteady, SteadyTracks
<1>8. Recorded'
  <2> SUFFICES ASSUME NEW t \in Sessions
               PROVE IF record'[t] = 0 THEN Fresh(t)' ELSE Latest(t)'
    BY DEF Recorded
  <2>1. CASE record[t] = 0
    <3>1. Fresh(t)
      BY <2>1 DEF IInv, Recorded
    <3>2. \A p \in Requests : request'[p].at = "loaded" => request'[p] = request[p]
      BY <1>2, <1>3
    <3> QED BY <1>1, <2>1, <3>1, <3>2 DEF Fresh
  <2>2. CASE record[t] # 0
    BY <1>1, <2>2 DEF IInv, Recorded, Latest
  <2> QED BY <2>1, <2>2
<1> QED BY <1>1, <1>4, <1>6, <1>7, <1>8, KeptStays DEF IInv

\* What is known of a session.
LEMMA KnownIs ==
    ASSUME IInv, NEW s \in Sessions
    PROVE /\ Known(s) \in Loaded /\ Given(Known(s).revision)
          /\ record[s] = 0 => Known(s) = [revision |-> disk[s].result.revision,
                                          result |-> disk[s].result]
          /\ record[s] # 0 => /\ record[s] \in Runs
                              /\ Known(s) = [revision |-> run[record[s]].revision,
                                             result |-> run[record[s]].result]
<1>1. disk[s].result \in Result /\ disk[s].result.revision \in 0 .. MaxRuns
      /\ Given(disk[s].result.revision)
  BY DEF IInv, Types, Stored, Result, RunsSound
<1>2. CASE record[s] = 0
  BY <1>1, <1>2 DEF Known, Loaded
<1>3. CASE record[s] # 0
  <2>1. record[s] \in Runs /\ run[record[s]] \in RunSet /\ Given(run[record[s]].revision)
    BY <1>3 DEF IInv, Types, RunsSound
  <2> QED BY <1>3, <2>1 DEF Known, Loaded, RunSet
<1> QED BY <1>2, <1>3

LEMMA LoadKeeps == ASSUME IInv, NEW q \in Requests, Load(q) PROVE IInv'
<1> DEFINE s == request[q].session
           asking == [request[q] EXCEPT !.at = "loaded", !.loaded = Known(s)]
<1>1. /\ request' = [request EXCEPT ![q] = asking]
      /\ UNCHANGED <<provider, run, record, task, cancel, closed, disk, calls, bounds>>
  BY DEF Load, IInv, Types
<1>2. s \in Sessions /\ request[q] \in RequestSet
  BY DEF Load, IInv, RunsSound, Types
<1>3. asking \in RequestSet /\ asking.at = "loaded" /\ asking.session = s
      /\ asking.loaded = Known(s)
  BY <1>2, KnownIs DEF RequestSet
<1> HIDE DEF asking
<1>4. /\ request' \in [Requests -> RequestSet] /\ request'[q] = asking
      /\ \A p \in Requests : p # q => request'[p] = request[p]
  BY <1>1, <1>3 DEF IInv, Types
<1>5. Types'
  BY <1>1, <1>4 DEF IInv, Types, bounds
<1>6. Used' = Used
  BY <1>1 DEF Used
<1>7. RunsSound'
  <2>1. ASSUME NEW p \in Requests
        PROVE /\ Given(request[p].loaded.revision)'
              /\ request'[p].at # "none" => request'[p].session \in Sessions
    <3>1. CASE p = q
      BY <1>2, <1>3, <1>4, <1>6, <3>1, KnownIs DEF Given
    <3>2. CASE p # q
      BY <1>4, <1>6, <3>2 DEF IInv, RunsSound, Given
    <3> QED BY <3>1, <3>2
  <2> QED BY <1>1, <1>6, <2>1 DEF IInv, RunsSound, Given, Live
<1>8. CancelSound' /\ Tracked'
  BY <1>1, <1>5, RestsSteady, SteadyTracks
<1>9. Recorded'
  <2> SUFFICES ASSUME NEW t \in Sessions
               PROVE IF record'[t] = 0 THEN Fresh(t)' ELSE Latest(t)'
    BY DEF Recorded
  <2>1. CASE record[t] = 0
    <3>1. Fresh(t)
      BY <2>1 DEF IInv, Recorded
    <3>2. ASSUME NEW p \in Requests, request'[p].at = "loaded", request'[p].session = t
          PROVE request'[p].loaded = [revision |-> disk'[t].result.revision,
                                      result |-> disk'[t].result]
      <4>1. CASE p = q
        BY <1>1, <1>2, <1>3, <1>4, <2>1, <3>2, <4>1, KnownIs
      <4>2. CASE p # q
        BY <1>1, <1>4, <3>1, <3>2, <4>2 DEF Fresh
      <4> QED BY <4>1, <4>2
    <3>3. (\A i \in Runs : run'[i].session # t) /\ \A c \in calls' : c.session # t
      BY <1>1, <3>1 DEF Fresh
    <3>4. Fresh(t)'
      BY <3>2, <3>3 DEF Fresh
    <3> QED BY <1>1, <2>1, <3>4
  <2>2. CASE record[t] # 0
    BY <1>1, <2>2 DEF IInv, Recorded, Latest
  <2> QED BY <2>1, <2>2
<1> QED BY <1>1, <1>5, <1>7, <1>8, <1>9, KeptStays DEF IInv

LEMMA RefuseKeeps ==
    ASSUME IInv, NEW q \in Requests, request' = [request EXCEPT ![q] = Asked],
           UNCHANGED <<provider, run, record, task, cancel, closed, disk, calls, bounds>>
    PROVE IInv'
<1>1. /\ request' \in [Requests -> RequestSet] /\ request'[q] = Asked
      /\ \A p \in Requests : p # q => request'[p] = request[p]
  BY AskedIs DEF IInv, Types
<1>2. Types'
  BY <1>1 DEF IInv, Types, bounds
<1>3. Used' = Used
  BY DEF Used
<1>4. RunsSound'
  <2>1. \A p \in Requests : /\ Given(request[p].loaded.revision)'
                            /\ request'[p].at # "none" => request'[p].session \in Sessions
    BY <1>1, <1>3, AskedIs DEF IInv, RunsSound, Given
  <2> QED BY <1>3, <2>1 DEF IInv, RunsSound, Given, Live
<1>5. CancelSound' /\ Tracked'
  BY <1>2, RestsSteady, SteadyTracks
<1>6. Recorded'
  <2> SUFFICES ASSUME NEW t \in Sessions
               PROVE IF record'[t] = 0 THEN Fresh(t)' ELSE Latest(t)'
    BY DEF Recorded
  <2>1. CASE record[t] = 0
    <3>1. Fresh(t)
      BY <2>1 DEF IInv, Recorded
    <3>2. \A p \in Requests : request'[p].at = "loaded" => request'[p] = request[p]
      BY <1>1, AskedIs
    <3> QED BY <2>1, <3>1, <3>2 DEF Fresh
  <2>2. CASE record[t] # 0
    BY <2>2 DEF IInv, Recorded, Latest
  <2> QED BY <2>1, <2>2
<1> QED BY <1>2, <1>4, <1>5, <1>6, KeptStays DEF IInv
\* A new run: none is tracked, its number is the next, and its revision is
\* later than all that the session had.
Registers(q, i) ==
    /\ request[q].at = "loaded" /\ ~Refused(q) /\ run[i].at = "unused"
    /\ \A j \in Runs : j < i => run[j].at # "unused"
    /\ run' = [run EXCEPT ![i] = Registered(q, i)]
    /\ record' = [record EXCEPT ![request[q].session] = i]
    /\ task' = [task EXCEPT ![request[q].session] = i]
    /\ request' = [request EXCEPT ![q] = Asked]
    /\ UNCHANGED <<provider, cancel, closed, disk, calls, bounds>>

LEMMA PreviousIs ==
    ASSUME IInv, NEW q \in Requests, request[q].at = "loaded", NEW s, s = request[q].session
    PROVE /\ s \in Sessions
          /\ Previous(q) \in Loaded /\ Given(Previous(q).revision)
          /\ record[s] = 0 => /\ Previous(q).revision = disk[s].result.revision
                              /\ Previous(q).result = disk[s].result
          /\ record[s] # 0 => /\ record[s] \in Runs
                              /\ Previous(q).revision = run[record[s]].revision
                              /\ Previous(q).result = run[record[s]].result
<1>1. s \in Sessions /\ request[q] \in RequestSet
  BY DEF IInv, RunsSound, Types
<1>2. CASE record[s] = 0
  <2>1. Previous(q) = request[q].loaded
    BY <1>2 DEF Previous
  <2>2. request[q].loaded = [revision |-> disk[s].result.revision, result |-> disk[s].result]
    BY <1>1, <1>2 DEF IInv, Recorded, Fresh
  <2>3. request[q].loaded \in Loaded /\ Given(request[q].loaded.revision)
    BY <1>1 DEF RequestSet, IInv, RunsSound
  <2> QED BY <1>1, <1>2, <2>1, <2>2, <2>3
<1>3. CASE record[s] # 0
  <2>1. Previous(q) = Known(s)
    BY <1>3 DEF Previous
  <2> QED BY <1>1, <1>3, <2>1, KnownIs
<1> QED BY <1>2, <1>3

LEMMA RegisterFacts ==
    ASSUME IInv, NEW q \in Requests, NEW i \in Runs, Registers(q, i),
           NEW s, s = request[q].session, NEW p, p = Previous(q)
    PROVE /\ s \in Sessions /\ Types'
          /\ run'[i] \in RunSet /\ run'[i].at = "new" /\ run'[i].session = s
          /\ run'[i].revision = p.revision + 1 /\ run'[i].result = p.result
          /\ p \in Loaded /\ p.revision + 1 \in 1 .. i
          /\ \A j \in Runs : j # i => run'[j] = run[j]
          /\ Used' = Used \cup {i} /\ i \notin Used /\ \A j \in Runs : j < i => j \in Used
          /\ record'[s] = i /\ task'[s] = i
          /\ \A t \in Sessions : t # s => record'[t] = record[t] /\ task'[t] = task[t]
          /\ request'[q] = Asked /\ \A r \in Requests : r # q => request'[r] = request[r]
<1>1. s \in Sessions /\ p \in Loaded /\ Given(p.revision)
  BY PreviousIs DEF Registers
<1>2. i \notin Used /\ \A j \in Runs : j < i => j \in Used
  BY DEF Registers, Used
<1>3. p.revision + 1 \in 1 .. i
  <2>1. i \in Nat /\ i >= 1 /\ p.revision \in Nat
    BY <1>1, AnalysisAssumption DEF Runs, Loaded
  <2>2. CASE p.revision = 0
    BY <2>1, <2>2
  <2>3. CASE p.revision \in Used
    <3>1. p.revision # i
      BY <1>2, <2>3
    <3>2. ~(i < p.revision)
      BY <1>2, <2>3 DEF IInv, RunsSound
    <3> QED BY <2>1, <3>1, <3>2
  <2> QED BY <1>1, <2>2, <2>3 DEF Given
<1>4. i \in Nat /\ i <= MaxRuns /\ MaxRuns \in Nat
  BY AnalysisAssumption DEF Runs
<1>5. PICK r : r = Registered(q, i)
  OBVIOUS
<1>6. /\ r.at = "new" /\ r.session = s /\ r.revision = p.revision + 1 /\ r.result = p.result
      /\ r = [at |-> "new", session |-> s, by |-> provider, status |-> "pending",
              revision |-> p.revision + 1, result |-> p.result, chunk |-> 1, attempt |-> 0,
              parts |-> {}]
  BY <1>5 DEF Registered, Unused
<1>7. r \in RunSet
  <2>1. p.revision + 1 \in 0 .. MaxRuns /\ 1 \in Nat /\ 0 \in 0 .. MaxRetries
    BY <1>3, <1>4, AnalysisAssumption
  <2>2. p.result \in Result /\ provider \in Providers
    BY <1>1 DEF Loaded, IInv, Types
  <2> QED BY <1>1, <1>6, <2>1, <2>2 DEF RunSet, Places, Status
<1>8. run' = [run EXCEPT ![i] = r]
  BY <1>5 DEF Registers
<1>9. run' \in [Runs -> RunSet] /\ run'[i] = r /\ \A j \in Runs : j # i => run'[j] = run[j]
  BY <1>7, <1>8 DEF IInv, Types
<1>10. Used' = Used \cup {i}
  BY <1>2, <1>6, <1>9 DEF Used
<1>11. /\ record' \in [Sessions -> {0} \cup Runs] /\ task' \in [Sessions -> {0} \cup Runs]
       /\ record'[s] = i /\ task'[s] = i
       /\ \A t \in Sessions : t # s => record'[t] = record[t] /\ task'[t] = task[t]
  BY <1>1 DEF IInv, Types, Registers
<1>12. /\ request' \in [Requests -> RequestSet] /\ request'[q] = Asked
       /\ \A t \in Requests : t # q => request'[t] = request[t]
  BY AskedIs DEF IInv, Types, Registers
<1>13. Types'
  BY <1>9, <1>11, <1>12 DEF IInv, Types, Registers, bounds
<1> QED BY <1>1, <1>2, <1>3, <1>6, <1>7, <1>9, <1>10, <1>11, <1>12, <1>13

\* The revision is later than all the session has had.
LEMMA RevisionIsNew ==
    ASSUME IInv, NEW q \in Requests, NEW i \in Runs, Registers(q, i),
           NEW s, s = request[q].session
    PROVE /\ run'[i].revision > disk[s].result.revision
          /\ \A j \in Runs : run[j].session = s => run'[i].revision > run[j].revision
          /\ \A c \in calls : c.session = s => run'[i].revision > c.result.revision
<1>1. PICK p : p = Previous(q)
  OBVIOUS
<1>2. s \in Sessions /\ run'[i].revision = p.revision + 1 /\ p.revision \in Nat
  <2>1. s \in Sessions /\ run'[i].revision = p.revision + 1 /\ p \in Loaded
    BY <1>1, RegisterFacts
  <2> QED BY <2>1, AnalysisAssumption DEF Loaded
<1>3. /\ \A j \in Runs : run[j].revision \in Nat
      /\ \A c \in calls : c.result.revision \in Nat
      /\ disk[s].result.revision \in Nat
  <2>1. \A j \in Runs : run[j] \in RunSet
    BY DEF IInv, Types
  <2>2. \A c \in calls : c \in CallSet
    BY DEF IInv, Types
  <2>3. disk[s] \in Stored
    BY <1>2 DEF IInv, Types
  <2> QED BY <2>1, <2>2, <2>3, AnalysisAssumption DEF RunSet, CallSet, Stored, Result
<1>4. CASE record[s] = 0
  <2>1. p.revision = disk[s].result.revision
    BY <1>1, <1>4, PreviousIs DEF Registers
  <2>2. Fresh(s)
    BY <1>2, <1>4 DEF IInv, Recorded
  <2> QED BY <1>2, <1>3, <2>1, <2>2 DEF Fresh
<1>5. CASE record[s] # 0
  <2>1. p.revision = run[record[s]].revision
    BY <1>1, <1>5, PreviousIs DEF Registers
  <2>2. Latest(s)
    BY <1>2, <1>5 DEF IInv, Recorded
  <2> QED BY <1>2, <1>3, <2>1, <2>2 DEF Latest
<1> QED BY <1>4, <1>5

\* A result of a session that has one is on the disk.
LEMMA ResultIsStored ==
    ASSUME IInv, NEW q \in Requests, request[q].at = "loaded", NEW s, s = request[q].session,
           Previous(q).result.revision > 0
    PROVE disk[s].result.revision > 0
<1>1. s \in Sessions
  BY PreviousIs
<1>2. CASE record[s] = 0
  BY <1>2, PreviousIs
<1>3. CASE record[s] # 0
  <2>1. record[s] \in Runs /\ Previous(q).result = run[record[s]].result
    BY <1>3, PreviousIs
  <2>2. run[record[s]].session = s
    BY <1>1, <1>3 DEF IInv, Recorded, Latest
  <2> QED BY <1>1, <2>1, <2>2 DEF IInv, Kept
<1> QED BY <1>2, <1>3

LEMMA RegistersKeeps ==
    ASSUME IInv, NEW q \in Requests, NEW i \in Runs, Registers(q, i) PROVE IInv'
<1>1. PICK s : s = request[q].session
  OBVIOUS
<1>2. PICK p : p = Previous(q)
  OBVIOUS
<1>3. /\ s \in Sessions /\ Types'
      /\ run'[i] \in RunSet /\ run'[i].at = "new" /\ run'[i].session = s
      /\ run'[i].revision = p.revision + 1 /\ run'[i].result = p.result
      /\ p \in Loaded /\ p.revision + 1 \in 1 .. i
      /\ \A j \in Runs : j # i => run'[j] = run[j]
      /\ Used' = Used \cup {i} /\ i \notin Used /\ \A j \in Runs : j < i => j \in Used
      /\ record'[s] = i /\ task'[s] = i
      /\ \A t \in Sessions : t # s => record'[t] = record[t] /\ task'[t] = task[t]
      /\ request'[q] = Asked /\ \A r \in Requests : r # q => request'[r] = request[r]
  BY <1>1, <1>2, RegisterFacts
<1>4. UNCHANGED <<provider, cancel, closed, disk, calls>> /\ ~closed /\ Running = {}
      /\ request[q].at = "loaded"
  BY DEF Registers, Refused
<1>5. run[i] = Unused /\ run[i].session \notin Sessions /\ ~Live(i)
  <2>1. run[i] = Unused
    BY <1>3 DEF IInv, RunsSound
  <2> QED BY <2>1, AnalysisAssumption DEF Unused, Live
<1>6. RunsSound'
  <2>1. \A k \in Used', j \in Runs : j < k => j \in Used'
    BY <1>3 DEF IInv, RunsSound
  <2>2. ASSUME NEW k \in Runs
        PROVE /\ k \notin Used' => run'[k] = Unused
              /\ Live(k)' => run'[k].session \in Sessions /\ run'[k].revision > 0
              /\ run'[k].at = "pausing" => run'[k].attempt < MaxRetries
              /\ Given(run[k].revision)'
    <3>1. CASE k = i
      <4>1. run'[i].revision \in 1 .. i /\ 1 .. i \subseteq Runs /\ i \in Nat
        BY <1>3, AnalysisAssumption DEF Runs
      <4>2. run'[i].revision = i \/ run'[i].revision < i
        BY <4>1
      <4>3. run'[i].revision \in Used'
        BY <1>3, <4>1, <4>2
      <4> QED BY <1>3, <3>1, <4>1, <4>3 DEF Given
    <3>2. CASE k # i
      BY <1>3, <3>2 DEF IInv, RunsSound, Live, Given
    <3> QED BY <3>1, <3>2
  <2>3. ASSUME NEW t \in Sessions
        PROVE Given(task[t])' /\ Given(record[t])' /\ Given(disk[t].result.revision)'
    BY <1>3, <1>4 DEF IInv, RunsSound, Given
  <2>4. ASSUME NEW r \in Requests
        PROVE /\ Given(request[r].loaded.revision)'
              /\ request'[r].at # "none" => request'[r].session \in Sessions
    BY <1>3, AskedIs DEF IInv, RunsSound, Given
  <2>5. \A c \in calls' : Given(c.result.revision)'
    BY <1>3, <1>4 DEF IInv, RunsSound, Given
  <2> QED BY <2>1, <2>2, <2>3, <2>4, <2>5 DEF RunsSound
<1>7. CancelSound'
  <2>1. ASSUME NEW who \in Cancellers, NEW k \in cancel'[who].of
        PROVE run'[k].session \in Sessions
    <3>1. k \in Runs /\ run[k].session \in Sessions
      BY <1>4, <2>1 DEF IInv, CancelSound, Types, CancelSet
    <3> QED BY <1>3, <1>5, <3>1
  <2> QED BY <1>4, <2>1 DEF IInv, CancelSound
<1>8. Tracked'
  <2>1. \A t \in Running' : t = s
    <3> SUFFICES ASSUME NEW t \in Sessions, t # s, task'[t] # 0,
                        run'[task'[t]].at \notin {"unused", "over"}
                 PROVE FALSE
      BY DEF Running, Live
    <3>1. task[t] \in Used /\ task'[t] = task[t] /\ task[t] # i
      BY <1>3 DEF IInv, RunsSound, Given
    <3>2. run'[task[t]] = run[task[t]]
      BY <1>3, <3>1 DEF Used
    <3>3. Live(task[t])
      BY <3>1, <3>2 DEF Live
    <3> QED BY <1>4, <3>1, <3>3 DEF Running
  <2> QED BY <1>4, <2>1 DEF Tracked
<1>9. Recorded'
  <2> SUFFICES ASSUME NEW t \in Sessions
               PROVE IF record'[t] = 0 THEN Fresh(t)' ELSE Latest(t)'
    BY DEF Recorded
  <2>1. CASE t = s
    <3>1. /\ run'[i].revision > disk[s].result.revision
          /\ \A j \in Runs : run[j].session = s => run'[i].revision > run[j].revision
          /\ \A c \in calls : c.session = s => run'[i].revision > c.result.revision
      BY <1>1, RevisionIsNew
    <3>2. run'[i].revision \in Nat /\ disk[s].result.revision \in Nat
      BY <1>3, RevisionsAre DEF RunSet, Runs, IInv, Types, Stored, Result
    <3>3. \A c \in calls : c.result.revision \in Nat
      BY RevisionsAre DEF IInv, Types, CallSet, Result
    <3>4. \A j \in Runs : run[j].revision \in Nat
      BY RevisionsAre DEF IInv, Types, RunSet
    <3>5. \A j \in Runs : run'[j].session = s => run'[j].revision <= run'[i].revision
      BY <1>3, <3>1, <3>2, <3>4
    <3>6. disk'[s].result.revision <= run'[i].revision
      BY <1>4, <3>1, <3>2
    <3>7. \A c \in calls' : c.session = s => c.result.revision <= run'[i].revision
      BY <1>4, <3>1, <3>2, <3>3
    <3>8. Latest(s)'
      BY <1>3, <3>5, <3>6, <3>7 DEF Latest
    <3>9. record'[s] # 0
      BY <1>3, AnalysisAssumption DEF Runs
    <3> QED BY <2>1, <3>8, <3>9
  <2>2. CASE t # s
    <3>1. record'[t] = record[t]
      BY <1>3, <2>2
    <3>2. CASE record[t] = 0
      <4>1. Fresh(t)
        BY <3>2 DEF IInv, Recorded
      <4>2. \A j \in Runs : run'[j].session # t
        BY <1>3, <2>2, <4>1 DEF Fresh
      <4>3. \A r \in Requests : request'[r].at = "loaded" => request'[r] = request[r]
        BY <1>3, AskedIs
      <4>4. Fresh(t)'
        BY <1>4, <4>1, <4>2, <4>3 DEF Fresh
      <4> QED BY <3>1, <3>2, <4>4
    <3>3. CASE record[t] # 0
      <4>1. Latest(t) /\ record[t] \in Used
        BY <3>3 DEF IInv, Recorded, RunsSound, Given
      <4>2. run'[record[t]] = run[record[t]]
        BY <1>3, <4>1 DEF Used
      <4>3. \A j \in Runs : run'[j].session = t => run'[j] = run[j]
        BY <1>3, <2>2
      <4>4. Latest(t)'
        BY <1>4, <3>1, <4>1, <4>2, <4>3 DEF Latest
      <4> QED BY <3>1, <3>3, <4>4
    <3> QED BY <3>2, <3>3
  <2> QED BY <2>1, <2>2
<1>10. Kept'
  <2>1. ASSUME NEW c \in calls', c.status = "completed"
        PROVE /\ c.result.revision > 0
              /\ c.who = Nobody \/ \E k \in Runs : /\ c.who = Task(k) /\ run'[k].at = "saving"
                                                   /\ run'[k].session = c.session
    <3>1. c \in calls /\ c.result.revision > 0
      BY <1>4, <2>1 DEF IInv, Kept
    <3>2. CASE c.who # Nobody
      <4>1. PICK k \in Runs : c.who = Task(k) /\ run[k].at = "saving" /\ run[k].session = c.session
        BY <2>1, <3>1, <3>2 DEF IInv, Kept
      <4>2. k # i
        BY <4>1, <1>3 DEF Used
      <4> QED BY <1>3, <3>1, <4>1, <4>2
    <3> QED BY <3>1, <3>2
  <2>2. \A c, d \in calls' :
           c.status = "completed" /\ d.status = "completed" /\ c.who = d.who =>
              c.who = Nobody \/ c = d
    BY <1>4 DEF IInv, Kept
  <2>3. ASSUME NEW k \in Runs, run'[k].at = "saving"
        PROVE \/ \E c \in calls' : c.who = Task(k) /\ c.status = "completed"
              \/ disk'[run'[k].session].result.revision > 0
    <3>1. k # i /\ run'[k] = run[k]
      BY <1>3, <2>3
    <3> QED BY <1>4, <2>3, <3>1 DEF IInv, Kept
  <2>4. ASSUME NEW k \in Runs, run'[k].session \in Sessions, run'[k].result.revision > 0
        PROVE disk'[run'[k].session].result.revision > 0
    <3>1. CASE k = i
      BY <1>1, <1>2, <1>3, <1>4, <2>4, <3>1, ResultIsStored
    <3>2. CASE k # i
      BY <1>3, <1>4, <2>4, <3>2 DEF IInv, Kept
    <3> QED BY <3>1, <3>2
  <2> QED BY <2>1, <2>2, <2>3, <2>4 DEF Kept
<1> QED BY <1>3, <1>6, <1>7, <1>8, <1>9, <1>10 DEF IInv

LEMMA RegisterKeeps == ASSUME IInv, NEW q \in Requests, Register(q) PROVE IInv'
<1>1. CASE UNCHANGED <<run, record, task>>
  BY <1>1, RefuseKeeps DEF Register
<1>2. CASE \E i \in Runs : Registers(q, i)
  BY <1>2, RegistersKeeps
<1> QED BY <1>1, <1>2 DEF Register, Registers
-----------------------------------------------------------------------------
(* The repository *)

LEMMA StoreKeeps == ASSUME IInv, NEW c \in calls, Store(c) PROVE IInv'
<1>1. c \in CallSet
  BY DEF IInv, Types
<1> DEFINE stored == [status |-> c.status,
                      result |-> IF c.status = "completed" THEN c.result
                                 ELSE disk[c.session].result]
<1>2. disk' = [disk EXCEPT ![c.session] = stored]
  BY DEF Store
<1>3. stored \in Stored /\ stored.result \in {c.result, disk[c.session].result}
      /\ stored.result = IF c.status = "completed" THEN c.result ELSE disk[c.session].result
  BY <1>1 DEF IInv, Types, Stored, CallSet
<1> HIDE DEF stored
<1>4. /\ disk' \in [Sessions -> Stored] /\ disk'[c.session] = stored
      /\ \A s \in Sessions : s # c.session => disk'[s] = disk[s]
  BY <1>1, <1>2, <1>3 DEF IInv, Types, CallSet
<1>5. /\ calls' = calls \ {c}
      /\ UNCHANGED <<provider, run, record, task, request, cancel, closed, orders, faults>>
  BY DEF Store, memory, bounds
<1>6. Types'
  BY <1>4, <1>5 DEF IInv, Types
<1>7. Used' = Used
  BY <1>5 DEF Used
<1>8. RunsSound'
  <2>1. \A s \in Sessions : disk'[s].result.revision = 0 \/ disk'[s].result.revision \in Used
    BY <1>3, <1>4 DEF IInv, RunsSound, Given
  <2>2. \A s \in Sessions : Given(disk[s].result.revision)'
    BY <1>7, <2>1 DEF Given
  <2>3. \A d \in calls' : Given(d.result.revision)'
    BY <1>5, <1>7 DEF IInv, RunsSound, Given
  <2> QED BY <1>5, <1>7, <2>2, <2>3 DEF IInv, RunsSound, Given, Live
<1>9. CancelSound' /\ Tracked'
  BY <1>5, <1>6, RestsSteady, SteadyTracks
<1>10. Recorded'
  <2> SUFFICES ASSUME NEW s \in Sessions
               PROVE IF record'[s] = 0 THEN Fresh(s)' ELSE Latest(s)'
    BY DEF Recorded
  <2>1. CASE record[s] = 0
    <3>1. Fresh(s)
      BY <2>1 DEF IInv, Recorded
    <3>2. disk'[s] = disk[s]
      BY <1>4, <3>1 DEF Fresh
    <3>3. Fresh(s)'
      BY <1>5, <3>1, <3>2 DEF Fresh
    <3> QED BY <1>5, <2>1, <3>3
  <2>2. CASE record[s] # 0
    <3>1. Latest(s)
      BY <2>2 DEF IInv, Recorded
    <3>2. disk'[s].result.revision <= run[record[s]].revision
      <4>1. CASE s = c.session
        BY <1>3, <1>4, <3>1, <4>1 DEF Latest
      <4>2. CASE s # c.session
        BY <1>4, <3>1, <4>2 DEF Latest
      <4> QED BY <4>1, <4>2
    <3>3. Latest(s)'
      BY <1>5, <3>1, <3>2 DEF Latest
    <3> QED BY <1>5, <2>2, <3>3
  <2> QED BY <2>1, <2>2
<1>11. \A s \in Sessions : disk[s].result.revision > 0 => disk'[s].result.revision > 0
  <2>1. c.status = "completed" => c.result.revision > 0
    BY DEF IInv, Kept
  <2> QED BY <1>3, <1>4, <2>1
<1>12. Kept'
  <2>1. \A d \in calls' :
         d.status = "completed" =>
            /\ d.result.revision > 0
            /\ d.who = Nobody \/ \E i \in Runs : /\ d.who = Task(i) /\ run'[i].at = "saving"
                                                 /\ run'[i].session = d.session
    BY <1>5 DEF IInv, Kept
  <2>2. \A d, e \in calls' :
           d.status = "completed" /\ e.status = "completed" /\ d.who = e.who =>
              d.who = Nobody \/ d = e
    BY <1>5 DEF IInv, Kept
  <2>3. ASSUME NEW i \in Runs, run'[i].at = "saving"
        PROVE \/ \E d \in calls' : d.who = Task(i) /\ d.status = "completed"
              \/ disk'[run'[i].session].result.revision > 0
    <3>1. run[i].at = "saving" /\ run'[i].session = run[i].session /\ run[i].session \in Sessions
      BY <1>5, <2>3 DEF IInv, RunsSound, Live
    <3>2. CASE disk[run[i].session].result.revision > 0
      BY <1>11, <3>1, <3>2
    <3>3. CASE \E d \in calls : d.who = Task(i) /\ d.status = "completed"
      <4>1. PICK d \in calls : d.who = Task(i) /\ d.status = "completed"
        BY <3>3
      <4>2. CASE d # c
        BY <1>5, <4>1, <4>2
      <4>3. CASE d = c
        <5>1. PICK k \in Runs : c.who = Task(k) /\ run[k].session = c.session
          BY <4>1, <4>3, StringsDiffer DEF IInv, Kept
        <5>2. c.session = run[i].session /\ c.result.revision > 0
          BY <4>1, <4>3, <5>1, StringsDiffer DEF IInv, Kept
        <5> QED BY <1>3, <1>4, <3>1, <4>1, <4>3, <5>2
      <4> QED BY <4>2, <4>3
    <3> QED BY <3>1, <3>2, <3>3 DEF IInv, Kept
  <2>4. ASSUME NEW i \in Runs, run'[i].session \in Sessions, run'[i].result.revision > 0
        PROVE disk'[run'[i].session].result.revision > 0
    BY <1>5, <1>11, <2>4 DEF IInv, Kept
  <2> QED BY <2>1, <2>2, <2>3, <2>4 DEF Kept
<1> QED BY <1>6, <1>8, <1>9, <1>10, <1>12 DEF IInv

\* A status that is not stored is forgotten, as is a result nobody waits for.
LEMMA ForgottenKeeps ==
    ASSUME IInv, NEW c \in calls, c.status # "completed" \/ c.who = Nobody,
           calls' = calls \ {c}, faults' \in 0 .. MaxFaults,
           UNCHANGED <<provider, run, record, task, request, cancel, closed, disk, orders>>
    PROVE IInv'
<1>1. Types'
  BY DEF IInv, Types
<1>2. Steady
  BY RestsSteady
<1>3. Heirs
  BY DEF Heirs, Descends
<1>4. RunsSound' /\ Recorded' /\ CancelSound' /\ Tracked'
  BY <1>1, <1>2, <1>3, SteadyRuns, SteadyRecords, SteadyTracks
<1>5. Kept'
  <2>1. \A d \in calls' :
         d.status = "completed" =>
            /\ d.result.revision > 0
            /\ d.who = Nobody \/ \E i \in Runs : /\ d.who = Task(i) /\ run'[i].at = "saving"
                                                 /\ run'[i].session = d.session
    BY DEF IInv, Kept
  <2>2. \A d, e \in calls' :
           d.status = "completed" /\ e.status = "completed" /\ d.who = e.who =>
              d.who = Nobody \/ d = e
    BY DEF IInv, Kept
  <2>3. ASSUME NEW i \in Runs, run'[i].at = "saving"
        PROVE \/ \E d \in calls' : d.who = Task(i) /\ d.status = "completed"
              \/ disk'[run'[i].session].result.revision > 0
    BY <2>3, StringsDiffer DEF IInv, Kept
  <2>4. \A i \in Runs : run'[i].session \in Sessions /\ run'[i].result.revision > 0
                          => disk'[run'[i].session].result.revision > 0
    BY DEF IInv, Kept
  <2> QED BY <2>1, <2>2, <2>3, <2>4 DEF Kept
<1> QED BY <1>1, <1>4, <1>5 DEF IInv

\* A result that could not be saved fails the run that waits for it.
LEMMA UnsavedKeeps ==
    ASSUME IInv, NEW c \in calls, c.status = "completed", c.who # Nobody, CallFails(c)
    PROVE IInv' /\ \A k \in Runs : run'[k].result = run[k].result
<1>1. PICK i \in Runs : c.who = Task(i) /\ run[i].at = "saving" /\ run[i].session = c.session
  BY DEF IInv, Kept
<1>2. c.who[2] = i
  BY <1>1 DEF Task
<1>3. PICK r : r = [run[i] EXCEPT !.at = "failing", !.status = "failed"]
  OBVIOUS
<1>4. PICK e : e = Call(c.who, c.session, "failed", NoResult)
  OBVIOUS
<1>5. /\ run' = [run EXCEPT ![i] = r] /\ calls' = (calls \ {c}) \cup {e}
      /\ UNCHANGED <<provider, record, task, request, cancel, closed, disk, orders>>
      /\ faults < MaxFaults /\ faults' = faults + 1
  BY <1>2, <1>3, <1>4 DEF CallFails, IInv, Types
<1>6. run[i] \in RunSet /\ run[i].session \in Sessions
  BY <1>1, LiveRun DEF Live
<1>7. /\ r \in RunSet /\ r.at = "failing" /\ r.session = run[i].session
      /\ r.revision = run[i].revision /\ r.result = run[i].result
  BY <1>3, <1>6 DEF RunSet, Places, Status
<1>8. /\ e \in CallSet /\ e.who = Task(i) /\ e.session = run[i].session /\ e.status = "failed"
      /\ e.result.revision = 0
  BY <1>1, <1>4, <1>6, TaskCalls, NoResultIs DEF Call, CallSet, Status
<1>9. run' \in [Runs -> RunSet] /\ run'[i] = r /\ \A j \in Runs : j # i => run'[j] = run[j]
  BY <1>5, <1>7 DEF IInv, Types
<1>10. Types'
  <2>1. faults' \in 0 .. MaxFaults
    BY <1>5, AnalysisAssumption DEF IInv, Types
  <2> QED BY <1>5, <1>8, <1>9, <2>1 DEF IInv, Types
<1>11. Steady
  BY <1>1, <1>5, <1>7, <1>9 DEF Steady, Used, Live, IInv, RunsSound, Types
<1>12. Heirs
  <2>1. Descends(e)
    BY <1>8 DEF Descends
  <2>2. \A d \in calls : Descends(d)
    BY DEF Descends
  <2> QED BY <1>5, <2>1, <2>2 DEF Heirs
<1>13. RunsSound' /\ Recorded' /\ CancelSound' /\ Tracked'
  BY <1>5, <1>10, <1>11, <1>12, SteadyRuns, SteadyRecords, SteadyTracks
<1>14. Kept'
  <2>1. ASSUME NEW d \in calls', d.status = "completed"
        PROVE /\ d.result.revision > 0
              /\ d.who = Nobody \/ \E k \in Runs : /\ d.who = Task(k) /\ run'[k].at = "saving"
                                                   /\ run'[k].session = d.session
    <3>1. d \in calls /\ d # c /\ d.result.revision > 0
      BY <1>5, <1>8, <2>1 DEF IInv, Kept
    <3>2. CASE d.who # Nobody
      <4>1. PICK k \in Runs : d.who = Task(k) /\ run[k].at = "saving" /\ run[k].session = d.session
        BY <2>1, <3>1, <3>2 DEF IInv, Kept
      <4>2. k # i
        BY <1>1, <2>1, <3>1, <3>2, <4>1 DEF IInv, Kept
      <4> QED BY <1>9, <3>1, <4>1, <4>2
    <3> QED BY <3>1, <3>2
  <2>2. ASSUME NEW d1 \in calls', NEW d2 \in calls', d1.status = "completed",
               d2.status = "completed", d1.who = d2.who
        PROVE d1.who = Nobody \/ d1 = d2
    BY <1>5, <1>8, <2>2 DEF IInv, Kept
  <2>3. ASSUME NEW k \in Runs, run'[k].at = "saving"
        PROVE \/ \E d \in calls' : d.who = Task(k) /\ d.status = "completed"
              \/ disk'[run'[k].session].result.revision > 0
    <3>1. k # i /\ run'[k] = run[k]
      BY <1>7, <1>9, <2>3
    <3>2. c.who # Task(k)
      BY <1>1, <3>1, StringsDiffer
    <3> QED BY <1>5, <2>3, <3>1, <3>2 DEF IInv, Kept
  <2>4. ASSUME NEW k \in Runs, run'[k].session \in Sessions, run'[k].result.revision > 0
        PROVE disk'[run'[k].session].result.revision > 0
    <3>1. run'[k].session = run[k].session /\ run'[k].result = run[k].result
      BY <1>7, <1>9
    <3> QED BY <1>5, <2>4, <3>1 DEF IInv, Kept
  <2> QED BY <2>1, <2>2, <2>3, <2>4 DEF Kept
<1> QED BY <1>7, <1>9, <1>10, <1>13, <1>14 DEF IInv

LEMMA CallFailsKeeps == ASSUME IInv, NEW c \in calls, CallFails(c) PROVE IInv'
<1>1. CASE c.status = "completed" /\ c.who # Nobody
  BY <1>1, UnsavedKeeps
<1>2. CASE ~(c.status = "completed" /\ c.who # Nobody)
  <2>1. faults' \in 0 .. MaxFaults
    BY AnalysisAssumption DEF CallFails, IInv, Types
  <2> QED BY <1>2, <2>1, ForgottenKeeps DEF CallFails
<1> QED BY <1>1, <1>2

-----------------------------------------------------------------------------
(* Cancellation *)

LEMMA CutFacts ==
    ASSUME IInv, NEW dead \in SUBSET Runs, \A i \in dead : Live(i), Cut(dead),
           UNCHANGED <<record, disk>>
    PROVE /\ run' \in [Runs -> RunSet] /\ task' \in [Sessions -> {0} \cup Runs]
          /\ calls' \in SUBSET CallSet
          /\ Steady /\ Heirs /\ Kept'
          /\ \A i \in Runs : run'[i].result = run[i].result
<1>1. ASSUME NEW i \in Runs
      PROVE /\ run'[i] \in RunSet
            /\ run'[i].session = run[i].session /\ run'[i].revision = run[i].revision
            /\ run'[i].result = run[i].result
            /\ i \notin dead => run'[i] = run[i]
            /\ i \in dead => run'[i].at \in {"cancelling", "over"}
  <2>1. run[i] \in RunSet
    BY DEF IInv, Types
  <2>2. CASE i \notin dead
    BY <2>1, <2>2 DEF Cut
  <2>3. CASE i \in dead /\ Handles(i)
    <3>1. run'[i] = [run[i] EXCEPT !.at = "cancelling", !.status = "cancelled"]
      BY <2>3 DEF Cut
    <3> QED BY <2>1, <2>3, <3>1 DEF RunSet, Places, Status
  <2>4. CASE i \in dead /\ ~Handles(i)
    <3>1. run'[i] = Over(i)
      BY <2>4 DEF Cut
    <3> QED BY <2>4, <3>1, OverIs
  <2> QED BY <2>2, <2>3, <2>4
<1>2. run' \in [Runs -> RunSet]
  BY <1>1 DEF Cut
<1>3. task' \in [Sessions -> {0} \cup Runs] /\ \A s \in Sessions : task'[s] \in {0, task[s]}
  BY DEF Cut, IInv, Types
<1>4. Steady
  <2>1. ASSUME NEW i \in Runs
        PROVE /\ run'[i].session = run[i].session /\ run'[i].revision = run[i].revision
              /\ IF i \in Used THEN run'[i].at # "unused" ELSE run'[i] = run[i]
              /\ run'[i].at \notin {"unused", "over"} => Live(i)
              /\ run'[i].at = "pausing" => run'[i].attempt < MaxRetries
    <3>1. CASE i \in dead
      BY <1>1, <3>1 DEF Live, Used
    <3>2. CASE i \notin dead
      BY <1>1, <3>2 DEF Live, Used, IInv, RunsSound
    <3> QED BY <3>1, <3>2
  <2> QED BY <1>3, <2>1 DEF Steady
<1>5. ASSUME NEW d \in calls'
      PROVE \/ d \in calls \ Abandoned(dead)
            \/ /\ \E c \in Abandoned(dead) : /\ d.session = c.session /\ d.status = c.status
                                             /\ d.result = c.result
               /\ d.who = Nobody /\ d \in CallSet
            \/ /\ \E i \in dead : d.session = run[i].session
               /\ d.status = "cancelled" /\ d.result = NoResult /\ d \in CallSet
  <2>1. CASE d \in calls \ Abandoned(dead)
    BY <2>1
  <2>2. CASE \E c \in Abandoned(dead) : d = [c EXCEPT !.who = Nobody]
    <3>1. PICK c \in Abandoned(dead) : d = [c EXCEPT !.who = Nobody]
      BY <2>2
    <3>2. c \in CallSet /\ Nobody \in Callers
      BY DEF Abandoned, IInv, Types, Nobody, Callers
    <3>3. /\ d \in CallSet /\ d.who = Nobody /\ d.session = c.session
          /\ d.status = c.status /\ d.result = c.result
      BY <3>1, <3>2 DEF CallSet
    <3> QED BY <3>3
  <2>3. CASE \E i \in dead : d = Call(Task(i), run[i].session, "cancelled", NoResult)
    <3>1. PICK i \in dead : d = Call(Task(i), run[i].session, "cancelled", NoResult)
      BY <2>3
    <3>2. run[i].session \in Sessions /\ Task(i) \in Callers
      BY LiveRun, TaskCalls
    <3>3. /\ d \in CallSet /\ d.session = run[i].session /\ d.status = "cancelled"
          /\ d.result = NoResult
      BY <3>1, <3>2, NoResultIs DEF Call, CallSet, Status
    <3> QED BY <3>3
  <2> QED BY <2>1, <2>2, <2>3 DEF Cut, Left
<1>6. calls' \in SUBSET CallSet
  BY <1>5 DEF IInv, Types
<1>7. Heirs
  BY <1>5, NoResultIs DEF Heirs, Descends, Abandoned
<1>8. Kept'
  <2>1. ASSUME NEW d \in calls', d.status = "completed"
        PROVE /\ d.result.revision > 0
              /\ d.who = Nobody \/ \E k \in Runs : /\ d.who = Task(k) /\ run'[k].at = "saving"
                                                   /\ run'[k].session = d.session
    <3>1. CASE d \in calls \ Abandoned(dead)
      <4>1. d.result.revision > 0
        BY <2>1, <3>1 DEF IInv, Kept
      <4>2. CASE d.who # Nobody
        <5>1. PICK k \in Runs : d.who = Task(k) /\ run[k].at = "saving" /\ run[k].session = d.session
          BY <2>1, <3>1, <4>2 DEF IInv, Kept
        <5>2. k \notin dead
          BY <3>1, <5>1 DEF Abandoned
        <5> QED BY <1>1, <4>1, <5>1, <5>2
      <4> QED BY <4>1, <4>2
    <3>2. CASE \E c \in Abandoned(dead) : d.status = c.status /\ d.result = c.result /\ d.who = Nobody
      BY <2>1, <3>2 DEF Abandoned, IInv, Kept
    <3> QED BY <1>5, <2>1, <3>1, <3>2
  <2>2. ASSUME NEW d \in calls', NEW e \in calls', d.status = "completed",
               e.status = "completed", d.who = e.who
        PROVE d.who = Nobody \/ d = e
    <3>1. d.who # Nobody => d \in calls /\ e \in calls
      BY <1>5, <2>2
    <3> QED BY <2>2, <3>1 DEF IInv, Kept
  <2>3. ASSUME NEW k \in Runs, run'[k].at = "saving"
        PROVE \/ \E d \in calls' : d.who = Task(k) /\ d.status = "completed"
              \/ disk'[run'[k].session].result.revision > 0
    <3>1. k \notin dead /\ run'[k] = run[k]
      BY <1>1, <2>3
    <3>2. \A d \in calls : d.who = Task(k) => d \notin Abandoned(dead)
      BY <3>1, StringsDiffer DEF Abandoned
    <3>3. calls \ Abandoned(dead) \subseteq calls'
      BY DEF Cut, Left
    <3> QED BY <2>3, <3>1, <3>2, <3>3 DEF IInv, Kept
  <2>4. ASSUME NEW k \in Runs, run'[k].session \in Sessions, run'[k].result.revision > 0
        PROVE disk'[run'[k].session].result.revision > 0
    BY <1>1, <2>4 DEF IInv, Kept
  <2> QED BY <2>1, <2>2, <2>3, <2>4 DEF Kept
<1> QED BY <1>1, <1>2, <1>3, <1>4, <1>6, <1>7, <1>8

\* The tasks of the sessions that run are live, and of their sessions.
LEMMA RunningTasks ==
    ASSUME IInv, NEW dead, dead \subseteq {task[s] : s \in Running}
    PROVE dead \in SUBSET Runs /\ \A i \in dead : Live(i) /\ run[i].session \in Sessions
<1>1. \A s \in Running : task[s] \in Runs /\ Live(task[s])
  BY DEF Running, IInv, Types
<1> QED BY <1>1 DEF IInv, RunsSound

LEMMA TracksAlong ==
    ASSUME IInv, Steady, Types',
           closed' => \A s \in Running : /\ cancel'["shutdown"].at = "gathering"
                                         /\ task[s] \in cancel'["shutdown"].of
    PROVE Tracked'
<1>1. Running' \subseteq Running /\ \A s \in Running' : task'[s] = task[s]
  BY SteadyFacts
<1> QED BY <1>1 DEF IInv, Tracked

\* A request, a switch or the shutdown cancels the tasks of running sessions.
LEMMA OrderKeeps ==
    ASSUME IInv, NEW dead, dead \subseteq {task[s] : s \in Running}, Cut(dead),
           NEW who \in Cancellers, NEW to \in Providers \cup {None}, Cancels(who, dead, to),
           who = "switch" => to \in Providers,
           UNCHANGED <<provider, record, request, disk, faults>>, orders' \in 0 .. MaxOrders,
           \/ closed' = closed /\ who # "shutdown"
           \/ closed' = TRUE /\ who = "shutdown" /\ dead = {task[s] : s \in Running}
    PROVE IInv' /\ \A i \in Runs : run'[i].result = run[i].result
<1>1. dead \in SUBSET Runs /\ \A i \in dead : Live(i) /\ run[i].session \in Sessions
  BY RunningTasks
<1>2. /\ run' \in [Runs -> RunSet] /\ task' \in [Sessions -> {0} \cup Runs]
      /\ calls' \in SUBSET CallSet
      /\ Steady /\ Heirs /\ Kept'
      /\ \A i \in Runs : run'[i].result = run[i].result
  BY <1>1, CutFacts
<1>3. PICK r : r = [at |-> "gathering", of |-> dead, to |-> to]
  OBVIOUS
<1>4. r \in CancelSet /\ r.at = "gathering" /\ r.of = dead /\ r.to = to
  BY <1>1, <1>3 DEF CancelSet
<1>5. /\ cancel' \in [Cancellers -> CancelSet] /\ cancel'[who] = r
      /\ \A w \in Cancellers : w # who => cancel'[w] = cancel[w]
  <2>1. cancel' = [cancel EXCEPT ![who] = r]
    BY <1>3 DEF Cancels
  <2> QED BY <1>4, <2>1 DEF IInv, Types
<1>6. Types'
  BY <1>2, <1>5 DEF IInv, Types
<1>7. RunsSound' /\ Recorded'
  BY <1>2, <1>6, SteadyRuns, SteadyRecords
<1>8. CancelSound'
  <2>1. ASSUME NEW w \in Cancellers, NEW i \in cancel'[w].of
        PROVE run'[i].session \in Sessions
    <3>1. i \in Runs /\ run[i].session \in Sessions
      <4>1. CASE w = who
        BY <1>1, <1>4, <1>5, <2>1, <4>1
      <4>2. CASE w # who
        BY <1>5, <2>1, <4>2 DEF IInv, CancelSound, Types, CancelSet
      <4> QED BY <4>1, <4>2
    <3> QED BY <1>2, <3>1 DEF Steady
  <2>2. cancel'["switch"].of # {} => cancel'["switch"].to \in Providers
    BY <1>4, <1>5 DEF IInv, CancelSound, Cancellers
  <2> QED BY <2>1, <2>2 DEF CancelSound
<1>9. Tracked'
  <2>1. closed' => \A s \in Running : /\ cancel'["shutdown"].at = "gathering"
                                      /\ task[s] \in cancel'["shutdown"].of
    BY <1>4, <1>5 DEF IInv, Tracked, Cancellers
  <2> QED BY <1>2, <1>6, <2>1, TracksAlong
<1> QED BY <1>2, <1>6, <1>7, <1>8, <1>9 DEF IInv
LEMMA CancelAskedKeeps ==
    ASSUME IInv, NEW s \in Sessions, CancelAsked(s)
    PROVE IInv' /\ \A i \in Runs : run'[i].result = run[i].result
<1>1. PICK dead : dead = {task[s]}
  OBVIOUS
<1>2. dead \subseteq {task[t] : t \in Running} /\ Cut(dead) /\ Cancels("user", dead, None)
  BY <1>1 DEF CancelAsked
<1>3. orders' \in 0 .. MaxOrders
  BY AnalysisAssumption DEF CancelAsked, IInv, Types
<1>4. /\ UNCHANGED <<provider, record, request, disk, faults>> /\ closed' = closed
      /\ "user" \in Cancellers
  BY DEF CancelAsked, Cancellers
<1>5. None \in Providers \cup {None}
  OBVIOUS
<1> QED BY <1>2, <1>3, <1>4, <1>5, OrderKeeps

LEMMA SwitchKeeps ==
    ASSUME IInv, NEW p \in Providers, Switch(p)
    PROVE IInv' /\ \A i \in Runs : run'[i].result = run[i].result
<1>1. orders' \in 0 .. MaxOrders
  BY AnalysisAssumption DEF Switch, IInv, Types
<1>2. UNCHANGED <<record, request, closed, disk, faults>>
  BY DEF Switch
<1>3. CASE provider' = p /\ UNCHANGED <<run, task, cancel, calls>>
  <2>1. Types'
    BY <1>1, <1>2, <1>3 DEF IInv, Types
  <2>2. Steady /\ Heirs
    BY <1>2, <1>3, RestsSteady, CallsStay
  <2>3. RunsSound' /\ Recorded' /\ CancelSound' /\ Tracked'
    BY <1>2, <1>3, <2>1, <2>2, SteadyRuns, SteadyRecords, SteadyTracks
  <2>4. Kept'
    BY <1>2, <1>3, KeptStays
  <2> QED BY <1>3, <2>1, <2>3, <2>4 DEF IInv
<1>4. CASE /\ LET dead == {task[s] : s \in Running} IN Cut(dead) /\ Cancels("switch", dead, p)
           /\ UNCHANGED provider
  <2>1. PICK dead : dead = {task[s] : s \in Running}
    OBVIOUS
  <2>2. Cut(dead) /\ Cancels("switch", dead, p) /\ "switch" \in Cancellers
    BY <1>4, <2>1 DEF Cancellers
  <2> QED BY <1>1, <1>2, <1>4, <2>1, <2>2, OrderKeeps
<1> QED BY <1>3, <1>4 DEF Switch

LEMMA ShutdownKeeps ==
    ASSUME IInv, Shutdown
    PROVE IInv' /\ \A i \in Runs : run'[i].result = run[i].result
<1>1. PICK dead : dead = {task[s] : s \in Running}
  OBVIOUS
<1>2. /\ Cut(dead) /\ Cancels("shutdown", dead, None) /\ "shutdown" \in Cancellers
      /\ UNCHANGED <<provider, record, request, disk, faults>> /\ closed' = TRUE
      /\ orders' \in 0 .. MaxOrders
  BY <1>1 DEF Shutdown, Cancellers, bounds, IInv, Types
<1>3. None \in Providers \cup {None}
  OBVIOUS
<1> QED BY <1>1, <1>2, <1>3, OrderKeeps

\* The shutdown has gathered its tasks: nothing runs.
LEMMA GatheredIsQuiet ==
    ASSUME IInv, closed,
           \/ cancel["shutdown"].at # "gathering"
           \/ \A j \in cancel["shutdown"].of : ~Live(j)
    PROVE Running = {}
BY DEF IInv, Tracked, Running

\* What a canceller does after it has gathered: the entry of a task goes, the
\* others wait, and a switch gets its provider.
LEMMA ForgetsKeeps ==
    ASSUME IInv, NEW who \in Cancellers, NEW i \in cancel[who].of, Forgets(who, i),
           who = "shutdown" /\ closed => Running = {},
           UNCHANGED <<run, record, request, closed, disk, calls, bounds>>
    PROVE IInv'
<1>1. /\ cancel[who] \in CancelSet /\ i \in Runs /\ run[i].session \in Sessions
      /\ \A w \in Cancellers : cancel[w].of \subseteq Runs
  BY DEF IInv, Types, CancelSound, CancelSet
<1>2. PICK r : r = IF cancel[who].of \ {i} = {} THEN Idle
                   ELSE [cancel[who] EXCEPT !.at = "gathering", !.of = cancel[who].of \ {i}]
  OBVIOUS
<1>3. /\ r \in CancelSet /\ r.of \subseteq cancel[who].of
      /\ r.of # {} => r.to = cancel[who].to
  BY <1>1, <1>2 DEF CancelSet, Idle
<1>4. /\ cancel' = [cancel EXCEPT ![who] = r]
      /\ task' = [task EXCEPT ![run[i].session] = 0]
  BY <1>2 DEF Forgets, IInv, Types
<1>5. /\ cancel' \in [Cancellers -> CancelSet] /\ cancel'[who] = r
      /\ \A w \in Cancellers : w # who => cancel'[w] = cancel[w]
  BY <1>3, <1>4 DEF IInv, Types
<1>6. task' \in [Sessions -> {0} \cup Runs] /\ \A s \in Sessions : task'[s] \in {0, task[s]}
  BY <1>4 DEF IInv, Types
<1>7. provider' \in Providers
  BY DEF Forgets, IInv, Types, CancelSound
<1>8. Types'
  BY <1>5, <1>6, <1>7 DEF IInv, Types, bounds
<1>9. Steady /\ Heirs
  BY <1>6, CallsStay DEF Steady, Used, Live, IInv, RunsSound
<1>10. RunsSound' /\ Recorded'
  BY <1>8, <1>9, SteadyRuns, SteadyRecords
<1>11. CancelSound'
  <2>1. ASSUME NEW w \in Cancellers, NEW j \in cancel'[w].of
        PROVE run'[j].session \in Sessions
    BY <1>3, <1>5, <2>1 DEF IInv, CancelSound
  <2>2. cancel'["switch"].of # {} => cancel'["switch"].to \in Providers
    <3>1. "switch" \in Cancellers
      BY DEF Cancellers
    <3> QED BY <1>3, <1>5, <3>1 DEF IInv, CancelSound
  <2> QED BY <2>1, <2>2 DEF CancelSound
<1>12. Tracked'
  <2>1. closed' => \A s \in Running : /\ cancel'["shutdown"].at = "gathering"
                                      /\ task[s] \in cancel'["shutdown"].of
    BY <1>5 DEF IInv, Tracked, Cancellers
  <2> QED BY <1>8, <1>9, <2>1, TracksAlong
<1> QED BY <1>8, <1>10, <1>11, <1>12, KeptStays DEF IInv

\* The record that the session has now is marked, whoever's it is.
LEMMA MarkedKeeps ==
    ASSUME IInv, NEW who \in Cancellers, NEW i \in cancel[who].of,
           who = "shutdown" /\ closed => Running = {},
           NEW s, s = run[i].session, NEW j, j = record[s],
           run' = [run EXCEPT ![j].status = "cancelled"],
           calls' = calls \cup {Call(Canceller(who), s, "cancelled", NoResult)},
           cancel' = [cancel EXCEPT ![who].at = "storing"],
           UNCHANGED <<task, provider, record, request, closed, disk, bounds>>
    PROVE IInv' /\ \A k \in Runs : run'[k].result = run[k].result
<1>1. cancel[who] \in CancelSet /\ i \in Runs /\ s \in Sessions
  BY DEF IInv, Types, CancelSound, CancelSet
<1>2. j \in Used /\ j \in Runs
  <2>1. record[s] # 0
    BY <1>1 DEF IInv, Recorded, Fresh
  <2> QED BY <1>1, <2>1 DEF IInv, RunsSound, Given, Used
<1>3. PICK r : r = [run[j] EXCEPT !.status = "cancelled"]
  OBVIOUS
<1>4. /\ r \in RunSet /\ r.at = run[j].at /\ r.session = run[j].session
      /\ r.revision = run[j].revision /\ r.result = run[j].result /\ r.attempt = run[j].attempt
  BY <1>2, <1>3 DEF IInv, Types, RunSet, Status
<1>5. run' \in [Runs -> RunSet] /\ run'[j] = r /\ \A k \in Runs : k # j => run'[k] = run[k]
  <2>1. run' = [run EXCEPT ![j] = r]
    BY <1>2, <1>3 DEF IInv, Types
  <2> QED BY <1>2, <1>4, <2>1 DEF IInv, Types
<1>6. PICK c : c = [cancel[who] EXCEPT !.at = "storing"]
  OBVIOUS
<1>7. c \in CancelSet /\ c.of = cancel[who].of /\ c.to = cancel[who].to
  BY <1>1, <1>6 DEF CancelSet
<1>8. /\ cancel' \in [Cancellers -> CancelSet] /\ cancel'[who] = c
      /\ \A w \in Cancellers : w # who => cancel'[w] = cancel[w]
  <2>1. cancel' = [cancel EXCEPT ![who] = c]
    BY <1>6 DEF IInv, Types
  <2> QED BY <1>7, <2>1 DEF IInv, Types
<1>9. calls' \in SUBSET CallSet /\ Heirs
  <2>1. Canceller(who) \in Callers
    BY DEF Canceller, Callers, Cancellers
  <2> QED BY <1>1, <2>1, NewCall, NoResultIs DEF Status
<1>10. Types'
  BY <1>5, <1>8, <1>9 DEF IInv, Types, bounds
<1>11. Steady
  <2>1. ASSUME NEW k \in Runs
        PROVE /\ run'[k].session = run[k].session /\ run'[k].revision = run[k].revision
              /\ IF k \in Used THEN run'[k].at # "unused" ELSE run'[k] = run[k]
              /\ run'[k].at \notin {"unused", "over"} => Live(k)
              /\ run'[k].at = "pausing" => run'[k].attempt < MaxRetries
    <3>1. CASE k = j
      BY <1>2, <1>4, <1>5, <3>1 DEF Live, Used, IInv, RunsSound
    <3>2. CASE k # j
      BY <1>5, <3>2 DEF Live, Used, IInv, RunsSound
    <3> QED BY <3>1, <3>2
  <2> QED BY <2>1 DEF Steady, IInv, Types
<1>12. RunsSound' /\ Recorded'
  BY <1>9, <1>10, <1>11, SteadyRuns, SteadyRecords
<1>13. CancelSound'
  <2>1. ASSUME NEW w \in Cancellers, NEW k \in cancel'[w].of
        PROVE run'[k].session \in Sessions
    <3>1. k \in cancel[w].of
      BY <1>7, <1>8, <2>1
    <3>2. k \in Runs /\ run[k].session \in Sessions
      BY <3>1 DEF IInv, CancelSound, Types, CancelSet
    <3> QED BY <1>11, <3>2 DEF Steady
  <2>2. cancel'["switch"].of # {} => cancel'["switch"].to \in Providers
    <3>1. "switch" \in Cancellers
      BY DEF Cancellers
    <3> QED BY <1>7, <1>8, <3>1 DEF IInv, CancelSound
  <2> QED BY <2>1, <2>2 DEF CancelSound
<1>14. Tracked'
  <2>1. closed' => \A t \in Running : /\ cancel'["shutdown"].at = "gathering"
                                      /\ task[t] \in cancel'["shutdown"].of
    BY <1>8 DEF IInv, Tracked, Cancellers
  <2> QED BY <1>10, <1>11, <2>1, TracksAlong
<1>15. Kept'
  <2>1. calls \subseteq calls' /\ \A d \in calls' : d \in calls \/ d.status # "completed"
    BY DEF Call
  <2>2. /\ \A k \in Runs : k # j => run'[k] = run[k]
        /\ run'[j].session = run[j].session /\ run'[j].at = run[j].at
        /\ run'[j].result = run[j].result
    BY <1>4, <1>5
  <2>3. disk' = disk
    OBVIOUS
  <2> QED BY <1>2, <1>10, <2>1, <2>2, <2>3, KeptByMove
<1> QED BY <1>4, <1>5, <1>10, <1>12, <1>13, <1>14, <1>15 DEF IInv

LEMMA EnsureKeeps ==
    ASSUME IInv, NEW who \in Cancellers, NEW i \in Runs, Ensure(who, i) \/ Ensured(who, i)
    PROVE IInv' /\ \A k \in Runs : run'[k].result = run[k].result
<1>1. i \in cancel[who].of /\ UNCHANGED <<record, request, closed, disk, bounds>>
  BY DEF Ensure, Ensured
<1>2. who = "shutdown" /\ closed => Running = {}
  BY GatheredIsQuiet DEF Ensure, Ensured
<1>3. CASE Forgets(who, i) /\ UNCHANGED <<run, calls>>
  BY <1>1, <1>2, <1>3, ForgetsKeeps
<1>4. CASE /\ run' = [run EXCEPT ![record[run[i].session]].status = "cancelled"]
           /\ calls' = calls \cup {Call(Canceller(who), run[i].session, "cancelled", NoResult)}
           /\ cancel' = [cancel EXCEPT ![who].at = "storing"]
           /\ UNCHANGED <<task, provider>>
  <2>1. PICK s : s = run[i].session
    OBVIOUS
  <2>2. PICK j : j = record[s]
    OBVIOUS
  <2> QED BY <1>1, <1>2, <1>4, <2>1, <2>2, MarkedKeeps
<1> QED BY <1>3, <1>4 DEF Ensure, Ensured

LEMMA EmptiedKeeps == ASSUME IInv, Emptied PROVE IInv'
<1>1. /\ cancel["shutdown"].of = {} /\ cancel' = [cancel EXCEPT !["shutdown"] = Idle]
      /\ UNCHANGED <<provider, run, record, task, request, closed, disk, calls, bounds>>
  BY DEF Emptied
<1>2. Idle \in CancelSet /\ Idle.of = {}
  BY DEF Idle, CancelSet
<1>3. /\ cancel' \in [Cancellers -> CancelSet] /\ cancel'["shutdown"] = Idle
      /\ \A w \in Cancellers : w # "shutdown" => cancel'[w] = cancel[w]
  BY <1>1, <1>2 DEF IInv, Types, Cancellers
<1>4. Types'
  BY <1>1, <1>3 DEF IInv, Types, bounds
<1>5. Steady /\ Heirs
  BY <1>1, RestsSteady, CallsStay
<1>6. RunsSound' /\ Recorded'
  BY <1>1, <1>4, <1>5, SteadyRuns, SteadyRecords
<1>7. CancelSound'
  BY <1>1, <1>2, <1>3 DEF IInv, CancelSound, Cancellers
<1>8. Tracked'
  <2>1. closed => Running = {}
    BY <1>1, GatheredIsQuiet
  <2> QED BY <1>1, <1>4, <1>5, <2>1, TracksAlong
<1> QED BY <1>1, <1>4, <1>6, <1>7, <1>8, KeptStays DEF IInv

-----------------------------------------------------------------------------
(* The whole *)

LEMMA UnusedIs ==
    /\ Unused \in RunSet /\ Unused.at = "unused" /\ Unused.session = None
    /\ Unused.revision = 0 /\ Unused.result = NoResult
    /\ [Unused EXCEPT !.at = "over"] \in RunSet
<1>1. 1 \in Nat /\ 0 \in 0 .. MaxRetries /\ 0 \in 0 .. MaxRuns
  BY AnalysisAssumption
<1> QED BY <1>1, NoResultIs DEF Unused, RunSet, Places, Status

\* Nothing is in memory: no session has a record, a task or a run.
LEMMA EmptyMemory ==
    ASSUME Types', NEW U, U \subseteq Runs, \A i \in U, j \in Runs : j < i => j \in U,
           \A i \in Runs : /\ run'[i] = IF i \in U THEN [Unused EXCEPT !.at = "over"] ELSE Unused,
           record' = [s \in Sessions |-> 0], task' = record',
           request' = [q \in Requests |-> Asked],
           \A who \in Cancellers : cancel'[who] = Idle, calls' = {},
           closed' = FALSE, \A s \in Sessions : disk'[s].result.revision \in {0} \cup U
    PROVE IInv'
<1>1. \A i \in Runs : /\ run'[i].at = IF i \in U THEN "over" ELSE "unused"
                      /\ run'[i].session \notin Sessions /\ run'[i].revision = 0
                      /\ run'[i].result.revision = 0
  <2> SUFFICES ASSUME NEW i \in Runs
               PROVE /\ run'[i].at = IF i \in U THEN "over" ELSE "unused"
                     /\ run'[i].session \notin Sessions /\ run'[i].revision = 0
                     /\ run'[i].result.revision = 0
    OBVIOUS
  <2>1. /\ run'[i].at = IF i \in U THEN "over" ELSE "unused"
        /\ run'[i].session = None /\ run'[i].revision = 0 /\ run'[i].result = NoResult
    BY DEF Unused
  <2> QED BY <2>1, NoResultIs, AnalysisAssumption
<1>2. Used' = U
  BY <1>1 DEF Used
<1>3. RunsSound'
  <2>1. ASSUME NEW i \in Runs
        PROVE /\ i \notin Used' => run'[i] = Unused
              /\ Live(i)' => run'[i].session \in Sessions /\ run'[i].revision > 0
              /\ run'[i].at = "pausing" => run'[i].attempt < MaxRetries
              /\ Given(run[i].revision)'
    BY <1>1, <1>2 DEF Live, Given
  <2>2. ASSUME NEW s \in Sessions
        PROVE Given(task[s])' /\ Given(record[s])' /\ Given(disk[s].result.revision)'
    BY <1>2 DEF Given
  <2>3. \A q \in Requests : /\ Given(request[q].loaded.revision)'
                            /\ request'[q].at # "none" => request'[q].session \in Sessions
    BY AskedIs DEF Given
  <2> QED BY <1>2, <2>1, <2>2, <2>3 DEF RunsSound
<1>4. CancelSound'
  BY DEF CancelSound, Idle, Cancellers
<1>5. Tracked'
  BY DEF Tracked, Running
<1>6. Recorded'
  <2>1. \A s \in Sessions : Fresh(s)'
    BY <1>1, AskedIs DEF Fresh
  <2> QED BY <2>1 DEF Recorded
<1>7. Kept'
  BY <1>1 DEF Kept
<1> QED BY <1>3, <1>4, <1>5, <1>6, <1>7 DEF IInv

LEMMA CrashKeeps == ASSUME IInv, Crash PROVE IInv'
<1>1. PICK U : U = Used
  OBVIOUS
<1>2. \A i \in Runs : run'[i] = IF i \in U THEN [Unused EXCEPT !.at = "over"] ELSE Unused
  BY <1>1 DEF Crash, Used
<1>3. \A who \in Cancellers : cancel'[who] = Idle
  BY DEF Crash, IInv, Types
<1>4. Types'
  <2>1. run' \in [Runs -> RunSet]
    BY UnusedIs DEF Crash
  <2>2. cancel' \in [Cancellers -> CancelSet]
    BY DEF Crash, IInv, Types, Idle, CancelSet
  <2>3. request' \in [Requests -> RequestSet]
    BY AskedIs DEF Crash
  <2>4. faults' \in 0 .. MaxFaults /\ orders' \in 0 .. MaxOrders
    BY AnalysisAssumption DEF Crash, IInv, Types
  <2>5. /\ record' \in [Sessions -> {0} \cup Runs] /\ task' \in [Sessions -> {0} \cup Runs]
        /\ provider' \in Providers /\ closed' \in BOOLEAN /\ calls' \in SUBSET CallSet
        /\ disk' \in [Sessions -> Stored]
    BY DEF Crash, IInv, Types
  <2> QED BY <2>1, <2>2, <2>3, <2>4, <2>5 DEF Types
<1>5. \A s \in Sessions : disk'[s].result.revision \in {0} \cup U
  BY <1>1 DEF Crash, IInv, RunsSound, Given
<1>6. U \subseteq Runs /\ \A i \in U, j \in Runs : j < i => j \in U
  BY <1>1 DEF Used, IInv, RunsSound
<1>7. /\ record' = [s \in Sessions |-> 0] /\ task' = record' /\ calls' = {} /\ closed' = FALSE
      /\ request' = [q \in Requests |-> Asked]
  BY DEF Crash
<1> QED BY <1>2, <1>3, <1>4, <1>5, <1>6, <1>7, EmptyMemory

LEMMA InitHolds == Init => IInv
<1> SUFFICES ASSUME Init PROVE IInv
  OBVIOUS
<1>1. \A i \in Runs : run[i] = Unused
  BY DEF Init
<1>2. Used = {}
  BY <1>1, UnusedIs DEF Used
<1>3. Types
  <2>1. run \in [Runs -> RunSet] /\ request \in [Requests -> RequestSet]
    BY UnusedIs, AskedIs DEF Init
  <2>2. cancel \in [Cancellers -> CancelSet]
    BY DEF Init, Idle, CancelSet, Cancellers
  <2>3. disk \in [Sessions -> Stored]
    BY NoResultIs DEF Init, Stored, Status
  <2>4. orders \in 0 .. MaxOrders /\ faults \in 0 .. MaxFaults
    BY AnalysisAssumption DEF Init
  <2> QED BY <2>1, <2>2, <2>3, <2>4 DEF Init, Types
<1>4. RunsSound
  <2>1. \A i \in Runs : /\ ~Live(i) /\ run[i].at # "pausing" /\ Given(run[i].revision)
    BY <1>1, UnusedIs DEF Live, Given
  <2>2. \A s \in Sessions : Given(task[s]) /\ Given(record[s]) /\ Given(disk[s].result.revision)
    BY NoResultIs DEF Init, Given
  <2>3. \A q \in Requests : /\ Given(request[q].loaded.revision) /\ request[q].at = "none"
    BY AskedIs DEF Init, Given
  <2> QED BY <1>1, <1>2, <2>1, <2>2, <2>3 DEF Init, RunsSound
<1>5. CancelSound
  BY DEF Init, CancelSound, Idle, Cancellers
<1>6. Tracked
  BY DEF Init, Tracked, Running
<1>7. Recorded
  <2>1. \A s \in Sessions : Fresh(s)
    BY <1>1, UnusedIs, AskedIs, AnalysisAssumption DEF Init, Fresh
  <2> QED BY <2>1 DEF Init, Recorded
<1>8. Kept
  BY <1>1, UnusedIs, NoResultIs DEF Init, Kept
<1> QED BY <1>3, <1>4, <1>5, <1>6, <1>7, <1>8 DEF IInv

LEMMA StepKeeps == IInv /\ [Next]_vars => IInv'
<1> SUFFICES ASSUME IInv, [Next]_vars PROVE IInv'
  OBVIOUS
<1>1. CASE UNCHANGED vars
  <2>1. UNCHANGED <<provider, run, record, task, request, cancel, closed, disk, calls,
                    orders, faults>>
    BY <1>1 DEF vars, memory, bounds
  <2>2. Types'
    BY <2>1 DEF IInv, Types
  <2>3. Steady /\ Heirs
    BY <2>1, RestsSteady, CallsStay
  <2> QED BY <2>1, <2>2, <2>3, SteadyRuns, SteadyRecords, SteadyTracks, KeptStays DEF IInv
<1>2. CASE Next
  <2>1. DOMAIN cancel = Cancellers
    BY DEF IInv, Types
  <2>2. CASE \E q \in Requests : (\E s \in Sessions : Submit(q, s)) \/ Load(q) \/ Register(q)
    BY <2>2, SubmitKeeps, LoadKeeps, RegisterKeeps
  <2>3. CASE \E i \in Runs : Execute(i)
    BY <2>3, ExecuteKeeps
  <2>4. CASE \E c \in calls : Store(c) \/ CallFails(c)
    BY <2>4, StoreKeeps, CallFailsKeeps
  <2>5. CASE (\E s \in Sessions : CancelAsked(s)) \/ \E p \in Providers : Switch(p)
    BY <2>5, CancelAskedKeeps, SwitchKeeps
  <2>6. CASE \E who \in DOMAIN cancel : Cancelling(who)
    BY <2>1, <2>6, EnsureKeeps DEF Cancelling
  <2>7. CASE Stop \/ Crash
    BY <2>7, ShutdownKeeps, EmptiedKeeps, CrashKeeps DEF Stop
  <2> QED BY <1>2, <2>2, <2>3, <2>4, <2>5, <2>6, <2>7 DEF Next
<1> QED BY <1>1, <1>2

\* The inductive invariant, in every reachable state.
THEOREM AnalysisInvariance == Spec => []IInv
<1> QED BY InitHolds, StepKeeps, PTL DEF Spec

-----------------------------------------------------------------------------
(* What the invariant says *)

\* Whatever submissions, cancellations and switches overlap, one task at most is
\* tracked and not done, and none once the shutdown has ended (_tasks).
THEOREM TasksTrackedHolds == Spec => []TasksTracked
<1>1. ASSUME IInv PROVE TypeOK
  <2>1. run \in [Runs -> RunSet] /\ {record, task} \subseteq [Sessions -> Runs \cup {0}]
    BY <1>1 DEF IInv, Types
  <2>2. \A q \in Requests : /\ request[q].at \in {"none", "loading", "loaded"}
                            /\ request[q].loaded.result \in Result
    BY <1>1 DEF IInv, Types, RequestSet, Loaded
  <2>3. \A who \in DOMAIN cancel : /\ cancel[who].at \in {"idle", "gathering", "storing"}
                                   /\ cancel[who].of \subseteq Runs
    BY <1>1 DEF IInv, Types, CancelSet
  <2>4. \A c \in calls : c.session \in Sessions /\ c.status \in Status
    BY <1>1 DEF IInv, Types, CallSet
  <2>5. disk \in [Sessions -> [status : Status, result : Result]]
    BY <1>1 DEF IInv, Types, Stored
  <2> QED BY <1>1, <2>1, <2>2, <2>3, <2>4, <2>5 DEF TypeOK, IInv, Types, RunSet, Places
<1>2. ASSUME IInv PROVE OneTracked
  <2>1. CASE Running = {}
    BY <2>1, FS_EmptySet DEF OneTracked
  <2>2. CASE Running # {}
    <3>1. PICK s \in Running : TRUE
      BY <2>2
    <3>2. Running = {s}
      BY <1>2, <3>1 DEF IInv, Tracked
    <3>3. Cardinality({s}) = 1
      BY FS_Singleton
    <3> QED BY <3>2, <3>3 DEF OneTracked
  <2> QED BY <2>1, <2>2
<1>3. ASSUME IInv PROVE ShutdownIsFinal
  <2>1. cancel["shutdown"] = Idle => cancel["shutdown"].at # "gathering"
    BY DEF Idle
  <2> QED BY <1>3, <2>1, GatheredIsQuiet DEF ShutdownIsFinal
<1>4. IInv => TasksTracked
  BY <1>1, <1>2, <1>3 DEF TasksTracked
<1> QED BY <1>4, AnalysisInvariance, PTL

\* What every step does to the results, but those that register a run and the
\* crash.
Ages ==
    /\ record' = record
    /\ \A s \in Sessions : disk[s].result.revision > 0 => disk'[s].result.revision > 0
    /\ \A i \in Runs :
         /\ \/ run'[i].result = run[i].result \/ run'[i].result = Blank
            \/ run'[i].result.revision > 0
         /\ run'[i].at = "new" => run[i].at = "new"

LEMMA MarksAge ==
    ASSUME IInv, NEW i \in Runs, NEW at, NEW st, Marks(i, at, st), at # "new",
           UNCHANGED <<record, disk>>
    PROVE Ages
BY DEF Marks, Ages, IInv, Types

LEMMA ExecuteAges == ASSUME IInv, NEW i \in Runs, Execute(i) PROVE Ages
<1>1. UNCHANGED <<record, disk>>
  BY DEF Execute, Begin, Announce, Proceed, Answer, Retryable, AskAgain, Fail, Saved, End, others
<1>2. CASE Begin(i) \/ Announce(i) \/ Fail(i)
  BY <1>1, <1>2, MarksAge DEF Begin, Announce, Fail
<1>3. \A parts : Saves(i, parts) => Ages
  BY <1>1 DEF Saves, Ages, IInv, Types
<1>4. CASE Proceed(i)
  <2>1. CASE run' = [run EXCEPT ![i].at = "skipping", ![i].status = "not_started",
                                ![i].result = Blank]
    BY <1>1, <2>1 DEF Ages, IInv, Types
  <2>2. CASE run' = [run EXCEPT ![i].at = "asking"]
    BY <1>1, <2>2 DEF Ages, IInv, Types
  <2> QED BY <1>3, <1>4, <2>1, <2>2 DEF Proceed
<1>5. ASSUME NEW cites, Answer(i, cites) PROVE Ages
  <2>1. PICK parts : parts = run[i].parts \cup {[chunk |-> run[i].chunk, cites |-> cites]}
    OBVIOUS
  <2>2. ASSUME NEW next,
               run' = [run EXCEPT ![i].chunk = next, ![i].attempt = 0, ![i].parts = parts]
        PROVE Ages
    BY <1>1, <2>2 DEF Ages, IInv, Types
  <2> QED BY <1>3, <1>5, <2>1, <2>2 DEF Answer
<1>6. CASE Retryable(i)
  BY <1>1, <1>6 DEF Retryable, Ages, IInv, Types
<1>7. CASE AskAgain(i)
  BY <1>1, <1>7 DEF AskAgain, Ages, IInv, Types
<1>8. CASE Saved(i)
  <2>1. run'[i].result.revision > 0 /\ \A j \in Runs : j # i => run'[j] = run[j]
    BY <1>8, SavedKeeps
  <2>2. run'[i].at = "announcing"
    BY <1>8 DEF Saved, Completes, IInv, Types
  <2> QED BY <1>1, <2>1, <2>2 DEF Ages
<1>9. CASE End(i)
  <2>1. run' = [run EXCEPT ![i] = Over(i)]
    BY <1>9 DEF End
  <2>2. Over(i).result = run[i].result /\ Over(i).at = "over"
    BY OverIs
  <2>3. \A j \in Runs : run'[j] = IF j = i THEN Over(i) ELSE run[j]
    BY <2>1 DEF IInv, Types
  <2> QED BY <1>1, <2>2, <2>3 DEF Ages
<1> QED BY <1>2, <1>4, <1>5, <1>6, <1>7, <1>8, <1>9 DEF Execute

LEMMA RepositoryAges == ASSUME IInv, NEW c \in calls, Store(c) \/ CallFails(c) PROVE Ages
<1>1. CASE Store(c)
  <2>1. c.status = "completed" => c.result.revision > 0
    BY DEF IInv, Kept
  <2>2. UNCHANGED <<run, record>>
    BY <1>1 DEF Store, memory
  <2>3. ASSUME NEW s \in Sessions, disk[s].result.revision > 0
        PROVE disk'[s].result.revision > 0
    BY <1>1, <2>1, <2>3 DEF Store, IInv, Types
  <2> QED BY <2>2, <2>3 DEF Ages
<1>2. CASE CallFails(c)
  <2>1. UNCHANGED <<record, disk>>
    BY <1>2 DEF CallFails
  <2>2. CASE UNCHANGED run
    BY <2>1, <2>2 DEF Ages
  <2>3. CASE run' = [run EXCEPT ![c.who[2]].at = "failing", ![c.who[2]].status = "failed"]
    BY <2>1, <2>3 DEF Ages, IInv, Types
  <2> QED BY <1>2, <2>2, <2>3 DEF CallFails
<1> QED BY <1>1, <1>2

LEMMA CutAges ==
    ASSUME IInv, NEW dead \in SUBSET Runs, Cut(dead), UNCHANGED <<record, disk>> PROVE Ages
<1>1. ASSUME NEW i \in Runs
      PROVE run'[i].result = run[i].result /\ (run'[i].at = "new" => run[i].at = "new")
  <2>1. CASE i \notin dead
    BY <2>1 DEF Cut
  <2>2. CASE i \in dead /\ Handles(i)
    <3>1. run'[i] = [run[i] EXCEPT !.at = "cancelling", !.status = "cancelled"]
      BY <2>2 DEF Cut
    <3> QED BY <3>1 DEF IInv, Types, RunSet
  <2>3. CASE i \in dead /\ ~Handles(i)
    <3>1. run'[i] = Over(i)
      BY <2>3 DEF Cut
    <3> QED BY <3>1, OverIs
  <2> QED BY <2>1, <2>2, <2>3
<1> QED BY <1>1 DEF Ages

LEMMA OrderAges ==
    ASSUME IInv,
           (\E s \in Sessions : CancelAsked(s)) \/ (\E p \in Providers : Switch(p)) \/ Shutdown
    PROVE Ages
<1>1. UNCHANGED <<record, disk>>
  BY DEF CancelAsked, Switch, Shutdown
<1>2. ASSUME NEW dead, dead \subseteq {task[s] : s \in Running}, Cut(dead) PROVE Ages
  BY <1>1, <1>2, RunningTasks, CutAges
<1>3. ASSUME NEW s \in Sessions, CancelAsked(s) PROVE Ages
  <2>1. PICK dead : dead = {task[s]}
    OBVIOUS
  <2> QED BY <1>2, <1>3, <2>1 DEF CancelAsked
<1>4. ASSUME Cut({task[s] : s \in Running}) PROVE Ages
  <2>1. PICK dead : dead = {task[s] : s \in Running}
    OBVIOUS
  <2> QED BY <1>2, <1>4, <2>1
<1>5. ASSUME UNCHANGED run PROVE Ages
  BY <1>1, <1>5 DEF Ages
<1> QED BY <1>3, <1>4, <1>5 DEF Switch, Shutdown

LEMMA CancellingAges ==
    ASSUME IInv, NEW who, NEW i \in Runs, Ensure(who, i) \/ Ensured(who, i) PROVE Ages
<1>1. UNCHANGED <<record, disk>>
  BY DEF Ensure, Ensured
<1>2. CASE UNCHANGED run
  BY <1>1, <1>2 DEF Ages
<1>3. CASE run' = [run EXCEPT ![record[run[i].session]].status = "cancelled"]
  BY <1>1, <1>3 DEF Ages, IInv, Types
<1> QED BY <1>2, <1>3 DEF Ensure, Ensured

LEMMA Steps ==
    ASSUME IInv, [Next]_vars
    PROVE Ages \/ Crash \/ \E q \in Requests, i \in Runs : Registers(q, i)
<1>1. ASSUME UNCHANGED <<run, record, disk>> PROVE Ages
  BY <1>1 DEF Ages
<1>2. CASE UNCHANGED vars
  BY <1>1, <1>2 DEF vars, memory
<1>3. ASSUME NEW q \in Requests, (\E s \in Sessions : Submit(q, s)) \/ Load(q) PROVE Ages
  BY <1>1, <1>3 DEF Submit, Load
<1>4. ASSUME NEW q \in Requests, Register(q) PROVE Ages \/ \E i \in Runs : Registers(q, i)
  <2>1. CASE UNCHANGED <<run, record, task>>
    BY <1>1, <1>4, <2>1 DEF Register
  <2> QED BY <1>4, <2>1 DEF Register, Registers
<1>5. ASSUME Stop PROVE Ages
  BY <1>1, <1>5, OrderAges DEF Stop, Emptied
<1>6. ASSUME NEW who, Cancelling(who) PROVE Ages
  BY <1>6, CancellingAges DEF Cancelling
<1>7. ASSUME NEW c \in calls, Store(c) \/ CallFails(c) PROVE Ages
  BY <1>7, RepositoryAges
<1>8. ASSUME NEW i \in Runs, Execute(i) PROVE Ages
  BY <1>8, ExecuteAges
<1>9. ASSUME (\E s \in Sessions : CancelAsked(s)) \/ \E p \in Providers : Switch(p) PROVE Ages
  BY <1>9, OrderAges
<1>10. CASE Next
  BY <1>3, <1>4, <1>5, <1>6, <1>7, <1>8, <1>9, <1>10 DEF Next
<1> QED BY <1>2, <1>10

\* What is shown of a session, now and next.
LEMMA ShownIs ==
    ASSUME NEW s
    PROVE /\ Shown(s) = IF record[s] # 0 THEN run[record[s]].result ELSE disk[s].result
          /\ Shown(s)' = IF record'[s] # 0 THEN run'[record'[s]].result ELSE disk'[s].result
BY DEF Shown, Known

LEMMA ShownStays ==
    ASSUME IInv, [Next]_vars, NEW s \in Sessions, Shown(s).revision > 0
    PROVE \/ Shown(s)'.revision > 0
          \/ record'[s] # 0 /\ run'[record'[s]].result = Blank
<1>1. record[s] # 0 => record[s] \in Used /\ record[s] \in Runs
  BY DEF IInv, RunsSound, Given, Used
<1>2. CASE Ages
  <2>1. CASE record[s] = 0
    BY <1>2, <2>1, ShownIs DEF Ages
  <2>2. CASE record[s] # 0
    <3>1. run[record[s]].result.revision > 0
      BY <2>2, ShownIs
    <3>2. \/ run'[record[s]].result = run[record[s]].result \/ run'[record[s]].result = Blank
          \/ run'[record[s]].result.revision > 0
      BY <1>1, <1>2, <2>2 DEF Ages
    <3> QED BY <1>2, <2>2, <3>1, <3>2, ShownIs DEF Ages
  <2> QED BY <2>1, <2>2
<1>3. CASE Crash
  <2>1. disk[s].result.revision > 0
    <3>1. CASE record[s] = 0
      BY <3>1, ShownIs
    <3>2. CASE record[s] # 0
      <4>1. run[record[s]].session = s
        BY <3>2 DEF IInv, Recorded, Latest
      <4> QED BY <1>1, <3>2, <4>1, ShownIs DEF IInv, Kept
    <3> QED BY <3>1, <3>2
  <2>2. record'[s] = 0 /\ disk' = disk
    BY <1>3 DEF Crash
  <2> QED BY <2>1, <2>2, ShownIs
<1>4. ASSUME NEW q \in Requests, NEW i \in Runs, Registers(q, i)
      PROVE Shown(s)'.revision > 0
  <2>1. PICK t : t = request[q].session
    OBVIOUS
  <2>2. PICK p : p = Previous(q)
    OBVIOUS
  <2>3. /\ run'[i].result = p.result /\ \A j \in Runs : j # i => run'[j] = run[j]
        /\ i \notin Used /\ record'[t] = i
        /\ \A u \in Sessions : u # t => record'[u] = record[u]
    BY <1>4, <2>1, <2>2, RegisterFacts
  <2>4. i # 0 /\ disk' = disk
    BY <1>4, AnalysisAssumption DEF Runs, Registers
  <2>5. CASE s = t
    <3>1. p.result = Shown(s)
      BY <1>4, <2>1, <2>2, <2>5, PreviousIs, ShownIs DEF Registers
    <3> QED BY <2>3, <2>4, <2>5, <3>1, ShownIs
  <2>6. CASE s # t
    BY <1>1, <2>3, <2>4, <2>6, ShownIs
  <2> QED BY <2>5, <2>6
<1> QED BY <1>2, <1>3, <1>4, Steps

LEMMA RevisionsGrow ==
    ASSUME IInv, [Next]_vars, NEW i \in Runs, run[i].at = "unused", run'[i].at = "new",
           NEW s, s = run'[i].session
    PROVE /\ run'[i].revision > disk[s].result.revision
          /\ \A j \in Runs : run[j].session = s => run'[i].revision > run[j].revision
<1>1. ~Ages
  BY DEF Ages
<1>2. ~Crash
  BY UnusedIs DEF Crash
<1>3. PICK q \in Requests, k \in Runs : Registers(q, k)
  BY <1>1, <1>2, Steps
<1>4. PICK t : t = request[q].session
  OBVIOUS
<1>5. PICK p : p = Previous(q)
  OBVIOUS
<1>6. run'[k].session = t /\ \A j \in Runs : j # k => run'[j] = run[j]
  BY <1>3, <1>4, <1>5, RegisterFacts
<1>7. k = i /\ t = s
  BY <1>6
<1> QED BY <1>3, <1>4, <1>7, RevisionIsNew

\* A result that was shown is lost to no failure, cancellation or crash, and a
\* new run has a later revision than all there was of its session, whatever
\* was loaded when it was asked for (submit, _execute).
THEOREM ResultsAccumulateHolds == Spec => ResultsAccumulate
<1> DEFINE Keeps ==
             \A s \in Sessions :
               Shown(s).revision > 0 =>
                  \/ Shown(s)'.revision > 0
                  \/ record'[s] # 0 /\ run'[record'[s]].result = Blank
           Grows ==
             \A i \in Runs :
               run[i].at = "unused" /\ run'[i].at = "new" =>
                  LET s == run'[i].session IN
                  /\ run'[i].revision > disk[s].result.revision
                  /\ \A j \in Runs : run[j].session = s => run'[i].revision > run[j].revision
<1>1. IInv /\ [Next]_vars => [Keeps]_vars
  BY ShownStays
<1>2. IInv /\ [Next]_vars => [Grows]_vars
  <2> SUFFICES ASSUME IInv, [Next]_vars, NEW i \in Runs, run[i].at = "unused", run'[i].at = "new"
               PROVE /\ run'[i].revision > disk[run'[i].session].result.revision
                     /\ \A j \in Runs : run[j].session = run'[i].session
                                          => run'[i].revision > run[j].revision
    OBVIOUS
  <2>1. PICK s : s = run'[i].session
    OBVIOUS
  <2> QED BY <2>1, RevisionsGrow
<1>3. ResultKept <=> [][Keeps]_vars
  BY DEF ResultKept
<1>4. RevisionGrows <=> [][Grows]_vars
  BY DEF RevisionGrows
<1> HIDE DEF Keeps, Grows
<1>5. Spec => [][Keeps]_vars
  BY <1>1, AnalysisInvariance, PTL DEF Spec
<1>6. Spec => [][Grows]_vars
  BY <1>2, AnalysisInvariance, PTL DEF Spec
<1> QED BY <1>3, <1>4, <1>5, <1>6 DEF ResultsAccumulate
-----------------------------------------------------------------------------
(* The evidence *)

\* Two segments of one chunk are near each other: the chunk was not closed
\* before the later one, and characters are never taken back.
LEMMA ChunkIsNear ==
    ASSUME NEW s \in Sessions, NEW f \in Segments(s), NEW j \in Chunk(s, f),
           NEW k \in Chunk(s, f), j < k
    PROVE Together(s, j, k)
<1>1. f \in Nat /\ j \in Nat /\ k \in Nat /\ f >= 1 /\ f <= j
  BY SegmentsAre DEF Chunk
<1>2. ~Closed(s, f, k)
  BY <1>1 DEF Chunk
<1>3. k - f < MaxSegments /\ Span(s, f, k) <= MaxCharacters
  <2>1. k - f \in Int /\ MaxSegments \in Nat
    BY <1>1, AnalysisAssumption
  <2>2. MaxCharacters \in Nat
    BY AnalysisAssumption
  <2>3. Span(s, f, k) \in Int
    <3>1. Ends[s][k] \in Nat /\ (f # 1 => Ends[s][f - 1] \in Nat)
      BY <1>1, SegmentsAre DEF Chunk
    <3> QED BY <3>1 DEF Span
  <2> QED BY <1>2, <2>1, <2>2, <2>3 DEF Closed
<1>4. Span(s, j, k) <= Span(s, f, k)
  <2>1. Ends[s][k] \in Nat
    BY SegmentsAre DEF Chunk
  <2>2. CASE j = f
    BY <1>1, <2>1, <2>2, SegmentsAre DEF Span
  <2>3. CASE j # f
    <3>1. j - 1 \in Segments(s) /\ f <= j - 1
      BY <1>1, <2>3, SegmentsAre DEF Chunk
    <3>2. f # 1 => f - 1 \in Segments(s) /\ f - 1 <= j - 1
      BY <1>1, <3>1, SegmentsAre
    <3>3. Ends[s][j - 1] \in Nat /\ (f # 1 => Ends[s][f - 1] \in Nat
                                             /\ Ends[s][f - 1] <= Ends[s][j - 1])
      BY <3>1, <3>2, SegmentsAre, AnalysisAssumption DEF Segments
    <3>4. j # 1
      BY <1>1, <2>3
    <3> QED BY <2>1, <3>3, <3>4 DEF Span
  <2> QED BY <2>2, <2>3
<1>5. Span(s, j, k) \in Int /\ Span(s, f, k) \in Int
  <2>1. /\ Ends[s][k] \in Nat /\ (f # 1 => Ends[s][f - 1] \in Nat)
        /\ (j # 1 => Ends[s][j - 1] \in Nat)
    BY <1>1, SegmentsAre DEF Chunk
  <2> QED BY <2>1 DEF Span
<1>6. k < j + MaxSegments
  BY <1>1, <1>3, AnalysisAssumption
<1> QED BY <1>3, <1>4, <1>5, <1>6, AnalysisAssumption DEF Together

\* One more part, of the chunk that is asked for, and what is left after the
\* chunk: the parts share out all up to the chunk that is next, or all there is.
LEMMA PartAdds ==
    ASSUME NEW s \in Sessions, NEW f \in Segments(s), NEW parts,
           Heard(s, parts, {j \in Segments(s) : j < f}),
           NEW part, part.chunk = f, part.cites \subseteq Chunk(s, f)
    PROVE /\ Heard(s, parts \cup {part}, Segments(s) \ Rest(s, f))
          /\ \A next \in Rest(s, f) :
               (\A j \in Rest(s, f) : next <= j) =>
                  Heard(s, parts \cup {part}, {j \in Segments(s) : j < next})
<1>1. \A j, k \in Chunk(s, f) : j < k => Together(s, j, k)
  BY ChunkIsNear
<1>2. f \in Chunk(s, f)
  BY SegmentsAre DEF Chunk
<1>3. Proper(s, part)
  BY <1>1, <1>2 DEF Proper
<1>4. \A j \in Segments(s) : j \notin Rest(s, f) <=> j < f \/ j \in Chunk(s, f)
  BY <1>2, SegmentsAre DEF Rest, Chunk
<1>5. Chunk(s, f) \subseteq Segments(s) /\ \A j \in Chunk(s, f) : ~(j < f)
  BY SegmentsAre DEF Chunk
<1>6. Heard(s, parts \cup {part}, Segments(s) \ Rest(s, f))
  <2>1. ASSUME NEW a \in parts \cup {part}
        PROVE Proper(s, a) /\ Chunk(s, a.chunk) \subseteq Segments(s) \ Rest(s, f)
    BY <1>3, <1>4, <1>5 DEF Heard
  <2>2. ASSUME NEW j \in Segments(s) \ Rest(s, f)
        PROVE \E a \in parts \cup {part} : j \in Chunk(s, a.chunk)
    BY <1>4 DEF Heard
  <2>3. ASSUME NEW a \in parts \cup {part}, NEW b \in parts \cup {part}, a # b
        PROVE Chunk(s, a.chunk) \cap Chunk(s, b.chunk) = {}
    BY <1>5, <2>3 DEF Heard
  <2> QED BY <2>1, <2>2, <2>3 DEF Heard
<1>7. ASSUME NEW next \in Rest(s, f), \A j \in Rest(s, f) : next <= j
      PROVE Heard(s, parts \cup {part}, {j \in Segments(s) : j < next})
  <2>1. \A j \in Segments(s) : j < next => j \notin Rest(s, f)
    BY <1>7, SegmentsAre DEF Rest
  <2>2. \A j \in Chunk(s, f) : j < next
    <3>1. next \in Segments(s) /\ f < next /\ next \notin Chunk(s, f)
      BY DEF Rest
    <3>2. ASSUME NEW j \in Chunk(s, f), ~(j < next) PROVE FALSE
      <4>1. \A k \in f + 1 .. next : k \in f + 1 .. j
        BY <1>5, <3>1, <3>2, SegmentsAre
      <4> QED BY <3>1, <4>1, SegmentsAre DEF Chunk
    <3> QED BY <3>2
  <2>3. {j \in Segments(s) : j < next} = Segments(s) \ Rest(s, f)
    <3>1. \A j \in Segments(s) \ Rest(s, f) : j < next
      <4>1. next \in Segments(s) /\ f < next
        BY DEF Rest
      <4> QED BY <1>4, <2>2, <4>1, SegmentsAre
    <3> QED BY <2>1, <3>1
  <2> QED BY <1>6, <2>3
<1> QED BY <1>6, <1>7

LEMMA NothingHeard == ASSUME NEW s PROVE Heard(s, {}, {})
BY DEF Heard

\* Runs move without a result to save: those that go on asking do so where they
\* were, the others ask no more.
LEMMA EvidenceStays ==
    ASSUME IInv, EvidenceInv, disk' = disk,
           \A c \in calls' : \/ c.status # "completed"
                             \/ \E d \in calls : /\ d.status = "completed"
                                                 /\ c.session = d.session /\ c.result = d.result,
           \A i \in Runs :
              \/ run'[i].at \notin {"new", "pending", "running", "asking", "pausing"}
              \/ /\ run'[i].session = run[i].session
                 /\ run'[i].chunk = run[i].chunk /\ run'[i].parts = run[i].parts
                 /\ \/ {run[i].at, run'[i].at} \subseteq {"new", "pending", "running"}
                    \/ {run[i].at, run'[i].at} \subseteq {"asking", "pausing"}
              \/ Progress(i)'
    PROVE EvidenceInv'
<1>1. \A i \in Runs : Progress(i)'
  BY DEF EvidenceInv, Progress
<1>2. \A c \in calls' : Whole(c)
  BY DEF EvidenceInv, Whole
<1>3. ResultWhole'
  BY DEF EvidenceInv, ResultWhole
<1> QED BY <1>1, <1>2, <1>3 DEF EvidenceInv, Whole

\* The result that is handed to the repository.
LEMMA SavesEvidence ==
    ASSUME IInv, EvidenceInv, NEW i \in Runs, run[i].session \in Sessions, NEW parts,
           Heard(run[i].session, parts, Segments(run[i].session)), Saves(i, parts), disk' = disk
    PROVE EvidenceInv'
<1>1. \A j \in Runs : j # i => run'[j] = run[j]
  BY DEF Saves, IInv, Types
<1>2. run'[i].at = "saving"
  BY DEF Saves, IInv, Types, RunSet
<1>3. \A j \in Runs : Progress(j)'
  BY <1>1, <1>2 DEF EvidenceInv, Progress
<1>4. \A c \in calls' : Whole(c)
  BY DEF Saves, Call, EvidenceInv, Whole
<1>5. ResultWhole'
  BY DEF EvidenceInv, ResultWhole
<1> QED BY <1>3, <1>4, <1>5 DEF EvidenceInv, Whole

LEMMA ProceedEvidence ==
    ASSUME IInv, EvidenceInv, NEW i \in Runs, Proceed(i) PROVE EvidenceInv'
<1>1. /\ Live(i) /\ run[i].at = "running" /\ run[i].chunk = 1 /\ run[i].parts = {}
      /\ disk' = disk
  BY DEF Proceed, Live, others, EvidenceInv, Progress
<1>2. run[i] \in RunSet /\ run[i].session \in Sessions
  BY <1>1, LiveRun
<1>3. CASE /\ run' = [run EXCEPT ![i].at = "skipping", ![i].status = "not_started",
                                 ![i].result = Blank]
           /\ calls' = calls \cup {Call(Task(i), run[i].session, "not_started", NoResult)}
  <2>1. run'[i].at = "skipping" /\ \A j \in Runs : j # i => run'[j] = run[j]
    BY <1>2, <1>3 DEF IInv, Types, RunSet
  <2>2. \A j \in Runs : j # i => Progress(j)'
    BY <2>1 DEF EvidenceInv, Progress
  <2>3. \A c \in calls' : c.status # "completed" \/ c \in calls
    BY <1>3 DEF Call
  <2> QED BY <1>1, <2>1, <2>2, <2>3, EvidenceStays
<1>4. CASE Segments(run[i].session) = {} /\ Saves(i, {})
  BY <1>1, <1>2, <1>4, NothingHeard, SavesEvidence
<1>5. CASE /\ Segments(run[i].session) # {}
           /\ run' = [run EXCEPT ![i].at = "asking"] /\ UNCHANGED <<calls, task>>
  <2>1. /\ run'[i].at = "asking" /\ run'[i].session = run[i].session
        /\ run'[i].chunk = 1 /\ run'[i].parts = {}
    BY <1>1, <1>2, <1>5 DEF IInv, Types, RunSet
  <2>2. \A j \in Runs : j # i => run'[j] = run[j]
    BY <1>5 DEF IInv, Types
  <2>3. 1 \in Segments(run[i].session)
    BY <1>2, <1>5, SegmentsAre
  <2>4. {j \in Segments(run[i].session) : j < 1} = {}
    BY <1>2, SegmentsAre
  <2>5. Progress(i)'
    BY <2>1, <2>3, <2>4, NothingHeard DEF Progress
  <2>6. \A j \in Runs : j # i => Progress(j)'
    BY <2>2 DEF EvidenceInv, Progress
  <2> QED BY <1>1, <1>5, <2>5, <2>6, EvidenceStays
<1> QED BY <1>3, <1>4, <1>5 DEF Proceed

LEMMA AnswerEvidence ==
    ASSUME IInv, EvidenceInv, NEW i \in Runs, NEW cites, Answer(i, cites) PROVE EvidenceInv'
<1>1. Live(i) /\ run[i].at = "asking" /\ disk' = disk
  BY DEF Answer, Live, others
<1>2. run[i] \in RunSet /\ run[i].session \in Sessions
  BY <1>1, LiveRun
<1>3. PICK s : s = run[i].session
  OBVIOUS
<1>4. PICK f : f = run[i].chunk
  OBVIOUS
<1>5. /\ f \in Segments(s) /\ cites \subseteq Chunk(s, f)
      /\ Heard(s, run[i].parts, {j \in Segments(s) : j < f})
  BY <1>1, <1>3, <1>4 DEF EvidenceInv, Progress, Answer, Valid
<1>6. PICK part : part = [chunk |-> f, cites |-> cites]
  OBVIOUS
<1>10. PICK parts : parts = run[i].parts \cup {part}
  OBVIOUS
<1>11. part.chunk = f /\ part.cites \subseteq Chunk(s, f)
  BY <1>5, <1>6
<1>7. /\ Heard(s, parts, Segments(s) \ Rest(s, f))
      /\ \A next \in Rest(s, f) :
           (\A j \in Rest(s, f) : next <= j) => Heard(s, parts, {j \in Segments(s) : j < next})
  BY <1>2, <1>3, <1>5, <1>10, <1>11, PartAdds
<1>8. CASE Rest(s, f) = {} /\ Saves(i, parts)
  <2>1. Heard(s, parts, Segments(s))
    BY <1>7, <1>8
  <2> QED BY <1>1, <1>2, <1>3, <1>8, <2>1, SavesEvidence
<1>9. ASSUME NEW next \in Rest(s, f), \A j \in Rest(s, f) : next <= j,
             run' = [run EXCEPT ![i].chunk = next, ![i].attempt = 0, ![i].parts = parts],
             calls' = calls
      PROVE EvidenceInv'
  <2>1. /\ run'[i].at = "asking" /\ run'[i].session = s
        /\ run'[i].chunk = next /\ run'[i].parts = parts
    BY <1>1, <1>2, <1>3, <1>9 DEF IInv, Types, RunSet
  <2>2. \A j \in Runs : j # i => run'[j] = run[j]
    BY <1>9 DEF IInv, Types
  <2>3. next \in Segments(s)
    BY DEF Rest
  <2>4. Heard(s, parts, {j \in Segments(s) : j < next})
    BY <1>7, <1>9
  <2>5. Progress(i)'
    BY <2>1, <2>3, <2>4 DEF Progress
  <2>6. \A j \in Runs : j # i => Progress(j)'
    BY <2>2 DEF EvidenceInv, Progress
  <2> QED BY <1>1, <1>9, <2>5, <2>6, EvidenceStays
<1> QED BY <1>3, <1>4, <1>6, <1>8, <1>9, <1>10 DEF Answer

\* A run that moves without an answer.
LEMMA MoveEvidence ==
    ASSUME IInv, EvidenceInv, NEW i \in Runs, NEW r, run' = [run EXCEPT ![i] = r], disk' = disk,
           \A c \in calls' : c.status # "completed" \/ c \in calls,
           \/ r.at \notin {"new", "pending", "running", "asking", "pausing"}
           \/ /\ r.session = run[i].session
              /\ r.chunk = run[i].chunk /\ r.parts = run[i].parts
              /\ \/ {run[i].at, r.at} \subseteq {"new", "pending", "running"}
                 \/ {run[i].at, r.at} \subseteq {"asking", "pausing"}
    PROVE EvidenceInv'
<1>1. run'[i] = r /\ \A j \in Runs : j # i => run'[j] = run[j]
  BY DEF IInv, Types
<1>2. \A j \in Runs : j # i => Progress(j)'
  BY <1>1 DEF EvidenceInv, Progress
<1> QED BY <1>1, <1>2, EvidenceStays

LEMMA MarksEvidence ==
    ASSUME IInv, EvidenceInv, NEW i \in Runs, Live(i), NEW at, NEW st, Marks(i, at, st),
           disk' = disk, st # "completed",
           \/ at \notin {"new", "pending", "running", "asking", "pausing"}
           \/ {run[i].at, at} \subseteq {"new", "pending", "running"}
    PROVE EvidenceInv'
<1>1. run[i] \in RunSet
  BY LiveRun
<1>2. PICK r : r = [run[i] EXCEPT !.at = at, !.status = st]
  OBVIOUS
<1>3. /\ r.at = at /\ r.session = run[i].session /\ r.chunk = run[i].chunk
      /\ r.parts = run[i].parts
  BY <1>1, <1>2 DEF RunSet
<1>4. run' = [run EXCEPT ![i] = r]
  BY <1>2 DEF Marks, IInv, Types
<1>5. \A c \in calls' : c.status # "completed" \/ c \in calls
  BY DEF Marks, Call
<1> QED BY <1>3, <1>4, <1>5, MoveEvidence

LEMMA ExecuteEvidence ==
    ASSUME IInv, EvidenceInv, NEW i \in Runs, Execute(i) PROVE EvidenceInv'
<1>1. CASE Begin(i) \/ Announce(i) \/ Fail(i)
  <2>1. Live(i) /\ disk' = disk
    BY <1>1 DEF Begin, Announce, Fail, Live, others
  <2> QED BY <1>1, <2>1, MarksEvidence DEF Begin, Announce, Fail
<1>2. CASE Retryable(i) \/ AskAgain(i)
  <2>1. Live(i) /\ run[i].at \in {"asking", "pausing"} /\ disk' = disk /\ calls' = calls
    BY <1>2 DEF Retryable, AskAgain, Live, others
  <2>2. run[i] \in RunSet
    BY <2>1, LiveRun
  <2>3. CASE Retryable(i)
    <3>1. PICK r : r = [run[i] EXCEPT !.at = "pausing"]
      OBVIOUS
    <3>2. /\ r.at = "pausing" /\ r.session = run[i].session /\ r.chunk = run[i].chunk
          /\ r.parts = run[i].parts
      BY <2>2, <3>1 DEF RunSet
    <3>3. run' = [run EXCEPT ![i] = r]
      BY <2>3, <3>1 DEF Retryable, IInv, Types
    <3> QED BY <2>1, <3>2, <3>3, MoveEvidence
  <2>4. CASE AskAgain(i)
    <3>1. PICK r : r = [run[i] EXCEPT !.at = "asking", !.attempt = @ + 1]
      OBVIOUS
    <3>2. /\ r.at = "asking" /\ r.session = run[i].session /\ r.chunk = run[i].chunk
          /\ r.parts = run[i].parts
      BY <2>2, <3>1 DEF RunSet
    <3>3. run' = [run EXCEPT ![i] = r]
      BY <2>4, <3>1 DEF AskAgain, IInv, Types
    <3> QED BY <2>1, <3>2, <3>3, MoveEvidence
  <2> QED BY <1>2, <2>3, <2>4
<1>3. CASE Saved(i)
  <2>1. run' = [run EXCEPT ![i] = Completes(i)] /\ disk' = disk /\ calls' = calls
    BY <1>3 DEF Saved, others
  <2>2. Completes(i).at = "announcing"
    BY DEF Completes, IInv, Types, RunSet
  <2> QED BY <2>1, <2>2, MoveEvidence
<1>4. CASE End(i)
  <2>1. run' = [run EXCEPT ![i] = Over(i)] /\ disk' = disk /\ calls' = calls
    BY <1>4 DEF End, others
  <2> QED BY <2>1, OverIs, MoveEvidence
<1> QED BY <1>1, <1>2, <1>3, <1>4, ProceedEvidence, AnswerEvidence DEF Execute

\* A new run has asked for no chunk.
LEMMA RegisterEvidence ==
    ASSUME IInv, EvidenceInv, NEW q \in Requests, Register(q) PROVE EvidenceInv'
<1>1. disk' = disk /\ calls' = calls
  BY DEF Register
<1>2. CASE run' = run
  BY <1>1, <1>2 DEF EvidenceInv, Progress, Whole, ResultWhole
<1>3. ASSUME NEW i \in Runs, run' = [run EXCEPT ![i] = Registered(q, i)]
      PROVE EvidenceInv'
  <2>1. /\ Registered(q, i).at = "new" /\ Registered(q, i).chunk = 1
        /\ Registered(q, i).parts = {}
    BY DEF Registered, Unused
  <2>2. run'[i] = Registered(q, i) /\ \A j \in Runs : j # i => run'[j] = run[j]
    BY <1>3 DEF IInv, Types
  <2>3. Progress(i)'
    BY <2>1, <2>2 DEF Progress
  <2>4. \A j \in Runs : j # i => Progress(j)'
    BY <2>2 DEF EvidenceInv, Progress
  <2> QED BY <1>1, <2>3, <2>4, EvidenceStays
<1> QED BY <1>2, <1>3 DEF Register

LEMMA StoreEvidence ==
    ASSUME IInv, EvidenceInv, NEW c \in calls, Store(c) PROVE EvidenceInv'
<1>1. run' = run /\ calls' \subseteq calls
  BY DEF Store, memory
<1>2. \A i \in Runs : Progress(i)'
  BY <1>1 DEF EvidenceInv, Progress
<1>3. \A d \in calls' : Whole(d)
  BY <1>1 DEF EvidenceInv
<1>4. \A s \in Sessions :
         disk'[s].result = IF s = c.session /\ c.status = "completed" THEN c.result
                           ELSE disk[s].result
  BY DEF Store, IInv, Types
<1>5. ResultWhole'
  BY <1>4 DEF EvidenceInv, ResultWhole, Whole
<1> QED BY <1>2, <1>3, <1>5 DEF EvidenceInv, Whole

LEMMA CallFailsEvidence ==
    ASSUME IInv, EvidenceInv, NEW c \in calls, CallFails(c) PROVE EvidenceInv'
<1>1. disk' = disk
  BY DEF CallFails
<1>2. CASE c.status = "completed" /\ c.who # Nobody
  <2>1. PICK i \in Runs : c.who = Task(i)
    BY <1>2 DEF IInv, Kept
  <2>2. c.who[2] = i
    BY <2>1 DEF Task
  <2>3. PICK r : r = [run[i] EXCEPT !.at = "failing", !.status = "failed"]
    OBVIOUS
  <2>4. r.at = "failing"
    BY <2>3 DEF IInv, Types, RunSet
  <2>5. run' = [run EXCEPT ![i] = r]
    BY <1>2, <2>2, <2>3 DEF CallFails, IInv, Types
  <2>6. \A d \in calls' : d.status # "completed" \/ d \in calls
    BY <1>2 DEF CallFails, Call
  <2> QED BY <1>1, <2>4, <2>5, <2>6, MoveEvidence
<1>3. CASE c.status # "completed" \/ c.who = Nobody
  <2>1. run' = run /\ calls' \subseteq calls
    BY <1>3 DEF CallFails
  <2> QED BY <1>1, <2>1 DEF EvidenceInv, Progress, Whole, ResultWhole
<1> QED BY <1>2, <1>3

\* A task that is cancelled leaves what it was storing behind; no other asks more.
LEMMA CutEvidence ==
    ASSUME IInv, EvidenceInv, NEW dead \in SUBSET Runs, Cut(dead), disk' = disk
    PROVE EvidenceInv'
<1>1. ASSUME NEW i \in Runs
      PROVE run'[i] = run[i] \/ run'[i].at \in {"cancelling", "over"}
  <2>1. Over(i).at = "over"
    BY OverIs
  <2>2. run'[i] = IF i \notin dead THEN run[i]
                  ELSE IF Handles(i)
                  THEN [run[i] EXCEPT !.at = "cancelling", !.status = "cancelled"]
                  ELSE Over(i)
    BY DEF Cut
  <2>3. [run[i] EXCEPT !.at = "cancelling", !.status = "cancelled"].at = "cancelling"
    BY DEF IInv, Types, RunSet
  <2> QED BY <2>1, <2>2, <2>3
<1>2. ASSUME NEW c \in calls'
      PROVE \/ c.status # "completed"
            \/ \E d \in calls : /\ d.status = "completed"
                                /\ c.session = d.session /\ c.result = d.result
  <2>1. CASE c \in calls
    BY <2>1
  <2>2. ASSUME NEW d \in calls, c = [d EXCEPT !.who = Nobody]
        PROVE c.status = d.status /\ c.session = d.session /\ c.result = d.result
    BY <2>2 DEF IInv, Types, CallSet
  <2>3. CASE \E j \in dead : c = Call(Task(j), run[j].session, "cancelled", NoResult)
    BY <2>3 DEF Call
  <2>4. \/ c \in calls
        \/ \E d \in calls : c = [d EXCEPT !.who = Nobody]
        \/ \E j \in dead : c = Call(Task(j), run[j].session, "cancelled", NoResult)
    BY DEF Cut, Left, Abandoned
  <2> QED BY <2>1, <2>2, <2>3, <2>4
<1>3. \A i \in Runs : run'[i] = run[i] => Progress(i)'
  BY DEF EvidenceInv, Progress
<1> QED BY <1>1, <1>2, <1>3, EvidenceStays

LEMMA OrderEvidence ==
    ASSUME IInv, EvidenceInv,
           Shutdown \/ (\E s \in Sessions : CancelAsked(s)) \/ (\E p \in Providers : Switch(p))
    PROVE EvidenceInv'
<1>1. disk' = disk
  BY DEF Shutdown, CancelAsked, Switch
<1>2. CASE UNCHANGED <<run, calls>>
  BY <1>1, <1>2 DEF EvidenceInv, Progress, Whole, ResultWhole
<1>3. ASSUME NEW dead, dead \subseteq {task[s] : s \in Running}, Cut(dead) PROVE EvidenceInv'
  BY <1>1, <1>3, RunningTasks, CutEvidence
<1>4. CASE Shutdown
  BY <1>3, <1>4 DEF Shutdown
<1>5. ASSUME NEW s \in Sessions, CancelAsked(s) PROVE EvidenceInv'
  BY <1>3, <1>5 DEF CancelAsked
<1>6. ASSUME NEW p \in Providers, Switch(p) PROVE EvidenceInv'
  BY <1>2, <1>3, <1>6 DEF Switch
<1> QED BY <1>4, <1>5, <1>6

LEMMA CancellingEvidence ==
    ASSUME IInv, EvidenceInv, NEW who \in Cancellers, NEW i \in Runs,
           Ensure(who, i) \/ Ensured(who, i)
    PROVE EvidenceInv'
<1>1. disk' = disk
  BY DEF Ensure, Ensured
<1>2. CASE UNCHANGED <<run, calls>>
  BY <1>1, <1>2 DEF EvidenceInv, Progress, Whole, ResultWhole
<1>3. ASSUME NEW j, NEW s, run' = [run EXCEPT ![j].status = "cancelled"],
             calls' = calls \cup {Call(Canceller(who), s, "cancelled", NoResult)}
      PROVE EvidenceInv'
  <2>1. \A k \in Runs : /\ run'[k].at = run[k].at /\ run'[k].session = run[k].session
                        /\ run'[k].chunk = run[k].chunk /\ run'[k].parts = run[k].parts
    BY <1>3 DEF IInv, Types, RunSet
  <2>2. \A k \in Runs : Progress(k)'
    BY <2>1 DEF EvidenceInv, Progress
  <2>3. \A c \in calls' : c.status # "completed" \/ c \in calls
    BY <1>3 DEF Call
  <2> QED BY <1>1, <2>2, <2>3, EvidenceStays
<1> QED BY <1>2, <1>3 DEF Ensure, Ensured

\* Nothing is asked for, and nothing to be stored: the disk keeps what it has.
LEMMA EmptyEvidence ==
    ASSUME \A i \in Runs : run'[i].at \in {"unused", "over"}, calls' = {}, ResultWhole'
    PROVE EvidenceInv'
BY DEF EvidenceInv, Progress

LEMMA EvidenceBegins == Init => EvidenceInv
<1> SUFFICES ASSUME Init PROVE EvidenceInv
  OBVIOUS
<1>1. \A i \in Runs : run[i].at = "unused"
  BY UnusedIs DEF Init
<1>2. \A s \in Sessions : disk[s].result.revision = 0
  BY NoResultIs DEF Init
<1>3. ResultWhole
  BY <1>2 DEF ResultWhole
<1> QED BY <1>1, <1>3 DEF EvidenceInv, Progress, Init

LEMMA EvidenceStep == IInv /\ EvidenceInv /\ [Next]_vars => EvidenceInv'
<1> SUFFICES ASSUME IInv, EvidenceInv, [Next]_vars PROVE EvidenceInv'
  OBVIOUS
<1>1. CASE UNCHANGED <<run, calls, disk>>
  BY <1>1 DEF EvidenceInv, Progress, Whole, ResultWhole
<1>2. ASSUME NEW q \in Requests, (\E s \in Sessions : Submit(q, s)) \/ Load(q) \/ Register(q)
      PROVE EvidenceInv'
  BY <1>1, <1>2, RegisterEvidence DEF Submit, Load
<1>3. ASSUME NEW i \in Runs, Execute(i) PROVE EvidenceInv'
  BY <1>3, ExecuteEvidence
<1>4. ASSUME NEW c \in calls, Store(c) \/ CallFails(c) PROVE EvidenceInv'
  BY <1>4, StoreEvidence, CallFailsEvidence
<1>5. CASE (\E s \in Sessions : CancelAsked(s)) \/ \E p \in Providers : Switch(p)
  BY <1>5, OrderEvidence
<1>6. ASSUME NEW who \in DOMAIN cancel, Cancelling(who) PROVE EvidenceInv'
  <2>1. who \in Cancellers
    BY <1>6 DEF IInv, Types
  <2> QED BY <1>6, <2>1, CancellingEvidence DEF Cancelling
<1>7. CASE Stop
  BY <1>1, <1>7, OrderEvidence DEF Stop, Emptied
<1>8. CASE Crash
  <2>1. \A i \in Runs : run'[i].at \in {"unused", "over"}
    <3>1. [Unused EXCEPT !.at = "over"].at = "over"
      BY DEF Unused
    <3> QED BY <1>8, <3>1, UnusedIs DEF Crash
  <2>2. calls' = {} /\ disk' = disk
    BY <1>8 DEF Crash
  <2>3. ResultWhole'
    BY <2>2 DEF EvidenceInv, ResultWhole
  <2> QED BY <2>1, <2>2, <2>3, EmptyEvidence
<1>9. CASE UNCHANGED vars
  BY <1>1, <1>9 DEF vars, memory
<1> QED BY <1>2, <1>3, <1>4, <1>5, <1>6, <1>7, <1>8, <1>9 DEF Next

\* A stored result rests on the whole session, however long it is and wherever
\* its chunks end, whichever submissions, retries, cancellations and crashes
\* overlap: every segment was in one chunk that was answered, and an answer cites
\* segments of its chunk, if any (chunk_segments, validate_evidence,
\* save_analysis).
THEOREM ResultsAreWhole == Spec => []ResultWhole
<1>1. IInv /\ EvidenceInv /\ [Next]_vars => EvidenceInv'
  BY EvidenceStep
<1>2. EvidenceInv => ResultWhole
  BY DEF EvidenceInv
<1>3. Init => EvidenceInv
  BY EvidenceBegins
<1> QED BY <1>1, <1>2, <1>3, AnalysisInvariance, PTL DEF Spec
=============================================================================
