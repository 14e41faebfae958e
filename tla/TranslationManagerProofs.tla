---------------------- MODULE TranslationManagerProofs ----------------------
(***************************************************************************)
(* Proofs about TranslationManager, for every set of captions, workers and *)
(* providers and every bound.                                              *)
(***************************************************************************)
EXTENDS TranslationManager, SequenceTheorems, TLAPS

-----------------------------------------------------------------------------
(* The queue *)

\* TranslationQueue.remove keeps a sequence of jobs, takes out exactly the jobs
\* asked for, and puts no job twice in the queue.
LEMMA RemoveKeepsOthers ==
    ASSUME queue \in Seq(Job), NEW J, RemoveFromQueue(J)
    PROVE  /\ queue' \in Seq(Job)
           /\ Queued' = Queued \ J
           /\ (\A i, k \in 1..Len(queue) : i # k => queue[i].seg # queue[k].seg)
                => (\A i, k \in 1..Len(queue') : i # k => queue'[i].seg # queue'[k].seg)
<1> DEFINE keep == {i \in 1..Len(queue) : queue[i] \notin J}
<1>1. PICK f \in Enumerations(keep) : queue' = [i \in DOMAIN f |-> queue[f[i]]]
  BY DEF RemoveFromQueue
<1>2. PICK n \in Nat : f \in [1..n -> keep]
  BY <1>1, SMTT(30) DEF Enumerations
<1>3. /\ \A i, k \in 1..n : i < k => f[i] < f[k]
      /\ \A p \in keep : \E i \in 1..n : f[i] = p
  BY <1>1, <1>2 DEF Enumerations
<1>4. /\ DOMAIN f = 1..n
      /\ \A i \in 1..n : f[i] \in 1..Len(queue) /\ queue[f[i]] \notin J
  BY <1>2
<1>5. \A i \in 1..Len(queue) : queue[i] \in Job
  BY ElementOfSeq
<1>6. queue' = [i \in 1..n |-> queue[f[i]]]
  BY <1>1, <1>4
<1>7. queue' \in Seq(Job) /\ Len(queue') = n
  BY <1>4, <1>5, <1>6, IsASeq
<1>8. Queued' = Queued \ J
  BY <1>3, <1>4, <1>6, <1>7 DEF Queued
<1>9. \A i, k \in 1..n : i # k => f[i] # f[k]
  BY <1>3, <1>4
<1> QED
  BY <1>4, <1>6, <1>7, <1>8, <1>9

-----------------------------------------------------------------------------
(* Types *)

\* A worker that runs an attempt or emits its outcome has a job.
HoldsJob ==
    \A w \in Workers :
        worker[w].pc \in {"calling", "backoff", "emitting"} <=> worker[w].job # None

\* A switch under way knows the provider it replaces.
KnowsOld == \A p \in Providers : switch[p].pc = "switching" => switch[p].old # None

TypeInv == TypeOK /\ HoldsJob /\ KnowsOld

LEMMA FailingType ==
    ASSUME TypeOK, NEW J, NEW code \in {"provider", "cancelled"}
    PROVE  Failing(J, code) \in [Segments -> Record]
<1>1. \A s \in Segments : rec[s] \in Record
  BY DEF TypeOK
<1> QED
  BY <1>1 DEF Failing, Record, Status, ErrorCode, InProgress

LEMMA CancellingType ==
    ASSUME TypeOK, NEW W
    PROVE  Cancelling(W) \in [Workers -> CallState]
BY DEF Cancelling, TypeOK, CallState

LEMMA LocalType ==
    ASSUME NEW j \in Job \cup {None}, NEW n \in Nat, NEW holds \in BOOLEAN,
           NEW event \in {"translation", "error"}
    PROVE  /\ Idle \in WorkerState /\ Dead \in WorkerState
           /\ Calling(j, n) \in WorkerState /\ BackingOff(j, n) \in WorkerState
           /\ Emitting(j, event, holds) \in WorkerState
BY DEF Local, Idle, Dead, Calling, BackingOff, Emitting, WorkerState

LEMMA HeldJob ==
    ASSUME TypeOK, NEW w \in Workers
    PROVE  /\ worker[w] \in WorkerState
           /\ worker[w].job \in Job \cup {None} /\ worker[w].attempt \in Nat
           /\ worker[w].holds \in BOOLEAN
BY DEF TypeOK, WorkerState

LEMMA InitType == Init => TypeOK
<1> SUFFICES ASSUME Init PROVE TypeOK
  OBVIOUS
<1>1. Idle \in WorkerState
  BY DEF Idle, Local, WorkerState
<1>2. Ready \in SwitchStates
  BY DEF Ready, SwitchState, SwitchStates
<1>3. Absent \in Record
  BY DEF Absent, Record, Status, InProgress, ErrorCode
<1> QED
  BY <1>1, <1>2, <1>3, TranslationAssumption, EmptySeq DEF Init, TypeOK, CallState

LEMMA SubmitType ==
    ASSUME TypeOK, NEW s \in Segments, Submit(s)
    PROVE  TypeOK'
<1>1. worker' = Revived /\ UNCHANGED submitFrame
  BY DEF Submit, Refuse, Skip, Disable, Overflow, Enqueue
<1>2. worker' \in [Workers -> WorkerState]
  BY <1>1 DEF TypeOK, Revived, Idle, Local, WorkerState
<1>3. rec' \in [Segments -> Record]
  <2>1. rec[s] \in Record
    BY DEF TypeOK
  <2>2. ASSUME NEW status \in Status, NEW result \in Nat, NEW error \in ErrorCode,
               Renewed(s, status, result, error)
        PROVE  rec' \in [Segments -> Record]
    BY <2>1, <2>2 DEF Renewed, TypeOK, Record
  <2>3. /\ {"skipped", "disabled", "failed", "pending"} \subseteq Status
        /\ {"none", "queue_full"} \subseteq ErrorCode /\ rec[s].result \in Nat
    BY <2>1 DEF Record, Status, InProgress, ErrorCode
  <2>4. CASE Refuse(s)
    BY <2>4 DEF Refuse, TypeOK
  <2>5. CASE Skip(s) \/ Disable(s) \/ Overflow(s) \/ Enqueue(s)
    BY <2>2, <2>3, <2>5 DEF Skip, Disable, Overflow, Enqueue
  <2> QED
    BY <2>4, <2>5 DEF Submit
<1>4. queue' \in Seq(Job) /\ waiting' \subseteq Segments
  <2>1. [seg |-> s, sub |-> rec[s].sub + 1, provider |-> provider] \in Job
    BY DEF TypeOK, Record, Job
  <2>2. CASE Enqueue(s)
    BY <2>1, <2>2, AppendProperties DEF Enqueue, TypeOK
  <2>3. CASE Refuse(s) \/ Skip(s) \/ Disable(s) \/ Overflow(s)
    BY <2>3 DEF Refuse, Skip, Disable, Overflow, TypeOK
  <2> QED
    BY <2>2, <2>3 DEF Submit
<1> QED
  BY <1>1, <1>2, <1>3, <1>4 DEF TypeOK, submitFrame

LEMMA StartAttemptType ==
    ASSUME TypeOK, NEW w \in Workers, NEW j \in Job, NEW n \in Nat, StartAttempt(w, j, n)
    PROVE  /\ rec' \in [Segments -> Record]
           /\ worker' \in [Workers -> WorkerState]
           /\ call' \in [Workers -> CallState]
           /\ activeCall' \in [Segments -> Workers \cup {None}]
<1>1. j.seg \in Segments /\ rec[j.seg] \in Record
  BY DEF Job, TypeOK
<1>2. rec' \in [Segments -> Record]
  BY <1>1 DEF StartAttempt, TypeOK, Record, Status, InProgress
<1> QED
  BY <1>1, <1>2, LocalType DEF StartAttempt, TypeOK, CallState

LEMMA LeaveType ==
    ASSUME TypeOK, NEW w \in Workers, NEW next \in {Idle, Dead}, NEW holds \in BOOLEAN,
           Leave(w, next), activeCall' = Popped(activeCall, worker[w].job.seg, holds)
    PROVE  /\ worker' \in [Workers -> WorkerState]
           /\ active' \in [Segments -> Job \cup {None}]
           /\ activeCall' \in [Segments -> Workers \cup {None}]
<1>1. next \in WorkerState
  BY LocalType
<1> QED
  BY <1>1 DEF Leave, Popped, TypeOK

LEMMA GiveUpType ==
    ASSUME TypeOK, NEW w \in Workers, worker[w].job # None,
           NEW code \in {"provider", "cancelled"}, NEW holds \in BOOLEAN,
           GiveUp(w, code, holds)
    PROVE  /\ rec' \in [Segments -> Record]
           /\ worker' \in [Workers -> WorkerState]
           /\ active' \in [Segments -> Job \cup {None}]
           /\ activeCall' \in [Segments -> Workers \cup {None}]
<1> DEFINE j == worker[w].job
<1>1. j \in Job \cup {None}
  BY HeldJob
<1>2. CASE Reportable(j, code)
  <2>1. Emitting(j, "error", holds) \in WorkerState
    BY <1>1, LocalType
  <2>2. Failing({j}, code) \in [Segments -> Record]
    BY FailingType
  <2> QED
    BY <1>2, <2>1, <2>2 DEF GiveUp, TypeOK
<1>3. CASE ~Reportable(j, code)
  BY <1>3, LeaveType DEF GiveUp, TypeOK
<1> QED
  BY <1>2, <1>3

LEMMA TakeType ==
    ASSUME TypeOK, NEW w \in Workers, Take(w)
    PROVE  TypeOK'
<1> DEFINE j == Head(queue)
<1>1. j \in Job /\ Tail(queue) \in Seq(Job)
  BY HeadTailProperties DEF Take, TypeOK
<1>2. /\ rec' \in [Segments -> Record]
      /\ worker' \in [Workers -> WorkerState]
      /\ call' \in [Workers -> CallState]
      /\ activeCall' \in [Segments -> Workers \cup {None}]
  BY <1>1, StartAttemptType DEF Take
<1>3. queue' \in Seq(Job) /\ waiting' \subseteq Segments
      /\ active' \in [Segments -> Job \cup {None}]
  BY <1>1 DEF Take, TypeOK, Job
<1> QED
  BY <1>2, <1>3 DEF Take, TypeOK, workerFrame

LEMMA CallEndsType ==
    ASSUME TypeOK, NEW w \in Workers, CallEnds(w) \/ Timeout(w)
    PROVE  TypeOK'
<1>1. call' \in [Workers -> CallState]
  BY DEF CallEnds, Timeout, TypeOK, CallState
<1>2. worker' \in [Workers -> WorkerState]
  <2>1. CASE Timeout(w)
    <3>1. [worker[w] EXCEPT !.timedOut = TRUE] \in WorkerState
      BY HeldJob DEF WorkerState
    <3>2. worker' = [worker EXCEPT ![w] = [worker[w] EXCEPT !.timedOut = TRUE]]
      BY <2>1 DEF Timeout
    <3> QED
      BY <3>1, <3>2 DEF TypeOK
  <2>2. CASE CallEnds(w)
    BY <2>2 DEF CallEnds, TypeOK
  <2> QED
    BY <2>1, <2>2
<1> QED
  BY <1>1, <1>2 DEF CallEnds, Timeout, TypeOK, workerFrame

LEMMA AnsweredType ==
    ASSUME TypeOK, NEW w \in Workers, NEW outcome, Answered(w, outcome),
           rec' \in [Segments -> Record], worker' \in [Workers -> WorkerState],
           active' \in [Segments -> Job \cup {None}],
           activeCall' \in [Segments -> Workers \cup {None}]
    PROVE  TypeOK'
BY DEF Answered, TypeOK, workerFrame, CallState

LEMMA SucceedType ==
    ASSUME TypeInv, NEW w \in Workers, Succeed(w)
    PROVE  TypeOK'
<1> DEFINE j == worker[w].job
<1>1. j \in Job /\ TypeOK
  BY HeldJob DEF Succeed, Answered, TypeInv, HoldsJob
<1>2. CASE /\ rec' = [rec EXCEPT ![j.seg] = [sub |-> j.sub, status |-> "completed",
                                             result |-> j.sub, error |-> "none"]]
           /\ worker' = [worker EXCEPT ![w] = Emitting(j, "translation", TRUE)]
           /\ UNCHANGED <<active, activeCall>>
  <2>1. [sub |-> j.sub, status |-> "completed", result |-> j.sub, error |-> "none"] \in Record
    BY <1>1 DEF Job, Record, Status, ErrorCode
  <2>2. Emitting(j, "translation", TRUE) \in WorkerState
    BY <1>1, LocalType
  <2>3. /\ rec' \in [Segments -> Record] /\ worker' \in [Workers -> WorkerState]
        /\ active' \in [Segments -> Job \cup {None}]
        /\ activeCall' \in [Segments -> Workers \cup {None}]
    BY <1>1, <1>2, <2>1, <2>2 DEF TypeOK
  <2> QED
    BY <1>1, <2>3, AnsweredType DEF Succeed
<1>3. CASE /\ Leave(w, Idle) /\ activeCall' = Popped(activeCall, j.seg, TRUE)
           /\ UNCHANGED rec
  BY <1>1, <1>3, LeaveType, AnsweredType DEF Succeed, TypeOK
<1> QED
  BY <1>2, <1>3 DEF Succeed

LEMMA FailType ==
    ASSUME TypeInv, NEW w \in Workers, Fail(w)
    PROVE  TypeOK'
<1> DEFINE j == worker[w].job
<1>1. j \in Job /\ TypeOK
  BY HeldJob DEF Fail, Answered, TypeInv, HoldsJob
<1>2. activeCall' \in [Segments -> Workers \cup {None}]
  BY <1>1 DEF Fail, TypeOK
<1>3. CASE /\ Answered(w, "retryable")
           /\ worker' = [worker EXCEPT ![w] = BackingOff(j, worker[w].attempt)]
           /\ UNCHANGED <<rec, active>>
  <2>1. BackingOff(j, worker[w].attempt) \in WorkerState
    BY <1>1, LocalType, HeldJob
  <2> QED
    BY <1>1, <1>2, <1>3, <2>1, AnsweredType DEF TypeOK
<1>4. CASE /\ Answered(w, "fatal") \/ Answered(w, "retryable")
           /\ rec' = Failing({j}, "provider")
           /\ worker' = [worker EXCEPT ![w] = Emitting(j, "error", FALSE)]
           /\ UNCHANGED active
  <2>1. Emitting(j, "error", FALSE) \in WorkerState
    BY <1>1, LocalType
  <2>2. rec' \in [Segments -> Record]
    BY <1>1, <1>4, FailingType
  <2> QED
    BY <1>1, <1>2, <1>4, <2>1, <2>2, AnsweredType DEF TypeOK
<1>5. CASE /\ Answered(w, "fatal") \/ Answered(w, "retryable")
           /\ Leave(w, Idle) /\ UNCHANGED rec
  <2>1. worker' \in [Workers -> WorkerState] /\ active' \in [Segments -> Job \cup {None}]
    BY <1>1, <1>5, LocalType DEF Leave, TypeOK
  <2> QED
    BY <1>1, <1>2, <1>5, <2>1, AnsweredType DEF TypeOK
<1> QED
  BY <1>3, <1>4, <1>5 DEF Fail

LEMMA CancelledType ==
    ASSUME TypeInv, NEW w \in Workers, Cancelled(w)
    PROVE  TypeOK'
<1> DEFINE j == worker[w].job
<1>1. j \in Job /\ TypeOK /\ Answered(w, "cancelled") /\ j # None
  BY HeldJob DEF Cancelled, Answered, TypeInv, HoldsJob
<1>2. CASE GiveUp(w, "cancelled", TRUE)
  BY <1>1, <1>2, GiveUpType, AnsweredType
<1>3. CASE /\ Leave(w, Dead) /\ activeCall' = Popped(activeCall, j.seg, TRUE)
           /\ UNCHANGED rec
  BY <1>1, <1>3, LeaveType, AnsweredType DEF TypeOK
<1> QED
  BY <1>2, <1>3 DEF Cancelled

LEMMA BackoffEndsType ==
    ASSUME TypeInv, NEW w \in Workers, BackoffEnds(w)
    PROVE  TypeOK'
<1> DEFINE j == worker[w].job
<1>1. j \in Job /\ TypeOK /\ j # None /\ worker[w].attempt + 1 \in Nat
  BY HeldJob DEF BackoffEnds, TypeInv, HoldsJob
<1>2. CASE GiveUp(w, "cancelled", FALSE) /\ UNCHANGED call
  BY <1>1, <1>2, GiveUpType DEF BackoffEnds, TypeOK, workerFrame
<1>3. CASE StartAttempt(w, j, worker[w].attempt + 1) /\ UNCHANGED active
  BY <1>1, <1>3, StartAttemptType DEF BackoffEnds, TypeOK, workerFrame
<1> QED
  BY <1>2, <1>3 DEF BackoffEnds

LEMMA EmitEndsType ==
    ASSUME TypeInv, NEW w \in Workers, EmitEnds(w)
    PROVE  TypeOK'
<1>2. /\ worker' \in [Workers -> WorkerState]
      /\ active' \in [Segments -> Job \cup {None}]
      /\ activeCall' \in [Segments -> Workers \cup {None}]
  BY LeaveType, HeldJob DEF EmitEnds, TypeInv
<1> QED
  BY <1>2 DEF EmitEnds, TypeInv, TypeOK, workerFrame

LEMMA InterruptedType ==
    ASSUME TypeInv, NEW w \in Workers, Interrupted(w)
    PROVE  TypeOK'
<1>1. call' \in [Workers -> CallState] /\ interrupt' \in [Workers -> {"no", "pending", "taken"}]
  BY DEF Interrupted, TypeInv, TypeOK, CallState
<1>2. UNCHANGED mixed
  BY DEF Interrupted
<1>3. /\ worker' \in [Workers -> WorkerState]
      /\ active' \in [Segments -> Job \cup {None}]
      /\ activeCall' \in [Segments -> Workers \cup {None}]
  <2>1. CASE /\ Leave(w, Dead)
             /\ \E holds \in BOOLEAN : activeCall' = Popped(activeCall, worker[w].job.seg, holds)
    BY <2>1, LeaveType DEF TypeInv
  <2>2. CASE UNCHANGED <<worker, call, active, activeCall>>
    BY <2>2 DEF TypeInv, TypeOK
  <2>3. CASE /\ worker' = [worker EXCEPT ![w] = Dead]
             /\ UNCHANGED <<call, active, activeCall>>
    BY <2>3, LocalType DEF TypeInv, TypeOK
  <2> QED
    BY <2>1, <2>2, <2>3, HeldJob DEF Interrupted, TypeInv
<1> QED
  BY <1>1, <1>2, <1>3 DEF Interrupted, TypeInv, TypeOK, workerFrame

LEMMA QueuedType ==
    ASSUME TypeOK
    PROVE  /\ Queued \subseteq Job
           /\ {active[s] : s \in Segments} \ {None} \subseteq Job
<1>1. \A i \in 1..Len(queue) : queue[i] \in Job
  BY ElementOfSeq DEF TypeOK
<1> QED
  BY <1>1 DEF Queued, TypeOK

LEMMA CallsOfType ==
    ASSUME TypeOK, NEW J \in SUBSET Job
    PROVE  CallsOf(J) \subseteq Workers
BY DEF CallsOf, TypeOK, Job

LEMMA CancelType ==
    ASSUME TypeOK, NEW s \in Segments, Cancel(s)
    PROVE  TypeOK'
<1>1. queue' \in Seq(Job)
  BY RemoveKeepsOthers DEF Cancel, TypeOK
<1>2. call' \in [Workers -> CallState]
  BY CancellingType DEF Cancel
<1>3. rec' \in [Segments -> Record]
  BY FailingType DEF Cancel
<1>4. waiting' \subseteq Segments /\ cancelled' \subseteq Job
  BY QueuedType DEF Cancel, TypeOK
<1> QED
  BY <1>1, <1>2, <1>3, <1>4 DEF Cancel, TypeOK, workerFrame

LEMMA CancelJobsType ==
    ASSUME TypeOK, NEW p \in Providers, NEW old \in Providers, NEW jobs \in SUBSET Job,
           NEW calls \in SUBSET Workers, NEW removed \in SUBSET Job,
           CancelJobs(p, Switching(old, jobs, calls, removed))
    PROVE  /\ cancelled' \subseteq Job
           /\ call' \in [Workers -> CallState]
           /\ rec' \in [Segments -> Record]
           /\ switch' \in [Providers -> SwitchStates]
           /\ mixed' \subseteq Segments
<1>1. PICK done \in SUBSET jobs :
        /\ mixed' = mixed \cup {j.seg : j \in Mistaken(done)}
        /\ cancelled' = cancelled \cup done
        /\ call' = Cancelling(CallsOf(done))
        /\ rec' = Failing(done, "cancelled")
        /\ switch' = [switch EXCEPT ![p] =
                Switching(old, jobs \ done, calls \cup CallsOf(done), removed)]
  BY DEF CancelJobs, Switching, SwitchState
<1>2. Switching(old, jobs \ done, calls \cup CallsOf(done), removed) \in SwitchStates
  BY CallsOfType DEF Switching, SwitchState, SwitchStates
<1>3. switch' \in [Providers -> SwitchStates]
  BY <1>1, <1>2 DEF TypeOK
<1>4. mixed' \subseteq Segments
  BY <1>1 DEF Mistaken, TypeOK, Job
<1> QED
  BY <1>1, <1>3, <1>4, CancellingType, FailingType DEF TypeOK

LEMMA SwitchFields ==
    ASSUME TypeOK, NEW p \in Providers
    PROVE  /\ switch[p] \in SwitchStates
           /\ switch[p].pc = "switching" =>
                switch[p] = Switching(switch[p].old, switch[p].jobs, switch[p].calls,
                                      switch[p].removed)
           /\ switch[p].old \in Providers \cup {None} /\ switch[p].jobs \in SUBSET Job
           /\ switch[p].calls \in SUBSET Workers /\ switch[p].removed \in SUBSET Job
BY DEF TypeOK, SwitchStates, Switching, SwitchState

LEMMA SwitchType ==
    ASSUME TypeInv, NEW p \in Providers, Switch(p)
    PROVE  TypeOK'
<1>1. TypeOK
  BY DEF TypeInv
<1>2. CASE SwitchBegins(p)
  <2> DEFINE removed == {j \in Queued : j.provider = provider}
             running == {j \in {active[s] : s \in Segments} \ {None} : j.provider = provider}
  <2>1. removed \in SUBSET Job /\ running \in SUBSET Job /\ provider \in Providers
    BY <1>1, QueuedType DEF TypeOK
  <2>2. queue' \in Seq(Job)
    BY <1>1, <1>2, RemoveKeepsOthers DEF SwitchBegins, TypeOK
  <2>3. CancelJobs(p, Switching(provider, running, {}, removed))
    BY <1>2 DEF SwitchBegins
  <2>4. /\ cancelled' \subseteq Job /\ call' \in [Workers -> CallState]
        /\ rec' \in [Segments -> Record] /\ switch' \in [Providers -> SwitchStates]
        /\ mixed' \subseteq Segments
    <3> HIDE DEF removed, running
    <3> QED
      BY <1>1, <2>1, <2>3, CancelJobsType
  <2> QED
    BY <1>1, <1>2, <2>2, <2>4 DEF SwitchBegins, TypeOK
<1>3. CASE SwitchCancels(p)
  <2>1. switch[p].old \in Providers
    BY <1>1, <1>3, SwitchFields DEF SwitchCancels, TypeInv, KnowsOld
  <2>2. CancelJobs(p, Switching(switch[p].old, switch[p].jobs, switch[p].calls, switch[p].removed))
    BY <1>1, <1>3, SwitchFields DEF SwitchCancels
  <2>3. /\ cancelled' \subseteq Job /\ call' \in [Workers -> CallState]
        /\ rec' \in [Segments -> Record] /\ switch' \in [Providers -> SwitchStates]
        /\ mixed' \subseteq Segments
    BY <1>1, <2>1, <2>2, SwitchFields, CancelJobsType
  <2> QED
    BY <1>1, <1>3, <2>3 DEF SwitchCancels, TypeOK
<1>4. CASE SwitchDrops(p)
  <2>1. PICK j \in switch[p].removed :
            /\ waiting' = waiting \ {j.seg}
            /\ cancelled' = cancelled \cup {j}
            /\ rec' = Failing({j}, "cancelled")
            /\ switch' = [switch EXCEPT ![p] =
                    Switching(switch[p].old, {}, {}, switch[p].removed \ {j})]
    BY <1>4 DEF SwitchDrops
  <2>2. j \in Job /\ rec' \in [Segments -> Record]
    BY <1>1, <2>1, SwitchFields, FailingType
  <2>3. Switching(switch[p].old, {}, {}, switch[p].removed \ {j}) \in SwitchStates
    BY <1>1, SwitchFields DEF Switching, SwitchState, SwitchStates
  <2> QED
    BY <1>1, <1>4, <2>1, <2>2, <2>3 DEF SwitchDrops, TypeOK
<1>5. CASE SwitchCloses(p)
  <2>1. switch[p].old \in Providers
    BY <1>1, <1>5, SwitchFields DEF SwitchCloses, CallsGathered, TypeInv, KnowsOld
  <2>2. Done \in SwitchStates
    BY DEF Done, SwitchState, SwitchStates
  <2> QED
    BY <1>1, <1>5, <2>1, <2>2 DEF SwitchCloses, TypeOK
<1> QED
  BY <1>2, <1>3, <1>4, <1>5 DEF Switch

LEMMA ShutdownType ==
    ASSUME TypeOK, Shutdown
    PROVE  TypeOK'
<1>1. CASE ShutdownBegins
  BY <1>1 DEF ShutdownBegins, TypeOK
<1>2. CASE ShutdownCancels
  <2>1. /\ queue' \in Seq(Job) /\ waiting' \subseteq Segments
        /\ call' \in [Workers -> CallState]
        /\ interrupt' \in [Workers -> {"no", "pending", "taken"}]
    BY <1>2, EmptySeq, CancellingType DEF ShutdownCancels, TypeOK
  <2>2. cancelled' \subseteq Job
    BY <1>2, QueuedType DEF ShutdownCancels, TypeOK
  <2>3. closing' \in [phase : {"no", "joining", "gathering", "closed"}, jobs : SUBSET Job]
    BY <1>2, QueuedType DEF ShutdownCancels, TypeOK
  <2> QED
    BY <1>2, <2>1, <2>2, <2>3 DEF ShutdownCancels, TypeOK
<1>3. CASE ShutdownReports
  <2>1. rec' \in [Segments -> Record]
    BY <1>3, FailingType DEF ShutdownReports
  <2> QED
    BY <1>3, <2>1 DEF ShutdownReports, TypeOK
<1>4. CASE ShutdownEnds
  BY <1>4 DEF ShutdownEnds, TypeOK
<1> QED
  BY <1>1, <1>2, <1>3, <1>4 DEF Shutdown

-----------------------------------------------------------------------------
(* The steps of a worker *)

Lively == {"pending", "translating", "completed", "failed", "cancelled"}

\* While an attempt is under way the record of its submission says so, or says
\* that the job was cancelled; once its outcome is emitted it is settled.
Sound(w) ==
    LET j == worker[w].job IN
    /\ worker[w].pc \in {"calling", "backoff"} /\ rec[j.seg].sub = j.sub
        => \/ rec[j.seg].status = "translating"
           \/ rec[j.seg].status = "cancelled" /\ j \in cancelled
    /\ worker[w].pc = "emitting" /\ rec[j.seg].sub = j.sub
        => rec[j.seg].status \notin InProgress

\* What every step of w but Take does: it only touches the record of its own
\* submission, and keeps its job or drops it.
ActorStep(w) ==
    /\ UNCHANGED <<queue, cancelled, switch, closing>>
    /\ \A v \in Workers \ {w} : worker'[v] = worker[v]
    /\ worker'[w].job \in {worker[w].job, None}
    /\ worker'[w].pc \in {"calling", "backoff", "emitting"} <=> worker'[w].job # None
    /\ \A s \in Segments : active'[s] \in {active[s], None}
    /\ \A s \in Segments :
        \/ rec'[s] = rec[s]
        \/ /\ worker[w].job # None /\ s = worker[w].job.seg
           /\ rec[s].sub = worker[w].job.sub /\ rec'[s].sub = rec[s].sub
           /\ rec'[s].status \in Lively
    /\ Sound(w)'

LEMMA LeaveIsActorStep ==
    ASSUME TypeInv, NEW w \in Workers, NEW next \in {Idle, Dead}, Leave(w, next),
           UNCHANGED <<rec, queue, cancelled, switch, closing>>
    PROVE  ActorStep(w)
<1>1. worker'[w] = next /\ \A v \in Workers \ {w} : worker'[v] = worker[v]
  BY DEF Leave, TypeInv, TypeOK
<1>2. next.job = None /\ next.pc \in {"idle", "dead"}
  BY DEF Idle, Dead, Local
<1>3. \A s \in Segments : active'[s] \in {active[s], None}
  BY DEF Leave, TypeInv, TypeOK
<1> QED
  BY <1>1, <1>2, <1>3 DEF ActorStep, Sound

LEMMA FailingIsOwn ==
    ASSUME TypeInv, NEW j \in Job, NEW code \in {"provider", "cancelled"}, Reportable(j, code)
    PROVE  /\ \A s \in Segments \ {j.seg} : Failing({j}, code)[s] = rec[s]
           /\ Failing({j}, code)[j.seg].sub = rec[j.seg].sub
           /\ rec[j.seg].sub = j.sub
           /\ Failing({j}, code)[j.seg].status \in {"failed", "cancelled"}
BY DEF Failing, Reportable, Job

LEMMA EmittingIsActorStep ==
    ASSUME TypeInv, NEW w \in Workers, worker[w].job # None,
           NEW event \in {"translation", "error"}, NEW holds \in BOOLEAN,
           worker' = [worker EXCEPT ![w] = Emitting(worker[w].job, event, holds)],
           \A s \in Segments \ {worker[w].job.seg} : rec'[s] = rec[s],
           rec[worker[w].job.seg].sub = worker[w].job.sub,
           rec'[worker[w].job.seg].sub = rec[worker[w].job.seg].sub,
           rec'[worker[w].job.seg].status \in {"completed", "failed", "cancelled"},
           UNCHANGED <<queue, cancelled, switch, closing, active>>
    PROVE  ActorStep(w)
<1>1. worker'[w] = Emitting(worker[w].job, event, holds)
      /\ \A v \in Workers \ {w} : worker'[v] = worker[v]
  BY DEF TypeInv, TypeOK
<1>2. worker'[w].pc = "emitting" /\ worker'[w].job = worker[w].job
  BY <1>1 DEF Emitting, Local
<1>3. Sound(w)'
  BY <1>2 DEF Sound, InProgress
<1> QED
  BY <1>1, <1>2, <1>3 DEF ActorStep, Lively

LEMMA GiveUpIsActorStep ==
    ASSUME TypeInv, NEW w \in Workers, worker[w].job # None,
           NEW code \in {"provider", "cancelled"}, NEW holds \in BOOLEAN,
           GiveUp(w, code, holds), UNCHANGED <<queue, cancelled, switch, closing>>
    PROVE  ActorStep(w)
<1>1. worker[w].job \in Job /\ worker[w].job.seg \in Segments
  BY HeldJob DEF TypeInv, Job
<1>2. CASE Reportable(worker[w].job, code)
  <2>1. /\ rec' = Failing({worker[w].job}, code)
        /\ worker' = [worker EXCEPT ![w] = Emitting(worker[w].job, "error", holds)]
        /\ UNCHANGED active
    BY <1>2 DEF GiveUp
  <2> QED
    BY <1>1, <1>2, <2>1, FailingIsOwn, EmittingIsActorStep
<1>3. CASE ~Reportable(worker[w].job, code)
  BY <1>3, LeaveIsActorStep DEF GiveUp
<1> QED
  BY <1>2, <1>3

\* The worker goes on with its attempt and no record changes.
LEMMA QuietIsActorStep ==
    ASSUME TypeInv, NEW w \in Workers, Sound(w), worker[w].job # None,
           worker'[w].job = worker[w].job,
           \/ worker'[w].pc = worker[w].pc
           \/ worker[w].pc \in {"calling", "backoff"} /\ worker'[w].pc \in {"calling", "backoff"},
           \A v \in Workers \ {w} : worker'[v] = worker[v],
           UNCHANGED <<rec, queue, cancelled, switch, closing, active>>
    PROVE  ActorStep(w)
BY DEF ActorStep, Sound, TypeInv, HoldsJob

LEMMA StartAttemptIsActorStep ==
    ASSUME TypeInv, NEW w \in Workers, worker[w].job # None, NEW n \in Nat,
           StartAttempt(w, worker[w].job, n),
           UNCHANGED <<queue, cancelled, switch, closing, active>>
    PROVE  ActorStep(w)
<1> DEFINE j == worker[w].job
<1>1. j \in Job /\ j.seg \in Segments /\ rec[j.seg] \in Record
  BY HeldJob DEF TypeInv, TypeOK, Job
<1>2. worker'[w] = Calling(j, n) /\ \A v \in Workers \ {w} : worker'[v] = worker[v]
  BY DEF StartAttempt, TypeInv, TypeOK
<1>3. worker'[w].pc = "calling" /\ worker'[w].job = j
  BY <1>2 DEF Calling, Local
<1>4. CASE rec[j.seg].sub = j.sub
  <2>1. rec' = [rec EXCEPT ![j.seg].status = "translating"]
    BY <1>4 DEF StartAttempt
  <2>2. /\ rec'[j.seg].status = "translating" /\ rec'[j.seg].sub = rec[j.seg].sub
        /\ \A s \in Segments \ {j.seg} : rec'[s] = rec[s]
    BY <1>1, <2>1 DEF TypeInv, TypeOK, Record
  <2>3. Sound(w)'
    BY <1>3, <2>2 DEF Sound
  <2> QED
    BY <1>1, <1>2, <1>3, <1>4, <2>2, <2>3 DEF ActorStep, Lively
<1>5. CASE rec[j.seg].sub # j.sub
  <2>1. rec' = rec
    BY <1>5 DEF StartAttempt
  <2>2. Sound(w)'
    BY <1>3, <1>5, <2>1 DEF Sound
  <2> QED
    BY <1>2, <1>3, <2>1, <2>2 DEF ActorStep
<1> QED
  BY <1>4, <1>5

LEMMA WorkIsActorStep ==
    ASSUME TypeInv, NEW w \in Workers, Sound(w), Work(w) \/ Timeout(w), ~Take(w)
    PROVE  ActorStep(w)
<1> DEFINE j == worker[w].job
<1>1. CASE Timeout(w)
  <2>1. worker'[w] = [worker[w] EXCEPT !.timedOut = TRUE]
        /\ \A v \in Workers \ {w} : worker'[v] = worker[v]
    BY <1>1 DEF Timeout, TypeInv, TypeOK
  <2>2. worker'[w].pc = worker[w].pc /\ worker'[w].job = worker[w].job /\ worker[w].pc = "calling"
    BY <1>1, <2>1, HeldJob DEF Timeout, TypeInv, WorkerState
  <2>3. worker[w].job # None
    BY <2>2 DEF TypeInv, HoldsJob
  <2> QED
    BY <1>1, <2>1, <2>2, <2>3, QuietIsActorStep DEF Timeout, workerFrame
<1>2. CASE CallEnds(w)
  BY <1>2 DEF CallEnds, workerFrame, ActorStep, Sound, TypeInv, HoldsJob
<1>3. CASE Succeed(w)
  <2>1. j # None /\ j \in Job /\ UNCHANGED <<queue, cancelled, switch, closing>>
    BY <1>3, HeldJob DEF Succeed, Answered, TypeInv, HoldsJob, workerFrame
  <2>2. CASE /\ rec[j.seg].sub = j.sub
             /\ rec' = [rec EXCEPT ![j.seg] = [sub |-> j.sub, status |-> "completed",
                                               result |-> j.sub, error |-> "none"]]
             /\ worker' = [worker EXCEPT ![w] = Emitting(j, "translation", TRUE)]
             /\ UNCHANGED <<active, activeCall>>
    <3>1. /\ rec'[j.seg].status = "completed" /\ rec'[j.seg].sub = j.sub
          /\ \A s \in Segments \ {j.seg} : rec'[s] = rec[s]
      BY <2>1, <2>2 DEF TypeInv, TypeOK, Job
    <3> QED
      BY <2>1, <2>2, <3>1, EmittingIsActorStep
  <2>3. CASE Leave(w, Idle) /\ UNCHANGED rec
    BY <2>1, <2>3, LeaveIsActorStep
  <2> QED
    BY <1>3, <2>2, <2>3 DEF Succeed
<1>4. CASE Fail(w)
  <2>1. /\ j # None /\ j \in Job /\ UNCHANGED <<queue, cancelled, switch, closing>>
        /\ worker[w].pc = "calling"
    BY <1>4, HeldJob DEF Fail, Answered, TypeInv, HoldsJob, workerFrame
  <2>2. CASE /\ worker' = [worker EXCEPT ![w] = BackingOff(j, worker[w].attempt)]
             /\ UNCHANGED <<rec, active>>
    <3>1. worker'[w] = BackingOff(j, worker[w].attempt)
          /\ \A v \in Workers \ {w} : worker'[v] = worker[v]
      BY <2>2 DEF TypeInv, TypeOK
    <3>2. worker'[w].pc = "backoff" /\ worker'[w].job = j
      BY <3>1 DEF BackingOff, Local
    <3> QED
      BY <2>1, <2>2, <3>1, <3>2, QuietIsActorStep
  <2>3. CASE /\ Reportable(j, "provider")
             /\ rec' = Failing({j}, "provider")
             /\ worker' = [worker EXCEPT ![w] = Emitting(j, "error", FALSE)]
             /\ UNCHANGED active
    BY <2>1, <2>3, FailingIsOwn, EmittingIsActorStep
  <2>4. CASE Leave(w, Idle) /\ UNCHANGED rec
    BY <2>1, <2>4, LeaveIsActorStep
  <2> QED
    BY <1>4, <2>2, <2>3, <2>4 DEF Fail
<1>5. CASE Cancelled(w)
  <2>1. j # None /\ UNCHANGED <<queue, cancelled, switch, closing>>
    BY <1>5 DEF Cancelled, Answered, TypeInv, HoldsJob, workerFrame
  <2> QED
    BY <1>5, <2>1, GiveUpIsActorStep, LeaveIsActorStep DEF Cancelled
<1>6. CASE BackoffEnds(w)
  <2>1. j # None /\ UNCHANGED <<queue, cancelled, switch, closing>> /\ worker[w].attempt + 1 \in Nat
    BY <1>6, HeldJob DEF BackoffEnds, TypeInv, HoldsJob, workerFrame
  <2> QED
    BY <1>6, <2>1, GiveUpIsActorStep, StartAttemptIsActorStep DEF BackoffEnds
<1>7. CASE EmitEnds(w)
  BY <1>7, LeaveIsActorStep DEF EmitEnds, workerFrame
<1>8. CASE Interrupted(w)
  <2>1. UNCHANGED <<rec, queue, cancelled, switch, closing>>
    BY <1>8 DEF Interrupted, workerFrame
  <2>2. CASE Leave(w, Dead)
    BY <2>1, <2>2, LeaveIsActorStep
  <2>3. CASE UNCHANGED <<worker, active>>
    BY <2>1, <2>3 DEF ActorStep, Sound, TypeInv, HoldsJob
  <2>4. CASE worker[w].pc = "idle" /\ worker' = [worker EXCEPT ![w] = Dead] /\ UNCHANGED active
    <3>1. worker'[w] = Dead /\ \A v \in Workers \ {w} : worker'[v] = worker[v]
      BY <2>4 DEF TypeInv, TypeOK
    <3>2. worker'[w].pc = "dead" /\ worker'[w].job = None
      BY <3>1 DEF Dead, Local
    <3> QED
      BY <2>1, <2>4, <3>1, <3>2 DEF ActorStep, Sound
  <2> QED
    BY <1>8, <2>2, <2>3, <2>4 DEF Interrupted
<1> QED
  BY <1>1, <1>2, <1>3, <1>4, <1>5, <1>6, <1>7, <1>8 DEF Work

-----------------------------------------------------------------------------
(* The inductive invariant *)

\* The jobs that have left the queue and that somebody still refers to.
Handled ==
    cancelled
    \cup (({worker[w].job : w \in Workers} \cup {active[s] : s \in Segments}) \ {None})
    \cup (UNION {switch[p].jobs \cup switch[p].removed : p \in Providers})
    \cup closing.jobs

Submitted == Queued \cup Handled

\* A job stands for one submission, and no job is newer than its record.
JobInv ==
    /\ \A j \in Submitted :
        /\ j.sub <= rec[j.seg].sub
        /\ j.sub = rec[j.seg].sub => rec[j.seg].status \in Lively
    /\ \A j, k \in Submitted : j.seg = k.seg /\ j.sub = k.sub => j = k

\* The queue has one job per caption at most, for its current submission, and
\* nobody else refers to it.
QueueInv ==
    /\ \A i, k \in 1..Len(queue) : i # k => queue[i].seg # queue[k].seg
    /\ \A j \in Queued :
        /\ rec[j.seg].sub = j.sub /\ rec[j.seg].status = "pending"
        /\ j \notin Handled

WorkerInv ==
    /\ \A w \in Workers : Sound(w)
    /\ \A w, v \in Workers : w # v /\ worker[w].job # None => worker[w].job # worker[v].job

IInv == TypeInv /\ JobInv /\ QueueInv /\ WorkerInv

Refers(j) ==
    \/ j \in cancelled \/ j \in closing.jobs
    \/ j # None /\ \E w \in Workers : worker[w].job = j
    \/ j # None /\ \E s \in Segments : active[s] = j
    \/ \E p \in Providers : j \in switch[p].jobs \/ j \in switch[p].removed

LEMMA HandledMember == \A j : (j \in Handled <=> Refers(j)) /\ (j \in Handled' <=> Refers(j)')
<1> SUFFICES ASSUME NEW j
             PROVE  (j \in Handled <=> Refers(j)) /\ (j \in Handled' <=> Refers(j)')
  OBVIOUS
<1>1. j \in UNION {switch[p].jobs \cup switch[p].removed : p \in Providers}
        <=> \E p \in Providers : j \in switch[p].jobs \/ j \in switch[p].removed
  OBVIOUS
<1>2. j \in UNION {switch'[p].jobs \cup switch'[p].removed : p \in Providers}
        <=> \E p \in Providers : j \in switch'[p].jobs \/ j \in switch'[p].removed
  OBVIOUS
<1>3. j \in {worker[w].job : w \in Workers} <=> \E w \in Workers : worker[w].job = j
  OBVIOUS
<1>4. j \in {worker'[w].job : w \in Workers} <=> \E w \in Workers : worker'[w].job = j
  OBVIOUS
<1>5. j \in {active[s] : s \in Segments} <=> \E s \in Segments : active[s] = j
  OBVIOUS
<1>6. j \in {active'[s] : s \in Segments} <=> \E s \in Segments : active'[s] = j
  OBVIOUS
<1>7. j \in Handled <=> Refers(j)
  BY <1>1, <1>3, <1>5 DEF Handled, Refers
<1>8. j \in Handled' <=> Refers(j)'
  BY <1>2, <1>4, <1>6 DEF Handled, Refers
<1> QED
  BY <1>7, <1>8

LEMMA HandledType ==
    ASSUME TypeOK
    PROVE  Handled \subseteq Job /\ Submitted \subseteq Job
<1>1. \A p \in Providers : switch[p].jobs \subseteq Job /\ switch[p].removed \subseteq Job
  BY SwitchFields
<1>2. \A w \in Workers : worker[w].job \in Job \cup {None}
  BY HeldJob
<1>3. closing.jobs \subseteq Job /\ cancelled \subseteq Job
  BY DEF TypeOK
<1>4. \A s \in Segments : active[s] \in Job \cup {None}
  BY DEF TypeOK
<1>5. Handled \subseteq Job
  BY <1>1, <1>2, <1>3, <1>4, HandledMember DEF Refers
<1> QED
  BY <1>5, QueuedType DEF Submitted

\* A step that creates no job, and changes a record only on behalf of a job of
\* its current submission that does not stay in the queue.
LEMMA KeepsJobs ==
    ASSUME TypeOK, JobInv, QueueInv,
           Submitted' \subseteq Submitted, Queued' \subseteq Queued,
           Queued' \cap Handled' = {},
           \A i, k \in 1..Len(queue') : i # k => queue'[i].seg # queue'[k].seg,
           \A s \in Segments :
                \/ rec'[s] = rec[s]
                \/ /\ rec'[s].sub = rec[s].sub /\ rec'[s].status \in Lively
                   /\ \E j \in Submitted \ Queued' : j.seg = s /\ j.sub = rec[s].sub
    PROVE  JobInv' /\ QueueInv'
<1>1. \A j \in Submitted : j.seg \in Segments
  BY HandledType DEF Job
<1>2. JobInv'
  BY <1>1 DEF JobInv
<1>3. \A j \in Queued' : rec'[j.seg] = rec[j.seg]
  BY <1>1 DEF JobInv, QueueInv, Submitted
<1> QED
  BY <1>2, <1>3 DEF QueueInv

LEMMA ActorStepInv ==
    ASSUME IInv, TypeOK', NEW w \in Workers, ActorStep(w)
    PROVE  IInv'
<1>1. Queued' = Queued
  BY DEF ActorStep, Queued
<1>2. Handled' \subseteq Handled
  <2>1. \A j : Refers(j)' => Refers(j)
    BY DEF ActorStep, Refers
  <2> QED
    BY <2>1, HandledMember
<1>3. \A v \in Workers : worker[v].job # None => worker[v].job \in Handled
  BY HandledMember DEF Refers
<1>4. JobInv' /\ QueueInv'
  <2>1. \A s \in Segments :
            \/ rec'[s] = rec[s]
            \/ /\ rec'[s].sub = rec[s].sub /\ rec'[s].status \in Lively
               /\ \E j \in Submitted \ Queued' : j.seg = s /\ j.sub = rec[s].sub
    BY <1>1, <1>3 DEF ActorStep, IInv, QueueInv, Submitted
  <2>2. Queued' \cap Handled' = {} /\ Submitted' \subseteq Submitted
    BY <1>1, <1>2 DEF IInv, QueueInv, Submitted
  <2>3. queue' = queue
    BY DEF ActorStep
  <2> QED
    BY <1>1, <2>1, <2>2, <2>3, KeepsJobs DEF IInv, TypeInv, QueueInv
<1>5. WorkerInv'
  <2>1. ASSUME NEW v \in Workers \ {w}
        PROVE  Sound(v)'
    <3>1. worker'[v] = worker[v] /\ Sound(v) /\ cancelled' = cancelled
      BY DEF ActorStep, IInv, WorkerInv
    <3>2. CASE worker[v].job = None
      BY <3>1, <3>2 DEF Sound, IInv, TypeInv, HoldsJob
    <3>3. CASE worker[v].job # None
      <4>1. worker[v].job \in Submitted /\ worker[v].job.seg \in Segments
        BY <1>3, <3>3, HandledType DEF Submitted, IInv, TypeInv, Job
      <4>2. ASSUME rec'[worker[v].job.seg] # rec[worker[v].job.seg]
            PROVE  /\ rec'[worker[v].job.seg].sub = rec[worker[v].job.seg].sub
                   /\ rec[worker[v].job.seg].sub # worker[v].job.sub
        <5> DEFINE s == worker[v].job.seg
        <5>2. /\ worker[w].job # None /\ worker[w].job.seg = s
              /\ rec[s].sub = worker[w].job.sub /\ rec'[s].sub = rec[s].sub
          BY <4>1, <4>2 DEF ActorStep
        <5>3. worker[w].job # worker[v].job
          BY <3>3 DEF IInv, WorkerInv
        <5>4. worker[w].job.sub # worker[v].job.sub
          BY <1>3, <4>1, <5>2, <5>3 DEF IInv, JobInv, Submitted
        <5> QED
          BY <5>2, <5>4
      <4> QED
        BY <3>1, <4>2 DEF Sound
    <3> QED
      BY <3>2, <3>3
  <2>2. \A v, u \in Workers : v # u /\ worker'[v].job # None => worker'[v].job # worker'[u].job
    BY DEF ActorStep, IInv, WorkerInv
  <2> QED
    BY <2>1, <2>2 DEF ActorStep, WorkerInv
<1>6. HoldsJob' /\ KnowsOld'
  BY DEF ActorStep, IInv, TypeInv, HoldsJob, KnowsOld
<1> QED
  BY <1>4, <1>5, <1>6 DEF IInv, TypeInv

LEMMA TakeInv ==
    ASSUME IInv, TypeOK', NEW w \in Workers, Take(w)
    PROVE  IInv'
<1> DEFINE j == Head(queue)
<1>1. /\ j \in Job /\ j \in Queued /\ j = queue[1] /\ Len(queue) \in Nat /\ Len(queue) > 0
      /\ \A i \in 1..Len(queue) - 1 : Tail(queue)[i] = queue[i + 1]
      /\ Len(Tail(queue)) = Len(queue) - 1
  BY HeadTailProperties, LenProperties, ElementOfSeq
     DEF Take, IInv, TypeInv, TypeOK, Queued
<1>2. /\ queue' = Tail(queue) /\ StartAttempt(w, j, 1)
      /\ active' = [active EXCEPT ![j.seg] = j]
      /\ UNCHANGED <<cancelled, switch, closing>>
      /\ worker[w].job = None
  BY DEF Take, workerFrame, IInv, TypeInv, HoldsJob
<1>3. Queued' = Queued \ {j}
  <2>1. \A i \in 2..Len(queue) : queue[i] # queue[1]
    BY <1>1 DEF IInv, QueueInv
  <2>2. ASSUME NEW k \in Queued' PROVE k \in Queued \ {j}
    <3>1. PICK i \in 1..Len(queue) - 1 : k = queue[i + 1]
      BY <1>1, <1>2 DEF Queued
    <3> QED
      BY <1>1, <2>1, <3>1 DEF Queued
  <2>3. ASSUME NEW k \in Queued \ {j} PROVE k \in Queued'
    <3>1. PICK i \in 2..Len(queue) : k = queue[i]
      BY <1>1 DEF Queued
    <3>2. i - 1 \in 1..Len(queue) - 1 /\ (i - 1) + 1 = i
      BY <1>1
    <3>3. Tail(queue)[i - 1] = k
      BY <1>1, <3>1, <3>2
    <3> QED
      BY <1>1, <1>2, <3>2, <3>3 DEF Queued
  <2> QED
    BY <2>2, <2>3
<1>4. worker'[w].job = j /\ worker'[w].pc = "calling"
      /\ \A v \in Workers \ {w} : worker'[v] = worker[v]
  BY <1>2 DEF StartAttempt, Calling, Local, IInv, TypeInv, TypeOK
<1>5. Handled' \subseteq Handled \cup {j}
  <2>1. \A s \in Segments : active'[s] \in {active[s], j}
    BY <1>2 DEF IInv, TypeInv, TypeOK
  <2>2. \A k : Refers(k)' => Refers(k) \/ k = j
    BY <1>2, <1>4, <2>1 DEF Refers
  <2> QED
    BY <2>2, HandledMember
<1>6. /\ rec[j.seg].sub = j.sub /\ j \notin Handled /\ j.seg \in Segments
      /\ rec'[j.seg].sub = rec[j.seg].sub /\ rec'[j.seg].status = "translating"
      /\ \A s \in Segments \ {j.seg} : rec'[s] = rec[s]
  BY <1>1, <1>2 DEF IInv, QueueInv, StartAttempt, TypeInv, TypeOK, Job, Record
<1>7. JobInv' /\ QueueInv'
  <2>1. Queued' \cap Handled' = {} /\ Submitted' \subseteq Submitted /\ Queued' \subseteq Queued
    BY <1>1, <1>3, <1>5 DEF IInv, QueueInv, Submitted
  <2>2. \A i, k \in 1..Len(queue') : i # k => queue'[i].seg # queue'[k].seg
    BY <1>1, <1>2 DEF IInv, QueueInv
  <2>3. \A s \in Segments :
            \/ rec'[s] = rec[s]
            \/ /\ rec'[s].sub = rec[s].sub /\ rec'[s].status \in Lively
               /\ \E k \in Submitted \ Queued' : k.seg = s /\ k.sub = rec[s].sub
    BY <1>1, <1>3, <1>6 DEF Lively, Submitted
  <2> QED
    BY <2>1, <2>2, <2>3, KeepsJobs DEF IInv, TypeInv
<1>8. WorkerInv'
  <2>1. Sound(w)'
    BY <1>4, <1>6 DEF Sound
  <2>2. ASSUME NEW v \in Workers \ {w}, worker[v].job # None
        PROVE  /\ worker[v].job # j /\ worker[v].job \in Submitted
               /\ worker[v].job.seg \in Segments
               /\ worker[v].job.seg = j.seg => worker[v].job.sub # j.sub
    <3>1. worker[v].job \in Handled
      BY <2>2, HandledMember DEF Refers
    <3> QED
      BY <1>1, <1>6, <3>1, HandledType DEF Submitted, IInv, TypeInv, JobInv, Job
  <2>3. ASSUME NEW v \in Workers \ {w}
        PROVE  Sound(v)'
    <3>1. worker'[v] = worker[v] /\ Sound(v) /\ cancelled' = cancelled
      BY <1>2, <1>4 DEF IInv, WorkerInv
    <3>2. CASE worker[v].job = None
      BY <3>1, <3>2 DEF Sound, IInv, TypeInv, HoldsJob
    <3>3. CASE worker[v].job # None
      BY <1>6, <2>2, <3>1, <3>3 DEF Sound
    <3> QED
      BY <3>2, <3>3
  <2>4. \A v, u \in Workers : v # u /\ worker'[v].job # None => worker'[v].job # worker'[u].job
    BY <1>1, <1>4, <2>2 DEF IInv, WorkerInv
  <2> QED
    BY <2>1, <2>3, <2>4 DEF WorkerInv
<1>9. HoldsJob' /\ KnowsOld'
  BY <1>1, <1>2, <1>4, NoneAssumption DEF IInv, TypeInv, HoldsJob, KnowsOld
<1> QED
  BY <1>7, <1>8, <1>9 DEF IInv, TypeInv

\* A step outside the workers that cancels the jobs J: they do not stay in the
\* queue, and a worker that holds one sees its cancel_event set.
LEMMA FailingInv ==
    ASSUME IInv, TypeOK', KnowsOld', NEW J \in SUBSET Submitted,
           rec' = Failing(J, "cancelled"), UNCHANGED worker,
           cancelled \subseteq cancelled',
           \A w \in Workers : worker[w].job \in J => worker[w].job \in cancelled',
           Submitted' \subseteq Submitted, Queued' \subseteq Queued \ J,
           Queued' \cap Handled' = {},
           \A i, k \in 1..Len(queue') : i # k => queue'[i].seg # queue'[k].seg
    PROVE  IInv'
<1>1. \A s \in Segments :
        \/ rec'[s] = rec[s]
        \/ /\ rec'[s].sub = rec[s].sub /\ rec'[s].status = "cancelled"
           /\ \E j \in J : j.seg = s /\ j.sub = rec[s].sub
  BY DEF Failing, Reportable
<1>2. JobInv' /\ QueueInv'
  <2>1. \A s \in Segments :
            \/ rec'[s] = rec[s]
            \/ /\ rec'[s].sub = rec[s].sub /\ rec'[s].status \in Lively
               /\ \E j \in Submitted \ Queued' : j.seg = s /\ j.sub = rec[s].sub
    BY <1>1 DEF Lively
  <2>2. Queued' \subseteq Queued
    OBVIOUS
  <2> QED
    BY <2>1, <2>2, KeepsJobs DEF IInv, TypeInv
<1>3. WorkerInv'
  <2>1. ASSUME NEW w \in Workers
        PROVE  Sound(w)'
    <3> DEFINE j == worker[w].job
    <3>1. Sound(w) /\ worker'[w] = worker[w]
      BY DEF IInv, WorkerInv
    <3>2. CASE j = None
      BY <3>1, <3>2 DEF Sound, IInv, TypeInv, HoldsJob
    <3>3. CASE j # None
      <4>1. j \in Submitted /\ j.seg \in Segments
        BY <3>3, HandledType, HandledMember DEF Refers, Submitted, IInv, TypeInv, Job
      <4>2. CASE rec'[j.seg] = rec[j.seg]
        BY <3>1, <4>2 DEF Sound
      <4>3. CASE rec'[j.seg] # rec[j.seg]
        <5>1. PICK k \in J : k.seg = j.seg /\ k.sub = rec[j.seg].sub
          BY <1>1, <4>1, <4>3
        <5>2. rec'[j.seg].sub = k.sub /\ rec'[j.seg].status = "cancelled"
          BY <1>1, <4>1, <4>3, <5>1
        <5>3. CASE j.sub = k.sub
          <6>1. j = k
            BY <4>1, <5>1, <5>3 DEF IInv, JobInv
          <6>2. j \in cancelled'
            BY <5>1, <6>1
          <6> QED
            BY <3>1, <5>2, <6>2 DEF Sound, InProgress
        <5>4. CASE j.sub # k.sub
          BY <3>1, <5>2, <5>4 DEF Sound
        <5> QED
          BY <5>3, <5>4
      <4> QED
        BY <4>2, <4>3
    <3> QED
      BY <3>2, <3>3
  <2> QED
    BY <2>1 DEF IInv, WorkerInv
<1>4. HoldsJob'
  BY DEF IInv, TypeInv, HoldsJob
<1> QED
  BY <1>2, <1>3, <1>4 DEF IInv, TypeInv

LEMMA CancelInv ==
    ASSUME IInv, NEW s \in Segments, Cancel(s)
    PROVE  IInv'
<1> DEFINE removed == {j \in Queued : j.seg = s}
           running == {active[s]} \ {None}
<1>1. TypeOK' /\ KnowsOld'
  BY CancelType DEF IInv, TypeInv, KnowsOld, Cancel, workerFrame
<1>2. /\ Queued' = Queued \ removed
      /\ \A i, k \in 1..Len(queue') : i # k => queue'[i].seg # queue'[k].seg
  BY RemoveKeepsOthers DEF Cancel, IInv, TypeInv, TypeOK, QueueInv
<1>3. Handled' = Handled \cup removed \cup running /\ running \subseteq Handled
  <2>1. cancelled' = cancelled \cup removed \cup running
        /\ UNCHANGED <<worker, active, switch, closing>>
    BY DEF Cancel, workerFrame
  <2>2. \A j : Refers(j)' <=> Refers(j) \/ j \in removed \/ j \in running
    BY <2>1 DEF Refers
  <2>3. \A j : j \in running => Refers(j)
    BY DEF Refers
  <2> QED
    BY <2>2, <2>3, HandledMember
<1>4. /\ Queued' \cap Handled' = {} /\ Submitted' \subseteq Submitted
      /\ removed \in SUBSET Submitted /\ Queued' \subseteq Queued \ removed
  BY <1>2, <1>3 DEF IInv, QueueInv, Submitted
<1>5. /\ rec' = Failing(removed, "cancelled") /\ UNCHANGED worker
      /\ cancelled \subseteq cancelled' /\ removed \subseteq cancelled'
  BY DEF Cancel
<1> HIDE DEF removed, running
<1> QED
  BY <1>1, <1>2, <1>4, <1>5, FailingInv

LEMMA FailingNothing == ASSUME TypeOK PROVE Failing({}, "cancelled") = rec
BY DEF Failing, TypeOK

\* A step outside the workers that changes neither the records nor the queue
\* and makes nobody refer to another job.
LEMMA QuietInv ==
    ASSUME IInv, TypeOK', KnowsOld', UNCHANGED <<rec, queue, worker>>,
           cancelled \subseteq cancelled', Handled' \subseteq Handled
    PROVE  IInv'
<1>1. rec' = Failing({}, "cancelled")
  BY FailingNothing DEF IInv, TypeInv
<1>2. Queued' = Queued
  BY DEF Queued
<1>3. Queued' \cap Handled' = {} /\ Submitted' \subseteq Submitted
  BY <1>2 DEF IInv, QueueInv, Submitted
<1>4. \A i, k \in 1..Len(queue') : i # k => queue'[i].seg # queue'[k].seg
  BY DEF IInv, QueueInv
<1> QED
  BY <1>1, <1>2, <1>3, <1>4, FailingInv

\* The cancellation loop of a switch: the jobs are ones somebody refers to.
LEMMA CancelJobsInv ==
    ASSUME IInv, TypeOK', KnowsOld', NEW p \in Providers,
           NEW old, NEW jobs, NEW calls, NEW removed,
           CancelJobs(p, Switching(old, jobs, calls, removed)),
           jobs \subseteq Handled, removed \subseteq Submitted,
           UNCHANGED <<worker, active, closing>>,
           Queued' = Queued \ removed,
           \A i, k \in 1..Len(queue') : i # k => queue'[i].seg # queue'[k].seg
    PROVE  IInv'
<1>1. PICK done \in SUBSET jobs :
        /\ cancelled' = cancelled \cup done
        /\ rec' = Failing(done, "cancelled")
        /\ switch' = [switch EXCEPT ![p] =
                Switching(old, jobs \ done, calls \cup CallsOf(done), removed)]
  BY DEF CancelJobs, Switching, SwitchState
<1>2. /\ switch'[p].jobs \subseteq jobs /\ switch'[p].removed = removed
      /\ \A q \in Providers \ {p} : switch'[q] = switch[q]
  BY <1>1 DEF Switching, SwitchState, IInv, TypeInv, TypeOK
<1>3. Handled' \subseteq Handled \cup removed
  <2>1. \A j : Refers(j)' => Refers(j) \/ j \in jobs \/ j \in removed
    BY <1>1, <1>2 DEF Refers
  <2> QED
    BY <2>1, HandledMember
<1>4. /\ Queued' \cap Handled' = {} /\ Submitted' \subseteq Submitted
      /\ Queued' \subseteq Queued \ done /\ done \in SUBSET Submitted
  BY <1>1, <1>3 DEF IInv, QueueInv, Submitted
<1>5. UNCHANGED worker /\ cancelled \subseteq cancelled' /\ done \subseteq cancelled'
  BY <1>1
<1> QED
  BY <1>1, <1>4, <1>5, FailingInv

LEMMA SwitchInv ==
    ASSUME IInv, NEW p \in Providers, Switch(p)
    PROVE  IInv'
<1>1. TypeOK' /\ TypeInv /\ TypeOK
  BY SwitchType DEF IInv, TypeInv
<1>2. CASE SwitchBegins(p)
  <2> DEFINE removed == {j \in Queued : j.provider = provider}
             running == {j \in {active[s] : s \in Segments} \ {None} : j.provider = provider}
  <2>1. KnowsOld'
    <3>1. provider # None /\ provider \in Providers
      BY <1>1, TranslationAssumption DEF TypeOK
    <3>2. switch' = [switch EXCEPT ![p] = switch'[p]] /\ switch'[p].old = provider
      BY <1>1, <1>2 DEF SwitchBegins, CancelJobs, Switching, SwitchState, TypeOK
    <3>3. \A q \in Providers \ {p} : switch'[q] = switch[q]
      BY <1>1, <3>2 DEF TypeOK
    <3> QED
      BY <1>1, <3>1, <3>2, <3>3 DEF TypeInv, KnowsOld
  <2>2. CancelJobs(p, Switching(provider, running, {}, removed))
        /\ UNCHANGED <<worker, active, closing>>
    BY <1>2 DEF SwitchBegins
  <2>3. /\ Queued' = Queued \ removed
        /\ \A i, k \in 1..Len(queue') : i # k => queue'[i].seg # queue'[k].seg
    BY <1>1, <1>2, RemoveKeepsOthers DEF SwitchBegins, TypeOK, IInv, QueueInv
  <2>4. running \subseteq Handled /\ removed \subseteq Submitted
    BY HandledMember DEF Refers, Submitted
  <2> HIDE DEF removed, running
  <2> QED
    BY <1>1, <2>1, <2>2, <2>3, <2>4, CancelJobsInv
<1>3. CASE SwitchCancels(p)
  <2> DEFINE s == switch[p]
  <2>1. /\ CancelJobs(p, Switching(s.old, s.jobs, s.calls, s.removed))
        /\ UNCHANGED <<queue, worker, active, closing>> /\ s.pc = "switching"
    BY <1>1, <1>3, SwitchFields DEF SwitchCancels
  <2>2. KnowsOld'
    <3>1. switch' = [switch EXCEPT ![p] = switch'[p]] /\ switch'[p].old = s.old
      BY <1>1, <2>1 DEF CancelJobs, Switching, SwitchState, TypeOK
    <3>2. \A q \in Providers \ {p} : switch'[q] = switch[q]
      BY <1>1, <3>1 DEF TypeOK
    <3> QED
      BY <1>1, <2>1, <3>1, <3>2 DEF TypeInv, KnowsOld
  <2>3. s.jobs \subseteq Handled /\ s.removed \subseteq Handled
    BY HandledMember DEF Refers
  <2>4. /\ Queued' = Queued \ s.removed /\ s.removed \subseteq Submitted
        /\ \A i, k \in 1..Len(queue') : i # k => queue'[i].seg # queue'[k].seg
    BY <2>1, <2>3 DEF Queued, Submitted, IInv, QueueInv
  <2> QED
    BY <1>1, <2>1, <2>2, <2>3, <2>4, CancelJobsInv
<1>4. CASE SwitchDrops(p)
  <2>1. PICK j \in switch[p].removed :
            /\ cancelled' = cancelled \cup {j}
            /\ rec' = Failing({j}, "cancelled")
            /\ switch' = [switch EXCEPT ![p] =
                    Switching(switch[p].old, {}, {}, switch[p].removed \ {j})]
    BY <1>4 DEF SwitchDrops
  <2>2. /\ switch'[p].old = switch[p].old /\ switch[p].pc = "switching"
        /\ switch'[p].jobs = {} /\ switch'[p].removed \subseteq switch[p].removed
        /\ \A q \in Providers \ {p} : switch'[q] = switch[q]
    BY <1>1, <1>4, <2>1 DEF SwitchDrops, CallsGathered, Switching, SwitchState, TypeOK
  <2>3. KnowsOld'
    BY <1>1, <2>2 DEF TypeInv, KnowsOld
  <2>4. UNCHANGED <<queue, worker, active, closing>>
    BY <1>4 DEF SwitchDrops
  <2>5. j \in Handled /\ Handled' \subseteq Handled
    <3>1. Refers(j) /\ \A k : Refers(k)' => Refers(k) \/ k = j
      BY <2>1, <2>2, <2>4 DEF Refers
    <3> QED
      BY <3>1, HandledMember
  <2>6. /\ Queued' \subseteq Queued \ {j} /\ Queued' \cap Handled' = {}
        /\ Submitted' \subseteq Submitted /\ {j} \in SUBSET Submitted
        /\ \A i, k \in 1..Len(queue') : i # k => queue'[i].seg # queue'[k].seg
    BY <2>4, <2>5 DEF Queued, IInv, QueueInv, Submitted
  <2>7. \A w \in Workers : worker[w].job \in {j} => worker[w].job \in cancelled'
    BY <2>1
  <2> QED
    BY <1>1, <2>1, <2>3, <2>4, <2>6, <2>7, FailingInv
<1>5. CASE SwitchCloses(p)
  <2>1. UNCHANGED <<rec, queue, cancelled, worker, active, closing>>
    BY <1>5 DEF SwitchCloses
  <2>2. switch'[p] = Done /\ \A q \in Providers \ {p} : switch'[q] = switch[q]
    BY <1>1, <1>5 DEF SwitchCloses, TypeOK
  <2>3. KnowsOld'
    BY <1>1, <2>2 DEF TypeInv, KnowsOld, Done, SwitchState
  <2>4. \A j : Refers(j)' => Refers(j)
    BY <2>1, <2>2 DEF Refers, Done, SwitchState
  <2> QED
    BY <1>1, <2>1, <2>3, <2>4, HandledMember, QuietInv
<1> QED
  BY <1>2, <1>3, <1>4, <1>5 DEF Switch

LEMMA ShutdownInv ==
    ASSUME IInv, Shutdown
    PROVE  IInv'
<1>1. TypeOK' /\ TypeInv /\ TypeOK
  BY ShutdownType DEF IInv, TypeInv
<1>2. KnowsOld' /\ UNCHANGED <<worker, active, switch>>
  BY <1>1 DEF Shutdown, ShutdownBegins, ShutdownCancels, ShutdownReports, ShutdownEnds,
              TypeInv, KnowsOld
<1>3. CASE ShutdownBegins \/ ShutdownEnds
  <2>1. UNCHANGED <<rec, queue, cancelled>> /\ closing'.jobs = closing.jobs
    BY <1>1, <1>3 DEF ShutdownBegins, ShutdownEnds, TypeOK
  <2>2. \A j : Refers(j)' => Refers(j)
    BY <1>2, <2>1 DEF Refers
  <2> QED
    BY <1>1, <1>2, <2>1, <2>2, HandledMember, QuietInv
<1>4. CASE ShutdownCancels
  <2> DEFINE running == {active[s] : s \in Segments} \ {None}
  <2>1. /\ queue' = << >> /\ closing'.jobs = Queued \cup running
        /\ cancelled' = cancelled \cup running /\ rec' = Failing({}, "cancelled")
    BY <1>1, <1>4, FailingNothing DEF ShutdownCancels
  <2>2. running \subseteq Handled
    BY HandledMember DEF Refers
  <2>3. Handled' \subseteq Submitted
    <3>1. \A j : Refers(j)' => Refers(j) \/ j \in Queued \/ j \in running
      BY <1>2, <2>1 DEF Refers
    <3> QED
      BY <2>2, <3>1, HandledMember DEF Submitted
  <2>4. Queued' = {} /\ \A i, k \in 1..Len(queue') : i # k => queue'[i].seg # queue'[k].seg
    BY <2>1 DEF Queued
  <2> HIDE DEF running
  <2> QED
    BY <1>1, <1>2, <2>1, <2>3, <2>4, FailingInv DEF Submitted
<1>5. CASE ShutdownReports
  <2>1. PICK j \in closing.jobs : /\ rec' = Failing({j}, "cancelled")
                                  /\ closing' = [closing EXCEPT !.jobs = @ \ {j}]
    BY <1>5 DEF ShutdownReports
  <2>2. UNCHANGED <<queue, cancelled>> /\ closing'.jobs \subseteq closing.jobs
    BY <1>1, <1>5, <2>1 DEF ShutdownReports, TypeOK
  <2>3. j \in Handled /\ Handled' \subseteq Handled
    <3>1. Refers(j) /\ \A k : Refers(k)' => Refers(k)
      BY <1>2, <2>1, <2>2 DEF Refers
    <3> QED
      BY <3>1, HandledMember
  <2>4. \A w \in Workers : worker[w].job = None
    BY <1>1, <1>5 DEF ShutdownReports, WorkersGone, TypeInv, HoldsJob
  <2>5. j # None
    BY <1>1, <2>3, HandledType, NoneAssumption
  <2>6. /\ Queued' \subseteq Queued \ {j} /\ Queued' \cap Handled' = {}
        /\ Submitted' \subseteq Submitted /\ {j} \in SUBSET Submitted
        /\ \A i, k \in 1..Len(queue') : i # k => queue'[i].seg # queue'[k].seg
    BY <2>2, <2>3 DEF Queued, IInv, QueueInv, Submitted
  <2>7. \A w \in Workers : worker[w].job \in {j} => worker[w].job \in cancelled'
    BY <2>4, <2>5
  <2> QED
    BY <1>1, <1>2, <2>1, <2>2, <2>6, <2>7, FailingInv
<1> QED
  BY <1>3, <1>4, <1>5 DEF Shutdown

\* start() only replaces tasks that are done, and so hold no job.
LEMMA RevivedKeepsJobs ==
    ASSUME TypeInv, worker' = Revived
    PROVE  /\ \A w \in Workers : worker'[w].job = worker[w].job
           /\ \A w \in Workers :
                \/ worker'[w] = worker[w]
                \/ worker'[w].pc = "idle" /\ worker'[w].job = None
           /\ HoldsJob'
<1>1. CASE \A w \in Workers : worker[w].pc = "dead"
  <2>1. \A w \in Workers : worker'[w] = Idle
    BY <1>1 DEF Revived
  <2>2. Idle.job = None /\ Idle.pc = "idle"
    BY DEF Idle, Local
  <2>3. \A w \in Workers : worker[w].job = None
    BY <1>1 DEF TypeInv, HoldsJob
  <2> QED
    BY <2>1, <2>2, <2>3 DEF HoldsJob
<1>2. CASE ~(\A w \in Workers : worker[w].pc = "dead")
  <2>1. worker' = worker
    BY <1>2 DEF Revived
  <2>2. HoldsJob
    BY DEF TypeInv
  <2>3. HoldsJob'
    BY <2>1, <2>2 DEF HoldsJob
  <2>4. \A w \in Workers : worker'[w] = worker[w]
    BY <2>1
  <2> QED
    BY <2>3, <2>4
<1> QED
  BY <1>1, <1>2

\* A submission that is numbered after every job of its caption.
LEMMA RenewedInv ==
    ASSUME IInv, TypeOK', NEW s \in Segments, worker' = Revived, UNCHANGED submitFrame,
           rec[s].status \notin InProgress,
           rec'[s].sub = rec[s].sub + 1,
           \A t \in Segments \ {s} : rec'[t] = rec[t],
           \/ UNCHANGED queue
           \/ \E n \in Job : /\ n.seg = s /\ n.sub = rec'[s].sub
                             /\ rec'[s].status = "pending" /\ queue' = Append(queue, n)
    PROVE  IInv'
<1>1. TypeInv /\ TypeOK /\ JobInv /\ QueueInv /\ WorkerInv
  BY DEF IInv, TypeInv
<1>2. rec[s].sub \in Nat /\ \A j \in Submitted : j \in Job /\ j.seg \in Segments /\ j.sub \in Nat
  BY <1>1, HandledType DEF TypeOK, Record, Job
<1>3. \A j \in Submitted : j.seg = s => j.sub < rec'[s].sub
  BY <1>1, <1>2 DEF JobInv
<1>4. Handled' = Handled
  <2>1. \A j : Refers(j)' <=> Refers(j)
    BY <1>1, RevivedKeepsJobs DEF Refers, submitFrame
  <2> QED
    BY <2>1, HandledMember
<1>5. \A j \in Queued : j.seg # s
  BY <1>1, <1>2 DEF QueueInv, InProgress, Submitted
<1>6. JobInv' /\ QueueInv'
  <2>1. CASE UNCHANGED queue
    <3>1. Queued' = Queued /\ Submitted' = Submitted
      BY <1>4, <2>1 DEF Queued, Submitted
    <3>2. JobInv'
      BY <1>1, <1>2, <1>3, <3>1 DEF JobInv
    <3> QED
      BY <1>1, <1>2, <1>4, <1>5, <2>1, <3>1, <3>2 DEF QueueInv, Submitted
  <2>2. CASE \E n \in Job : /\ n.seg = s /\ n.sub = rec'[s].sub
                            /\ rec'[s].status = "pending" /\ queue' = Append(queue, n)
    <3>1. PICK n \in Job : /\ n.seg = s /\ n.sub = rec'[s].sub
                           /\ rec'[s].status = "pending" /\ queue' = Append(queue, n)
      BY <2>2
    <3>2. /\ Len(queue) \in Nat /\ Len(queue') = Len(queue) + 1
          /\ \A i \in 1..Len(queue) : queue'[i] = queue[i] /\ queue[i] \in Queued
          /\ queue'[Len(queue) + 1] = n
      BY <1>1, <3>1, AppendProperties, LenProperties DEF TypeOK, Queued
    <3>3. Queued' = Queued \cup {n}
      <4>1. \A i \in 1..Len(queue') : i \in 1..Len(queue) \/ i = Len(queue) + 1
        BY <3>2
      <4> QED
        BY <3>2, <4>1 DEF Queued
    <3>4. Submitted' = Submitted \cup {n} /\ n \notin Handled
      BY <1>2, <1>3, <1>4, <3>1, <3>3 DEF Submitted
    <3>5. JobInv'
      <4>1. \A j \in Submitted' : j = n \/ j \in Submitted
        BY <3>4
      <4>2. rec'[s].sub \in Nat /\ n.sub <= rec'[s].sub
        BY <1>2, <3>1
      <4>3. ASSUME NEW j \in Submitted'
            PROVE  /\ j.sub <= rec'[j.seg].sub
                   /\ j.sub = rec'[j.seg].sub => rec'[j.seg].status \in Lively
        <5>1. CASE j = n
          BY <3>1, <4>2, <5>1 DEF Lively
        <5>2. CASE j \in Submitted /\ j.seg = s
          BY <1>2, <1>3, <4>2, <5>2
        <5>3. CASE j \in Submitted /\ j.seg # s
          BY <1>1, <1>2, <5>3 DEF JobInv
        <5> QED
          BY <4>1, <5>1, <5>2, <5>3
      <4>4. ASSUME NEW j \in Submitted', NEW k \in Submitted', j.seg = k.seg, j.sub = k.sub
            PROVE  j = k
        <5>1. CASE j \in Submitted /\ k \in Submitted
          BY <1>1, <4>4, <5>1 DEF JobInv
        <5>2. CASE j = n \/ k = n
          BY <1>2, <1>3, <3>1, <4>1, <4>2, <4>4, <5>2
        <5> QED
          BY <4>1, <5>1, <5>2
      <4> QED
        BY <4>3, <4>4 DEF JobInv
    <3>6. \A i, k \in 1..Len(queue') : i # k => queue'[i].seg # queue'[k].seg
      <4>1. \A i \in 1..Len(queue) : queue'[i].seg # s
        BY <1>5, <3>2
      <4>2. \A i, k \in 1..Len(queue) : i # k => queue'[i].seg # queue'[k].seg
        BY <1>1, <3>2 DEF QueueInv
      <4>3. \A i \in 1..Len(queue') : i \in 1..Len(queue) \/ i = Len(queue) + 1
        BY <3>2
      <4> QED
        BY <3>1, <3>2, <4>1, <4>2, <4>3
    <3>7. \A j \in Queued' : rec'[j.seg].sub = j.sub /\ rec'[j.seg].status = "pending"
      BY <1>1, <1>2, <1>5, <3>1, <3>3 DEF QueueInv, Submitted
    <3> QED
      BY <1>1, <1>4, <3>3, <3>4, <3>5, <3>6, <3>7 DEF QueueInv
  <2> QED
    BY <2>1, <2>2
<1>7. WorkerInv'
  <2>1. ASSUME NEW w \in Workers
        PROVE  Sound(w)'
    <3>1. worker'[w] = worker[w] \/ worker'[w].pc = "idle"
      BY <1>1, RevivedKeepsJobs
    <3>2. Sound(w) /\ cancelled' = cancelled
      BY <1>1 DEF WorkerInv, submitFrame
    <3>3. worker[w].job # None => worker[w].job \in Submitted
      BY HandledMember DEF Refers, Submitted
    <3>4. CASE worker'[w].pc = "idle"
      BY <3>4 DEF Sound
    <3>5. CASE worker'[w] = worker[w] /\ worker[w].job = None
      BY <1>1, <3>5 DEF Sound, TypeInv, HoldsJob
    <3>6. CASE worker'[w] = worker[w] /\ worker[w].job # None
      <4>1. worker[w].job.seg = s => worker[w].job.sub # rec'[s].sub
        BY <1>2, <1>3, <3>3, <3>6
      <4>2. worker[w].job.seg # s => rec'[worker[w].job.seg] = rec[worker[w].job.seg]
        BY <1>2, <3>3, <3>6
      <4> QED
        BY <3>2, <3>6, <4>1, <4>2 DEF Sound
    <3> QED
      BY <3>1, <3>4, <3>5, <3>6
  <2>2. \A w, v \in Workers : w # v /\ worker'[w].job # None => worker'[w].job # worker'[v].job
    BY <1>1, RevivedKeepsJobs DEF WorkerInv
  <2> QED
    BY <2>1, <2>2 DEF WorkerInv
<1>8. HoldsJob' /\ KnowsOld'
  BY <1>1, RevivedKeepsJobs DEF submitFrame, TypeInv, KnowsOld
<1> QED
  BY <1>6, <1>7, <1>8 DEF IInv, TypeInv

LEMMA SubmitInv ==
    ASSUME IInv, NEW s \in Segments, Submit(s)
    PROVE  IInv'
<1>1. TypeOK' /\ TypeInv /\ TypeOK /\ rec[s] \in Record
  BY SubmitType DEF IInv, TypeInv, TypeOK
<1>2. CASE Refuse(s)
  <2>1. UNCHANGED <<rec, queue, submitFrame>> /\ worker' = Revived
    BY <1>2 DEF Refuse
  <2>2. Queued' = Queued /\ Handled' = Handled
    <3>1. \A j : Refers(j)' <=> Refers(j)
      BY <1>1, <2>1, RevivedKeepsJobs DEF Refers, submitFrame
    <3> QED
      BY <2>1, <3>1, HandledMember DEF Queued
  <2>3. JobInv' /\ QueueInv'
    BY <2>1, <2>2 DEF IInv, JobInv, QueueInv, Submitted
  <2>4. WorkerInv'
    <3>1. \A w \in Workers : Sound(w)'
      BY <1>1, <2>1, RevivedKeepsJobs DEF submitFrame, IInv, WorkerInv, Sound
    <3>2. \A w, v \in Workers : w # v /\ worker'[w].job # None => worker'[w].job # worker'[v].job
      BY <1>1, <2>1, RevivedKeepsJobs DEF IInv, WorkerInv
    <3> QED
      BY <3>1, <3>2 DEF WorkerInv
  <2>5. HoldsJob' /\ KnowsOld'
    BY <1>1, <2>1, RevivedKeepsJobs DEF submitFrame, TypeInv, KnowsOld
  <2> QED
    BY <1>1, <2>3, <2>4, <2>5 DEF IInv, TypeInv
<1>3. CASE Skip(s) \/ Disable(s) \/ Overflow(s) \/ Enqueue(s)
  <2>1. /\ rec[s].status \notin InProgress /\ worker' = Revived /\ UNCHANGED submitFrame
    BY <1>3 DEF Skip, Disable, Overflow, Enqueue, Admissible
  <2>2. \E status, result, error : Renewed(s, status, result, error)
    BY <1>3 DEF Skip, Disable, Overflow, Enqueue
  <2>3. rec'[s].sub = rec[s].sub + 1 /\ \A t \in Segments \ {s} : rec'[t] = rec[t]
    BY <1>1, <2>2 DEF Renewed, TypeOK
  <2>4. \/ UNCHANGED queue
        \/ \E n \in Job : /\ n.seg = s /\ n.sub = rec'[s].sub
                          /\ rec'[s].status = "pending" /\ queue' = Append(queue, n)
    <3>1. CASE Enqueue(s)
      <4> DEFINE n == [seg |-> s, sub |-> rec[s].sub + 1, provider |-> provider]
      <4>1. n \in Job /\ n.seg = s /\ n.sub = rec'[s].sub
        BY <1>1, <2>3 DEF TypeOK, Record, Job
      <4>2. rec'[s].status = "pending" /\ queue' = Append(queue, n)
        BY <1>1, <3>1 DEF Enqueue, Renewed, TypeOK
      <4> QED
        BY <4>1, <4>2
    <3>2. CASE Skip(s) \/ Disable(s) \/ Overflow(s)
      BY <3>2 DEF Skip, Disable, Overflow
    <3> QED
      BY <1>3, <3>1, <3>2
  <2> QED
    BY <1>1, <2>1, <2>3, <2>4, RenewedInv
<1> QED
  BY <1>2, <1>3 DEF Submit

-----------------------------------------------------------------------------
(* Safety *)

LEMMA InitInv == Init => IInv
<1> SUFFICES ASSUME Init PROVE IInv
  OBVIOUS
<1>1. TypeOK
  BY InitType
<1>2. /\ \A w \in Workers : worker[w].pc = "idle" /\ worker[w].job = None
      /\ \A p \in Providers : /\ switch[p].pc = "ready"
                              /\ switch[p].jobs = {} /\ switch[p].removed = {}
  BY DEF Init, Idle, Local, Ready, SwitchState
<1>3. TypeInv
  BY <1>1, <1>2 DEF TypeInv, HoldsJob, KnowsOld
<1>4. Queued = {} /\ Handled = {}
  <2>1. Queued = {}
    BY DEF Init, Queued
  <2>2. \A j : ~Refers(j)
    BY <1>2 DEF Init, Refers
  <2> QED
    BY <2>1, <2>2, HandledMember
<1>5. JobInv
  BY <1>4 DEF JobInv, Submitted
<1>6. QueueInv
  BY <1>4 DEF Init, QueueInv
<1>7. WorkerInv
  BY <1>2 DEF WorkerInv, Sound
<1> QED
  BY <1>3, <1>5, <1>6, <1>7 DEF IInv

LEMMA WorkType ==
    ASSUME TypeInv, NEW w \in Workers, Work(w) \/ Timeout(w)
    PROVE  TypeOK'
<1>1. CASE Take(w) \/ CallEnds(w) \/ Timeout(w)
  BY <1>1, TakeType, CallEndsType DEF TypeInv
<1>2. CASE Succeed(w) \/ Fail(w) \/ Cancelled(w)
  BY <1>2, SucceedType, FailType, CancelledType
<1>3. CASE BackoffEnds(w) \/ EmitEnds(w) \/ Interrupted(w)
  BY <1>3, BackoffEndsType, EmitEndsType, InterruptedType
<1> QED
  BY <1>1, <1>2, <1>3 DEF Work

LEMMA StutterInv == ASSUME IInv, UNCHANGED vars PROVE IInv'
<1>1. TypeInv'
  BY DEF IInv, TypeInv, TypeOK, HoldsJob, KnowsOld, vars
<1>2. Queued' = Queued /\ Handled' = Handled /\ Submitted' = Submitted
  BY DEF Queued, Handled, Submitted, vars
<1>3. JobInv' /\ QueueInv'
  BY <1>2 DEF IInv, JobInv, QueueInv, vars
<1>4. WorkerInv'
  BY DEF IInv, WorkerInv, Sound, vars
<1> QED
  BY <1>1, <1>3, <1>4 DEF IInv

\* Every step of the manager keeps the inductive invariant.
LEMMA NextInv == ASSUME IInv, [Next]_vars PROVE IInv'
<1>1. CASE \E s \in Segments : Submit(s) \/ Cancel(s)
  BY <1>1, SubmitInv, CancelInv
<1>2. CASE \E w \in Workers : Work(w) \/ Timeout(w)
  <2>1. PICK w \in Workers : Work(w) \/ Timeout(w)
    BY <1>2
  <2>2. TypeOK' /\ TypeInv /\ Sound(w)
    BY <2>1, WorkType DEF IInv, WorkerInv
  <2>3. CASE Take(w)
    BY <2>2, <2>3, TakeInv
  <2>4. CASE ~Take(w)
    BY <2>1, <2>2, <2>4, WorkIsActorStep, ActorStepInv
  <2> QED
    BY <2>3, <2>4
<1>3. CASE \E p \in Providers : Switch(p)
  BY <1>3, SwitchInv
<1>4. CASE Shutdown
  BY <1>4, ShutdownInv
<1>5. CASE UNCHANGED vars
  BY <1>5, StutterInv
<1> QED
  BY <1>1, <1>2, <1>3, <1>4, <1>5 DEF Next

\* IInv is an invariant: the inductive strengthening of everything below.
THEOREM Invariance == Spec => []IInv
BY InitInv, NextInv, PTL DEF Spec

\* Every variable of the manager keeps its type, whatever the captions, the
\* workers, the providers and the bounds.
THEOREM TypeCorrect == Spec => []TypeOK
<1>1. IInv => TypeOK
  BY DEF IInv, TypeInv
<1> QED
  BY <1>1, Invariance, PTL

LEMMA OneOwnerFollows == ASSUME IInv PROVE OneOwner
<1>1. TypeOK
  BY DEF IInv, TypeInv
<1>2. ASSUME NEW w \in Workers, Working(w)
      PROVE  /\ worker[w].job # None /\ worker[w].job \in Submitted
             /\ worker[w].job \in Handled /\ worker[w].job \in Job
  <2>1. worker[w].job # None
    BY <1>2 DEF Working, IInv, TypeInv, HoldsJob
  <2>2. worker[w].job \in Handled
    BY <2>1, HandledMember DEF Refers
  <2> QED
    BY <1>1, <2>1, <2>2, HandledType DEF Submitted
<1>3. ASSUME NEW w \in Workers, Working(w), NEW i \in 1..Len(queue),
             queue[i].seg = worker[w].job.seg
      PROVE  queue[i].sub > worker[w].job.sub
  <2>1. queue[i] \in Queued /\ queue[i] \in Submitted
    BY DEF Queued, Submitted
  <2>2. queue[i] # worker[w].job /\ rec[queue[i].seg].sub = queue[i].sub
    BY <1>2, <1>3, <2>1 DEF IInv, QueueInv
  <2>3. worker[w].job.sub <= queue[i].sub
    BY <1>2, <1>3, <2>2 DEF IInv, JobInv
  <2>4. worker[w].job.sub # queue[i].sub
    BY <1>2, <1>3, <2>1, <2>2 DEF IInv, JobInv
  <2>5. worker[w].job.sub \in Nat /\ queue[i].sub \in Nat
    BY <1>1, <1>2, <1>3, <2>1, HandledType DEF Job
  <2> QED
    BY <2>3, <2>4, <2>5
<1>4. ASSUME NEW w \in Workers, Working(w), NEW v \in Workers \ {w}, Working(v),
             worker[v].job.seg = worker[w].job.seg
      PROVE  worker[v].job.sub # worker[w].job.sub
  <2>1. worker[v].job # worker[w].job
    BY <1>2, <1>4 DEF IInv, WorkerInv
  <2> QED
    BY <1>2, <1>4, <2>1 DEF IInv, JobInv
<1> QED
  BY <1>3, <1>4 DEF OneOwner, IInv, QueueInv

\* A submission has at most one owner: no interleaving of retries, workers,
\* cancellations, switches and shutdown gets a caption translated twice for one
\* request, with any number of workers.
THEOREM OneOwnerHolds == Spec => []OneOwner
<1>1. IInv => OneOwner
  BY OneOwnerFollows
<1> QED
  BY <1>1, Invariance, PTL

-----------------------------------------------------------------------------
(* Refinement: the records behave as CaptionLedger says *)

LEMMA ShownFields ==
    /\ \A s \in Segments : /\ Shown[s].sub = rec[s].sub /\ Shown[s].status = rec[s].status
                           /\ Shown[s].result = rec[s].result
    /\ \A s \in Segments : Shown'[s] = [sub |-> rec'[s].sub, status |-> rec'[s].status,
                                        result |-> rec'[s].result]
    /\ Shown = [s \in Segments |-> Shown[s]] /\ Shown' = [s \in Segments |-> Shown'[s]]
<1>1. \A s \in Segments : /\ Shown[s].sub = rec[s].sub /\ Shown[s].status = rec[s].status
                          /\ Shown[s].result = rec[s].result
  BY DEF Shown
<1>2. \A s \in Segments : Shown'[s] = [sub |-> rec'[s].sub, status |-> rec'[s].status,
                                        result |-> rec'[s].result]
  BY DEF Shown
<1>3. Shown = [s \in Segments |-> Shown[s]]
  BY DEF Shown
<1>4. Shown' = [s \in Segments |-> Shown'[s]]
  BY DEF Shown
<1> QED
  BY <1>1, <1>2, <1>3, <1>4

\* Only the record of s changes, to r.
LEMMA ShownChanges ==
    ASSUME NEW s \in Segments, NEW r, \A t \in Segments \ {s} : rec'[t] = rec[t],
           [sub |-> rec'[s].sub, status |-> rec'[s].status, result |-> rec'[s].result] = r
    PROVE  Shown' = [Shown EXCEPT ![s] = r]
<1>1. \A t \in Segments \ {s} : Shown'[t] = Shown[t]
  BY DEF Shown
<1>2. Shown'[s] = r
  BY DEF Shown
<1>3. DOMAIN Shown = Segments /\ DOMAIN Shown' = Segments
  BY DEF Shown
<1> QED
  BY <1>1, <1>2, <1>3, ShownFields

LEMMA AdmitStep ==
    ASSUME NEW s \in Segments, rec[s].status \notin InProgress,
           \A t \in Segments \ {s} : rec'[t] = rec[t],
           rec'[s].sub = rec[s].sub + 1,
           \/ rec'[s].status \in {"pending", "failed"} /\ rec'[s].result = rec[s].result
           \/ rec'[s].status \in {"skipped", "disabled"} /\ rec'[s].result = 0
    PROVE  Ledger!LedgerNext
<1> DEFINE status == rec'[s].status
           r == [sub |-> Shown[s].sub + 1, status |-> status,
                 result |-> IF status \in {"pending", "failed"} THEN Shown[s].result ELSE 0]
<1>1. Shown[s].status \notin Ledger!Open
  BY ShownFields DEF InProgress, Ledger!Open
<1>2. status \in {"pending", "failed", "skipped", "disabled"}
  OBVIOUS
<1>3. Shown' = [Shown EXCEPT ![s] = r]
  <2>1. [sub |-> rec'[s].sub, status |-> rec'[s].status, result |-> rec'[s].result] = r
    BY ShownFields
  <2> QED
    BY <2>1, ShownChanges
<1>4. Ledger!Admit(s)
  BY <1>1, <1>2, <1>3 DEF Ledger!Admit
<1> QED
  BY <1>4 DEF Ledger!LedgerNext

LEMMA BeginStep ==
    ASSUME NEW s \in Segments, rec[s].status = "pending",
           \A t \in Segments \ {s} : rec'[t] = rec[t],
           rec'[s].sub = rec[s].sub, rec'[s].status = "translating",
           rec'[s].result = rec[s].result
    PROVE  Ledger!LedgerNext
<1>1. Shown' = [Shown EXCEPT ![s] = [Shown[s] EXCEPT !.status = "translating"]]
  <2>1. [sub |-> rec'[s].sub, status |-> rec'[s].status, result |-> rec'[s].result]
            = [Shown[s] EXCEPT !.status = "translating"]
    BY DEF Shown
  <2> QED
    BY <2>1, ShownChanges
<1>2. Ledger!Begin(s)
  BY <1>1, ShownFields DEF Ledger!Begin
<1> QED
  BY <1>2 DEF Ledger!LedgerNext

LEMMA CompleteStep ==
    ASSUME NEW s \in Segments, rec[s].status = "translating",
           \A t \in Segments \ {s} : rec'[t] = rec[t],
           rec'[s].sub = rec[s].sub, rec'[s].status = "completed",
           rec'[s].result = rec[s].sub
    PROVE  Ledger!LedgerNext
<1> DEFINE r == [sub |-> rec[s].sub, status |-> "completed", result |-> rec[s].sub]
<1>1. Shown' = [Shown EXCEPT ![s] = r]
  BY ShownChanges
<1>2. [sub |-> Shown[s].sub, status |-> "completed", result |-> Shown[s].sub] = r
  BY ShownFields
<1>3. Ledger!Complete(s)
  BY <1>1, <1>2, ShownFields DEF Ledger!Complete
<1> QED
  BY <1>3 DEF Ledger!LedgerNext

LEMMA SettleStep ==
    ASSUME NEW s \in Segments,
           rec[s].status \in {"pending", "translating", "failed", "cancelled"},
           \A t \in Segments \ {s} : rec'[t] = rec[t],
           rec'[s].sub = rec[s].sub, rec'[s].status \in {"failed", "cancelled"},
           rec'[s].result = rec[s].result
    PROVE  Ledger!LedgerNext
<1>1. Shown' = [Shown EXCEPT ![s] = [Shown[s] EXCEPT !.status = rec'[s].status]]
  <2>1. [sub |-> rec'[s].sub, status |-> rec'[s].status, result |-> rec'[s].result]
            = [Shown[s] EXCEPT !.status = rec'[s].status]
    BY DEF Shown
  <2> QED
    BY <2>1, ShownChanges
<1>2. rec'[s].status \in Ledger!Errors /\ Shown[s].status \in Ledger!Open \cup Ledger!Errors
  BY ShownFields DEF Ledger!Open, Ledger!Errors
<1>3. Ledger!Settle(s)
  BY <1>1, <1>2 DEF Ledger!Settle
<1> QED
  BY <1>3 DEF Ledger!LedgerNext

LEMMA SameLedger == ASSUME UNCHANGED rec PROVE UNCHANGED Shown
BY DEF Shown

\* _finish_error settles the caption of a job, if it changes anything.
LEMMA FailingSettles ==
    ASSUME IInv, NEW J \in SUBSET Submitted, NEW code \in {"provider", "cancelled"},
           rec' = Failing(J, code),
           \A j, k \in J : Reportable(j, code) /\ Reportable(k, code) => j.seg = k.seg
    PROVE  Ledger!LedgerNext \/ UNCHANGED Shown
<1>1. CASE \E j \in J : Reportable(j, code)
  <2>1. PICK j \in J : Reportable(j, code)
    BY <1>1
  <2>2. j.seg \in Segments /\ j \in Submitted
    BY HandledType DEF IInv, TypeInv, Job
  <2>3. \A t \in Segments \ {j.seg} : rec'[t] = rec[t]
    BY <2>1 DEF Failing
  <2>4. /\ rec'[j.seg].sub = rec[j.seg].sub /\ rec'[j.seg].result = rec[j.seg].result
        /\ rec'[j.seg].status \in {"failed", "cancelled"}
    BY <2>1, <2>2 DEF Failing
  <2>5. rec[j.seg].status \in {"pending", "translating", "failed", "cancelled"}
    BY <2>1, <2>2 DEF Reportable, IInv, JobInv, Lively
  <2> QED
    BY <2>2, <2>3, <2>4, <2>5, SettleStep
<1>2. CASE ~(\E j \in J : Reportable(j, code))
  BY <1>2, SameLedger DEF Failing, IInv, TypeInv, TypeOK
<1> QED
  BY <1>1, <1>2

LEMMA SubmitRefines ==
    ASSUME IInv, NEW s \in Segments, Submit(s)
    PROVE  Ledger!LedgerNext \/ UNCHANGED Shown
<1>1. CASE Refuse(s)
  BY <1>1, SameLedger DEF Refuse
<1>2. CASE Skip(s) \/ Disable(s) \/ Overflow(s) \/ Enqueue(s)
  <2>1. rec[s].status \notin InProgress
    BY <1>2 DEF Skip, Disable, Overflow, Enqueue, Admissible
  <2>2. \E status, result, error :
            /\ Renewed(s, status, result, error)
            /\ \/ status \in {"pending", "failed"} /\ result = rec[s].result
               \/ status \in {"skipped", "disabled"} /\ result = 0
    BY <1>2 DEF Skip, Disable, Overflow, Enqueue
  <2>3. /\ \A t \in Segments \ {s} : rec'[t] = rec[t]
        /\ rec'[s].sub = rec[s].sub + 1
        /\ \/ rec'[s].status \in {"pending", "failed"} /\ rec'[s].result = rec[s].result
           \/ rec'[s].status \in {"skipped", "disabled"} /\ rec'[s].result = 0
    BY <2>2 DEF Renewed, IInv, TypeInv, TypeOK
  <2> QED
    BY <2>1, <2>3, AdmitStep
<1> QED
  BY <1>1, <1>2 DEF Submit

LEMMA WorkRefines ==
    ASSUME IInv, NEW w \in Workers, Work(w) \/ Timeout(w)
    PROVE  Ledger!LedgerNext \/ UNCHANGED Shown
<1> DEFINE j == worker[w].job
<1>1. TypeInv /\ TypeOK /\ Sound(w)
  BY DEF IInv, TypeInv, WorkerInv
<1>2. ASSUME worker[w].pc \in {"calling", "backoff", "emitting"}
      PROVE  j # None /\ j \in Job /\ j.seg \in Segments /\ j \in Submitted
  <2>1. j # None /\ j \in Job
    BY <1>1, <1>2, HeldJob DEF TypeInv, HoldsJob
  <2> QED
    BY <2>1, HandledMember DEF Refers, Submitted, Job
<1>3. ASSUME NEW code \in {"provider", "cancelled"}, rec' = Failing({j}, code),
             worker[w].pc \in {"calling", "backoff"}
      PROVE  Ledger!LedgerNext \/ UNCHANGED Shown
  BY <1>2, <1>3, FailingSettles
<1>4. CASE Take(w)
  <2> DEFINE k == Head(queue)
  <2>1. k \in Job /\ k \in Queued /\ StartAttempt(w, k, 1)
    BY <1>1, <1>4, HeadTailProperties, LenProperties, ElementOfSeq DEF Take, TypeOK, Queued
  <2>2. k.seg \in Segments /\ rec[k.seg].sub = k.sub /\ rec[k.seg].status = "pending"
    BY <2>1 DEF IInv, QueueInv, Job
  <2>3. /\ \A t \in Segments \ {k.seg} : rec'[t] = rec[t]
        /\ rec'[k.seg] = [rec[k.seg] EXCEPT !.status = "translating"]
    BY <1>1, <2>1, <2>2 DEF StartAttempt, TypeOK
  <2>4. /\ rec'[k.seg].sub = rec[k.seg].sub /\ rec'[k.seg].status = "translating"
        /\ rec'[k.seg].result = rec[k.seg].result
    BY <1>1, <2>2, <2>3 DEF TypeOK, Record
  <2> QED
    BY <2>2, <2>3, <2>4, BeginStep
<1>5. CASE Timeout(w) \/ CallEnds(w) \/ EmitEnds(w) \/ Interrupted(w)
  BY <1>5, SameLedger DEF Timeout, CallEnds, EmitEnds, Interrupted
<1>6. CASE Succeed(w)
  <2>1. worker[w].pc = "calling"
    BY <1>6 DEF Succeed, Answered
  <2>2. CASE UNCHANGED rec
    BY <2>2, SameLedger
  <2>3. CASE /\ rec[j.seg].sub = j.sub
             /\ rec[j.seg].status \notin {"completed", "cancelled"}
             /\ rec' = [rec EXCEPT ![j.seg] = [sub |-> j.sub, status |-> "completed",
                                               result |-> j.sub, error |-> "none"]]
    <3>1. rec[j.seg].status = "translating"
      BY <1>1, <2>1, <2>3 DEF Sound
    <3>2. /\ \A t \in Segments \ {j.seg} : rec'[t] = rec[t]
          /\ rec'[j.seg].sub = rec[j.seg].sub /\ rec'[j.seg].status = "completed"
          /\ rec'[j.seg].result = rec[j.seg].sub
      BY <1>1, <1>2, <2>1, <2>3 DEF TypeOK
    <3> QED
      BY <1>2, <2>1, <3>1, <3>2, CompleteStep
  <2> QED
    BY <1>6, <2>2, <2>3 DEF Succeed
<1>7. CASE Fail(w)
  <2>1. worker[w].pc = "calling" /\ (rec' = Failing({j}, "provider") \/ UNCHANGED rec)
    BY <1>7 DEF Fail, Answered
  <2> QED
    BY <1>3, <2>1, SameLedger
<1>8. CASE Cancelled(w)
  <2>1. worker[w].pc = "calling" /\ (rec' = Failing({j}, "cancelled") \/ UNCHANGED rec)
    BY <1>8 DEF Cancelled, Answered, GiveUp
  <2> QED
    BY <1>3, <2>1, SameLedger
<1>9. CASE BackoffEnds(w)
  <2>1. worker[w].pc = "backoff"
    BY <1>9 DEF BackoffEnds
  <2>2. CASE GiveUp(w, "cancelled", FALSE)
    <3>1. rec' = Failing({j}, "cancelled") \/ UNCHANGED rec
      BY <2>2 DEF GiveUp
    <3> QED
      BY <1>3, <2>1, <3>1, SameLedger
  <2>3. CASE j \notin cancelled /\ StartAttempt(w, j, worker[w].attempt + 1)
    <3>1. CASE rec[j.seg].sub # j.sub
      BY <2>3, <3>1, SameLedger DEF StartAttempt
    <3>2. CASE rec[j.seg].sub = j.sub
      <4>1. rec[j.seg].status = "translating"
        BY <1>1, <2>1, <2>3, <3>2 DEF Sound
      <4>2. rec' = [rec EXCEPT ![j.seg].status = "translating"]
        BY <2>3, <3>2 DEF StartAttempt
      <4>3. \A t \in Segments : /\ rec'[t].sub = rec[t].sub /\ rec'[t].status = rec[t].status
                                /\ rec'[t].result = rec[t].result
        BY <1>1, <1>2, <2>1, <4>1, <4>2 DEF TypeOK, Record
      <4> QED
        BY <4>3 DEF Shown
    <3> QED
      BY <3>1, <3>2
  <2> QED
    BY <1>9, <2>2, <2>3 DEF BackoffEnds
<1> QED
  BY <1>4, <1>5, <1>6, <1>7, <1>8, <1>9 DEF Work

LEMMA CancelJobsRefines ==
    ASSUME IInv, NEW p \in Providers, NEW s, s.jobs \subseteq Handled, CancelJobs(p, s)
    PROVE  Ledger!LedgerNext \/ UNCHANGED Shown
<1>1. PICK done \in SUBSET s.jobs :
        /\ \/ \E j \in done : {k \in done : Reportable(k, "cancelled")} = {j}
           \/ {k \in done : Reportable(k, "cancelled")} = {}
        /\ rec' = Failing(done, "cancelled")
  BY DEF CancelJobs
<1>2. \A j, k \in done : Reportable(j, "cancelled") /\ Reportable(k, "cancelled") => j = k
  BY <1>1
<1>3. done \in SUBSET Submitted
  BY <1>1 DEF Submitted
<1> QED
  BY <1>1, <1>2, <1>3, FailingSettles

LEMMA ReportRefines ==
    ASSUME IInv, NEW j \in Submitted, rec' = Failing({j}, "cancelled")
    PROVE  Ledger!LedgerNext \/ UNCHANGED Shown
BY FailingSettles

LEMMA SwitchRefines ==
    ASSUME IInv, NEW p \in Providers, Switch(p)
    PROVE  Ledger!LedgerNext \/ UNCHANGED Shown
<1>1. CASE SwitchBegins(p)
  <2> DEFINE removed == {j \in Queued : j.provider = provider}
             running == {j \in {active[s] : s \in Segments} \ {None} : j.provider = provider}
             s == Switching(provider, running, {}, removed)
  <2>1. CancelJobs(p, s)
    BY <1>1 DEF SwitchBegins
  <2>2. s.jobs \subseteq Handled
    BY HandledMember DEF Refers, Switching, SwitchState
  <2> HIDE DEF s
  <2> QED
    BY <2>1, <2>2, CancelJobsRefines
<1>2. CASE SwitchCancels(p)
  <2>1. switch[p].jobs \subseteq Handled
    BY HandledMember DEF Refers
  <2> QED
    BY <1>2, <2>1, CancelJobsRefines DEF SwitchCancels
<1>3. CASE SwitchDrops(p)
  <2>1. PICK j \in switch[p].removed : rec' = Failing({j}, "cancelled")
    BY <1>3 DEF SwitchDrops
  <2>2. j \in Submitted
    BY HandledMember DEF Refers, Submitted
  <2> QED
    BY <2>1, <2>2, ReportRefines
<1>4. CASE SwitchCloses(p)
  BY <1>4, SameLedger DEF SwitchCloses
<1> QED
  BY <1>1, <1>2, <1>3, <1>4 DEF Switch

LEMMA NextRefines ==
    ASSUME IInv, [Next]_vars
    PROVE  Ledger!LedgerNext \/ UNCHANGED Shown
<1>1. ASSUME NEW s \in Segments, Cancel(s)
      PROVE  Ledger!LedgerNext \/ UNCHANGED Shown
  <2> DEFINE removed == {j \in Queued : j.seg = s}
  <2>1. rec' = Failing(removed, "cancelled")
    BY <1>1 DEF Cancel
  <2>2. removed \in SUBSET Submitted /\ \A j, k \in removed : j.seg = k.seg
    BY DEF Submitted
  <2> HIDE DEF removed
  <2> QED
    BY <2>1, <2>2, FailingSettles
<1>2. CASE Shutdown
  <2>1. CASE ShutdownBegins \/ ShutdownCancels \/ ShutdownEnds
    BY <2>1, SameLedger DEF ShutdownBegins, ShutdownCancels, ShutdownEnds
  <2>2. CASE ShutdownReports
    <3>1. PICK j \in closing.jobs : rec' = Failing({j}, "cancelled")
      BY <2>2 DEF ShutdownReports
    <3>2. j \in Submitted
      BY HandledMember DEF Refers, Submitted
    <3> QED
      BY <3>1, <3>2, ReportRefines
  <2> QED
    BY <1>2, <2>1, <2>2 DEF Shutdown
<1>3. CASE UNCHANGED vars
  BY <1>3, SameLedger DEF vars
<1> QED
  BY <1>1, <1>2, <1>3, SubmitRefines, WorkRefines, SwitchRefines DEF Next

\* The manager implements the ledger: whatever the interleaving, a caption is
\* completed only from `translating', by its current submission, and an error
\* never replaces the translation of its own submission.
THEOREM Refinement == Spec => ImplementsLedger
<1>1. Init => Ledger!LedgerInit
  BY DEF Init, Absent, Shown, Ledger!LedgerInit
<1>2. IInv /\ [Next]_vars => [Ledger!LedgerNext]_Shown
  BY NextRefines
<1> QED
  BY <1>1, <1>2, Invariance, PTL DEF Spec, ImplementsLedger, Ledger!LedgerSpec

-----------------------------------------------------------------------------
(* The forms of a worker's step *)

\* What a worker's step leaves alone.
WorkFrame(w) ==
    /\ UNCHANGED <<cancelled, provider, closedProviders, switch, closing>>
    /\ \A v \in Workers \ {w} :
        worker'[v] = worker[v] /\ call'[v] = call[v] /\ interrupt'[v] = interrupt[v]
    /\ interrupt[w] = "no" => interrupt'[w] = "no"

\* The worker goes on waiting for its call, or for the word that it was cancelled.
WaitsOn(w) ==
    /\ \E late \in BOOLEAN : worker'[w] = [worker[w] EXCEPT !.timedOut = late]
    /\ worker[w].timedOut => worker'[w].timedOut
    /\ call[w] # "none" /\ call'[w] # "none"
    /\ call'[w] = "running" => call[w] = "running"
    /\ call'[w] = "cancelling" => call[w] \in {"running", "cancelling"}
    /\ call'[w] = "cancelling" /\ ~worker'[w].timedOut => call[w] = "cancelling"
    /\ call'[w] = "cancelled" =>
        call[w] = "cancelled" \/ (call[w] = "cancelling" /\ ~worker[w].timedOut)
    /\ UNCHANGED <<rec, queue, waiting, active, activeCall, mixed>>

\* The next attempt starts after the backoff.
Restarts(w) ==
    LET j == worker[w].job IN
    /\ worker[w].pc = "backoff" /\ j \notin cancelled
    /\ worker'[w].pc = "calling" /\ worker'[w].job = j /\ worker'[w].holds
    /\ worker'[w].event = None /\ ~worker'[w].timedOut
    /\ call'[w] = "running"
    /\ activeCall' = [activeCall EXCEPT ![j.seg] = w]
    /\ rec' = IF rec[j.seg].sub = j.sub
              THEN [rec EXCEPT ![j.seg].status = "translating"]
              ELSE rec
    /\ UNCHANGED <<queue, waiting, active, mixed>>

\* The call failed and another attempt follows.
BacksOff(w) ==
    LET j == worker[w].job IN
    /\ worker[w].pc = "calling"
    /\ worker'[w].pc = "backoff" /\ worker'[w].job = j /\ ~worker'[w].holds
    /\ worker'[w].event = None
    /\ call'[w] = "none"
    /\ activeCall' = [activeCall EXCEPT ![j.seg] = None]
    /\ UNCHANGED <<rec, queue, waiting, active, mixed>>

\* The job is settled and its event goes out.
Emits(w) ==
    LET j == worker[w].job IN
    /\ worker[w].pc \in {"calling", "backoff"}
    /\ worker'[w].pc = "emitting" /\ worker'[w].job = j
    /\ call[w] = "none" \/ worker[w].pc = "calling"
    /\ call'[w] = "none"
    /\ worker'[w].holds => worker[w].pc = "calling"
    /\ \/ UNCHANGED activeCall /\ (worker[w].pc = "calling" => worker'[w].holds)
       \/ activeCall' = [activeCall EXCEPT ![j.seg] = None] /\ ~worker'[w].holds
    /\ rec[j.seg].sub = j.sub
    /\ \/ /\ worker'[w].event = "translation"
          /\ rec' = [rec EXCEPT ![j.seg] = [sub |-> j.sub, status |-> "completed",
                                            result |-> j.sub, error |-> "none"]]
       \/ /\ worker'[w].event = "error"
          /\ rec'[j.seg].sub = rec[j.seg].sub /\ rec'[j.seg].result = rec[j.seg].result
          /\ rec'[j.seg].status \in {"failed", "cancelled"}
          /\ \A s \in Segments \ {j.seg} : rec'[s] = rec[s]
    /\ UNCHANGED <<queue, waiting, active, mixed>>

\* The worker is done with its job, or the task ends with it.
Leaves(w) ==
    LET j == worker[w].job IN
    /\ worker[w].pc \in {"calling", "backoff", "emitting"}
    /\ worker'[w] \in {Idle, Dead}
    /\ call'[w] = "none" \/ (worker[w].pc # "calling" /\ call'[w] = call[w])
    /\ active' = [active EXCEPT ![j.seg] = None]
    /\ \/ activeCall' = [activeCall EXCEPT ![j.seg] = None]
       \/ UNCHANGED activeCall /\ worker[w].pc # "calling" /\ ~worker[w].holds
    /\ worker[w].pc # "emitting" /\ rec[j.seg].sub = j.sub /\ rec[j.seg].status = "translating"
        => interrupt[w] # "no" \/ (call[w] = "cancelled" /\ j \notin cancelled)
    /\ UNCHANGED <<rec, queue, waiting, mixed>>

\* An idle task is cancelled.
Dies(w) ==
    /\ worker[w].pc = "idle" /\ worker'[w] = Dead /\ interrupt[w] # "no"
    /\ UNCHANGED <<rec, queue, waiting, active, mixed, call, activeCall>>

WorkForm(w) == WaitsOn(w) \/ Restarts(w) \/ BacksOff(w) \/ Emits(w) \/ Leaves(w) \/ Dies(w)

LEMMA LocalFields ==
    /\ Idle.pc = "idle" /\ Idle.job = None /\ ~Idle.holds /\ Idle.event = None
    /\ Dead.pc = "dead" /\ Dead.job = None /\ ~Dead.holds /\ Dead.event = None
    /\ \A j, n : /\ Calling(j, n).pc = "calling" /\ Calling(j, n).job = j
                 /\ Calling(j, n).holds /\ Calling(j, n).event = None
                 /\ ~Calling(j, n).timedOut
    /\ \A j, n : /\ BackingOff(j, n).pc = "backoff" /\ BackingOff(j, n).job = j
                 /\ ~BackingOff(j, n).holds /\ BackingOff(j, n).event = None
    /\ \A j, e, h : /\ Emitting(j, e, h).pc = "emitting" /\ Emitting(j, e, h).job = j
                    /\ Emitting(j, e, h).holds = h /\ Emitting(j, e, h).event = e
BY DEF Idle, Dead, Calling, BackingOff, Emitting, Local

LEMMA WorkKeepsFrame ==
    ASSUME TypeInv, NEW w \in Workers, Work(w) \/ Timeout(w)
    PROVE  WorkFrame(w)
<1>1. UNCHANGED <<cancelled, provider, closedProviders, switch, closing>>
  BY DEF Work, Take, Timeout, CallEnds, Succeed, Fail, Cancelled, Answered, BackoffEnds,
         EmitEnds, Interrupted, workerFrame
<1>2. ASSUME NEW v \in Workers \ {w} PROVE worker'[v] = worker[v]
  BY <1>2 DEF TypeInv, TypeOK, Work, Take, Timeout, CallEnds, Succeed, Fail, Cancelled,
         BackoffEnds, EmitEnds, Interrupted, StartAttempt, GiveUp, Leave
<1>3. ASSUME NEW v \in Workers \ {w} PROVE call'[v] = call[v]
  BY <1>3 DEF TypeInv, TypeOK, Work, Take, Timeout, CallEnds, Succeed, Fail, Cancelled, Answered,
         BackoffEnds, EmitEnds, Interrupted, StartAttempt
<1>4. /\ \A v \in Workers \ {w} : interrupt'[v] = interrupt[v]
      /\ interrupt[w] = "no" => interrupt'[w] = "no"
  BY DEF TypeInv, TypeOK, Work, Take, Timeout, CallEnds, Succeed, Fail, Cancelled, Answered,
         BackoffEnds, EmitEnds, Interrupted
<1> QED
  BY <1>1, <1>2, <1>3, <1>4 DEF WorkFrame

LEMMA StartAttemptForm ==
    ASSUME TypeInv, NEW w \in Workers, NEW j \in Job, NEW n \in Nat, StartAttempt(w, j, n)
    PROVE  /\ worker'[w] = Calling(j, n) /\ call'[w] = "running"
           /\ activeCall' = [activeCall EXCEPT ![j.seg] = w]
           /\ rec' = IF rec[j.seg].sub = j.sub
                     THEN [rec EXCEPT ![j.seg].status = "translating"]
                     ELSE rec
BY DEF StartAttempt, TypeInv, TypeOK

LEMMA LeaveForm ==
    ASSUME TypeInv, NEW w \in Workers, NEW next \in {Idle, Dead}, Leave(w, next)
    PROVE  /\ worker'[w] \in {Idle, Dead}
           /\ active' = [active EXCEPT ![worker[w].job.seg] = None]
<1>1. worker'[w] = next
  BY DEF Leave, TypeInv, TypeOK
<1>2. active' = [active EXCEPT ![worker[w].job.seg] = None]
  BY DEF Leave
<1> QED
  BY <1>1, <1>2

LEMMA ErrorForm ==
    ASSUME TypeInv, NEW w \in Workers, worker[w].job # None,
           worker[w].pc \in {"calling", "backoff"},
           NEW code \in {"provider", "cancelled"}, NEW holds \in BOOLEAN,
           Reportable(worker[w].job, code),
           rec' = Failing({worker[w].job}, code),
           worker' = [worker EXCEPT ![w] = Emitting(worker[w].job, "error", holds)],
           call[w] = "none" \/ worker[w].pc = "calling", call'[w] = "none",
           holds => worker[w].pc = "calling",
           \/ UNCHANGED activeCall /\ (worker[w].pc = "calling" => holds)
           \/ activeCall' = [activeCall EXCEPT ![worker[w].job.seg] = None] /\ ~holds,
           UNCHANGED <<queue, waiting, active, mixed>>
    PROVE  Emits(w)
<1> DEFINE j == worker[w].job
<1>1. j \in Job /\ j.seg \in Segments
  BY HeldJob DEF TypeInv, Job
<1>2. worker'[w] = Emitting(j, "error", holds)
  BY DEF TypeInv, TypeOK
<1>3. /\ worker'[w].pc = "emitting" /\ worker'[w].job = j /\ worker'[w].holds = holds
      /\ worker'[w].event = "error"
  BY <1>2, LocalFields
<1>4. /\ rec[j.seg].sub = j.sub
      /\ rec'[j.seg].sub = rec[j.seg].sub /\ rec'[j.seg].result = rec[j.seg].result
      /\ rec'[j.seg].status \in {"failed", "cancelled"}
      /\ \A s \in Segments \ {j.seg} : rec'[s] = rec[s]
  BY <1>1 DEF Failing, Reportable
<1> QED
  BY <1>3, <1>4 DEF Emits

\* A worker has a call exactly while it awaits one; the entry of a caption in
\* _active_calls is that of a worker whose `finally' is still to run; and only
\* shutdown cancels a worker.
InService == closing.phase \in {"no", "joining"}

CallInv ==
    /\ \A w \in Workers :
        /\ call[w] # "none" <=> worker[w].pc = "calling"
        /\ worker[w].holds => worker[w].pc \in {"calling", "emitting"}
        /\ worker[w].pc = "calling" => worker[w].holds
        /\ worker[w].event # None => worker[w].pc = "emitting"
        /\ InService => interrupt[w] = "no"
    /\ \A s \in Segments :
        /\ active[s] # None => active[s].seg = s
        /\ \A w \in Workers : activeCall[s] = w => worker[w].holds /\ worker[w].job.seg = s

\* Every step of a worker that takes no job has one of the forms.
LEMMA WorkForms ==
    ASSUME IInv, CallInv, NEW w \in Workers, Work(w) \/ Timeout(w), ~Take(w)
    PROVE  WorkForm(w)
<1> DEFINE j == worker[w].job
<1>1. TypeInv /\ TypeOK /\ worker[w] \in WorkerState /\ Sound(w)
  BY HeldJob DEF IInv, TypeInv, WorkerInv
<1>2. /\ call[w] # "none" <=> worker[w].pc = "calling"
      /\ worker[w].pc = "calling" => worker[w].holds
      /\ worker[w].holds => worker[w].pc \in {"calling", "emitting"}
      /\ worker[w].event # None => worker[w].pc = "emitting"
  BY DEF CallInv
<1>3. CASE Timeout(w)
  <2>1. worker'[w] = [worker[w] EXCEPT !.timedOut = TRUE] /\ call'[w] = "cancelling"
    BY <1>1, <1>3 DEF Timeout, TypeOK
  <2>2. worker'[w].timedOut
    BY <1>1, <2>1 DEF WorkerState
  <2> QED
    BY <1>3, <2>1, <2>2 DEF Timeout, WaitsOn, WorkForm
<1>4. CASE CallEnds(w)
  <2>1. worker'[w] = [worker[w] EXCEPT !.timedOut = worker[w].timedOut]
    BY <1>1, <1>4 DEF CallEnds, WorkerState
  <2>2. worker[w].timedOut \in BOOLEAN /\ worker'[w].timedOut = worker[w].timedOut
    BY <1>1, <1>4 DEF CallEnds, WorkerState
  <2>3. \/ call[w] = "running" /\ call'[w] \in {"ok", "retryable", "fatal"}
        \/ call[w] = "cancelling" /\ worker[w].timedOut /\ call'[w] = "retryable"
        \/ call[w] = "cancelling" /\ ~worker[w].timedOut /\ call'[w] = "cancelled"
    BY <1>1, <1>4 DEF CallEnds, TypeOK
  <2>4. UNCHANGED <<rec, queue, waiting, active, activeCall, mixed>>
    BY <1>4 DEF CallEnds
  <2>5. \E late \in BOOLEAN : worker'[w] = [worker[w] EXCEPT !.timedOut = late]
    BY <2>1, <2>2
  <2> QED
    BY <2>2, <2>3, <2>4, <2>5 DEF WaitsOn, WorkForm
<1>5. ASSUME NEW outcome, Answered(w, outcome)
      PROVE  /\ worker[w].pc = "calling" /\ call'[w] = "none" /\ call[w] = outcome
             /\ UNCHANGED <<queue, waiting, mixed>> /\ j \in Job /\ j.seg \in Segments
             /\ j # None
  BY <1>1, <1>5 DEF Answered, TypeInv, TypeOK, HoldsJob, WorkerState, Job
<1>6. CASE Succeed(w)
  <2>1. CASE /\ rec[j.seg].sub = j.sub
             /\ rec' = [rec EXCEPT ![j.seg] = [sub |-> j.sub, status |-> "completed",
                                               result |-> j.sub, error |-> "none"]]
             /\ worker' = [worker EXCEPT ![w] = Emitting(j, "translation", TRUE)]
             /\ UNCHANGED <<active, activeCall>>
    <3>1. worker'[w] = Emitting(j, "translation", TRUE)
      BY <1>1, <2>1 DEF TypeOK
    <3>2. /\ worker'[w].pc = "emitting" /\ worker'[w].job = j /\ worker'[w].holds
          /\ worker'[w].event = "translation"
      BY <3>1 DEF Emitting, Local
    <3>3. Answered(w, "ok")
      BY <1>6 DEF Succeed
    <3>4. worker[w].pc = "calling" /\ call'[w] = "none" /\ UNCHANGED <<queue, waiting, mixed>>
      BY <1>5, <3>3
    <3>5. Emits(w)
      BY <2>1, <3>2, <3>4 DEF Emits
    <3> QED
      BY <3>5 DEF WorkForm
  <2>2. CASE /\ rec[j.seg].sub # j.sub \/ rec[j.seg].status \in {"completed", "cancelled"}
             /\ Leave(w, Idle) /\ activeCall' = Popped(activeCall, j.seg, TRUE)
             /\ UNCHANGED rec
    <3>1. Answered(w, "ok")
      BY <1>6 DEF Succeed
    <3>2. worker[w].pc = "calling" /\ call'[w] = "none" /\ UNCHANGED <<queue, waiting, mixed>>
      BY <1>5, <3>1
    <3>3. Leaves(w)
      BY <1>1, <2>2, <3>2, LeaveForm DEF Leaves, Popped
    <3> QED
      BY <3>3 DEF WorkForm
  <2> QED
    BY <1>6, <2>1, <2>2 DEF Succeed
<1>7. CASE Fail(w)
  <2>0. (Answered(w, "retryable") \/ Answered(w, "fatal"))
        /\ activeCall' = [activeCall EXCEPT ![j.seg] = None]
    BY <1>7 DEF Fail
  <2>1. CASE /\ worker' = [worker EXCEPT ![w] = BackingOff(j, worker[w].attempt)]
             /\ UNCHANGED <<rec, active>>
    <3>1. worker'[w] = BackingOff(j, worker[w].attempt)
      BY <1>1, <2>1 DEF TypeOK
    <3> QED
      BY <1>5, <2>0, <2>1, <3>1, LocalFields DEF BacksOff, WorkForm
  <2>2. CASE /\ Reportable(j, "provider")
             /\ rec' = Failing({j}, "provider")
             /\ worker' = [worker EXCEPT ![w] = Emitting(j, "error", FALSE)]
             /\ UNCHANGED active
    BY <1>1, <1>5, <2>0, <2>2, ErrorForm DEF WorkForm
  <2>3. CASE ~Reportable(j, "provider") /\ Leave(w, Idle) /\ UNCHANGED rec
    <3>1. ~(rec[j.seg].sub = j.sub /\ rec[j.seg].status = "translating")
      BY <2>3 DEF Reportable
    <3>3. worker[w].pc = "calling" /\ call'[w] = "none" /\ UNCHANGED <<queue, waiting, mixed>>
      BY <1>5, <2>0
    <3>4. Leaves(w)
      BY <1>1, <2>0, <2>3, <3>1, <3>3, LeaveForm DEF Leaves
    <3> QED
      BY <3>4 DEF WorkForm
  <2> QED
    BY <1>7, <2>1, <2>2, <2>3 DEF Fail
<1>8. ASSUME NEW holds \in BOOLEAN, GiveUp(w, "cancelled", holds),
             worker[w].pc \in {"calling", "backoff"}, call'[w] = "none",
             holds <=> worker[w].pc = "calling", UNCHANGED <<queue, waiting, mixed>>
      PROVE  WorkForm(w)
  <2>1. j # None /\ j \in Job
    BY <1>1, <1>8 DEF TypeInv, HoldsJob, WorkerState
  <2>2. CASE Reportable(j, "cancelled")
    <3>1. /\ rec' = Failing({j}, "cancelled") /\ UNCHANGED <<active, activeCall>>
          /\ worker' = [worker EXCEPT ![w] = Emitting(j, "error", holds)]
      BY <1>8, <2>2 DEF GiveUp
    <3> QED
      BY <1>1, <1>2, <1>8, <2>1, <2>2, <3>1, ErrorForm DEF WorkForm
  <2>3. CASE ~Reportable(j, "cancelled")
    <3>1. /\ Leave(w, Idle) /\ activeCall' = Popped(activeCall, j.seg, holds)
          /\ UNCHANGED rec
      BY <1>8, <2>3 DEF GiveUp
    <3>2. ~(rec[j.seg].sub = j.sub /\ rec[j.seg].status = "translating")
      BY <2>3 DEF Reportable
    <3>3. Leaves(w)
      BY <1>1, <1>2, <1>8, <3>1, <3>2, LeaveForm DEF Leaves, Popped
    <3> QED
      BY <3>3 DEF WorkForm
  <2> QED
    BY <2>2, <2>3
<1>9. CASE Cancelled(w)
  <2>1. Answered(w, "cancelled")
    BY <1>9 DEF Cancelled
  <2>2. CASE GiveUp(w, "cancelled", TRUE)
    BY <1>5, <1>8, <2>1, <2>2
  <2>3. CASE /\ interrupt[w] # "no" \/ j \notin cancelled
             /\ Leave(w, Dead) /\ activeCall' = Popped(activeCall, j.seg, TRUE)
             /\ UNCHANGED rec
    <3>1. worker[w].pc = "calling" /\ call'[w] = "none" /\ call[w] = "cancelled"
          /\ UNCHANGED <<queue, waiting, mixed>>
      BY <1>5, <2>1
    <3>2. Leaves(w)
      BY <1>1, <2>3, <3>1, LeaveForm DEF Leaves, Popped
    <3> QED
      BY <3>2 DEF WorkForm
  <2> QED
    BY <1>9, <2>2, <2>3 DEF Cancelled
<1>10. CASE BackoffEnds(w)
  <2>1. /\ worker[w].pc = "backoff" /\ call[w] = "none" /\ UNCHANGED <<queue, waiting, mixed>>
        /\ j \in Job
    BY <1>1, <1>2, <1>10 DEF BackoffEnds, TypeInv, HoldsJob, WorkerState
  <2>2. CASE GiveUp(w, "cancelled", FALSE) /\ UNCHANGED call
    BY <1>8, <2>1, <2>2
  <2>3. CASE /\ j \notin cancelled /\ StartAttempt(w, j, worker[w].attempt + 1)
             /\ UNCHANGED active
    <3>1. worker[w].attempt + 1 \in Nat
      BY <1>1 DEF WorkerState
    <3> QED
      BY <1>1, <2>1, <2>3, <3>1, StartAttemptForm, LocalFields DEF Restarts, WorkForm
  <2> QED
    BY <1>10, <2>2, <2>3 DEF BackoffEnds
<1>11. CASE EmitEnds(w)
  <2>1. /\ worker[w].pc = "emitting" /\ Leave(w, Idle)
        /\ activeCall' = Popped(activeCall, j.seg, worker[w].holds)
        /\ UNCHANGED <<rec, queue, waiting, call, mixed>> /\ worker[w].holds \in BOOLEAN
    BY <1>1, <1>11 DEF EmitEnds, WorkerState
  <2> QED
    <3>1. Leaves(w)
      BY <1>1, <1>2, <2>1, LeaveForm DEF Leaves, Popped
    <3> QED
      BY <3>1 DEF WorkForm
<1>12. CASE Interrupted(w)
  <2>0. UNCHANGED <<rec, queue, waiting, mixed>> /\ interrupt[w] # "no" /\ worker[w].holds \in BOOLEAN
    BY <1>1, <1>12 DEF Interrupted, WorkerState
  <2>1. CASE /\ worker[w].pc = "calling" /\ call[w] \in {"ok", "retryable", "fatal"}
             /\ UNCHANGED <<worker, call, active, activeCall>>
    <3>1. worker'[w] = [worker[w] EXCEPT !.timedOut = worker[w].timedOut]
          /\ worker[w].timedOut \in BOOLEAN
      BY <1>1, <2>1 DEF WorkerState
    <3> QED
      BY <2>0, <2>1, <3>1 DEF WaitsOn, WorkForm
  <2>2. CASE /\ worker[w].pc = "calling" /\ Leave(w, Dead)
             /\ call' = [call EXCEPT ![w] = "none"]
             /\ activeCall' = Popped(activeCall, j.seg, TRUE)
    <3>1. call'[w] = "none"
      BY <1>1, <2>2 DEF TypeOK
    <3>2. Leaves(w)
      BY <1>1, <2>0, <2>2, <3>1, LeaveForm DEF Leaves, Popped
    <3> QED
      BY <3>2 DEF WorkForm
  <2>3. CASE /\ worker[w].pc \in {"backoff", "emitting"}
             /\ Leave(w, Dead)
             /\ activeCall' = Popped(activeCall, j.seg, worker[w].holds)
             /\ UNCHANGED call
    <3>1. Leaves(w)
      BY <1>1, <1>2, <2>0, <2>3, LeaveForm DEF Leaves, Popped
    <3> QED
      BY <3>1 DEF WorkForm
  <2>4. CASE /\ worker[w].pc = "idle" /\ worker' = [worker EXCEPT ![w] = Dead]
             /\ UNCHANGED <<call, active, activeCall>>
    <3>1. worker'[w] = Dead
      BY <1>1, <2>4 DEF TypeOK
    <3> QED
      BY <2>0, <2>4, <3>1 DEF Dies, WorkForm
  <2> QED
    BY <1>12, <2>1, <2>2, <2>3, <2>4 DEF Interrupted
<1> QED
  BY <1>3, <1>4, <1>6, <1>7, <1>9, <1>10, <1>11, <1>12 DEF Work

-----------------------------------------------------------------------------
(* The calls *)

\* A submission replaces tasks only when all of them are done.
LEMMA SubmitFrame ==
    ASSUME NEW s \in Segments, Submit(s)
    PROVE  /\ worker' = Revived /\ UNCHANGED submitFrame
           /\ InService /\ InService'
BY DEF Submit, Refuse, Skip, Disable, Overflow, Enqueue, Admissible, Accepting, submitFrame,
       InService

LEMMA RevivedFields ==
    ASSUME TypeInv, CallInv, worker' = Revived
    PROVE  \A w \in Workers :
              \/ worker'[w] = worker[w]
              \/ /\ worker'[w] = Idle /\ worker[w].pc = "dead" /\ worker[w].job = None
                 /\ ~worker[w].holds /\ call[w] = "none" /\ worker[w].event = None
<1>1. CASE \A w \in Workers : worker[w].pc = "dead"
  <2>1. \A w \in Workers : worker'[w] = Idle
    BY <1>1 DEF Revived
  <2>2. \A w \in Workers : /\ worker[w].job = None /\ ~worker[w].holds
                           /\ call[w] = "none" /\ worker[w].event = None
    BY <1>1 DEF TypeInv, HoldsJob, CallInv
  <2> QED
    BY <1>1, <2>1, <2>2
<1>2. CASE ~(\A w \in Workers : worker[w].pc = "dead")
  BY <1>2 DEF Revived
<1> QED
  BY <1>1, <1>2

LEMMA WorkFormCall ==
    ASSUME IInv, CallInv, NEW w \in Workers, WorkForm(w), WorkFrame(w)
    PROVE  CallInv'
<1> DEFINE j == worker[w].job
<1>1. TypeInv /\ TypeOK /\ worker[w] \in WorkerState
  BY HeldJob DEF IInv, TypeInv
<1>2. InService' <=> InService
  BY DEF WorkFrame, InService
<1>3. worker[w].pc \in {"calling", "backoff", "emitting"} => j \in Job /\ j.seg \in Segments /\ j # None
  BY <1>1 DEF TypeInv, HoldsJob, WorkerState, Job
<1>4. ASSUME NEW s \in Segments PROVE active'[s] # None => active'[s].seg = s
  <2>1. active'[s] = active[s] \/ active'[s] = None
    BY <1>1, <1>3 DEF WorkForm, WaitsOn, Restarts, BacksOff, Emits, Leaves, Dies, TypeOK
  <2> QED
    BY <2>1 DEF CallInv
<1>5. ASSUME NEW v \in Workers \ {w}
      PROVE  /\ call'[v] # "none" <=> worker'[v].pc = "calling"
             /\ worker'[v].holds => worker'[v].pc \in {"calling", "emitting"}
             /\ worker'[v].pc = "calling" => worker'[v].holds
             /\ worker'[v].event # None => worker'[v].pc = "emitting"
             /\ InService' => interrupt'[v] = "no"
  BY <1>2 DEF WorkFrame, CallInv
<1>6. ASSUME NEW v \in Workers \ {w}, NEW s \in Segments, activeCall'[s] = v
      PROVE  worker'[v].holds /\ worker'[v].job.seg = s
  <2>1. activeCall[s] = v
    BY <1>1, <1>3, <1>6, TranslationAssumption
    DEF WorkForm, WaitsOn, Restarts, BacksOff, Emits, Leaves, Dies, TypeOK
  <2> QED
    BY <2>1 DEF WorkFrame, CallInv
<1>7. InService' => interrupt'[w] = "no"
  BY <1>2 DEF WorkFrame, CallInv
<1>8. /\ call'[w] # "none" <=> worker'[w].pc = "calling"
      /\ worker'[w].holds => worker'[w].pc \in {"calling", "emitting"}
      /\ worker'[w].pc = "calling" => worker'[w].holds
      /\ worker'[w].event # None => worker'[w].pc = "emitting"
      /\ \A s \in Segments : activeCall'[s] = w => worker'[w].holds /\ worker'[w].job.seg = s
  <2>0. /\ call[w] # "none" <=> worker[w].pc = "calling"
        /\ worker[w].holds => worker[w].pc \in {"calling", "emitting"}
        /\ worker[w].pc = "calling" => worker[w].holds
        /\ worker[w].event # None => worker[w].pc = "emitting"
        /\ \A s \in Segments : activeCall[s] = w => worker[w].holds /\ worker[w].job.seg = s
    BY DEF CallInv
  <2>1. CASE WaitsOn(w)
    <3>1. PICK late \in BOOLEAN : worker'[w] = [worker[w] EXCEPT !.timedOut = late]
      BY <2>1 DEF WaitsOn
    <3>2. /\ worker'[w].pc = worker[w].pc /\ worker'[w].holds = worker[w].holds
          /\ worker'[w].event = worker[w].event /\ worker'[w].job = worker[w].job
      BY <1>1, <3>1 DEF WorkerState
    <3> QED
      BY <2>0, <2>1, <3>2 DEF WaitsOn
  <2>2. CASE Restarts(w)
    BY <1>1, <1>3, <2>0, <2>2 DEF Restarts, TypeOK
  <2>3. CASE BacksOff(w)
    BY <1>1, <1>3, <2>0, <2>3, TranslationAssumption DEF BacksOff, TypeOK
  <2>4. CASE Emits(w)
    BY <1>1, <1>3, <2>0, <2>4, TranslationAssumption DEF Emits, TypeOK
  <2>5. CASE Leaves(w)
    <3>1. worker'[w].pc \in {"idle", "dead"} /\ ~worker'[w].holds /\ worker'[w].event = None
      BY <2>5, LocalFields DEF Leaves
    <3>2. call'[w] = "none"
      BY <2>0, <2>5 DEF Leaves
    <3>3. \A s \in Segments : activeCall'[s] # w
      BY <1>1, <1>3, <2>0, <2>5, TranslationAssumption DEF Leaves, TypeOK
    <3> QED
      BY <3>1, <3>2, <3>3
  <2>6. CASE Dies(w)
    BY <2>0, <2>6, LocalFields DEF Dies
  <2> QED
    BY <2>1, <2>2, <2>3, <2>4, <2>5, <2>6 DEF WorkForm
<1> QED
  BY <1>4, <1>5, <1>6, <1>7, <1>8 DEF CallInv

LEMMA HeadIsQueued ==
    ASSUME TypeOK, queue # << >>
    PROVE  Head(queue) \in Job /\ Head(queue) \in Queued /\ Head(queue).seg \in Segments
<1>1. queue \in Seq(Job) /\ Len(queue) \in Nat /\ Len(queue) > 0 /\ Head(queue) = queue[1]
  BY HeadTailProperties, LenProperties DEF TypeOK
<1>2. Head(queue) \in Job
  BY <1>1, ElementOfSeq
<1> QED
  BY <1>1, <1>2 DEF Queued, Job

\* What a worker's step that takes a job does.
LEMMA TakeForm ==
    ASSUME TypeInv, CallInv, NEW w \in Workers, Take(w)
    PROVE  LET j == Head(queue) IN
           /\ j \in Job /\ j \in Queued /\ j.seg \in Segments
           /\ worker[w].pc = "idle" /\ worker[w].job = None /\ worker'[w] = Calling(j, 1)
           /\ call'[w] = "running" /\ waiting' = waiting \ {j.seg}
           /\ active' = [active EXCEPT ![j.seg] = j]
           /\ activeCall' = [activeCall EXCEPT ![j.seg] = w]
           /\ rec' = IF rec[j.seg].sub = j.sub
                     THEN [rec EXCEPT ![j.seg].status = "translating"]
                     ELSE rec
           /\ mixed' = mixed \cup ({j.seg} \cap InHands)
<1> DEFINE j == Head(queue)
<1>1. j \in Job /\ j \in Queued /\ j.seg \in Segments
  BY HeadIsQueued DEF Take, TypeInv
<1>2. worker[w].pc = "idle" /\ worker[w].job = None
  BY DEF Take, TypeInv, HoldsJob
<1>3. StartAttempt(w, j, 1) /\ waiting' = waiting \ {j.seg}
      /\ mixed' = mixed \cup ({j.seg} \cap InHands)
      /\ active' = [active EXCEPT ![j.seg] = j]
  BY DEF Take
<1> HIDE DEF j
<1>4. /\ worker'[w] = Calling(j, 1) /\ call'[w] = "running"
      /\ activeCall' = [activeCall EXCEPT ![j.seg] = w]
      /\ rec' = IF rec[j.seg].sub = j.sub
                THEN [rec EXCEPT ![j.seg].status = "translating"]
                ELSE rec
  BY <1>1, <1>3, StartAttemptForm
<1> USE DEF j
<1> QED
  BY <1>1, <1>2, <1>3, <1>4

LEMMA TakeCall ==
    ASSUME IInv, CallInv, NEW w \in Workers, Take(w), WorkFrame(w)
    PROVE  CallInv'
<1> DEFINE j == Head(queue)
<1>1. TypeInv /\ TypeOK
  BY DEF IInv, TypeInv
<1>2. /\ j \in Job /\ j.seg \in Segments
      /\ worker[w].pc = "idle" /\ worker[w].job = None /\ worker'[w] = Calling(j, 1)
      /\ call'[w] = "running"
      /\ active' = [active EXCEPT ![j.seg] = j]
      /\ activeCall' = [activeCall EXCEPT ![j.seg] = w]
  BY <1>1, TakeForm
<1> HIDE DEF j
<1>3. InService' <=> InService
  BY DEF WorkFrame, InService
<1>4. /\ worker'[w].pc = "calling" /\ worker'[w].job = j /\ worker'[w].holds
      /\ worker'[w].event = None
  BY <1>2, LocalFields
<1>5. ASSUME NEW v \in Workers
      PROVE  /\ call'[v] # "none" <=> worker'[v].pc = "calling"
             /\ worker'[v].holds => worker'[v].pc \in {"calling", "emitting"}
             /\ worker'[v].pc = "calling" => worker'[v].holds
             /\ worker'[v].event # None => worker'[v].pc = "emitting"
             /\ InService' => interrupt'[v] = "no"
  BY <1>2, <1>3, <1>4 DEF WorkFrame, CallInv
<1>6. ASSUME NEW s \in Segments PROVE active'[s] # None => active'[s].seg = s
  BY <1>1, <1>2 DEF CallInv, TypeOK
<1>7. ASSUME NEW v \in Workers, NEW s \in Segments, activeCall'[s] = v
      PROVE  worker'[v].holds /\ worker'[v].job.seg = s
  <2>1. activeCall[s] = v \/ (s = j.seg /\ v = w)
    BY <1>1, <1>2, <1>7 DEF TypeOK
  <2>2. CASE activeCall[s] = v /\ v # w
    BY <2>2 DEF CallInv, WorkFrame
  <2>3. activeCall[s] # w
    BY <1>2 DEF CallInv
  <2> QED
    BY <1>4, <2>1, <2>2, <2>3
<1> QED
  BY <1>5, <1>6, <1>7 DEF CallInv

\* A step outside the workers that only cancels calls.
LEMMA CancellingCall ==
    ASSUME TypeOK, CallInv, NEW W, call' = Cancelling(W) \/ UNCHANGED call,
           UNCHANGED <<worker, active, activeCall>>,
           InService' => InService /\ UNCHANGED interrupt
    PROVE  CallInv'
<1>1. \A w \in Workers : call'[w] = call[w] \/ (call[w] = "running" /\ call'[w] = "cancelling")
  BY DEF Cancelling
<1>2. ASSUME NEW w \in Workers
      PROVE  /\ call'[w] # "none" <=> worker'[w].pc = "calling"
             /\ worker'[w].holds => worker'[w].pc \in {"calling", "emitting"}
             /\ worker'[w].pc = "calling" => worker'[w].holds
             /\ worker'[w].event # None => worker'[w].pc = "emitting"
             /\ InService' => interrupt'[w] = "no"
  BY <1>1 DEF CallInv
<1>3. \A s \in Segments :
        /\ active'[s] # None => active'[s].seg = s
        /\ \A w \in Workers : activeCall'[s] = w => worker'[w].holds /\ worker'[w].job.seg = s
  BY DEF CallInv
<1> QED
  BY <1>2, <1>3 DEF CallInv

LEMMA NextCall ==
    ASSUME IInv, CallInv, [Next]_vars
    PROVE  CallInv'
<1>0. TypeInv /\ TypeOK
  BY DEF IInv, TypeInv
<1>1. ASSUME NEW s \in Segments, Submit(s) PROVE CallInv'
  <2>1. UNCHANGED submitFrame /\ worker' = Revived /\ InService /\ InService'
    BY <1>1, SubmitFrame
  <2>2. UNCHANGED <<call, interrupt, active, activeCall>>
    BY <2>1 DEF submitFrame
  <2>3. \A w \in Workers :
              \/ worker'[w] = worker[w]
              \/ /\ worker'[w] = Idle /\ worker[w].pc = "dead" /\ worker[w].job = None
                 /\ ~worker[w].holds /\ call[w] = "none" /\ worker[w].event = None
    BY <1>0, <2>1, RevivedFields
  <2> QED
    BY <2>1, <2>2, <2>3, LocalFields DEF CallInv
<1>2. ASSUME NEW s \in Segments, Cancel(s) PROVE CallInv'
  <2>1. \E W : call' = Cancelling(W)
    BY <1>2 DEF Cancel
  <2> QED
    BY <1>0, <1>2, <2>1, CancellingCall DEF Cancel, workerFrame, InService
<1>3. ASSUME NEW w \in Workers, Work(w) \/ Timeout(w) PROVE CallInv'
  <2>1. WorkFrame(w)
    BY <1>0, <1>3, WorkKeepsFrame
  <2> QED
    BY <1>3, <2>1, TakeCall, WorkForms, WorkFormCall
<1>4. ASSUME NEW p \in Providers, Switch(p) PROVE CallInv'
  <2>1. \E W : call' = Cancelling(W) \/ UNCHANGED call
    BY <1>4 DEF Switch, SwitchBegins, SwitchCancels, SwitchDrops, SwitchCloses, CancelJobs
  <2>2. UNCHANGED <<worker, active, activeCall, interrupt, closing>>
    BY <1>4 DEF Switch, SwitchBegins, SwitchCancels, SwitchDrops, SwitchCloses
  <2> QED
    BY <1>0, <2>1, <2>2, CancellingCall DEF InService
<1>5. ASSUME Shutdown PROVE CallInv'
  <2>1. \E W : call' = Cancelling(W) \/ UNCHANGED call
    BY <1>5 DEF Shutdown, ShutdownBegins, ShutdownCancels, ShutdownReports, ShutdownEnds
  <2>2. UNCHANGED <<worker, active, activeCall>>
    BY <1>5 DEF Shutdown, ShutdownBegins, ShutdownCancels, ShutdownReports, ShutdownEnds
  <2>3. InService' => InService /\ UNCHANGED interrupt
    <3>1. closing \in [phase : {"no", "joining", "gathering", "closed"}, jobs : SUBSET Job]
      BY <1>0 DEF TypeOK
    <3>2. CASE ShutdownBegins
      BY <3>2 DEF ShutdownBegins, InService
    <3>3. CASE ShutdownCancels
      BY <3>3 DEF ShutdownCancels, InService
    <3>4. CASE ShutdownReports
      BY <3>1, <3>4 DEF ShutdownReports, WorkersGone, InService
    <3>5. CASE ShutdownEnds
      BY <3>1, <3>5 DEF ShutdownEnds, WorkersGone, InService
    <3> QED
      BY <1>5, <3>2, <3>3, <3>4, <3>5 DEF Shutdown
  <2> QED
    BY <1>0, <2>1, <2>2, <2>3, CancellingCall
<1>6. ASSUME UNCHANGED vars PROVE CallInv'
  BY <1>6 DEF vars, CallInv, InService
<1> QED
  BY <1>1, <1>2, <1>3, <1>4, <1>5, <1>6 DEF Next

-----------------------------------------------------------------------------
(* The queue and the jobs taken from it *)

NewJob(s) == [seg |-> s, sub |-> rec[s].sub + 1, provider |-> provider]

LEMMA EnqueueQueued ==
    ASSUME TypeOK, NEW s \in Segments, Enqueue(s)
    PROVE  Queued' = Queued \cup {NewJob(s)}
<1>1. NewJob(s) \in Job /\ queue' = Append(queue, NewJob(s))
  BY DEF TypeOK, Record, Job, Enqueue, NewJob
<1>2. /\ Len(queue) \in Nat /\ Len(queue') = Len(queue) + 1
      /\ \A i \in 1..Len(queue) : queue'[i] = queue[i]
      /\ queue'[Len(queue) + 1] = NewJob(s)
  BY <1>1, AppendProperties, LenProperties DEF TypeOK
<1>3. \A i \in 1..Len(queue') : i \in 1..Len(queue) \/ i = Len(queue) + 1
  BY <1>2
<1> QED
  BY <1>2, <1>3 DEF Queued

LEMMA SubmitQueued ==
    ASSUME TypeOK, NEW s \in Segments, Submit(s)
    PROVE  \/ Enqueue(s)
           \/ Queued' = Queued /\ waiting' = waiting /\ ~Enqueue(s)
BY DEF Submit, Refuse, Skip, Disable, Overflow, Queued

LEMMA TakeQueued ==
    ASSUME IInv, NEW w \in Workers, Take(w)
    PROVE  Queued' = Queued \ {Head(queue)}
<1> DEFINE j == Head(queue)
<1>1. /\ j = queue[1] /\ Len(queue) \in Nat /\ Len(queue) > 0 /\ queue' = Tail(queue)
      /\ \A i \in 1..Len(queue) - 1 : queue'[i] = queue[i + 1]
      /\ Len(queue') = Len(queue) - 1
  BY HeadTailProperties, LenProperties DEF Take, IInv, TypeInv, TypeOK
<1>2. \A i \in 2..Len(queue) : queue[i] # queue[1]
  BY <1>1 DEF IInv, QueueInv
<1>3. ASSUME NEW k \in Queued' PROVE k \in Queued \ {j}
  <2>1. PICK i \in 1..Len(queue) - 1 : k = queue[i + 1]
    BY <1>1, <1>3 DEF Queued
  <2>2. i + 1 \in 2..Len(queue)
    BY <1>1
  <2> QED
    BY <1>1, <1>2, <2>1, <2>2 DEF Queued
<1>4. ASSUME NEW k \in Queued \ {j} PROVE k \in Queued'
  <2>1. PICK i \in 2..Len(queue) : k = queue[i]
    BY <1>1 DEF Queued
  <2>2. i - 1 \in 1..Len(queue) - 1 /\ (i - 1) + 1 = i
    BY <1>1
  <2>3. queue'[i - 1] = k
    BY <1>1, <2>1, <2>2
  <2> QED
    BY <1>1, <2>2, <2>3 DEF Queued
<1> QED
  BY <1>3, <1>4

-----------------------------------------------------------------------------
(* The providers: each is installed once, and replaced by one switch *)

Switches == {p \in Providers : switch[p].pc = "switching"}
Past == closedProviders \cup {switch[p].old : p \in Switches}
Installed(p) == p = FirstProvider \/ switch[p].pc # "ready"

RotationInv ==
    /\ Installed(provider) /\ \A p \in Past : Installed(p)
    /\ closing.phase # "closed" => provider \notin Past
    /\ \A p \in Switches :
        /\ switch[p].old \notin closedProviders
        /\ \A q \in Switches : switch[q].old = switch[p].old => p = q
    /\ closing.phase # "no" => Switches = {}
    /\ \A p \in Providers \ Switches : switch[p].removed = {} /\ switch[p].jobs = {}
    /\ \A j \in Queued : j.provider = provider

LEMMA SameRotation ==
    ASSUME RotationInv, UNCHANGED <<provider, closedProviders, switch>>,
           \A j \in Queued' : j.provider = provider,
           closing'.phase # "no" => Switches = {},
           closing'.phase # "closed" => closing.phase # "closed"
    PROVE  RotationInv'
BY DEF RotationInv, Switches, Past, Installed

LEMMA CancelJobsForm ==
    ASSUME TypeOK, NEW p \in Providers, NEW old, NEW jobs, NEW calls, NEW removed,
           CancelJobs(p, Switching(old, jobs, calls, removed))
    PROVE  \E done \in SUBSET jobs :
              /\ \/ \E j \in done : {k \in done : Reportable(k, "cancelled")} = {j}
                 \/ done = jobs
              /\ cancelled' = cancelled \cup done
              /\ call' = Cancelling(CallsOf(done))
              /\ rec' = Failing(done, "cancelled")
              /\ mixed' = mixed \cup {j.seg : j \in Mistaken(done)}
              /\ switch'[p].pc = "switching" /\ switch'[p].old = old
              /\ switch'[p].jobs = jobs \ done /\ switch'[p].removed = removed
              /\ switch'[p].calls = calls \cup CallsOf(done)
              /\ \A q \in Providers \ {p} : switch'[q] = switch[q]
<1>1. PICK done \in SUBSET jobs :
        /\ \/ \E j \in done : {k \in done : Reportable(k, "cancelled")} = {j}
           \/ done = jobs
        /\ cancelled' = cancelled \cup done
        /\ call' = Cancelling(CallsOf(done))
        /\ rec' = Failing(done, "cancelled")
        /\ mixed' = mixed \cup {j.seg : j \in Mistaken(done)}
        /\ switch' = [switch EXCEPT ![p] =
                Switching(old, jobs \ done, calls \cup CallsOf(done), removed)]
  BY DEF CancelJobs, Switching, SwitchState
<1>2. /\ switch'[p] = Switching(old, jobs \ done, calls \cup CallsOf(done), removed)
      /\ \A q \in Providers \ {p} : switch'[q] = switch[q]
  BY <1>1 DEF TypeOK
<1>3. /\ switch'[p].pc = "switching" /\ switch'[p].old = old
      /\ switch'[p].jobs = jobs \ done /\ switch'[p].removed = removed
      /\ switch'[p].calls = calls \cup CallsOf(done)
  BY <1>2 DEF Switching, SwitchState
<1> QED
  BY <1>1, <1>2, <1>3

LEMMA SwitchingFields ==
    \A old, jobs, calls, removed :
        LET s == Switching(old, jobs, calls, removed) IN
        /\ s.pc = "switching" /\ s.old = old /\ s.jobs = jobs
        /\ s.calls = calls /\ s.removed = removed
BY DEF Switching, SwitchState

\* What a switch call takes from the queue and from the workers.
Taken == {j \in Queued : j.provider = provider}
Running == {j \in {active[s] : s \in Segments} \ {None} : j.provider = provider}

\* The steps of a switch: it begins, goes on with the jobs it found active,
\* reports a job it found waiting, or closes the old provider.
LEMMA SwitchForms ==
    ASSUME TypeInv, NEW p \in Providers, Switch(p)
    PROVE  /\ UNCHANGED <<worker, interrupt, active, activeCall, closing>>
           /\ \A q \in Providers \ {p} : switch'[q] = switch[q]
           /\ \/ /\ switch[p].pc = "ready" /\ p # FirstProvider /\ closing.phase = "no"
                 /\ provider' = p /\ UNCHANGED <<waiting, closedProviders>>
                 /\ Queued' = Queued \ Taken
                 /\ CancelJobs(p, Switching(provider, Running, {}, Taken))
              \/ /\ switch[p].pc = "switching" /\ switch[p].jobs # {}
                 /\ UNCHANGED <<waiting, queue, provider, closedProviders>>
                 /\ CancelJobs(p, Switching(switch[p].old, switch[p].jobs, switch[p].calls,
                                            switch[p].removed))
              \/ /\ CallsGathered(p) /\ UNCHANGED <<queue, call, provider, closedProviders>>
                 /\ \E j \in switch[p].removed :
                      /\ waiting' = waiting \ {j.seg}
                      /\ cancelled' = cancelled \cup {j}
                      /\ rec' = Failing({j}, "cancelled")
                      /\ switch'[p] = Switching(switch[p].old, {}, {}, switch[p].removed \ {j})
              \/ /\ CallsGathered(p) /\ switch[p].removed = {}
                 /\ UNCHANGED <<rec, waiting, queue, call, cancelled, provider>>
                 /\ closedProviders' = closedProviders \cup {switch[p].old}
                 /\ switch'[p] = Done
<1>1. TypeOK
  BY DEF TypeInv
<1>2. CASE SwitchBegins(p)
  <2>1. CancelJobs(p, Switching(provider, Running, {}, Taken))
    BY <1>2 DEF SwitchBegins, Running, Taken
  <2>2. Queued' = Queued \ Taken
    BY <1>1, <1>2, RemoveKeepsOthers DEF SwitchBegins, Taken, TypeOK
  <2>3. \A q \in Providers \ {p} : switch'[q] = switch[q]
    BY <1>1, <2>1, CancelJobsForm
  <2> QED
    BY <1>2, <2>1, <2>2, <2>3 DEF SwitchBegins
<1>3. CASE SwitchCancels(p)
  <2>1. CancelJobs(p, Switching(switch[p].old, switch[p].jobs, switch[p].calls, switch[p].removed))
    BY <1>1, <1>3, SwitchFields DEF SwitchCancels
  <2>2. \A q \in Providers \ {p} : switch'[q] = switch[q]
    BY <1>1, <2>1, CancelJobsForm
  <2> QED
    BY <1>3, <2>1, <2>2 DEF SwitchCancels
<1>4. CASE SwitchDrops(p)
  BY <1>1, <1>4 DEF SwitchDrops, TypeOK
<1>5. CASE SwitchCloses(p)
  BY <1>1, <1>5 DEF SwitchCloses, TypeOK
<1> QED
  BY <1>2, <1>3, <1>4, <1>5 DEF Switch

LEMMA SwitchRotation ==
    ASSUME IInv, RotationInv, NEW p \in Providers, Switch(p)
    PROVE  RotationInv'
<1>0. TypeInv /\ TypeOK
  BY DEF IInv, TypeInv
<1>1. UNCHANGED closing /\ \A q \in Providers \ {p} : switch'[q] = switch[q]
  BY <1>0, SwitchForms
<1>2. provider \in Providers /\ closedProviders \subseteq Providers
      /\ \A q \in Providers : switch[q].old \in Providers \cup {None}
  BY <1>0, SwitchFields DEF TypeOK
<1>9. \A q \in Past : q \in Providers
  BY <1>0, <1>2 DEF Past, Switches, TypeInv, KnowsOld
<1>3. CASE /\ switch[p].pc = "ready" /\ p # FirstProvider /\ closing.phase = "no"
           /\ provider' = p /\ UNCHANGED <<waiting, closedProviders>>
           /\ Queued' = Queued \ Taken
           /\ CancelJobs(p, Switching(provider, Running, {}, Taken))
  <2>1. switch'[p].pc = "switching" /\ switch'[p].old = provider
    <3>1. CancelJobs(p, Switching(provider, Running, {}, Taken))
      BY <1>3
    <3> QED
      BY <1>0, <3>1, CancelJobsForm
  <2>2. Switches' = Switches \cup {p} /\ p \notin Switches
    BY <1>1, <1>3, <2>1 DEF Switches
  <2>3. Past' = Past \cup {provider}
    BY <1>1, <1>3, <2>1, <2>2 DEF Past, Switches
  <2>4. ~Installed(p)
    BY <1>3 DEF Installed
  <2>5. p \notin Past' /\ provider # p
    BY <2>3, <2>4 DEF RotationInv
  <2>6. /\ \A q \in Providers : Installed(q) => Installed(q)'
        /\ Installed(p)'
    BY <1>1, <2>1 DEF Installed
  <2>7. Queued' = {}
    BY <1>3 DEF RotationInv, Taken
  <2>8. /\ Installed(provider)' /\ \A q \in Past' : Installed(q)'
    BY <1>2, <1>9, <1>3, <2>3, <2>6 DEF RotationInv
  <2>9. \A q \in Switches' :
            /\ switch'[q].old \notin closedProviders'
            /\ \A r \in Switches' : switch'[r].old = switch'[q].old => q = r
    <3>1. provider \notin Past
      BY <1>3 DEF RotationInv
    <3>2. provider \notin closedProviders /\ \A q \in Switches : switch[q].old # provider
      BY <3>1 DEF Past
    <3>3. \A q \in Switches : switch'[q] = switch[q] /\ q # p
      BY <1>1, <2>2 DEF Switches
    <3> QED
      BY <1>3, <2>1, <2>2, <3>2, <3>3 DEF RotationInv
  <2>10. \A q \in Providers \ Switches' : switch'[q].removed = {} /\ switch'[q].jobs = {}
    BY <1>1, <2>2 DEF RotationInv
  <2>11. closing'.phase = "no"
    BY <1>1, <1>3
  <2> QED
    BY <1>3, <2>5, <2>7, <2>8, <2>9, <2>10, <2>11 DEF RotationInv
<1>4. ASSUME UNCHANGED <<queue, provider, closedProviders>>,
             switch[p].pc = "switching", switch'[p].pc = "switching",
             switch'[p].old = switch[p].old
      PROVE  RotationInv'
  <2>1. Switches' = Switches /\ \A q \in Providers : switch'[q].old = switch[q].old
    BY <1>1, <1>4 DEF Switches
  <2>2. Past' = Past
    BY <1>4, <2>1 DEF Past, Switches
  <2>3. \A q \in Providers : Installed(q)' <=> Installed(q)
    BY <1>1, <1>4 DEF Installed
  <2>4. Queued' = Queued
    BY <1>4 DEF Queued
  <2>5. \A q \in Providers \ Switches' : switch'[q] = switch[q]
    BY <1>1, <1>4, <2>1 DEF Switches
  <2>6. Past \subseteq Providers \cup {None} /\ \A q \in Past : q \in Providers \/ q = None
    BY <1>2 DEF Past, Switches
  <2>7. \A q \in Past : q \in Providers
    BY <1>0, <1>2 DEF Past, Switches, TypeInv, KnowsOld
  <2>8. Installed(provider)' /\ \A q \in Past' : Installed(q)'
    BY <1>2, <1>4, <2>2, <2>3, <2>7 DEF RotationInv
  <2>9. \A q \in Switches' : q \in Providers
    BY DEF Switches
  <2> QED
    BY <1>1, <1>4, <2>1, <2>2, <2>4, <2>5, <2>8, <2>9 DEF RotationInv
<1>5. CASE /\ switch[p].pc = "switching" /\ switch[p].jobs # {}
           /\ UNCHANGED <<waiting, queue, provider, closedProviders>>
           /\ CancelJobs(p, Switching(switch[p].old, switch[p].jobs, switch[p].calls,
                                      switch[p].removed))
  <2>1. switch'[p].pc = "switching" /\ switch'[p].old = switch[p].old
    <3>1. CancelJobs(p, Switching(switch[p].old, switch[p].jobs, switch[p].calls,
                                  switch[p].removed))
      BY <1>5
    <3> QED
      BY <1>0, <3>1, CancelJobsForm
  <2> QED
    BY <1>4, <1>5, <2>1
<1>6. CASE /\ CallsGathered(p) /\ UNCHANGED <<queue, call, provider, closedProviders>>
           /\ \E j \in switch[p].removed :
                switch'[p] = Switching(switch[p].old, {}, {}, switch[p].removed \ {j})
  <2>1. switch'[p].pc = "switching" /\ switch'[p].old = switch[p].old
    BY <1>6, SwitchingFields
  <2> QED
    BY <1>4, <1>6, <2>1 DEF CallsGathered
<1>7. CASE /\ CallsGathered(p)
           /\ UNCHANGED <<queue, provider>>
           /\ closedProviders' = closedProviders \cup {switch[p].old}
           /\ switch'[p] = Done
  <2>1. /\ switch[p].pc = "switching" /\ switch'[p].pc = "done"
        /\ switch'[p].removed = {} /\ switch'[p].jobs = {}
    BY <1>7 DEF CallsGathered, Done, SwitchState
  <2>2. Switches' = Switches \ {p} /\ p \in Switches
    BY <1>1, <2>1 DEF Switches
  <2>3. Past' = Past
    BY <1>1, <1>7, <2>2 DEF Past, Switches
  <2>4. \A q \in Providers : Installed(q)' <=> Installed(q)
    BY <1>1, <2>1 DEF Installed
  <2>5. \A q \in Past : q \in Providers
    BY <1>0, <1>2 DEF Past, Switches, TypeInv, KnowsOld
  <2>6. Installed(provider)' /\ \A q \in Past' : Installed(q)'
    BY <1>2, <1>7, <2>3, <2>4, <2>5 DEF RotationInv
  <2>7. \A q \in Switches' : switch'[q] = switch[q] /\ q # p /\ q \in Switches
    BY <1>1, <2>2 DEF Switches
  <2>8. \A q \in Switches' :
            /\ switch'[q].old \notin closedProviders'
            /\ \A r \in Switches' : switch'[r].old = switch'[q].old => q = r
    BY <1>7, <2>2, <2>7 DEF RotationInv
  <2>9. \A q \in Providers \ Switches' : switch'[q].removed = {} /\ switch'[q].jobs = {}
    BY <1>1, <2>1, <2>2 DEF RotationInv
  <2>10. Queued' = Queued
    BY <1>7 DEF Queued
  <2> QED
    BY <1>1, <1>7, <2>2, <2>3, <2>6, <2>8, <2>9, <2>10 DEF RotationInv
<1> QED
  BY <1>0, <1>3, <1>5, <1>6, <1>7, SwitchForms

LEMMA NextRotation ==
    ASSUME IInv, RotationInv, [Next]_vars
    PROVE  RotationInv'
<1>0. TypeInv /\ TypeOK
  BY DEF IInv, TypeInv
<1>1. ASSUME NEW s \in Segments, Submit(s) PROVE RotationInv'
  <2>1. UNCHANGED <<provider, closedProviders, switch, closing>>
    BY <1>1, SubmitFrame DEF submitFrame
  <2>2. \A j \in Queued' : j.provider = provider
    BY <1>0, <1>1, SubmitQueued, EnqueueQueued DEF RotationInv, NewJob
  <2> QED
    BY <2>1, <2>2, SameRotation DEF RotationInv
<1>2. ASSUME NEW s \in Segments, Cancel(s) PROVE RotationInv'
  <2>1. UNCHANGED <<provider, closedProviders, switch, closing>> /\ Queued' \subseteq Queued
    BY <1>0, <1>2, RemoveKeepsOthers DEF Cancel, workerFrame, TypeOK
  <2> QED
    BY <2>1, SameRotation DEF RotationInv
<1>3. ASSUME NEW w \in Workers, Work(w) \/ Timeout(w) PROVE RotationInv'
  <2>1. UNCHANGED <<provider, closedProviders, switch, closing>>
    BY <1>0, <1>3, WorkKeepsFrame DEF WorkFrame
  <2>2. Queued' \subseteq Queued
    <3>1. CASE Take(w)
      BY <3>1, TakeQueued
    <3>2. CASE ~Take(w)
      BY <1>3, <3>2 DEF Work, Timeout, CallEnds, Succeed, Fail, Cancelled, Answered, BackoffEnds,
         EmitEnds, Interrupted, Queued
    <3> QED
      BY <3>1, <3>2
  <2> QED
    BY <2>1, <2>2, SameRotation DEF RotationInv
<1>5. ASSUME Shutdown PROVE RotationInv'
  <2>0. closing \in [phase : {"no", "joining", "gathering", "closed"}, jobs : SUBSET Job]
    BY <1>0 DEF TypeOK
  <2>1. CASE ShutdownBegins
    <3>1. /\ UNCHANGED <<provider, closedProviders, switch, queue>>
          /\ closing.phase = "no" /\ Switches = {}
      BY <2>1 DEF ShutdownBegins, Switches
    <3> QED
      BY <3>1, SameRotation DEF RotationInv, Queued
  <2>2. CASE ShutdownCancels
    <3>1. /\ UNCHANGED <<provider, closedProviders, switch>> /\ Queued' = {}
          /\ closing.phase = "joining"
      BY <2>2 DEF ShutdownCancels, Queued
    <3> QED
      BY <3>1, SameRotation DEF RotationInv
  <2>3. CASE ShutdownReports
    <3>1. /\ UNCHANGED <<provider, closedProviders, switch, queue>>
          /\ closing.phase = "gathering"
      BY <2>3 DEF ShutdownReports, WorkersGone
    <3> QED
      BY <3>1, SameRotation DEF RotationInv, Queued
  <2>4. CASE ShutdownEnds
    <3>1. /\ UNCHANGED <<provider, switch, queue>> /\ closing.phase = "gathering"
          /\ closing'.phase = "closed"
          /\ closedProviders' = closedProviders \cup {provider}
      BY <2>0, <2>4 DEF ShutdownEnds, WorkersGone
    <3>2. Switches' = {} /\ Switches = {} /\ Queued' = Queued
      BY <3>1 DEF RotationInv, Switches, Queued
    <3>3. Past' = Past \cup {provider}
      BY <3>1, <3>2 DEF Past
    <3>4. \A q : Installed(q)' <=> Installed(q)
      BY <3>1 DEF Installed
    <3> QED
      BY <3>1, <3>2, <3>3, <3>4 DEF RotationInv
  <2> QED
    BY <1>5, <2>1, <2>2, <2>3, <2>4 DEF Shutdown
<1>6. ASSUME UNCHANGED vars PROVE RotationInv'
  BY <1>6, SameRotation DEF vars, RotationInv, Queued
<1> QED
  BY <1>1, <1>2, <1>3, SwitchRotation, <1>5, <1>6 DEF Next

-----------------------------------------------------------------------------
(* The jobs a switch took from the queue, and the clock of the waiting ones *)

InHand(j) ==
    \/ \E w \in Workers : worker[w].job = j
    \/ \E s \in Segments : active[s] = j
    \/ \E p \in Providers : j \in switch[p].jobs

Backlog == Queued \cup Dropped

DropInv ==
    InService =>
        /\ closing.jobs = {}
        /\ \A p \in Providers : \A j \in switch[p].removed :
            /\ rec[j.seg].sub = j.sub /\ rec[j.seg].status = "pending"
            /\ ~InHand(j)
            /\ \A q \in Providers \ {p} : j \notin switch[q].removed
        /\ waiting = {j.seg : j \in Backlog}

House == CallInv /\ RotationInv /\ DropInv

LEMMA DroppedMember ==
    /\ \A j : j \in Dropped <=> j \in closing.jobs \/ \E p \in Providers : j \in switch[p].removed
    /\ \A j : j \in Dropped' <=> j \in closing'.jobs \/ \E p \in Providers : j \in switch'[p].removed
BY DEF Dropped

\* Every job of the backlog is the current, pending submission of its caption.
LEMMA BacklogJobs ==
    ASSUME IInv, DropInv, InService
    PROVE  /\ \A j \in Backlog :
                /\ j \in Job /\ j.seg \in Segments /\ j \in Submitted
                /\ rec[j.seg].sub = j.sub /\ rec[j.seg].status = "pending"
           /\ \A j, k \in Backlog : j.seg = k.seg => j = k
           /\ \A j \in Queued : j \notin Dropped
           /\ \A j \in Backlog : ~InHand(j)
           /\ \A j \in Backlog, k \in Submitted : k.seg = j.seg /\ k.sub = rec[j.seg].sub => k = j
<1>1. TypeOK
  BY DEF IInv, TypeInv
<1>2. \A j \in Dropped : /\ j \in Handled /\ ~InHand(j)
                         /\ rec[j.seg].sub = j.sub /\ rec[j.seg].status = "pending"
  BY DroppedMember, HandledMember DEF DropInv, Refers
<1>3. \A j \in Queued : /\ j \notin Handled
                        /\ rec[j.seg].sub = j.sub /\ rec[j.seg].status = "pending"
  BY DEF IInv, QueueInv
<1>4. \A j \in Backlog : j \in Job /\ j.seg \in Segments /\ j \in Submitted /\ j # None
  BY <1>1, <1>2, HandledType, NoneAssumption DEF Backlog, Submitted, Job
<1>5. \A j \in Queued : ~InHand(j)
  BY <1>3, <1>4, HandledMember DEF Refers, InHand, Backlog
<1>6. \A j \in Backlog, k \in Submitted : k.seg = j.seg /\ k.sub = rec[j.seg].sub => k = j
  BY <1>2, <1>3, <1>4 DEF Backlog, IInv, JobInv
<1> QED
  BY <1>2, <1>3, <1>4, <1>5, <1>6 DEF Backlog

\* A step that adds nothing to the backlog keeps what DropInv says of it.
LEMMA BacklogShrinks ==
    ASSUME IInv, DropInv, InService, closing'.jobs = {},
           Queued' \subseteq Backlog,
           \A p \in Providers : switch'[p].removed \subseteq switch[p].removed,
           \A j \in Dropped' : rec'[j.seg] = rec[j.seg],
           \A j \in Dropped' : InHand(j)' => InHand(j),
           NEW S, waiting' = waiting \ S,
           \A j \in Backlog : j \in Backlog' <=> j.seg \notin S
    PROVE  DropInv'
<1>1. \A j \in Backlog' : j \in Backlog
  BY DroppedMember DEF Backlog
<1>2. \A p \in Providers : \A j \in switch'[p].removed :
            /\ rec'[j.seg].sub = j.sub /\ rec'[j.seg].status = "pending"
            /\ ~InHand(j)'
            /\ \A q \in Providers \ {p} : j \notin switch'[q].removed
  <2>1. \A p \in Providers : \A j \in switch'[p].removed : j \in Dropped' /\ j \in switch[p].removed
    BY DroppedMember
  <2> QED
    BY <2>1 DEF DropInv
<1>3. waiting = {j.seg : j \in Backlog}
  BY DEF DropInv
<1>4. waiting' = {j.seg : j \in Backlog'}
  BY <1>1, <1>3
<1> QED
  BY <1>2, <1>4 DEF DropInv

LEMMA WorkDrops ==
    ASSUME IInv, House, NEW w \in Workers, Work(w) \/ Timeout(w)
    PROVE  DropInv'
<1>0. TypeInv /\ TypeOK /\ Sound(w) /\ CallInv /\ DropInv
  BY DEF IInv, TypeInv, WorkerInv, House
<1>1. UNCHANGED <<switch, closing>>
  BY <1>0, WorkKeepsFrame DEF WorkFrame
<1>2. SUFFICES ASSUME InService PROVE DropInv'
  BY <1>1 DEF DropInv, InService
<1>3. closing.jobs = {} /\ Dropped' = Dropped
  BY <1>0, <1>1, <1>2 DEF DropInv, Dropped
<1>4. \A j \in Dropped : j \in Backlog /\ j # None
  BY <1>0, <1>2, BacklogJobs, NoneAssumption DEF Backlog
<1>5. CASE Take(w)
  <2> DEFINE k == Head(queue)
  <2>1. /\ k \in Job /\ k \in Queued /\ k.seg \in Segments
        /\ worker'[w] = Calling(k, 1) /\ waiting' = waiting \ {k.seg}
        /\ active' = [active EXCEPT ![k.seg] = k]
        /\ rec' = IF rec[k.seg].sub = k.sub
                  THEN [rec EXCEPT ![k.seg].status = "translating"]
                  ELSE rec
    BY <1>0, <1>5, TakeForm
  <2>2. Queued' = Queued \ {k}
    BY <1>5, TakeQueued
  <2> HIDE DEF k
  <2>3. Backlog' = Backlog \ {k} /\ k \in Backlog
    BY <1>0, <1>2, <1>3, <2>1, <2>2, BacklogJobs DEF Backlog
  <2>4. ASSUME NEW j \in Dropped PROVE j.seg # k.seg /\ rec'[j.seg] = rec[j.seg]
    <3>1. j \in Backlog /\ j # k /\ j.seg # k.seg /\ j.seg \in Segments
      BY <1>0, <1>2, <1>4, <2>1, <2>3, BacklogJobs
    <3> QED
      BY <1>0, <2>1, <3>1 DEF TypeOK
  <2>5. ASSUME NEW j \in Dropped, InHand(j)' PROVE InHand(j)
    <3>1. \A s \in Segments : active'[s] = active[s] \/ active'[s] = k
      BY <1>0, <2>1 DEF TypeOK
    <3>2. worker'[w].job = k /\ \A v \in Workers \ {w} : worker'[v] = worker[v]
      BY <1>0, <1>5, <2>1, WorkKeepsFrame, LocalFields DEF WorkFrame
    <3> QED
      BY <1>1, <2>4, <2>5, <3>1, <3>2 DEF InHand
  <2>6. \A j \in Backlog : j \in Backlog' <=> j.seg \notin {k.seg}
    BY <1>0, <1>2, <2>3, BacklogJobs
  <2>7. Queued' \subseteq Backlog
    BY <2>2 DEF Backlog
  <2> QED
    BY <1>0, <1>1, <1>2, <1>3, <2>1, <2>4, <2>5, <2>6, <2>7, BacklogShrinks
<1>6. CASE ~Take(w)
  <2>1. ActorStep(w)
    BY <1>0, <1>6, WorkIsActorStep
  <2>2. Queued' = Queued /\ Backlog' = Backlog
    BY <1>3, <2>1 DEF ActorStep, Queued, Backlog
  <2>3. waiting' = waiting \ {}
    BY <1>6 DEF Work, Timeout, CallEnds, Succeed, Fail, Cancelled, Answered, BackoffEnds,
         EmitEnds, Interrupted
  <2>4. ASSUME NEW j \in Dropped PROVE rec'[j.seg] = rec[j.seg]
    <3>1. j \in Backlog /\ j.seg \in Segments /\ ~InHand(j)
      BY <1>0, <1>2, <1>4, BacklogJobs
    <3>2. SUFFICES ASSUME rec'[j.seg] # rec[j.seg] PROVE FALSE
      OBVIOUS
    <3>3. /\ worker[w].job # None /\ j.seg = worker[w].job.seg
          /\ rec[j.seg].sub = worker[w].job.sub
      BY <2>1, <3>1, <3>2 DEF ActorStep
    <3>4. worker[w].job \in Submitted
      BY <3>3, HandledMember DEF Refers, Submitted
    <3>5. worker[w].job = j
      BY <1>0, <1>2, <3>1, <3>3, <3>4, BacklogJobs
    <3> QED
      BY <3>1, <3>5 DEF InHand
  <2>5. ASSUME NEW j \in Dropped, InHand(j)' PROVE InHand(j)
    BY <1>1, <1>4, <2>1, <2>5 DEF ActorStep, InHand
  <2>6. \A j \in Backlog : j \in Backlog' <=> j.seg \notin {}
    BY <2>2
  <2> QED
    BY <1>0, <1>1, <1>2, <1>3, <2>2, <2>3, <2>4, <2>5, <2>6, BacklogShrinks DEF Backlog
<1> QED
  BY <1>5, <1>6

\* _finish_error does not touch a waiting job, unless it is one of J.
LEMMA FailingBacklog ==
    ASSUME IInv, DropInv, InService, NEW J \in SUBSET Submitted, NEW j \in Backlog, j \notin J
    PROVE  Failing(J, "cancelled")[j.seg] = rec[j.seg]
<1>1. j.seg \in Segments /\ \A k \in J : k.seg = j.seg => k.sub # rec[j.seg].sub
  BY BacklogJobs
<1> QED
  BY <1>1 DEF Failing, Reportable

LEMMA SubmitDrops ==
    ASSUME IInv, House, NEW s \in Segments, Submit(s)
    PROVE  DropInv'
<1>0. TypeInv /\ TypeOK /\ CallInv /\ DropInv /\ InService
  BY SubmitFrame DEF IInv, TypeInv, House
<1>1. /\ worker' = Revived /\ UNCHANGED <<active, switch, closing>>
  BY SubmitFrame DEF submitFrame
<1>2. closing.jobs = {} /\ Dropped' = Dropped /\ closing'.jobs = {}
  BY <1>0, <1>1 DEF DropInv, Dropped
<1>3. \A j : InHand(j)' <=> InHand(j)
  <2>1. \A w \in Workers : worker'[w].job = worker[w].job
    BY <1>0, <1>1, RevivedKeepsJobs
  <2> QED
    BY <1>1, <2>1 DEF InHand
<1>4. \A t \in Segments : rec'[t] = rec[t] \/ (t = s /\ rec[s].status # "pending")
  BY <1>0 DEF Submit, Refuse, Skip, Disable, Overflow, Enqueue, Admissible, Renewed,
     InProgress, TypeOK
<1>5. ASSUME NEW j \in Backlog PROVE rec'[j.seg] = rec[j.seg]
  BY <1>0, <1>4, BacklogJobs
<1>6. CASE Queued' = Queued /\ waiting' = waiting
  <2>1. Backlog' = Backlog /\ waiting' = waiting \ {}
    BY <1>2, <1>6 DEF Backlog
  <2>2. \A p \in Providers : switch'[p].removed \subseteq switch[p].removed
    BY <1>1
  <2>3. \A j \in Dropped' : rec'[j.seg] = rec[j.seg]
    BY <1>2, <1>5 DEF Backlog
  <2>4. \A j \in Backlog : j \in Backlog' <=> j.seg \notin {}
    BY <2>1
  <2>5. Queued' \subseteq Backlog
    BY <1>6 DEF Backlog
  <2> QED
    BY <1>0, <1>2, <1>3, <2>1, <2>2, <2>3, <2>4, <2>5, BacklogShrinks
<1>7. CASE Enqueue(s)
  <2>1. Queued' = Queued \cup {NewJob(s)}
    BY <1>0, <1>7, EnqueueQueued
  <2>2. Backlog' = Backlog \cup {NewJob(s)}
    BY <1>2, <2>1 DEF Backlog
  <2>3. waiting' = waiting \cup {s} /\ NewJob(s).seg = s
    BY <1>7 DEF Enqueue, NewJob
  <2>4. waiting' = {j.seg : j \in Backlog'}
    <3>1. waiting = {j.seg : j \in Backlog}
      BY <1>0 DEF DropInv
    <3> QED
      BY <2>2, <2>3, <3>1
  <2>5. \A p \in Providers : \A j \in switch'[p].removed :
            /\ rec'[j.seg].sub = j.sub /\ rec'[j.seg].status = "pending"
            /\ ~InHand(j)'
            /\ \A q \in Providers \ {p} : j \notin switch'[q].removed
    <3>1. \A p \in Providers : \A j \in switch[p].removed : rec'[j.seg] = rec[j.seg]
      BY <1>5, DroppedMember DEF Backlog
    <3> QED
      BY <1>0, <1>1, <1>3, <3>1 DEF DropInv
  <2> QED
    BY <1>2, <2>4, <2>5 DEF DropInv
<1> QED
  BY <1>0, <1>6, <1>7, SubmitQueued

LEMMA CancelDrops ==
    ASSUME IInv, House, NEW s \in Segments, Cancel(s)
    PROVE  DropInv'
<1> DEFINE removed == {j \in Queued : j.seg = s}
<1>0. TypeInv /\ TypeOK /\ DropInv /\ InService
  BY DEF IInv, TypeInv, House, Cancel, InService
<1>1. UNCHANGED <<worker, active, switch, closing>>
  BY DEF Cancel, workerFrame
<1>2. closing'.jobs = {} /\ Dropped' = Dropped
  BY <1>0, <1>1 DEF DropInv, Dropped
<1>3. /\ Queued' = Queued \ removed /\ waiting' = waiting \ {j.seg : j \in removed}
      /\ rec' = Failing(removed, "cancelled")
  BY <1>0, RemoveKeepsOthers DEF Cancel, TypeOK
<1>4. removed \in SUBSET Submitted /\ \A j \in Dropped : j \notin removed
  BY <1>0, BacklogJobs DEF Submitted
<1> HIDE DEF removed
<1>5. \A j \in Dropped' : rec'[j.seg] = rec[j.seg]
  BY <1>0, <1>2, <1>3, <1>4, FailingBacklog DEF Backlog
<1>6. \A j : InHand(j)' <=> InHand(j)
  BY <1>1 DEF InHand
<1>7. \A j \in Backlog : j \in Backlog' <=> j.seg \notin {k.seg : k \in removed}
  <2>1. removed \subseteq Backlog
    BY DEF removed, Backlog
  <2>2. \A j \in Backlog : j \in Backlog' <=> j \notin removed
    BY <1>2, <1>3, <1>4 DEF Backlog
  <2> QED
    BY <1>0, <2>1, <2>2, BacklogJobs
<1>8. \A p \in Providers : switch'[p].removed \subseteq switch[p].removed
  BY <1>1
<1>9. Queued' \subseteq Backlog
  BY <1>3 DEF Backlog
<1> QED
  BY <1>0, <1>2, <1>3, <1>5, <1>6, <1>7, <1>8, <1>9, BacklogShrinks

\* The cancellation loop of a switch leaves the backlog alone: what it took from
\* the queue it keeps, and the jobs it cancels were in a worker's hands.
LEMMA CancelJobsDrops ==
    ASSUME IInv, DropInv, InService, NEW p \in Providers,
           NEW old, NEW jobs, NEW calls, NEW removed,
           CancelJobs(p, Switching(old, jobs, calls, removed)),
           jobs \subseteq Handled, \A j \in jobs : InHand(j),
           removed \subseteq Backlog, Queued' \subseteq Queued,
           Backlog' = Backlog, closing'.jobs = {},
           \A j \in Dropped' : \A q, r \in Providers :
                j \in switch'[q].removed /\ j \in switch'[r].removed => q = r,
           UNCHANGED <<worker, active, waiting>>
    PROVE  DropInv'
<1>0. TypeOK
  BY DEF IInv, TypeInv
<1>1. PICK done \in SUBSET jobs :
        /\ rec' = Failing(done, "cancelled")
        /\ switch'[p].jobs = jobs \ done
        /\ \A q \in Providers \ {p} : switch'[q] = switch[q]
  BY <1>0, CancelJobsForm
<1>2. done \in SUBSET Submitted /\ \A j \in Backlog : j \notin done
  BY BacklogJobs DEF Submitted
<1>3. \A j \in Backlog : rec'[j.seg] = rec[j.seg]
  BY <1>1, <1>2, FailingBacklog
<1>4. \A j : InHand(j)' => InHand(j)
  BY <1>1 DEF InHand
<1>5. \A q \in Providers : \A j \in switch'[q].removed :
            /\ rec'[j.seg].sub = j.sub /\ rec'[j.seg].status = "pending"
            /\ ~InHand(j)'
            /\ \A r \in Providers \ {q} : j \notin switch'[r].removed
  <2>1. \A q \in Providers : \A j \in switch'[q].removed : j \in Dropped' /\ j \in Backlog
    BY DroppedMember DEF Backlog
  <2> QED
    BY <1>3, <1>4, <2>1, BacklogJobs
<1>6. waiting' = {j.seg : j \in Backlog'}
  BY DEF DropInv
<1> QED
  BY <1>5, <1>6 DEF DropInv

LEMMA SwitchDropsInv ==
    ASSUME IInv, House, NEW p \in Providers, Switch(p)
    PROVE  DropInv'
<1>0. TypeInv /\ TypeOK /\ DropInv /\ RotationInv
  BY DEF IInv, TypeInv, House
<1>1. /\ UNCHANGED <<worker, interrupt, active, activeCall, closing>>
      /\ \A q \in Providers \ {p} : switch'[q] = switch[q]
  BY <1>0, SwitchForms
<1>2. SUFFICES ASSUME InService PROVE DropInv'
  BY <1>1 DEF DropInv, InService
<1>3. closing.jobs = {} /\ closing'.jobs = {}
  BY <1>0, <1>1, <1>2 DEF DropInv
<1>4. \A j \in Backlog : ~InHand(j) /\ j \in Job /\ j.seg \in Segments
  BY <1>0, <1>2, BacklogJobs
<1>5. CASE /\ switch[p].pc = "ready" /\ p # FirstProvider /\ closing.phase = "no"
           /\ provider' = p /\ UNCHANGED <<waiting, closedProviders>>
           /\ Queued' = Queued \ Taken
           /\ CancelJobs(p, Switching(provider, Running, {}, Taken))
  <2>1. CancelJobs(p, Switching(provider, Running, {}, Taken)) /\ Queued' \subseteq Queued
    BY <1>5
  <2>2. Taken \subseteq Queued /\ Taken \subseteq Backlog
    BY DEF Taken, Backlog
  <2>3. switch'[p].removed = Taken /\ switch[p].removed = {}
    BY <1>0, <1>5, <2>1, CancelJobsForm DEF RotationInv, Switches
  <2>4. Dropped' = Dropped \cup Taken
    <3>1. \A j : j \in Dropped' <=> j \in Dropped \/ j \in Taken
      BY <1>1, <1>3, <2>3, DroppedMember
    <3> QED
      BY <3>1
  <2>5. Backlog' = Backlog
    BY <1>5, <2>2, <2>4 DEF Backlog
  <2>6. Running \subseteq Handled /\ \A j \in Running : InHand(j)
    BY HandledMember DEF Running, Refers, InHand
  <2>7. ASSUME NEW j \in Dropped', NEW q \in Providers, NEW r \in Providers,
               j \in switch'[q].removed, j \in switch'[r].removed
        PROVE  q = r
    <3>1. CASE q # p /\ r # p
      BY <1>0, <1>1, <1>2, <2>7, <3>1 DEF DropInv
    <3>2. CASE j \in Taken
      <4>1. j \notin Dropped
        BY <1>0, <1>2, <2>2, <3>2, BacklogJobs
      <4> QED
        BY <1>1, <2>7, <4>1, DroppedMember
    <3>3. CASE j \notin Taken
      BY <2>3, <2>7, <3>1, <3>3
    <3> QED
      BY <3>2, <3>3
  <2>8. UNCHANGED <<worker, active, waiting>>
    BY <1>1, <1>5
  <2> QED
    BY <1>0, <1>2, <1>3, <2>1, <2>2, <2>5, <2>6, <2>7, <2>8, CancelJobsDrops
<1>6. CASE /\ switch[p].pc = "switching" /\ switch[p].jobs # {}
           /\ UNCHANGED <<waiting, queue, provider, closedProviders>>
           /\ CancelJobs(p, Switching(switch[p].old, switch[p].jobs, switch[p].calls,
                                      switch[p].removed))
  <2>1. CancelJobs(p, Switching(switch[p].old, switch[p].jobs, switch[p].calls,
                                switch[p].removed))
    BY <1>6
  <2>2. \A q \in Providers : switch'[q].removed = switch[q].removed
    BY <1>0, <1>1, <2>1, CancelJobsForm
  <2>3. Dropped' = Dropped /\ Queued' = Queued
    <3>1. \A j : j \in Dropped' <=> j \in Dropped
      BY <1>3, <2>2, DroppedMember
    <3> QED
      BY <1>6, <3>1 DEF Queued
  <2>4. Backlog' = Backlog /\ switch[p].removed \subseteq Backlog
    BY <2>3, DroppedMember DEF Backlog
  <2>5. switch[p].jobs \subseteq Handled /\ \A j \in switch[p].jobs : InHand(j)
    BY HandledMember DEF Refers, InHand
  <2>6. \A j \in Dropped' : \A q, r \in Providers :
            j \in switch'[q].removed /\ j \in switch'[r].removed => q = r
    BY <1>0, <1>2, <2>2 DEF DropInv
  <2>7. UNCHANGED <<worker, active, waiting>>
    BY <1>1, <1>6
  <2> QED
    BY <1>0, <1>2, <1>3, <2>1, <2>3, <2>4, <2>5, <2>6, <2>7, CancelJobsDrops
<1>7. CASE /\ UNCHANGED queue
           /\ \E j \in switch[p].removed :
                /\ waiting' = waiting \ {j.seg}
                /\ rec' = Failing({j}, "cancelled")
                /\ switch'[p] = Switching(switch[p].old, {}, {}, switch[p].removed \ {j})
  <2>1. PICK j \in switch[p].removed :
                /\ waiting' = waiting \ {j.seg}
                /\ rec' = Failing({j}, "cancelled")
                /\ switch'[p] = Switching(switch[p].old, {}, {}, switch[p].removed \ {j})
    BY <1>7
  <2>2. switch'[p].removed = switch[p].removed \ {j} /\ switch'[p].jobs = {}
    BY <2>1, SwitchingFields
  <2>3. j \in Dropped /\ j \in Backlog /\ {j} \in SUBSET Submitted
    BY <1>0, <1>2, DroppedMember, BacklogJobs DEF Backlog
  <2>4. Dropped' = Dropped \ {j}
    <3>1. \A q \in Providers \ {p} : j \notin switch[q].removed
      BY <1>0, <1>2 DEF DropInv
    <3>2. \A k : k \in Dropped' <=> k \in Dropped /\ k # j
      BY <1>1, <1>3, <2>2, <3>1, DroppedMember
    <3> QED
      BY <3>2
  <2>5. Queued' = Queued
    BY <1>7 DEF Queued
  <2>6. Backlog' = Backlog \ {j}
    BY <1>0, <1>2, <2>3, <2>4, <2>5, BacklogJobs DEF Backlog
  <2>7. \A k \in Dropped' : rec'[k.seg] = rec[k.seg]
    <3>1. \A k \in Dropped' : k \in Backlog /\ k \notin {j}
      BY <2>4 DEF Backlog
    <3> QED
      BY <1>0, <1>2, <2>1, <2>3, <3>1, FailingBacklog
  <2>8. \A k : InHand(k)' => InHand(k)
    BY <1>1, <2>2 DEF InHand
  <2>9. \A k \in Backlog : k \in Backlog' <=> k.seg \notin {j.seg}
    BY <1>0, <1>2, <2>3, <2>6, BacklogJobs
  <2>10. \A q \in Providers : switch'[q].removed \subseteq switch[q].removed
    BY <1>1, <2>2
  <2>11. Queued' \subseteq Backlog
    BY <2>5 DEF Backlog
  <2> QED
    BY <1>0, <1>2, <1>3, <2>1, <2>7, <2>8, <2>9, <2>10, <2>11, BacklogShrinks
<1>8. CASE /\ CallsGathered(p) /\ switch[p].removed = {}
           /\ UNCHANGED <<rec, waiting, queue>>
           /\ switch'[p] = Done
  <2>1. switch'[p].removed = {} /\ switch'[p].jobs = {}
    BY <1>8 DEF Done, SwitchState
  <2>2. \A q \in Providers : switch'[q].removed = switch[q].removed
    BY <1>1, <1>8, <2>1
  <2>3. Dropped' = Dropped /\ Queued' = Queued /\ waiting' = waiting \ {}
    <3>1. \A j : j \in Dropped' <=> j \in Dropped
      BY <1>3, <2>2, DroppedMember
    <3> QED
      BY <1>8, <3>1 DEF Queued
  <2>4. \A k : InHand(k)' => InHand(k)
    BY <1>1, <2>1 DEF InHand
  <2>5. \A k \in Backlog : k \in Backlog' <=> k.seg \notin {}
    BY <2>3 DEF Backlog
  <2>6. \A q \in Providers : switch'[q].removed \subseteq switch[q].removed
    BY <2>2
  <2>7. Queued' \subseteq Backlog /\ \A j \in Dropped' : rec'[j.seg] = rec[j.seg]
    BY <1>8, <2>3 DEF Backlog
  <2> QED
    BY <1>0, <1>2, <1>3, <2>3, <2>4, <2>5, <2>6, <2>7, BacklogShrinks
<1> QED
  BY <1>0, <1>5, <1>6, <1>7, <1>8, SwitchForms

\* The phases of shutdown.
LEMMA ShutdownForms ==
    ASSUME TypeOK, Shutdown
    PROVE  \/ /\ ShutdownBegins /\ closing.phase = "no" /\ closing'.phase = "joining"
              /\ closing'.jobs = closing.jobs
           \/ /\ ShutdownCancels /\ closing.phase = "joining" /\ closing'.phase = "gathering"
              /\ closing'.jobs = Queued \cup ({active[s] : s \in Segments} \ {None})
           \/ /\ ShutdownReports /\ closing.phase = "gathering" /\ closing'.phase = "gathering"
              /\ \E j \in closing.jobs : /\ rec' = Failing({j}, "cancelled")
                                         /\ closing'.jobs = closing.jobs \ {j}
           \/ /\ ShutdownEnds /\ closing.phase = "gathering" /\ closing'.phase = "closed"
              /\ closing.jobs = {} /\ closing'.jobs = {}
<1>0. closing \in [phase : {"no", "joining", "gathering", "closed"}, jobs : SUBSET Job]
  BY DEF TypeOK
<1>1. CASE ShutdownBegins
  BY <1>0, <1>1 DEF ShutdownBegins
<1>2. CASE ShutdownCancels
  BY <1>0, <1>2 DEF ShutdownCancels
<1>3. CASE ShutdownReports
  <2>1. PICK j \in closing.jobs : /\ rec' = Failing({j}, "cancelled")
                                  /\ closing' = [closing EXCEPT !.jobs = @ \ {j}]
    BY <1>3 DEF ShutdownReports
  <2>2. closing'.phase = closing.phase /\ closing'.jobs = closing.jobs \ {j}
    BY <1>0, <2>1
  <2> QED
    BY <1>3, <2>1, <2>2 DEF ShutdownReports, WorkersGone
<1>4. CASE ShutdownEnds
  BY <1>0, <1>4 DEF ShutdownEnds, WorkersGone
<1> QED
  BY <1>1, <1>2, <1>3, <1>4 DEF Shutdown

LEMMA ShutdownDrops ==
    ASSUME IInv, House, Shutdown
    PROVE  DropInv'
<1>0. TypeInv /\ TypeOK /\ DropInv
  BY DEF IInv, TypeInv, House
<1>1. CASE ShutdownBegins
  <2>1. /\ UNCHANGED <<rec, queue, waiting, worker, active, switch>> /\ InService
        /\ closing'.jobs = closing.jobs
    BY <1>0, <1>1, ShutdownForms DEF ShutdownBegins, InService
  <2>2. Queued' = Queued /\ closing.jobs = {} /\ Dropped' = Dropped
    BY <1>0, <2>1 DEF Queued, DropInv, Dropped
  <2>3. \A k : InHand(k)' <=> InHand(k)
    BY <2>1 DEF InHand
  <2>4. /\ Backlog' = Backlog /\ waiting' = waiting \ {} /\ Queued' \subseteq Backlog
        /\ \A q \in Providers : switch'[q].removed \subseteq switch[q].removed
        /\ \A j \in Dropped' : rec'[j.seg] = rec[j.seg]
    BY <2>1, <2>2 DEF Backlog
  <2>5. \A k \in Backlog : k \in Backlog' <=> k.seg \notin {}
    BY <2>4
  <2> QED
    BY <1>0, <2>1, <2>2, <2>3, <2>4, <2>5, BacklogShrinks
<1>2. CASE closing'.phase \in {"gathering", "closed"}
  BY <1>2 DEF DropInv, InService
<1> QED
  BY <1>0, <1>1, <1>2, ShutdownForms

LEMMA NextHouse ==
    ASSUME IInv, House, [Next]_vars
    PROVE  House'
<1>1. CallInv' /\ RotationInv'
  BY NextCall, NextRotation DEF House
<1>2. ASSUME UNCHANGED vars PROVE DropInv'
  <2>1. Backlog' = Backlog /\ (InService' <=> InService)
    BY <1>2 DEF vars, Backlog, Queued, Dropped, InService
  <2>2. \A j : InHand(j)' <=> InHand(j)
    BY <1>2 DEF vars, InHand
  <2> QED
    BY <1>2, <2>1, <2>2 DEF DropInv, House, vars
<1>3. DropInv'
  BY <1>2, SubmitDrops, CancelDrops, WorkDrops, SwitchDropsInv, ShutdownDrops DEF Next
<1> QED
  BY <1>1, <1>3 DEF House

LEMMA InitHouse == Init => House
<1> SUFFICES ASSUME Init PROVE House
  OBVIOUS
<1>1. /\ \A w \in Workers : worker[w] = Idle /\ call[w] = "none" /\ interrupt[w] = "no"
      /\ \A s \in Segments : active[s] = None /\ activeCall[s] = None
      /\ \A p \in Providers : /\ switch[p].pc = "ready"
                              /\ switch[p].jobs = {} /\ switch[p].removed = {}
      /\ provider = FirstProvider /\ closedProviders = {}
      /\ closing.phase = "no" /\ closing.jobs = {} /\ waiting = {}
  BY DEF Init, Ready, SwitchState
<1>2. CallInv
  BY <1>1, LocalFields, TranslationAssumption DEF CallInv
<1>3. Queued = {} /\ Dropped = {} /\ Switches = {}
  BY <1>1 DEF Init, Queued, Dropped, Switches
<1>4. RotationInv
  BY <1>1, <1>3 DEF RotationInv, Past, Installed
<1>5. DropInv
  BY <1>1, <1>3 DEF DropInv, Backlog
<1> QED
  BY <1>2, <1>4, <1>5 DEF House

-----------------------------------------------------------------------------
(* Whose call an entry of _active_calls is *)

OneWorker == \A v, w \in Workers : v = w
OneService == \A p, q \in Providers \ {NoneProvider} : p = q

Attempting(w) == worker[w].pc \in {"calling", "backoff"}

\* The active entry of a caption, and the job a switch has still to cancel, are
\* the job of whoever attempts that caption.
Matched ==
    \A w \in Workers : Attempting(w) =>
        /\ \A s \in Segments : active[s] # None /\ worker[w].job.seg = s => worker[w].job = active[s]
        /\ \A p \in Providers : \A j \in switch[p].jobs :
              worker[w].job.seg = j.seg => worker[w].job = j

\* With one worker the dictionaries hold its job, and a switch cancels that job
\* in the step that begins it.
SoloInv ==
    /\ \A w \in Workers :
        /\ worker[w].job # None => active[worker[w].job.seg] = worker[w].job
        /\ worker[w].holds => activeCall[worker[w].job.seg] = w
    /\ \A s \in Segments : active[s] # None => \E w \in Workers : active[s] = worker[w].job
    /\ \A p \in Providers : switch[p].jobs = {}

LEMMA SoloMatches == ASSUME TypeInv, SoloInv PROVE Matched
BY DEF SoloInv, Matched, Attempting, TypeInv, HoldsJob

LEMMA WorkSolo ==
    ASSUME OneWorker, IInv, House, SoloInv, NEW w \in Workers, Work(w) \/ Timeout(w)
    PROVE  SoloInv'
<1> DEFINE j == worker[w].job
<1>0. TypeInv /\ TypeOK /\ CallInv /\ WorkFrame(w) /\ worker[w] \in WorkerState
  BY WorkKeepsFrame, HeldJob DEF IInv, TypeInv, House
<1>1. switch' = switch
  BY <1>0 DEF WorkFrame
<1>2. \A v \in Workers : v = w
  BY DEF OneWorker
<1>3. /\ j # None => j \in Job /\ j.seg \in Segments /\ active[j.seg] = j
      /\ worker[w].holds => activeCall[j.seg] = w
      /\ \A s \in Segments : active[s] # None => active[s] = j /\ s = j.seg
  BY <1>0, <1>2 DEF SoloInv, CallInv, WorkerState, Job
<1>4. worker[w].pc \in {"calling", "backoff", "emitting"} => j # None
  BY <1>0 DEF TypeInv, HoldsJob
<1>5. SUFFICES /\ worker'[w].job # None => active'[worker'[w].job.seg] = worker'[w].job
               /\ worker'[w].holds => activeCall'[worker'[w].job.seg] = w
               /\ \A s \in Segments : active'[s] # None => active'[s] = worker'[w].job
  BY <1>1, <1>2 DEF SoloInv
<1>6. CASE Take(w)
  <2> DEFINE k == Head(queue)
  <2>1. /\ k \in Job /\ k.seg \in Segments /\ worker[w].job = None
        /\ worker'[w] = Calling(k, 1)
        /\ active' = [active EXCEPT ![k.seg] = k]
        /\ activeCall' = [activeCall EXCEPT ![k.seg] = w]
    BY <1>0, <1>6, TakeForm
  <2> HIDE DEF k
  <2>2. worker'[w].job = k
    BY <2>1, LocalFields
  <2> QED
    BY <1>0, <1>3, <2>1, <2>2 DEF TypeOK
<1>7. CASE ~Take(w)
  <2>1. WorkForm(w)
    BY <1>0, <1>7, WorkForms
  <2>2. CASE WaitsOn(w)
    <3>1. /\ worker'[w].holds = worker[w].holds /\ worker'[w].job = worker[w].job
          /\ UNCHANGED <<active, activeCall>>
      BY <1>0, <2>2 DEF WaitsOn, WorkerState
    <3> QED
      BY <1>3, <3>1
  <2>3. CASE Restarts(w)
    BY <1>0, <1>3, <1>4, <2>3 DEF Restarts, TypeOK
  <2>4. CASE BacksOff(w)
    BY <1>0, <1>3, <1>4, <2>4 DEF BacksOff, TypeOK
  <2>5. CASE Emits(w)
    <3>1. /\ worker'[w].job = j /\ UNCHANGED active /\ j # None
          /\ worker'[w].holds => worker[w].pc = "calling" /\ UNCHANGED activeCall
      BY <1>4, <2>5 DEF Emits
    <3>2. worker'[w].holds => worker[w].holds
      BY <3>1, <1>0 DEF CallInv
    <3> QED
      BY <1>3, <3>1, <3>2
  <2>6. CASE Leaves(w)
    <3>1. worker'[w].job = None /\ ~worker'[w].holds
      BY <2>6, LocalFields DEF Leaves
    <3>2. \A s \in Segments : active'[s] = None
      BY <1>0, <1>3, <1>4, <2>6 DEF Leaves, TypeOK
    <3> QED
      BY <3>1, <3>2
  <2>7. CASE Dies(w)
    <3>1. worker'[w].job = None /\ ~worker'[w].holds /\ worker[w].job = None /\ active' = active
      BY <1>0, <2>7, LocalFields DEF Dies, TypeInv, HoldsJob
    <3> QED
      BY <1>3, <3>1
  <2> QED
    BY <2>1, <2>2, <2>3, <2>4, <2>5, <2>6, <2>7 DEF WorkForm
<1> QED
  BY <1>6, <1>7

LEMMA NextSolo ==
    ASSUME OneWorker, IInv, House, SoloInv, [Next]_vars
    PROVE  SoloInv'
<1>0. TypeInv /\ TypeOK /\ CallInv /\ RotationInv
  BY DEF IInv, TypeInv, House
<1>1. ASSUME UNCHANGED <<worker, active, activeCall>>,
             \A p \in Providers : switch'[p].jobs = {}
      PROVE  SoloInv'
  BY <1>1 DEF SoloInv
<1>2. ASSUME NEW s \in Segments, Submit(s) PROVE SoloInv'
  <2>1. worker' = Revived /\ UNCHANGED <<active, activeCall, switch>>
    BY <1>2, SubmitFrame DEF submitFrame
  <2>2. \A w \in Workers : worker'[w].job = worker[w].job /\ (worker'[w].holds => worker[w].holds)
    BY <1>0, <2>1, RevivedFields, LocalFields
  <2> QED
    BY <2>1, <2>2 DEF SoloInv
<1>3. ASSUME NEW s \in Segments, Cancel(s) PROVE SoloInv'
  BY <1>1, <1>3 DEF Cancel, workerFrame, SoloInv
<1>4. ASSUME NEW p \in Providers, Switch(p) PROVE SoloInv'
  <2>1. /\ UNCHANGED <<worker, active, activeCall>>
        /\ \A q \in Providers \ {p} : switch'[q] = switch[q]
    BY <1>0, <1>4, SwitchForms
  <2>2. CASE CancelJobs(p, Switching(provider, Running, {}, Taken))
    <3>1. PICK done \in SUBSET Running :
            /\ \/ \E j \in done : {k \in done : Reportable(k, "cancelled")} = {j}
               \/ done = Running
            /\ switch'[p].jobs = Running \ done
      BY <1>0, <2>2, CancelJobsForm
    <3>2. ASSUME NEW j \in Running, NEW k \in Running PROVE j = k
      <4>1. PICK s \in Segments : active[s] = j /\ j # None
        BY DEF Running
      <4>2. PICK t \in Segments : active[t] = k /\ k # None
        BY DEF Running
      <4> QED
        BY <4>1, <4>2 DEF SoloInv, OneWorker
    <3>3. Running \ done = {}
      BY <3>1, <3>2
    <3> QED
      BY <1>1, <2>1, <3>1, <3>3 DEF SoloInv
  <2>3. CASE switch[p].jobs # {}
    BY <2>3 DEF SoloInv
  <2>4. CASE \E j \in switch[p].removed :
                switch'[p] = Switching(switch[p].old, {}, {}, switch[p].removed \ {j})
    <3>1. switch'[p].jobs = {}
      BY <2>4, SwitchingFields
    <3> QED
      BY <1>1, <2>1, <3>1 DEF SoloInv
  <2>5. CASE switch'[p] = Done
    <3>1. switch'[p].jobs = {}
      BY <2>5 DEF Done, SwitchState
    <3> QED
      BY <1>1, <2>1, <3>1 DEF SoloInv
  <2> QED
    BY <1>0, <1>4, <2>2, <2>3, <2>4, <2>5, SwitchForms
<1>5. ASSUME Shutdown PROVE SoloInv'
  BY <1>1, <1>5 DEF Shutdown, ShutdownBegins, ShutdownCancels, ShutdownReports, ShutdownEnds, SoloInv
<1>6. ASSUME UNCHANGED vars PROVE SoloInv'
  BY <1>1, <1>6 DEF vars, SoloInv
<1> QED
  BY <1>2, <1>3, WorkSolo, <1>4, <1>5, <1>6 DEF Next

LEMMA InitSolo == Init => SoloInv
<1> SUFFICES ASSUME Init PROVE SoloInv
  OBVIOUS
<1>1. /\ \A w \in Workers : worker[w].job = None /\ ~worker[w].holds
      /\ \A s \in Segments : active[s] = None
      /\ \A p \in Providers : switch[p].jobs = {}
  BY LocalFields DEF Init, Ready, SwitchState
<1> QED
  BY <1>1 DEF SoloInv

-----------------------------------------------------------------------------
(* One translation service, which may be switched off or on *)

Held == ({worker[w].job : w \in Workers} \cup {active[s] : s \in Segments}
         \cup UNION {switch[p].jobs : p \in Providers}) \ {None}

LEMMA HeldMember == \A j : /\ j \in Held <=> InHand(j) /\ j # None
                           /\ j \in Held' <=> InHand(j)' /\ j # None
BY DEF Held, InHand

\* While the service is the current provider every attempt is at the current
\* submission of its caption; once it is off, nothing is queued.
ServiceInv ==
    /\ \A j \in Queued : j.provider # NoneProvider
    /\ \A j \in Held : j.provider # NoneProvider
    /\ provider # NoneProvider =>
        /\ \A p \in Providers : switch[p].jobs = {}
        /\ InService => \A w \in Workers : Attempting(w) =>
            rec[worker[w].job.seg].sub = worker[w].job.sub
            /\ rec[worker[w].job.seg].status = "translating"
    /\ provider = NoneProvider =>
        /\ Queued = {}
        /\ FirstProvider = NoneProvider => Held = {}
    /\ \A w \in Workers, s \in Segments :
        active[s] # None /\ worker[w].job # None /\ worker[w].job.seg = s
            => worker[w].job.sub <= active[s].sub
    /\ InService => Matched

\* An attempt at the current submission of its caption is matched.
LEMMA CurrentMatches ==
    ASSUME IInv', CallInv', \A p \in Providers : switch'[p].jobs = {},
           \A w \in Workers : Attempting(w)' => rec'[worker'[w].job.seg].sub = worker'[w].job.sub,
           \A w \in Workers, s \in Segments :
                active'[s] # None /\ worker'[w].job # None /\ worker'[w].job.seg = s
                    => worker'[w].job.sub <= active'[s].sub
    PROVE  Matched'
<1>0. TypeOK' /\ TypeInv'
  BY DEF IInv, TypeInv
<1>1. ASSUME NEW w \in Workers, Attempting(w)', NEW s \in Segments, active'[s] # None,
             worker'[w].job.seg = s
      PROVE  worker'[w].job = active'[s]
  <2>1. worker'[w].job # None
    BY <1>0, <1>1 DEF Attempting, TypeInv, HoldsJob
  <2>2. active'[s] \in Submitted' /\ worker'[w].job \in Submitted'
    BY <1>1, <2>1, HandledMember DEF Refers, Submitted
  <2>3. active'[s].seg = s
    BY <1>1 DEF CallInv
  <2>4. active'[s].sub <= rec'[s].sub
    BY <2>2, <2>3 DEF IInv, JobInv
  <2>5. worker'[w].job.sub <= active'[s].sub /\ worker'[w].job.sub = rec'[s].sub
    BY <1>1, <2>1
  <2>6. active'[s].sub \in Nat /\ rec'[s].sub \in Nat
    BY <1>0, <1>1 DEF Job, TypeOK, Record
  <2>7. worker'[w].job.sub = active'[s].sub
    BY <2>4, <2>5, <2>6
  <2> QED
    BY <1>1, <2>2, <2>3, <2>7 DEF IInv, JobInv
<1> QED
  BY <1>1 DEF Matched

\* A step of a worker attempts only the job the worker attempted before, or took.
LEMMA WorkAttempts ==
    ASSUME IInv, CallInv, NEW w \in Workers, Work(w) \/ Timeout(w), ~Take(w)
    PROVE  /\ Attempting(w)' => Attempting(w) /\ worker'[w].job = worker[w].job
           /\ \A v \in Workers \ {w} : worker'[v] = worker[v]
           /\ worker'[w].job \in {worker[w].job, None}
           /\ \A s \in Segments : active'[s] \in {active[s], None}
           /\ UNCHANGED <<queue, provider, switch, closing, waiting, cancelled>>
           /\ WorkForm(w)
<1>0. TypeInv /\ TypeOK /\ WorkFrame(w) /\ WorkForm(w) /\ Sound(w) /\ worker[w] \in WorkerState
  BY WorkForms, WorkKeepsFrame, HeldJob DEF IInv, TypeInv, WorkerInv
<1>1. ActorStep(w)
  BY <1>0, WorkIsActorStep
<1>2. Attempting(w)' => Attempting(w) /\ worker'[w].job = worker[w].job
  <2>1. CASE WaitsOn(w)
    <3>1. worker'[w].pc = worker[w].pc /\ worker'[w].job = worker[w].job
      BY <1>0, <2>1 DEF WaitsOn, WorkerState
    <3> QED
      BY <3>1 DEF Attempting
  <2>2. CASE Restarts(w) \/ BacksOff(w) \/ Emits(w)
    BY <2>2 DEF Restarts, BacksOff, Emits, Attempting
  <2>3. CASE Leaves(w) \/ Dies(w)
    BY <2>3, LocalFields DEF Leaves, Dies, Attempting
  <2> QED
    BY <1>0, <2>1, <2>2, <2>3 DEF WorkForm
<1>3. UNCHANGED <<queue, waiting>>
  BY <1>0 DEF WorkForm, WaitsOn, Restarts, BacksOff, Emits, Leaves, Dies
<1> QED
  BY <1>0, <1>1, <1>2, <1>3 DEF ActorStep, WorkFrame

LEMMA WorkService ==
    ASSUME IInv, IInv', House, House', ServiceInv, NEW w \in Workers, Work(w) \/ Timeout(w)
    PROVE  ServiceInv'
<1>0. TypeInv /\ TypeOK /\ CallInv /\ WorkFrame(w) /\ CallInv' /\ DropInv
  BY WorkKeepsFrame DEF IInv, TypeInv, House
<1>1. UNCHANGED <<provider, switch, closing>> /\ (InService' <=> InService)
  BY <1>0 DEF WorkFrame, InService
<1>2. CASE Take(w)
  <2> DEFINE k == Head(queue)
  <2>1. /\ k \in Job /\ k \in Queued /\ k.seg \in Segments
        /\ worker[w].pc = "idle" /\ worker[w].job = None
        /\ worker'[w] = Calling(k, 1)
        /\ active' = [active EXCEPT ![k.seg] = k]
        /\ rec' = IF rec[k.seg].sub = k.sub
                  THEN [rec EXCEPT ![k.seg].status = "translating"]
                  ELSE rec
    BY <1>0, <1>2, TakeForm
  <2>2. Queued' = Queued \ {k}
    BY <1>2, TakeQueued
  <2> HIDE DEF k
  <2>3. /\ worker'[w].job = k /\ worker'[w].pc = "calling"
        /\ \A v \in Workers \ {w} : worker'[v] = worker[v]
    BY <1>0, <2>1, LocalFields DEF WorkFrame
  <2>4. /\ rec[k.seg].sub = k.sub /\ rec[k.seg].status = "pending"
        /\ rec'[k.seg].sub = k.sub /\ rec'[k.seg].status = "translating"
        /\ \A s \in Segments \ {k.seg} : rec'[s] = rec[s]
    BY <1>0, <2>1 DEF IInv, QueueInv, TypeOK, Record
  <2>5. active'[k.seg] = k /\ \A s \in Segments \ {k.seg} : active'[s] = active[s]
    BY <1>0, <2>1 DEF TypeOK
  <2>6. provider # NoneProvider /\ k.provider # NoneProvider
    BY <2>1 DEF ServiceInv
  <2>7. \A j : InHand(j)' => InHand(j) \/ j = k
    BY <1>1, <2>3, <2>5 DEF InHand
  <2>8. \A j : InHand(j)' /\ j # None => j.provider # NoneProvider
    BY <2>6, <2>7, HeldMember DEF ServiceInv
  <2>9. ASSUME InService, NEW v \in Workers, Attempting(v)'
        PROVE  /\ rec'[worker'[v].job.seg].sub = worker'[v].job.sub
               /\ rec'[worker'[v].job.seg].status = "translating"
    <3>1. CASE v = w
      BY <2>3, <2>4, <3>1
    <3>2. CASE v # w
      <4>1. worker'[v] = worker[v] /\ Attempting(v) /\ worker[v].job.seg \in Segments
        BY <1>0, <2>3, <2>9, <3>2, HeldJob DEF Attempting, TypeInv, HoldsJob, Job
      <4>2. /\ rec[worker[v].job.seg].sub = worker[v].job.sub
            /\ rec[worker[v].job.seg].status = "translating"
        BY <2>6, <2>9, <4>1 DEF ServiceInv
      <4>3. worker[v].job.seg # k.seg
        BY <2>4, <4>2
      <4> QED
        BY <2>4, <4>1, <4>2, <4>3
    <3> QED
      BY <3>1, <3>2
  <2>10. ASSUME NEW v \in Workers, NEW s \in Segments, active'[s] # None,
                worker'[v].job # None, worker'[v].job.seg = s
         PROVE  worker'[v].job.sub <= active'[s].sub
    <3>1. CASE s = k.seg
      <4>1. worker'[v].job \in Submitted'
        BY <2>10, HandledMember DEF Refers, Submitted
      <4>2. worker'[v].job.sub <= rec'[s].sub
        BY <2>10, <4>1 DEF IInv, JobInv
      <4> QED
        BY <2>4, <2>5, <3>1, <4>2
    <3>2. CASE s # k.seg
      BY <2>1, <2>3, <2>5, <2>10, <3>2 DEF ServiceInv
    <3> QED
      BY <3>1, <3>2
  <2>11. \A p \in Providers : switch'[p].jobs = {}
    BY <1>1, <2>6 DEF ServiceInv
  <2>12. InService => Matched'
    BY <1>0, <2>9, <2>10, <2>11, CurrentMatches
  <2>13. \A j \in Queued' : j.provider # NoneProvider
    BY <2>2 DEF ServiceInv
  <2> QED
    BY <1>1, <2>6, <2>8, <2>9, <2>10, <2>11, <2>12, <2>13, HeldMember DEF ServiceInv
<1>3. CASE ~Take(w)
  <2>0. /\ Attempting(w)' => Attempting(w) /\ worker'[w].job = worker[w].job
        /\ \A v \in Workers \ {w} : worker'[v] = worker[v]
        /\ worker'[w].job \in {worker[w].job, None}
        /\ \A s \in Segments : active'[s] \in {active[s], None}
        /\ UNCHANGED queue /\ WorkForm(w)
    BY <1>0, <1>3, WorkAttempts
  <2>1. ActorStep(w)
    BY <1>0, <1>3, WorkIsActorStep DEF IInv, WorkerInv
  <2>2. Queued' = Queued
    BY <2>0 DEF Queued
  <2>3. \A j : j # None /\ InHand(j)' => InHand(j)
    BY <1>1, <2>0 DEF InHand
  <2>4. \A v \in Workers : Attempting(v)' => Attempting(v) /\ worker'[v].job = worker[v].job
    BY <2>0 DEF Attempting
  <2>5. ASSUME InService, provider # NoneProvider, NEW v \in Workers, Attempting(v)'
        PROVE  /\ rec'[worker'[v].job.seg].sub = worker'[v].job.sub
               /\ rec'[worker'[v].job.seg].status = "translating"
    <3> DEFINE j == worker[v].job
    <3>1. /\ worker'[v].job = j /\ Attempting(v) /\ j # None /\ j.seg \in Segments
          /\ j \in Submitted
      BY <1>0, <2>4, <2>5, HeldJob, HandledMember
         DEF Attempting, TypeInv, HoldsJob, Job, Refers, Submitted
    <3>2. rec[j.seg].sub = j.sub /\ rec[j.seg].status = "translating"
      BY <2>5, <3>1 DEF ServiceInv
    <3>3. CASE v = w
      <4>1. rec'[j.seg].sub = j.sub
        BY <2>1, <3>1, <3>2 DEF ActorStep
      <4>2. WaitsOn(w) \/ Restarts(w) \/ BacksOff(w)
        BY <2>0, <2>5, <3>3, LocalFields DEF WorkForm, Emits, Leaves, Dies, Attempting
      <4>3. rec'[j.seg].status = "translating"
        BY <1>0, <3>1, <3>2, <3>3, <4>2 DEF WaitsOn, Restarts, BacksOff, TypeOK, Record
      <4> QED
        BY <3>1, <4>1, <4>3
    <3>4. CASE v # w
      <4>1. rec'[j.seg] = rec[j.seg]
        <5>1. SUFFICES ASSUME rec'[j.seg] # rec[j.seg] PROVE FALSE
          OBVIOUS
        <5>2. /\ worker[w].job # None /\ j.seg = worker[w].job.seg
              /\ rec[j.seg].sub = worker[w].job.sub
          BY <2>1, <3>1, <5>1 DEF ActorStep
        <5>3. worker[w].job \in Submitted
          BY <5>2, HandledMember DEF Refers, Submitted
        <5>4. worker[w].job = j
          BY <3>1, <3>2, <5>2, <5>3 DEF IInv, JobInv
        <5> QED
          BY <3>1, <3>4, <5>4 DEF IInv, WorkerInv
      <4> QED
        BY <3>1, <3>2, <4>1
    <3> QED
      BY <3>3, <3>4
  <2>6. ASSUME NEW v \in Workers, NEW s \in Segments, active'[s] # None,
               worker'[v].job # None, worker'[v].job.seg = s
        PROVE  worker'[v].job.sub <= active'[s].sub
    BY <2>0, <2>6 DEF ServiceInv
  <2>7. InService => Matched'
    <3>1. Matched => Matched'
      BY <1>1, <2>0, <2>4 DEF Matched
    <3> QED
      BY <3>1 DEF ServiceInv
  <2>8. \A j : InHand(j)' /\ j # None => j.provider # NoneProvider
    BY <2>3, HeldMember DEF ServiceInv
  <2>9. provider = NoneProvider =>
            /\ Queued' = {}
            /\ FirstProvider = NoneProvider => \A j : InHand(j)' => j = None
    BY <2>2, <2>3, HeldMember DEF ServiceInv
  <2> QED
    BY <1>1, <2>2, <2>5, <2>6, <2>7, <2>8, <2>9, HeldMember DEF ServiceInv
<1> QED
  BY <1>2, <1>3

\* A submission only renews a caption that is not in progress.
LEMMA SubmitForm ==
    ASSUME TypeInv, CallInv, NEW s \in Segments, Submit(s)
    PROVE  /\ UNCHANGED <<cancelled, call, interrupt, active, activeCall, provider,
                          closedProviders, switch, closing, mixed>>
           /\ InService /\ InService'
           /\ \A w \in Workers : worker'[w].job = worker[w].job
           /\ \A w \in Workers : \/ worker'[w] = worker[w]
                                 \/ worker'[w] = Idle /\ worker[w].pc = "dead"
           /\ \A t \in Segments : rec'[t] = rec[t] \/ (t = s /\ rec[s].status \notin InProgress)
           /\ Enqueue(s) => provider # NoneProvider
<1>1. worker' = Revived /\ UNCHANGED submitFrame /\ InService /\ InService'
  BY SubmitFrame
<1>2. /\ \A w \in Workers : worker'[w].job = worker[w].job
      /\ \A w \in Workers : \/ worker'[w] = worker[w]
                            \/ worker'[w] = Idle /\ worker[w].pc = "dead"
  BY <1>1, RevivedKeepsJobs, RevivedFields
<1>3. rec' = rec \/ (Admissible(s) /\ \E status, result, error : Renewed(s, status, result, error))
  BY DEF Submit, Refuse, Skip, Disable, Overflow, Enqueue
<1>4. \A t \in Segments : rec'[t] = rec[t] \/ (t = s /\ rec[s].status \notin InProgress)
  BY <1>3 DEF Admissible, Renewed, TypeInv, TypeOK
<1> QED
  BY <1>1, <1>2, <1>4 DEF submitFrame, Enqueue

LEMMA SubmitService ==
    ASSUME IInv, House, ServiceInv, NEW s \in Segments, Submit(s)
    PROVE  ServiceInv'
<1>0. TypeInv /\ TypeOK /\ CallInv
  BY DEF IInv, TypeInv, House
<1>1. /\ UNCHANGED <<cancelled, call, interrupt, active, activeCall, provider,
                     closedProviders, switch, closing, mixed>>
      /\ InService /\ InService'
      /\ \A w \in Workers : worker'[w].job = worker[w].job
      /\ \A w \in Workers : \/ worker'[w] = worker[w]
                            \/ worker'[w] = Idle /\ worker[w].pc = "dead"
      /\ \A t \in Segments : rec'[t] = rec[t] \/ (t = s /\ rec[s].status \notin InProgress)
      /\ Enqueue(s) => provider # NoneProvider
  BY <1>0, SubmitForm
<1>2. \A v \in Workers : Attempting(v)' => Attempting(v) /\ worker'[v] = worker[v]
  BY <1>1, LocalFields DEF Attempting
<1>3. \A j : InHand(j)' <=> InHand(j)
  BY <1>1 DEF InHand
<1>4. /\ \A j \in Queued' : j.provider # NoneProvider
      /\ provider = NoneProvider => Queued' = Queued
  BY <1>0, <1>1, SubmitQueued, EnqueueQueued DEF NewJob, ServiceInv
<1>5. ASSUME provider # NoneProvider, NEW v \in Workers, Attempting(v)'
      PROVE  /\ rec'[worker'[v].job.seg].sub = worker'[v].job.sub
             /\ rec'[worker'[v].job.seg].status = "translating"
  <2>1. /\ Attempting(v) /\ worker'[v] = worker[v] /\ worker[v].job.seg \in Segments
    BY <1>0, <1>2, <1>5, HeldJob DEF Attempting, TypeInv, HoldsJob, Job
  <2>2. /\ rec[worker[v].job.seg].sub = worker[v].job.sub
        /\ rec[worker[v].job.seg].status = "translating"
    BY <1>1, <1>5, <2>1 DEF ServiceInv
  <2>3. rec'[worker[v].job.seg] = rec[worker[v].job.seg]
    BY <1>1, <2>1, <2>2 DEF InProgress
  <2> QED
    BY <2>1, <2>2, <2>3
<1>6. Matched => Matched'
  BY <1>1, <1>2 DEF Matched
<1> QED
  BY <1>1, <1>3, <1>4, <1>5, <1>6, HeldMember DEF ServiceInv

\* _finish_error of waiting jobs leaves the captions being translated alone.
LEMMA FailingWaiting ==
    ASSUME NEW J, \A j \in J : rec[j.seg].status = "pending",
           NEW s \in Segments, rec[s].status = "translating"
    PROVE  Failing(J, "cancelled")[s] = rec[s]
BY DEF Failing

LEMMA CancelService ==
    ASSUME IInv, House, ServiceInv, NEW s \in Segments, Cancel(s)
    PROVE  ServiceInv'
<1>0. TypeInv /\ TypeOK
  BY DEF IInv, TypeInv
<1> DEFINE removed == {j \in Queued : j.seg = s}
<1>1. /\ RemoveFromQueue(removed) /\ rec' = Failing(removed, "cancelled")
      /\ UNCHANGED <<worker, active, provider, switch, closing>>
  BY DEF Cancel, workerFrame
<1>2. Queued' = Queued \ removed
  BY <1>0, <1>1, RemoveKeepsOthers DEF TypeOK
<1>3. \A j \in removed : rec[j.seg].status = "pending"
  BY DEF IInv, QueueInv
<1> HIDE DEF removed
<1>4. ASSUME InService, provider # NoneProvider, NEW v \in Workers, Attempting(v)
      PROVE  /\ rec'[worker[v].job.seg].sub = worker[v].job.sub
             /\ rec'[worker[v].job.seg].status = "translating"
  <2>1. worker[v].job.seg \in Segments
    BY <1>0, <1>4, HeldJob DEF Attempting, TypeInv, HoldsJob, Job
  <2>2. /\ rec[worker[v].job.seg].sub = worker[v].job.sub
        /\ rec[worker[v].job.seg].status = "translating"
    BY <1>4 DEF ServiceInv
  <2> QED
    BY <1>1, <1>3, <2>1, <2>2, FailingWaiting
<1>5. /\ \A j : InHand(j)' <=> InHand(j)
      /\ InService' <=> InService
      /\ \A v \in Workers : Attempting(v)' <=> Attempting(v)
      /\ Matched' <=> Matched
  BY <1>1 DEF InHand, InService, Attempting, Matched
<1> QED
  BY <1>1, <1>2, <1>4, <1>5, HeldMember DEF ServiceInv

LEMMA SwitchService ==
    ASSUME OneService, IInv, House, ServiceInv, NEW p \in Providers, Switch(p)
    PROVE  ServiceInv'
<1>0. TypeInv /\ TypeOK /\ CallInv /\ RotationInv /\ DropInv
  BY DEF IInv, TypeInv, House
<1>1. /\ UNCHANGED <<worker, active, closing>>
      /\ \A q \in Providers \ {p} : switch'[q] = switch[q]
  BY <1>0, SwitchForms
<1>2. /\ InService' <=> InService
      /\ \A v \in Workers : Attempting(v)' <=> Attempting(v)
  BY <1>1 DEF InService, Attempting
<1>3. ASSUME switch'[p].jobs \subseteq switch[p].jobs, provider' = provider, Queued' = Queued,
             \/ provider = NoneProvider
             \/ rec' = rec
             \/ \E j \in switch[p].removed : rec' = Failing({j}, "cancelled")
      PROVE  ServiceInv'
  <2>1. \A q \in Providers : switch'[q].jobs \subseteq switch[q].jobs
    BY <1>1, <1>3
  <2>2. \A j : InHand(j)' => InHand(j)
    BY <1>1, <2>1 DEF InHand
  <2>3. Matched => Matched'
    BY <1>1, <1>2, <2>1 DEF Matched
  <2>4. ASSUME InService, provider # NoneProvider, NEW v \in Workers, Attempting(v)
        PROVE  /\ rec'[worker[v].job.seg].sub = worker[v].job.sub
               /\ rec'[worker[v].job.seg].status = "translating"
    <3>1. worker[v].job.seg \in Segments
      BY <1>0, <2>4, HeldJob DEF Attempting, TypeInv, HoldsJob, Job
    <3>2. /\ rec[worker[v].job.seg].sub = worker[v].job.sub
          /\ rec[worker[v].job.seg].status = "translating"
      BY <2>4 DEF ServiceInv
    <3>3. rec' = rec \/ \E j \in switch[p].removed : rec' = Failing({j}, "cancelled")
      BY <1>3, <2>4
    <3>4. \A j \in switch[p].removed : rec[j.seg].status = "pending"
      BY <1>0, <2>4 DEF DropInv
    <3>5. ASSUME NEW j \in switch[p].removed
          PROVE  Failing({j}, "cancelled")[worker[v].job.seg] = rec[worker[v].job.seg]
      <4>1. \A k \in {j} : rec[k.seg].status = "pending"
        BY <3>4
      <4> QED
        BY <3>1, <3>2, <4>1, FailingWaiting
    <3> QED
      BY <3>2, <3>3, <3>5
  <2> QED
    BY <1>1, <1>2, <1>3, <2>1, <2>2, <2>3, <2>4, HeldMember DEF ServiceInv
<1>4. CASE /\ switch[p].pc = "ready" /\ p # FirstProvider /\ closing.phase = "no"
           /\ provider' = p /\ Queued' = Queued \ Taken
           /\ CancelJobs(p, Switching(provider, Running, {}, Taken))
  <2>1. provider # p
    BY <1>0, <1>4 DEF RotationInv, Installed
  <2>2. Queued' = {}
    BY <1>0, <1>4 DEF RotationInv, Taken
  <2>3. switch'[p].jobs \subseteq Running
    <3> DEFINE old == provider  jobs == Running  calls == {}  removed == Taken
    <3>1. CancelJobs(p, Switching(old, jobs, calls, removed))
      BY <1>4
    <3> HIDE DEF old, jobs, calls, removed
    <3>2. \E done \in SUBSET jobs : switch'[p].jobs = jobs \ done
      BY <1>0, <3>1, CancelJobsForm
    <3>3. switch'[p].jobs \subseteq jobs
      BY <3>2
    <3> QED
      BY <3>3 DEF jobs
  <2>4. \A j \in Running : j \in Job /\ active[j.seg] = j /\ j.seg \in Segments
    BY <1>0, QueuedType DEF Running, CallInv
  <2>5. \A j : InHand(j)' => InHand(j)
    BY <1>1, <2>3, <2>4 DEF InHand
  <2>6. provider \in Providers /\ FirstProvider \in Providers
    BY <1>0, TranslationAssumption DEF TypeOK
  <2>7. CASE provider # NoneProvider
    <3>1. p = NoneProvider
      BY <2>1, <2>6, <2>7 DEF OneService
    <3>2. \A q \in Providers \ {p} : switch'[q].jobs = {}
      BY <1>1, <2>7 DEF ServiceInv
    <3>3. Matched => Matched'
      <4>1. ASSUME Matched, NEW v \in Workers, Attempting(v), NEW j \in Running,
                   worker[v].job.seg = j.seg
            PROVE  worker[v].job = j
        BY <4>1, <2>4, NoneAssumption DEF Matched
      <4> QED
        BY <1>1, <1>2, <2>3, <3>2, <4>1 DEF Matched
    <3> QED
      BY <1>1, <1>2, <1>4, <2>2, <2>5, <3>1, <3>3, HeldMember DEF ServiceInv
  <2>8. CASE provider = NoneProvider
    <3>1. FirstProvider = NoneProvider
      BY <1>4, <2>1, <2>6, <2>8 DEF OneService
    <3>2. \A j : InHand(j) => j = None
      BY <2>8, <3>1, HeldMember DEF ServiceInv
    <3>3. \A q \in Providers : switch'[q].jobs = {}
      <4>1. \A q \in Providers : \A j \in switch'[q].jobs : j = None
        BY <2>5, <3>2 DEF InHand
      <4>2. \A q \in Providers : switch'[q].jobs \subseteq Job
        <5>1. ASSUME NEW q \in Providers, q # p PROVE switch'[q].jobs \subseteq Job
          BY <1>0, <1>1, <5>1, SwitchFields
        <5> QED
          BY <2>3, <2>4, <5>1
      <4> QED
        BY <4>1, <4>2, NoneAssumption
    <3>4. \A v \in Workers : worker[v].job = None /\ ~Attempting(v)
      BY <1>0, <3>2 DEF InHand, Attempting, TypeInv, HoldsJob
    <3>5. Matched'
      BY <1>2, <3>3, <3>4 DEF Matched
    <3> QED
      BY <1>1, <1>2, <1>4, <2>1, <2>2, <2>5, <2>8, <3>2, <3>3, <3>4, <3>5, HeldMember DEF ServiceInv
  <2> QED
    BY <2>7, <2>8
<1>5. CASE /\ switch[p].pc = "switching" /\ switch[p].jobs # {}
           /\ UNCHANGED <<queue, provider>>
           /\ CancelJobs(p, Switching(switch[p].old, switch[p].jobs, switch[p].calls,
                                      switch[p].removed))
  <2>1. provider = NoneProvider
    BY <1>5 DEF ServiceInv
  <2>2. switch'[p].jobs \subseteq switch[p].jobs
    <3> DEFINE old == switch[p].old  jobs == switch[p].jobs  calls == switch[p].calls
               removed == switch[p].removed
    <3>1. CancelJobs(p, Switching(old, jobs, calls, removed))
      BY <1>5
    <3> HIDE DEF old, jobs, calls, removed
    <3>2. \E done \in SUBSET jobs : switch'[p].jobs = jobs \ done
      BY <1>0, <3>1, CancelJobsForm
    <3>3. switch'[p].jobs \subseteq jobs
      BY <3>2
    <3> QED
      BY <3>3 DEF jobs
  <2> QED
    BY <1>3, <1>5, <2>1, <2>2 DEF Queued
<1>6. CASE /\ UNCHANGED <<queue, provider>>
           /\ \E j \in switch[p].removed :
                /\ rec' = Failing({j}, "cancelled")
                /\ switch'[p] = Switching(switch[p].old, {}, {}, switch[p].removed \ {j})
  <2>1. switch'[p].jobs = {}
    BY <1>6, SwitchingFields
  <2> QED
    BY <1>3, <1>6, <2>1 DEF Queued
<1>7. CASE UNCHANGED <<rec, queue, provider>> /\ switch'[p] = Done
  <2>1. switch'[p].jobs = {}
    BY <1>7 DEF Done, SwitchState
  <2> QED
    BY <1>3, <1>7, <2>1 DEF Queued
<1> QED
  BY <1>0, <1>4, <1>5, <1>6, <1>7, SwitchForms

LEMMA ShutdownService ==
    ASSUME IInv, House, ServiceInv, Shutdown
    PROVE  ServiceInv'
<1>0. TypeOK
  BY DEF IInv, TypeInv
<1>1. /\ UNCHANGED <<worker, active, provider, switch>>
      /\ queue' = queue \/ queue' = << >>
      /\ InService' => InService /\ UNCHANGED <<rec, queue>>
  <2>1. \/ ShutdownBegins
        \/ ~InService' /\ (ShutdownCancels \/ ShutdownReports \/ ShutdownEnds)
    BY <1>0, ShutdownForms DEF InService
  <2> QED
    BY <2>1 DEF ShutdownBegins, ShutdownCancels, ShutdownReports, ShutdownEnds, InService
<1>2. /\ \A j : InHand(j)' <=> InHand(j)
      /\ \A v \in Workers : Attempting(v)' <=> Attempting(v)
      /\ Matched' <=> Matched
  BY <1>1 DEF InHand, Attempting, Matched
<1>3. Queued' \subseteq Queued
  BY <1>1 DEF Queued
<1> QED
  BY <1>1, <1>2, <1>3, HeldMember DEF ServiceInv

LEMMA NextService ==
    ASSUME OneService, IInv, House, ServiceInv, [Next]_vars
    PROVE  ServiceInv'
<1>0. IInv' /\ House'
  BY NextInv, NextHouse
<1>1. ASSUME UNCHANGED vars PROVE ServiceInv'
  <2>1. UNCHANGED <<rec, queue, worker, active, provider, switch, closing>>
    BY <1>1 DEF vars
  <2>2. /\ Queued' = Queued /\ (InService' <=> InService)
        /\ \A j : InHand(j)' <=> InHand(j)
        /\ \A v \in Workers : Attempting(v)' <=> Attempting(v)
        /\ Matched' <=> Matched
    BY <2>1 DEF Queued, InHand, Attempting, Matched, InService
  <2> QED
    BY <2>1, <2>2, HeldMember DEF ServiceInv
<1>2. ASSUME NEW s \in Segments, Submit(s) \/ Cancel(s) PROVE ServiceInv'
  BY <1>2, SubmitService, CancelService
<1>3. ASSUME NEW w \in Workers, Work(w) \/ Timeout(w) PROVE ServiceInv'
  BY <1>0, <1>3, WorkService
<1> QED
  BY <1>1, <1>2, <1>3, SwitchService, ShutdownService DEF Next

LEMMA InitService == Init => ServiceInv
<1> SUFFICES ASSUME Init PROVE ServiceInv
  OBVIOUS
<1>1. /\ Queued = {}
      /\ \A w \in Workers : worker[w].job = None /\ ~Attempting(w)
      /\ \A s \in Segments : active[s] = None
      /\ \A p \in Providers : switch[p].jobs = {}
  BY DEF Init, Queued, Idle, Local, Attempting, Ready, SwitchState
<1>2. \A j : InHand(j) => j = None
  BY <1>1 DEF InHand
<1> QED
  BY <1>1, <1>2, HeldMember DEF ServiceInv, Matched

-----------------------------------------------------------------------------
(* Any number of workers: a caption that was never in two hands *)

\* The worker of a caption that is not mixed is its only one, and the entries of
\* the dictionaries are that worker's.
HandsInv ==
    /\ \A v, w \in Workers :
        /\ worker[v].job # None /\ worker[w].job # None
        /\ worker[v].job.seg = worker[w].job.seg /\ worker[w].job.seg \notin mixed
        => v = w
    /\ \A w \in Workers : worker[w].job # None /\ worker[w].job.seg \notin mixed =>
        /\ active[worker[w].job.seg] = worker[w].job
        /\ worker[w].holds => activeCall[worker[w].job.seg] = w
    /\ \A s \in Segments \ mixed :
        active[s] # None => \E w \in Workers : active[s] = worker[w].job

\* Nothing is ever taken out of mixed, and only two steps add to it.
LEMMA MixedSteps ==
    ASSUME IInv, CallInv, [Next]_vars
    PROVE  /\ mixed \subseteq mixed'
           /\ \A w \in Workers : (Work(w) \/ Timeout(w)) /\ ~Take(w) => mixed' = mixed
<1>0. TypeInv
  BY DEF IInv
<1>1. ASSUME NEW s \in Segments, Submit(s) \/ Cancel(s) PROVE mixed' = mixed
  BY <1>0, <1>1, SubmitFrame DEF Cancel, submitFrame
<1>2. ASSUME NEW w \in Workers, Work(w) \/ Timeout(w), ~Take(w) PROVE mixed' = mixed
  BY <1>2, WorkForms DEF WorkForm, WaitsOn, Restarts, BacksOff, Emits, Leaves, Dies
<1>3. ASSUME NEW w \in Workers, Take(w) PROVE mixed \subseteq mixed'
  BY <1>3 DEF Take
<1>4. ASSUME NEW p \in Providers, Switch(p) PROVE mixed \subseteq mixed'
  BY <1>4 DEF Switch, SwitchBegins, SwitchCancels, SwitchDrops, SwitchCloses, CancelJobs
<1>5. ASSUME Shutdown PROVE mixed' = mixed
  BY <1>5 DEF Shutdown, ShutdownBegins, ShutdownCancels, ShutdownReports, ShutdownEnds
<1>6. ASSUME UNCHANGED vars PROVE mixed' = mixed
  BY <1>6 DEF vars
<1>7. mixed \subseteq mixed'
  BY <1>1, <1>2, <1>3, <1>4, <1>5, <1>6 DEF Next
<1> QED
  BY <1>2, <1>7

\* A step that leaves the workers' jobs and the dictionaries alone.
LEMMA QuietHands ==
    ASSUME HandsInv, mixed \subseteq mixed', UNCHANGED <<active, activeCall>>,
           \A w \in Workers : worker'[w].job = worker[w].job
                              /\ (worker'[w].holds => worker[w].holds)
    PROVE  HandsInv'
BY DEF HandsInv

LEMMA TakeHands ==
    ASSUME IInv, House, HandsInv, NEW w \in Workers, Take(w)
    PROVE  HandsInv'
<1> DEFINE k == Head(queue)
<1>0. TypeInv /\ TypeOK /\ CallInv /\ WorkFrame(w)
  BY WorkKeepsFrame DEF IInv, TypeInv, House, Work
<1>1. /\ k \in Job /\ k.seg \in Segments /\ worker[w].job = None
      /\ worker'[w] = Calling(k, 1)
      /\ active' = [active EXCEPT ![k.seg] = k]
      /\ activeCall' = [activeCall EXCEPT ![k.seg] = w]
      /\ mixed' = mixed \cup ({k.seg} \cap InHands)
  BY <1>0, TakeForm
<1> HIDE DEF k
<1>2. worker'[w].job = k /\ k # None
  BY <1>1, LocalFields, NoneAssumption
<1>3. ASSUME NEW v \in Workers, v # w, worker[v].job # None, worker[v].job.seg = k.seg
      PROVE  k.seg \in mixed'
  <2>1. Working(v)
    BY <1>0, <1>3 DEF TypeInv, HoldsJob, Working
  <2> QED
    BY <1>1, <1>3, <2>1 DEF InHands
<1>4. \A v \in Workers \ {w} : worker'[v] = worker[v]
  BY <1>0 DEF WorkFrame
<1>5. ASSUME NEW u \in Workers, NEW v \in Workers, worker'[u].job # None, worker'[v].job # None,
             worker'[u].job.seg = worker'[v].job.seg, worker'[v].job.seg \notin mixed'
      PROVE  u = v
  BY <1>1, <1>2, <1>3, <1>4, <1>5 DEF HandsInv
<1>6. ASSUME NEW v \in Workers, worker'[v].job # None, worker'[v].job.seg \notin mixed'
      PROVE  /\ active'[worker'[v].job.seg] = worker'[v].job
             /\ worker'[v].holds => activeCall'[worker'[v].job.seg] = v
  <2>1. CASE v = w
    BY <1>0, <1>1, <1>2, <2>1 DEF TypeOK
  <2>2. CASE v # w
    <3>1. /\ worker'[v] = worker[v] /\ worker[v].job.seg # k.seg
          /\ worker[v].job.seg \notin mixed
      BY <1>1, <1>3, <1>4, <1>6, <2>2
    <3>2. worker[v].job.seg \in Segments
      BY <1>0, <1>6, <3>1, HeldJob DEF Job
    <3> QED
      BY <1>0, <1>1, <1>6, <3>1, <3>2 DEF HandsInv, TypeOK
  <2> QED
    BY <2>1, <2>2
<1>7. ASSUME NEW s \in Segments \ mixed', active'[s] # None
      PROVE  \E v \in Workers : active'[s] = worker'[v].job
  <2>1. CASE s = k.seg
    BY <1>0, <1>1, <1>2, <2>1 DEF TypeOK
  <2>2. CASE s # k.seg
    <3>1. active'[s] = active[s] /\ s \notin mixed
      BY <1>0, <1>1, <1>7, <2>2 DEF TypeOK
    <3>2. PICK v \in Workers : active[s] = worker[v].job
      BY <1>7, <3>1 DEF HandsInv
    <3>3. v # w
      BY <1>1, <1>7, <3>1, <3>2
    <3> QED
      BY <1>4, <3>1, <3>2, <3>3
  <2> QED
    BY <2>1, <2>2
<1> QED
  BY <1>5, <1>6, <1>7 DEF HandsInv

LEMMA WorkHands ==
    ASSUME IInv, House, HandsInv, NEW w \in Workers, Work(w) \/ Timeout(w), ~Take(w)
    PROVE  HandsInv'
<1> DEFINE j == worker[w].job
<1>0. TypeInv /\ TypeOK /\ CallInv /\ WorkFrame(w) /\ worker[w] \in WorkerState
      /\ WorkForm(w) /\ mixed' = mixed
  BY WorkKeepsFrame, HeldJob, WorkForms, MixedSteps DEF IInv, TypeInv, House, Next
<1>1. \A v \in Workers \ {w} : worker'[v] = worker[v]
  BY <1>0 DEF WorkFrame
<1>2. \A v \in Workers : worker[v].job # None => worker[v].job \in Job /\ worker[v].job.seg \in Segments
  BY <1>0, HeldJob DEF Job
<1>3. worker[w].pc \in {"calling", "backoff", "emitting"} => j # None
  BY <1>0 DEF TypeInv, HoldsJob
<1>4. CASE WaitsOn(w)
  <2>1. worker'[w].holds = worker[w].holds /\ worker'[w].job = worker[w].job
        /\ UNCHANGED <<active, activeCall>>
    BY <1>0, <1>4 DEF WaitsOn, WorkerState
  <2>2. \A v \in Workers : worker'[v].job = worker[v].job /\ (worker'[v].holds => worker[v].holds)
    BY <1>1, <2>1
  <2> QED
    BY <1>0, <2>1, <2>2, QuietHands
<1>5. CASE Emits(w)
  <2>1. /\ worker'[w].job = j /\ UNCHANGED active /\ j # None
        /\ worker'[w].holds => UNCHANGED activeCall /\ worker[w].holds
        /\ \A s \in Segments : s # j.seg => activeCall'[s] = activeCall[s]
    BY <1>0, <1>2, <1>3, <1>5 DEF Emits, CallInv, TypeOK
  <2>2. \A v \in Workers : worker'[v].job = worker[v].job
    BY <1>1, <2>1
  <2>3. ASSUME NEW v \in Workers, worker[v].job # None, worker[v].job.seg \notin mixed, worker'[v].holds
        PROVE  activeCall'[worker[v].job.seg] = v
    <3>1. CASE v = w
      BY <2>1, <2>3, <3>1 DEF HandsInv
    <3>2. CASE v # w
      <4>1. worker[v].job.seg # j.seg /\ worker[v].job.seg \in Segments /\ worker[v].holds
        BY <1>1, <1>2, <2>1, <2>3, <3>2 DEF HandsInv
      <4> QED
        BY <2>1, <2>3, <4>1 DEF HandsInv
    <3> QED
      BY <3>1, <3>2
  <2> QED
    BY <1>0, <2>1, <2>2, <2>3 DEF HandsInv
<1>6. CASE Restarts(w) \/ BacksOff(w)
  <2>1. /\ worker'[w].job = j /\ UNCHANGED active /\ j # None
        /\ worker'[w].holds => activeCall'[j.seg] = w
        /\ \A s \in Segments : s # j.seg => activeCall'[s] = activeCall[s]
    BY <1>0, <1>2, <1>3, <1>6 DEF Restarts, BacksOff, TypeOK
  <2>2. \A v \in Workers : worker'[v].job = worker[v].job
    BY <1>1, <2>1
  <2>3. ASSUME NEW v \in Workers, worker[v].job # None, worker[v].job.seg \notin mixed, worker'[v].holds
        PROVE  activeCall'[worker[v].job.seg] = v
    <3>1. CASE v = w
      BY <2>1, <2>3, <3>1 DEF HandsInv
    <3>2. CASE v # w
      <4>1. worker[v].job.seg # j.seg /\ worker[v].job.seg \in Segments /\ worker[v].holds
        BY <1>1, <1>2, <2>1, <2>3, <3>2 DEF HandsInv
      <4> QED
        BY <2>1, <2>3, <4>1 DEF HandsInv
    <3> QED
      BY <3>1, <3>2
  <2> QED
    BY <1>0, <2>1, <2>2, <2>3 DEF HandsInv
<1>7. CASE Leaves(w)
  <2>1. /\ worker'[w].job = None /\ ~worker'[w].holds /\ j # None /\ j.seg \in Segments
        /\ active'[j.seg] = None
        /\ \A s \in Segments : s # j.seg => activeCall'[s] = activeCall[s] /\ active'[s] = active[s]
    BY <1>0, <1>2, <1>3, <1>7, LocalFields DEF Leaves, TypeOK
  <2>2. ASSUME NEW v \in Workers, worker'[v].job # None, worker'[v].job.seg \notin mixed
        PROVE  v # w /\ worker'[v] = worker[v] /\ worker[v].job.seg # j.seg
               /\ worker[v].job.seg \in Segments
    BY <1>1, <1>2, <2>1, <2>2 DEF HandsInv
  <2>3. ASSUME NEW s \in Segments \ mixed, active'[s] # None
        PROVE  \E v \in Workers : active'[s] = worker'[v].job
    <3>1. s # j.seg /\ active'[s] = active[s]
      BY <2>1, <2>3
    <3>2. PICK v \in Workers : active[s] = worker[v].job
      BY <2>3, <3>1 DEF HandsInv
    <3>3. v # w
      BY <1>0, <2>3, <3>1, <3>2 DEF CallInv
    <3> QED
      BY <1>1, <3>1, <3>2, <3>3
  <2>4. \A v \in Workers : worker'[v].job # None => worker'[v] = worker[v]
    BY <1>1, <2>1
  <2> QED
    BY <1>0, <2>1, <2>2, <2>3, <2>4 DEF HandsInv
<1>8. CASE Dies(w)
  <2>1. \A v \in Workers : worker'[v].job = worker[v].job /\ (worker'[v].holds => worker[v].holds)
    BY <1>0, <1>1, <1>8, LocalFields DEF Dies, TypeInv, HoldsJob
  <2> QED
    BY <1>0, <1>8, <2>1, QuietHands DEF Dies
<1> QED
  BY <1>0, <1>4, <1>5, <1>6, <1>7, <1>8 DEF WorkForm

LEMMA NextHands ==
    ASSUME IInv, House, HandsInv, [Next]_vars
    PROVE  HandsInv'
<1>0. TypeInv /\ TypeOK /\ CallInv /\ mixed \subseteq mixed'
  BY MixedSteps DEF IInv, TypeInv, House
<1>1. ASSUME UNCHANGED <<worker, active, activeCall>> PROVE HandsInv'
  BY <1>0, <1>1, QuietHands
<1>2. ASSUME NEW s \in Segments, Submit(s) PROVE HandsInv'
  <2>1. worker' = Revived /\ UNCHANGED <<active, activeCall>>
    BY <1>2, SubmitFrame DEF submitFrame
  <2>2. \A w \in Workers : worker'[w].job = worker[w].job /\ (worker'[w].holds => worker[w].holds)
    BY <1>0, <2>1, RevivedFields, LocalFields
  <2> QED
    BY <1>0, <2>1, <2>2, QuietHands
<1>3. ASSUME NEW s \in Segments, Cancel(s) PROVE HandsInv'
  BY <1>1, <1>3 DEF Cancel, workerFrame
<1>4. ASSUME NEW w \in Workers, Work(w) \/ Timeout(w) PROVE HandsInv'
  BY <1>4, TakeHands, WorkHands
<1>5. ASSUME NEW p \in Providers, Switch(p) PROVE HandsInv'
  BY <1>0, <1>1, <1>5, SwitchForms
<1>6. ASSUME Shutdown PROVE HandsInv'
  BY <1>1, <1>6 DEF Shutdown, ShutdownBegins, ShutdownCancels, ShutdownReports, ShutdownEnds
<1>7. ASSUME UNCHANGED vars PROVE HandsInv'
  BY <1>1, <1>7 DEF vars
<1> QED
  BY <1>2, <1>3, <1>4, <1>5, <1>6, <1>7 DEF Next

LEMMA InitHands == Init => HandsInv
<1> SUFFICES ASSUME Init PROVE HandsInv
  OBVIOUS
<1>1. /\ \A w \in Workers : worker[w].job = None /\ ~worker[w].holds
      /\ \A s \in Segments : active[s] = None
  BY LocalFields DEF Init
<1> QED
  BY <1>1 DEF HandsInv

-----------------------------------------------------------------------------
(* While the application runs, whoever settles a caption is still there *)

\* NothingLost, of the captions S.
LostNothing(S) ==
    closing.phase \in {"no", "joining"} =>
    \A s \in S :
        /\ rec[s].status = "pending" =>
            \E j \in Queued \cup Dropped : j.seg = s /\ j.sub = rec[s].sub
        /\ rec[s].status = "translating" =>
            \E w \in Workers : /\ worker[w].pc \in {"calling", "backoff"}
                               /\ worker[w].job.seg = s /\ worker[w].job.sub = rec[s].sub

\* The call of a worker at a caption of S is cancelled on behalf of the job that
\* worker has.
TendedOn(S) ==
    InService =>
        /\ \A w \in Workers :
            (call[w] = "cancelled" \/ (call[w] = "cancelling" /\ ~worker[w].timedOut))
            /\ worker[w].job.seg \in S
                => worker[w].job \in cancelled
        /\ LostNothing(S)

TendedInv == TendedOn(Segments)

\* A call found through _active_calls is that of the job that is cancelled, where
\* the entries match.
LEMMA CallsMatch ==
    ASSUME TypeInv, CallInv, Matched, NEW J \in SUBSET Job,
           \A j \in J : j = active[j.seg] \/ \E p \in Providers : j \in switch[p].jobs,
           NEW w \in CallsOf(J), call[w] = "running"
    PROVE  w \in Workers /\ worker[w].job \in J
<1>1. PICK j \in J : activeCall[j.seg] = w /\ w # None
  BY DEF CallsOf
<1>2. j \in Job /\ j.seg \in Segments /\ j # None
  BY NoneAssumption DEF Job
<1>3. w \in Workers
  BY <1>1, <1>2 DEF TypeInv, TypeOK
<1>4. worker[w].job.seg = j.seg /\ Attempting(w)
  BY <1>1, <1>2, <1>3 DEF CallInv, Attempting
<1>5. worker[w].job = j
  BY <1>2, <1>3, <1>4 DEF Matched
<1> QED
  BY <1>3, <1>5

\* Cancelling the calls of the jobs J keeps the first part of TendedOn, where they
\* are calls of those jobs.
LEMMA CallsTended ==
    ASSUME NEW S, TendedOn(S), InService, NEW J,
           \A w \in Workers : w \in CallsOf(J) /\ call[w] = "running" /\ worker[w].job.seg \in S
                                => worker[w].job \in J,
           call' = Cancelling(CallsOf(J)), UNCHANGED worker,
           cancelled \cup J \subseteq cancelled'
    PROVE  \A w \in Workers :
              (call'[w] = "cancelled" \/ (call'[w] = "cancelling" /\ ~worker'[w].timedOut))
              /\ worker'[w].job.seg \in S
                  => worker'[w].job \in cancelled'
<1> SUFFICES ASSUME NEW w \in Workers, worker[w].job.seg \in S,
                    call'[w] = "cancelled" \/ (call'[w] = "cancelling" /\ ~worker[w].timedOut)
             PROVE  worker[w].job \in cancelled'
  OBVIOUS
<1>1. call'[w] = call[w] \/ (w \in CallsOf(J) /\ call[w] = "running")
  BY DEF Cancelling
<1>2. CASE call'[w] = call[w]
  BY <1>2 DEF TendedOn
<1>3. CASE w \in CallsOf(J) /\ call[w] = "running"
  BY <1>3
<1> QED
  BY <1>1, <1>2, <1>3

\* _finish_error takes the captions of J out of progress and leaves the others.
LEMMA FailingForm ==
    ASSUME NEW J, NEW s \in Segments
    PROVE  /\ \/ Failing(J, "cancelled")[s] = rec[s]
              \/ /\ Failing(J, "cancelled")[s].status = "cancelled"
                 /\ Failing(J, "cancelled")[s].sub = rec[s].sub
                 /\ Failing(J, "cancelled")[s].result = rec[s].result
                 /\ \E j \in J : j.seg = s /\ rec[s].sub = j.sub
           /\ \A j \in J : j.seg = s /\ rec[s].sub = j.sub /\ rec[s].status \in InProgress
                => Failing(J, "cancelled")[s].status \notin InProgress
BY DEF Failing, Reportable, InProgress

\* A step that only cancels: a job that leaves the backlog is reported.
LEMMA ReportedBacklog ==
    ASSUME NEW S \in SUBSET Segments, LostNothing(S), InService, NEW J, rec' = Failing(J, "cancelled"),
           UNCHANGED worker, \A j \in Backlog : j \in Backlog' \/ j \in J
    PROVE  LostNothing(S)'
<1>1. ASSUME NEW s \in Segments, rec'[s].status \in InProgress PROVE rec'[s] = rec[s]
  BY <1>1, FailingForm DEF InProgress
<1>2. ASSUME NEW s \in S, rec'[s].status = "pending"
      PROVE  \E j \in Queued' \cup Dropped' : j.seg = s /\ j.sub = rec'[s].sub
  <2>1. rec'[s] = rec[s]
    BY <1>1, <1>2 DEF InProgress
  <2>2. PICK j \in Backlog : j.seg = s /\ j.sub = rec[s].sub
    BY <1>2, <2>1 DEF LostNothing, InService, Backlog
  <2>3. j \notin J
    BY <1>2, <2>1, <2>2, FailingForm DEF InProgress
  <2> QED
    BY <2>1, <2>2, <2>3 DEF Backlog
<1>3. ASSUME NEW s \in S, rec'[s].status = "translating"
      PROVE  \E w \in Workers : /\ worker'[w].pc \in {"calling", "backoff"}
                                /\ worker'[w].job.seg = s /\ worker'[w].job.sub = rec'[s].sub
  <2>1. rec'[s] = rec[s]
    BY <1>1, <1>3 DEF InProgress
  <2> QED
    BY <1>3, <2>1 DEF LostNothing, InService
<1> QED
  BY <1>2, <1>3 DEF LostNothing

LEMMA SubmitTended ==
    ASSUME NEW S \in SUBSET Segments, IInv, CallInv, TendedOn(S), NEW s \in Segments, Submit(s)
    PROVE  TendedOn(S)'
<1>0. TypeInv /\ TypeOK
  BY DEF IInv, TypeInv
<1>1. /\ UNCHANGED <<cancelled, call, switch, closing>>
      /\ InService /\ InService'
      /\ \A w \in Workers : worker'[w].job = worker[w].job
      /\ \A w \in Workers : \/ worker'[w] = worker[w]
                            \/ worker'[w] = Idle /\ worker[w].pc = "dead"
      /\ \A t \in Segments : rec'[t] = rec[t] \/ (t = s /\ rec[s].status \notin InProgress)
  BY <1>0, SubmitForm
<1>2. \A w \in Workers : call[w] # "none" => worker'[w] = worker[w]
  BY <1>1 DEF CallInv
<1>3. LostNothing(S)
  BY <1>1 DEF TendedOn
<1>4. Dropped' = Dropped
  BY <1>1 DEF Dropped
<1>5. Queued \subseteq Queued' /\ (Enqueue(s) => NewJob(s) \in Queued')
  BY <1>0, SubmitQueued, EnqueueQueued
<1>6. rec'[s] # rec[s] /\ rec'[s].status \in InProgress
        => Enqueue(s) /\ rec'[s].status = "pending" /\ rec'[s].sub = rec[s].sub + 1
  BY <1>0 DEF Submit, Refuse, Skip, Disable, Overflow, Enqueue, Renewed, InProgress, TypeOK
<1>7. ASSUME NEW t \in S, rec'[t].status = "pending"
      PROVE  \E j \in Queued' \cup Dropped' : j.seg = t /\ j.sub = rec'[t].sub
  <2>1. CASE rec'[t] = rec[t]
    BY <1>1, <1>3, <1>4, <1>5, <1>7, <2>1 DEF LostNothing, InService
  <2>2. CASE rec'[t] # rec[t]
    BY <1>1, <1>5, <1>6, <1>7, <2>2 DEF InProgress, NewJob
  <2> QED
    BY <2>1, <2>2
<1>8. ASSUME NEW t \in S, rec'[t].status = "translating"
      PROVE  \E w \in Workers : /\ worker'[w].pc \in {"calling", "backoff"}
                                /\ worker'[w].job.seg = t /\ worker'[w].job.sub = rec'[t].sub
  <2>1. rec'[t] = rec[t]
    BY <1>1, <1>6, <1>8 DEF InProgress
  <2>2. PICK w \in Workers : /\ worker[w].pc \in {"calling", "backoff"}
                             /\ worker[w].job.seg = t /\ worker[w].job.sub = rec[t].sub
    BY <1>1, <1>3, <1>8, <2>1 DEF LostNothing, InService
  <2>3. worker'[w] = worker[w]
    BY <1>1, <2>2
  <2> QED
    BY <2>1, <2>2, <2>3
<1>9. LostNothing(S)'
  BY <1>7, <1>8 DEF LostNothing
<1>10. \A w \in Workers :
          (call'[w] = "cancelled" \/ (call'[w] = "cancelling" /\ ~worker'[w].timedOut))
          /\ worker'[w].job.seg \in S
              => worker'[w].job \in cancelled'
  BY <1>1, <1>2 DEF TendedOn
<1> QED
  BY <1>9, <1>10 DEF TendedOn

LEMMA WorkTended ==
    ASSUME NEW S \in SUBSET Segments, IInv, CallInv, TendedOn(S), NEW w \in Workers, Work(w) \/ Timeout(w)
    PROVE  TendedOn(S)'
<1>0. TypeInv /\ TypeOK /\ WorkFrame(w)
  BY WorkKeepsFrame DEF IInv, TypeInv
<1>1. SUFFICES ASSUME InService, InService' PROVE TendedOn(S)'
  BY <1>0 DEF WorkFrame, InService, TendedOn
<1>2. /\ UNCHANGED <<cancelled, switch, closing>>
      /\ \A v \in Workers \ {w} : worker'[v] = worker[v] /\ call'[v] = call[v]
      /\ Dropped' = Dropped /\ LostNothing(S)
  BY <1>0, <1>1 DEF WorkFrame, Dropped, TendedOn
<1>3. CASE Take(w)
  <2> DEFINE k == Head(queue)
  <2>1. /\ k \in Job /\ k \in Queued /\ k.seg \in Segments
        /\ worker[w].pc = "idle" /\ worker'[w] = Calling(k, 1) /\ call'[w] = "running"
        /\ rec' = IF rec[k.seg].sub = k.sub
                  THEN [rec EXCEPT ![k.seg].status = "translating"]
                  ELSE rec
    BY <1>0, <1>3, TakeForm
  <2>2. Queued' = Queued \ {k}
    BY <1>3, TakeQueued
  <2> HIDE DEF k
  <2>3. worker'[w].job = k /\ worker'[w].pc = "calling"
    BY <2>1, LocalFields
  <2>4. /\ rec[k.seg].sub = k.sub /\ rec'[k.seg].sub = k.sub
        /\ rec'[k.seg].status = "translating"
        /\ \A s \in Segments \ {k.seg} : rec'[s] = rec[s]
    BY <1>0, <2>1 DEF IInv, QueueInv, TypeOK, Record
  <2>5. \A s \in S : rec'[s].status = "pending" =>
            \E j \in Queued' \cup Dropped : j.seg = s /\ j.sub = rec'[s].sub
    BY <1>1, <1>2, <2>2, <2>4 DEF LostNothing, InService
  <2>6. ASSUME NEW s \in S, rec'[s].status = "translating"
        PROVE  \E v \in Workers : /\ worker'[v].pc \in {"calling", "backoff"}
                                  /\ worker'[v].job.seg = s /\ worker'[v].job.sub = rec'[s].sub
    <3>1. CASE s = k.seg
      BY <2>3, <2>4, <3>1
    <3>2. CASE s # k.seg
      <4>1. PICK v \in Workers : /\ worker[v].pc \in {"calling", "backoff"}
                                 /\ worker[v].job.seg = s /\ worker[v].job.sub = rec[s].sub
        BY <1>1, <1>2, <2>4, <2>6, <3>2 DEF LostNothing, InService
      <4>2. worker'[v] = worker[v]
        BY <1>2, <2>1, <4>1
      <4> QED
        BY <2>4, <3>2, <4>1, <4>2
    <3> QED
      BY <3>1, <3>2
  <2>7. LostNothing(S)'
    BY <1>2, <2>5, <2>6 DEF LostNothing
  <2> QED
    BY <1>1, <1>2, <2>1, <2>7 DEF TendedOn
<1>4. CASE ~Take(w)
  <2>1. WorkForm(w) /\ UNCHANGED queue
    BY <1>4, WorkForms, WorkAttempts
  <2>2. Queued' = Queued
    BY <2>1 DEF Queued
  <2>3. worker[w].job # None => worker[w].job.seg \in Segments
    BY <1>0, HeldJob DEF Job
  <2>4. (call'[w] = "cancelled" \/ (call'[w] = "cancelling" /\ ~worker'[w].timedOut))
        /\ worker'[w].job.seg \in S
          => worker'[w].job \in cancelled
    <3>1. CASE WaitsOn(w)
      <4>1. worker'[w].job = worker[w].job
        BY <1>0, <3>1, HeldJob DEF WaitsOn, WorkerState
      <4> QED
        BY <1>1, <3>1, <4>1 DEF WaitsOn, TendedOn
    <3>2. CASE Restarts(w) \/ BacksOff(w) \/ Emits(w) \/ Leaves(w) \/ Dies(w)
      BY <3>2 DEF Restarts, BacksOff, Emits, Leaves, Dies, CallInv
    <3> QED
      BY <2>1, <3>1, <3>2 DEF WorkForm
  <2>5. ASSUME NEW s \in S, rec'[s].status = "pending" PROVE rec'[s] = rec[s]
    <3>1. rec'[s] # rec[s] => Restarts(w) \/ Emits(w)
      BY <2>1 DEF WorkForm, WaitsOn, BacksOff, Leaves, Dies
    <3>2. CASE Restarts(w)
      BY <1>0, <2>5, <3>2 DEF Restarts, TypeOK, Record
    <3>3. CASE Emits(w)
      <4>1. worker[w].job.seg \in Segments
        BY <1>0, <2>3, <3>3 DEF Emits, TypeInv, HoldsJob
      <4> QED
        BY <1>0, <2>5, <3>3, <4>1 DEF Emits, TypeOK
    <3> QED
      BY <3>1, <3>2, <3>3
  <2>6. \A s \in S : rec'[s].status = "pending" =>
            \E j \in Queued' \cup Dropped : j.seg = s /\ j.sub = rec'[s].sub
    BY <1>1, <1>2, <2>2, <2>5 DEF LostNothing, InService
  <2>7. ASSUME NEW s \in S, rec[s].status = "translating", rec'[s] = rec[s],
               ~Emits(w) \/ worker[w].job.seg # s
        PROVE  \E v \in Workers : /\ worker'[v].pc \in {"calling", "backoff"}
                                  /\ worker'[v].job.seg = s /\ worker'[v].job.sub = rec'[s].sub
    <3>1. PICK v \in Workers : /\ worker[v].pc \in {"calling", "backoff"}
                               /\ worker[v].job.seg = s /\ worker[v].job.sub = rec[s].sub
      BY <1>1, <1>2, <2>7 DEF LostNothing, InService
    <3>2. CASE v # w
      BY <1>2, <2>7, <3>1, <3>2
    <3>3. CASE v = w
      <4>1. CASE WaitsOn(w)
        <5>1. worker'[w].job = worker[w].job /\ worker'[w].pc = worker[w].pc
          BY <1>0, <4>1, HeldJob DEF WaitsOn, WorkerState
        <5> QED
          BY <2>7, <3>1, <3>3, <5>1
      <4>2. CASE Restarts(w) \/ BacksOff(w)
        BY <2>7, <3>1, <3>3, <4>2 DEF Restarts, BacksOff
      <4>3. CASE Leaves(w)
        <5>1. interrupt[w] = "no"
          BY <1>1 DEF CallInv
        <5>2. call[w] = "cancelled" /\ worker[w].job \notin cancelled
          BY <2>7, <3>1, <3>3, <4>3, <5>1 DEF Leaves
        <5> QED
          BY <1>1, <2>7, <3>1, <3>3, <5>2 DEF TendedOn
      <4>4. ~Emits(w) /\ ~Dies(w)
        BY <2>7, <3>1, <3>3 DEF Dies
      <4> QED
        BY <2>1, <4>1, <4>2, <4>3, <4>4 DEF WorkForm
    <3> QED
      BY <3>2, <3>3
  <2>8. ASSUME NEW s \in S, rec'[s].status = "translating"
        PROVE  \E v \in Workers : /\ worker'[v].pc \in {"calling", "backoff"}
                                  /\ worker'[v].job.seg = s /\ worker'[v].job.sub = rec'[s].sub
    <3>1. CASE rec'[s] = rec[s]
      <4>1. ~Emits(w) \/ worker[w].job.seg # s
        <5>1. SUFFICES ASSUME Emits(w), worker[w].job.seg = s PROVE FALSE
          OBVIOUS
        <5> QED
          BY <1>0, <2>8, <5>1 DEF Emits, TypeOK
      <4> QED
        BY <2>7, <2>8, <3>1, <4>1
    <3>2. CASE rec'[s] # rec[s]
      <4>1. Restarts(w) \/ Emits(w)
        BY <2>1, <3>2 DEF WorkForm, WaitsOn, BacksOff, Leaves, Dies
      <4>2. CASE Restarts(w)
        BY <1>0, <2>8, <3>2, <4>2 DEF Restarts, TypeOK, Record
      <4>3. CASE Emits(w)
        BY <1>0, <2>8, <3>2, <4>3 DEF Emits, TypeOK
      <4> QED
        BY <4>1, <4>2, <4>3
    <3> QED
      BY <3>1, <3>2
  <2>9. LostNothing(S)'
    BY <1>2, <2>6, <2>8 DEF LostNothing
  <2> QED
    BY <1>1, <1>2, <2>4, <2>9 DEF TendedOn
<1> QED
  BY <1>3, <1>4

\* What makes the call of a caption in S that a cancellation finds the right one.
Cancels(S) == Matched \/ (HandsInv /\ S \cap mixed' = {})

LEMMA CancelTended ==
    ASSUME NEW S \in SUBSET Segments, IInv, CallInv, Cancels(S), TendedOn(S),
           NEW s \in Segments, Cancel(s)
    PROVE  TendedOn(S)'
<1>0. TypeInv /\ TypeOK
  BY DEF IInv, TypeInv
<1> DEFINE removed == {j \in Queued : j.seg = s}
           running == {active[s]} \ {None}
<1>1. /\ RemoveFromQueue(removed) /\ rec' = Failing(removed, "cancelled")
      /\ cancelled' = cancelled \cup removed \cup running
      /\ call' = Cancelling(CallsOf(running))
      /\ UNCHANGED <<worker, switch, closing, mixed>> /\ InService
  BY DEF Cancel, workerFrame, InService
<1>2. Queued' = Queued \ removed
  BY <1>0, <1>1, RemoveKeepsOthers DEF TypeOK
<1>3. /\ running \in SUBSET Job
      /\ \A j \in running : j = active[j.seg]
  BY <1>0 DEF TypeOK, CallInv
<1>6. ASSUME NEW w \in Workers, w \in CallsOf(running), call[w] = "running", worker[w].job.seg \in S
      PROVE  worker[w].job \in running
  <2>1. CASE Matched
    BY <1>0, <1>3, <1>6, <2>1, CallsMatch
  <2>2. CASE HandsInv /\ S \cap mixed' = {}
    <3>1. PICK j \in running : activeCall[j.seg] = w /\ j = active[j.seg]
      BY <1>3, <1>6 DEF CallsOf
    <3>2. j \in Job /\ j.seg \in Segments
      BY <1>3, <3>1 DEF Job
    <3>3. worker[w].job.seg = j.seg /\ worker[w].job # None
      BY <1>0, <1>6, <3>1, <3>2 DEF CallInv, TypeInv, HoldsJob
    <3> QED
      BY <1>1, <1>6, <2>2, <3>1, <3>3 DEF HandsInv
  <2> QED
    BY <2>1, <2>2 DEF Cancels
<1> HIDE DEF removed, running
<1>4. \A w \in Workers :
          (call'[w] = "cancelled" \/ (call'[w] = "cancelling" /\ ~worker'[w].timedOut))
          /\ worker'[w].job.seg \in S
              => worker'[w].job \in cancelled'
  BY <1>1, <1>6, CallsTended
<1>5. LostNothing(S)'
  <2>1. \A j \in Backlog : j \in Backlog' \/ j \in removed
    BY <1>1, <1>2 DEF Backlog, Dropped
  <2> QED
    BY <1>1, <2>1, ReportedBacklog DEF TendedOn
<1> QED
  BY <1>4, <1>5 DEF TendedOn

\* A switch keeps the backlog but for the job it reports.
LEMMA SwitchBacklog ==
    ASSUME TypeInv, RotationInv, NEW p \in Providers, Switch(p)
    PROVE  \/ UNCHANGED rec /\ cancelled' = cancelled /\ call' = call /\ Backlog' = Backlog
           \/ \E j \in switch[p].removed :
                /\ rec' = Failing({j}, "cancelled") /\ call' = call
                /\ cancelled \subseteq cancelled'
                /\ \A k \in Backlog : k \in Backlog' \/ k = j
           \/ /\ Backlog' = Backlog
              /\ \E done : /\ done \subseteq Running \/ done \subseteq switch[p].jobs
                           /\ mixed' = mixed \cup {j.seg : j \in Mistaken(done)}
                           /\ cancelled' = cancelled \cup done
                           /\ call' = Cancelling(CallsOf(done))
                           /\ rec' = Failing(done, "cancelled")
<1>0. TypeOK
  BY DEF TypeInv
<1>1. /\ UNCHANGED <<worker, active, closing>>
      /\ \A q \in Providers \ {p} : switch'[q] = switch[q]
  BY SwitchForms
<1>2. ASSUME Queued' \cup switch'[p].removed = Queued \cup switch[p].removed
      PROVE  Backlog' = Backlog
  <2>1. \A j : j \in Backlog' <=> j \in Backlog
    BY <1>1, <1>2, DroppedMember DEF Backlog
  <2> QED
    BY <2>1
<1>3. CASE /\ switch[p].pc = "ready" /\ p # FirstProvider /\ closing.phase = "no"
           /\ Queued' = Queued \ Taken
           /\ CancelJobs(p, Switching(provider, Running, {}, Taken))
  <2> DEFINE old == provider  jobs == Running  calls == {}  removed == Taken
  <2>1. CancelJobs(p, Switching(old, jobs, calls, removed))
    BY <1>3
  <2>2. switch[p].removed = {} /\ removed \subseteq Queued
    BY <1>3 DEF RotationInv, Switches, Taken
  <2> HIDE DEF old, jobs, calls, removed
  <2>3. PICK done \in SUBSET jobs :
              /\ cancelled' = cancelled \cup done
              /\ call' = Cancelling(CallsOf(done))
              /\ rec' = Failing(done, "cancelled")
              /\ mixed' = mixed \cup {j.seg : j \in Mistaken(done)}
              /\ switch'[p].removed = removed
    BY <1>0, <2>1, CancelJobsForm
  <2>4. Backlog' = Backlog
    BY <1>2, <1>3, <2>2, <2>3 DEF removed
  <2> QED
    BY <2>3, <2>4 DEF jobs
<1>4. CASE /\ UNCHANGED queue
           /\ CancelJobs(p, Switching(switch[p].old, switch[p].jobs, switch[p].calls,
                                      switch[p].removed))
  <2> DEFINE old == switch[p].old  jobs == switch[p].jobs  calls == switch[p].calls
             removed == switch[p].removed
  <2>1. CancelJobs(p, Switching(old, jobs, calls, removed))
    BY <1>4
  <2> HIDE DEF old, jobs, calls, removed
  <2>3. PICK done \in SUBSET jobs :
              /\ cancelled' = cancelled \cup done
              /\ call' = Cancelling(CallsOf(done))
              /\ rec' = Failing(done, "cancelled")
              /\ mixed' = mixed \cup {j.seg : j \in Mistaken(done)}
              /\ switch'[p].removed = removed
    BY <1>0, <2>1, CancelJobsForm
  <2>4. Backlog' = Backlog
    BY <1>2, <1>4, <2>3 DEF removed, Queued
  <2> QED
    BY <2>3, <2>4 DEF jobs
<1>5. CASE /\ UNCHANGED <<queue, call>>
           /\ \E j \in switch[p].removed :
                /\ cancelled' = cancelled \cup {j}
                /\ rec' = Failing({j}, "cancelled")
                /\ switch'[p] = Switching(switch[p].old, {}, {}, switch[p].removed \ {j})
  <2>1. PICK j \in switch[p].removed :
                /\ cancelled' = cancelled \cup {j}
                /\ rec' = Failing({j}, "cancelled")
                /\ switch'[p] = Switching(switch[p].old, {}, {}, switch[p].removed \ {j})
    BY <1>5
  <2>2. switch'[p].removed = switch[p].removed \ {j}
    BY <2>1, SwitchingFields
  <2>3. \A k \in Backlog : k \in Backlog' \/ k = j
    BY <1>1, <1>5, <2>2, DroppedMember DEF Backlog, Queued
  <2> QED
    BY <1>5, <2>1, <2>3
<1>6. CASE /\ switch[p].removed = {} /\ switch'[p] = Done
           /\ UNCHANGED <<rec, queue, call, cancelled>>
  <2>1. switch'[p].removed = {}
    BY <1>6 DEF Done, SwitchState
  <2> QED
    BY <1>2, <1>6, <2>1 DEF Queued
<1> QED
  BY <1>3, <1>4, <1>5, <1>6, SwitchForms

LEMMA SwitchTended ==
    ASSUME NEW S \in SUBSET Segments, IInv, House, InService => Cancels(S), TendedOn(S),
           NEW p \in Providers, Switch(p)
    PROVE  TendedOn(S)'
<1>0. TypeInv /\ TypeOK /\ CallInv /\ RotationInv
  BY DEF IInv, TypeInv, House
<1>1. UNCHANGED <<worker, active, closing>>
  BY <1>0, SwitchForms
<1>2. SUFFICES ASSUME InService PROVE TendedOn(S)'
  BY <1>1 DEF TendedOn, InService
<1>3. LostNothing(S)
  BY <1>2 DEF TendedOn
<1>4. CASE UNCHANGED rec /\ cancelled' = cancelled /\ call' = call /\ Backlog' = Backlog
  <2>1. rec' = Failing({}, "cancelled")
    BY <1>0, <1>4, FailingNothing
  <2>2. LostNothing(S)'
    BY <1>1, <1>2, <1>3, <1>4, <2>1, ReportedBacklog
  <2> QED
    BY <1>1, <1>2, <1>4, <2>2 DEF TendedOn
<1>5. CASE \E j \in switch[p].removed :
                /\ rec' = Failing({j}, "cancelled") /\ call' = call
                /\ cancelled \subseteq cancelled'
                /\ \A k \in Backlog : k \in Backlog' \/ k = j
  <2>1. PICK j \in switch[p].removed :
                /\ rec' = Failing({j}, "cancelled") /\ call' = call
                /\ cancelled \subseteq cancelled'
                /\ \A k \in Backlog : k \in Backlog' \/ k = j
    BY <1>5
  <2>2. \A k \in Backlog : k \in Backlog' \/ k \in {j}
    BY <2>1
  <2>3. LostNothing(S)'
    BY <1>1, <1>2, <1>3, <2>1, <2>2, ReportedBacklog
  <2> QED
    BY <1>1, <1>2, <2>1, <2>3 DEF TendedOn
<1>6. CASE /\ Backlog' = Backlog
           /\ \E done : /\ done \subseteq Running \/ done \subseteq switch[p].jobs
                        /\ mixed' = mixed \cup {j.seg : j \in Mistaken(done)}
                        /\ cancelled' = cancelled \cup done
                        /\ call' = Cancelling(CallsOf(done))
                        /\ rec' = Failing(done, "cancelled")
  <2>1. PICK done : /\ done \subseteq Running \/ done \subseteq switch[p].jobs
                    /\ mixed' = mixed \cup {j.seg : j \in Mistaken(done)}
                    /\ cancelled' = cancelled \cup done
                    /\ call' = Cancelling(CallsOf(done))
                    /\ rec' = Failing(done, "cancelled")
    BY <1>6
  <2>2. \A j \in Running : j \in Job /\ j = active[j.seg]
    BY <1>0, QueuedType DEF Running, CallInv
  <2>3. /\ done \in SUBSET Job
        /\ \A j \in done : j = active[j.seg] \/ \E q \in Providers : j \in switch[q].jobs
    BY <1>0, <2>1, <2>2, SwitchFields
  <2>4. \A w \in Workers :
          (call'[w] = "cancelled" \/ (call'[w] = "cancelling" /\ ~worker'[w].timedOut))
          /\ worker'[w].job.seg \in S
              => worker'[w].job \in cancelled'
    <3>1. ASSUME NEW w \in Workers, w \in CallsOf(done), call[w] = "running",
                 worker[w].job.seg \in S
          PROVE  worker[w].job \in done
      <4>1. CASE Matched
        BY <1>0, <2>3, <3>1, <4>1, CallsMatch
      <4>2. CASE HandsInv /\ S \cap mixed' = {}
        <5>1. PICK j \in done : activeCall[j.seg] = w
          BY <3>1 DEF CallsOf
        <5>2. j.seg \in Segments /\ worker[w].job.seg = j.seg
          BY <1>0, <2>3, <3>1, <5>1 DEF CallInv, Job
        <5>3. worker[w].job # j => j.seg \in mixed'
          BY <2>1, <3>1, <5>1 DEF Mistaken
        <5> QED
          BY <3>1, <4>2, <5>1, <5>2, <5>3
      <4> QED
        BY <1>2, <4>1, <4>2 DEF Cancels
    <3>2. cancelled \cup done \subseteq cancelled'
      BY <2>1
    <3> QED
      BY <1>1, <1>2, <2>1, <3>1, <3>2, CallsTended
  <2>5. LostNothing(S)'
    BY <1>1, <1>2, <1>3, <1>6, <2>1, ReportedBacklog
  <2> QED
    BY <2>4, <2>5 DEF TendedOn
<1> QED
  BY <1>0, <1>4, <1>5, <1>6, SwitchBacklog

LEMMA NextTended ==
    ASSUME NEW S \in SUBSET Segments, IInv, House, InService => Cancels(S), TendedOn(S),
           [Next]_vars
    PROVE  TendedOn(S)'
<1>0. TypeInv /\ TypeOK /\ CallInv
  BY DEF IInv, TypeInv, House
<1>1. ASSUME UNCHANGED <<rec, queue, cancelled, worker, call, switch>>,
             InService' => InService /\ closing'.jobs = closing.jobs
      PROVE  TendedOn(S)'
  <2>1. SUFFICES ASSUME InService' PROVE TendedOn(S)'
    BY DEF TendedOn
  <2>2. LostNothing(S) /\ InService
    BY <1>1, <2>1 DEF TendedOn
  <2>3. Dropped' = Dropped /\ Queued' = Queued
    BY <1>1, <2>1 DEF Dropped, Queued
  <2>4. LostNothing(S)'
    BY <1>1, <2>2, <2>3 DEF LostNothing, InService
  <2> QED
    BY <1>1, <2>2, <2>4 DEF TendedOn
<1>2. CASE UNCHANGED vars
  BY <1>1, <1>2 DEF vars, InService
<1>3. CASE Shutdown
  <2>1. \/ ShutdownBegins /\ closing.phase = "no" /\ closing'.jobs = closing.jobs
        \/ ~InService'
    BY <1>0, <1>3, ShutdownForms DEF InService
  <2>2. CASE ShutdownBegins /\ closing.phase = "no" /\ closing'.jobs = closing.jobs
    BY <1>1, <2>2 DEF ShutdownBegins, InService
  <2>3. CASE ~InService'
    BY <2>3 DEF TendedOn
  <2> QED
    BY <2>1, <2>2, <2>3
<1>4. ASSUME NEW s \in Segments, Submit(s) \/ Cancel(s) PROVE TendedOn(S)'
  <2>1. CASE Submit(s)
    BY <1>0, <2>1, SubmitTended
  <2>2. CASE Cancel(s)
    BY <1>0, <2>2, CancelTended DEF Cancel, InService
  <2> QED
    BY <1>4, <2>1, <2>2
<1>5. ASSUME NEW w \in Workers, Work(w) \/ Timeout(w) PROVE TendedOn(S)'
  BY <1>0, <1>5, WorkTended
<1> QED
  BY <1>2, <1>3, <1>4, <1>5, SwitchTended DEF Next

LEMMA InitTended == \A S \in SUBSET Segments : Init => TendedOn(S)
BY DEF Init, TendedOn, LostNothing, Absent

\* The captions that were never mixed are tended.
LEMMA NextStraight ==
    ASSUME IInv, House, HandsInv, TendedOn(Segments \ mixed), [Next]_vars
    PROVE  TendedOn(Segments \ mixed)'
<1>1. mixed \subseteq mixed'
  BY MixedSteps DEF House
<1>2. PICK S \in SUBSET Segments : S = Segments \ mixed'
  OBVIOUS
<1>3. TendedOn(S)
  BY <1>1, <1>2 DEF TendedOn, LostNothing
<1>4. Cancels(S)
  BY <1>2 DEF Cancels
<1>5. TendedOn(S)'
  BY <1>3, <1>4, NextTended
<1> QED
  BY <1>2, <1>5 DEF TendedOn, LostNothing

-----------------------------------------------------------------------------
(* The calls of a provider that was replaced *)

\* A switch that replaced the provider of the worker's job has still to cancel it.
Owed(w) ==
    \E p \in Switches : /\ switch[p].old = worker[w].job.provider
                        /\ worker[w].job \in switch[p].jobs

\* A switch that replaced the provider of the worker's job waits for its call.
Awaited(w) ==
    \E p \in Switches : switch[p].old = worker[w].job.provider /\ w \in switch[p].calls

\* An attempt on a provider that was replaced is cancelled or will be, and the
\* switch that replaced it waits for its call.
Rightly(w) ==
    worker[w].job # None /\ worker[w].job.seg \notin mixed =>
        /\ Attempting(w) =>
            worker[w].job.provider = provider \/ worker[w].job \in cancelled \/ Owed(w)
        /\ call[w] = "running" => worker[w].job.provider = provider \/ Owed(w)
        /\ call[w] = "cancelling" =>
            worker[w].job.provider = provider \/ Owed(w) \/ Awaited(w)

ProviderInv == \A w \in Workers : Rightly(w)

\* A step that cancels at most, and neither starts nor ends a call of the worker.
LEMMA QuietProvider ==
    ASSUME NEW w \in Workers, Rightly(w), UNCHANGED <<provider, switch>>,
           cancelled \subseteq cancelled', mixed \subseteq mixed',
           worker[w].job # None \/ call'[w] = "none",
           Attempting(w)' => Attempting(w) /\ worker'[w].job = worker[w].job
                             /\ worker[w].job # None,
           call'[w] = "running" => call[w] = "running" /\ worker'[w].job = worker[w].job,
           call'[w] = "cancelling" => /\ call[w] \in {"running", "cancelling"}
                                      /\ worker'[w].job = worker[w].job
    PROVE  Rightly(w)'
<1>1. worker'[w].job = worker[w].job => /\ Owed(w) => Owed(w)'
                                        /\ Awaited(w) => Awaited(w)'
  BY DEF Owed, Awaited, Switches
<1> QED
  BY <1>1 DEF Rightly

LEMMA SubmitProvider ==
    ASSUME IInv, CallInv, ProviderInv, NEW s \in Segments, Submit(s)
    PROVE  ProviderInv'
<1>0. TypeInv
  BY DEF IInv
<1>1. /\ UNCHANGED <<cancelled, call, provider, switch, mixed>>
      /\ \A w \in Workers : worker'[w].job = worker[w].job
      /\ \A w \in Workers : \/ worker'[w] = worker[w]
                            \/ worker'[w] = Idle /\ worker[w].pc = "dead"
  BY <1>0, SubmitForm
<1>2. \A w \in Workers : Attempting(w)' => Attempting(w)
  BY <1>1, LocalFields DEF Attempting
<1>3. \A w \in Workers : /\ Attempting(w) => worker[w].job # None
                         /\ call[w] # "none" => worker[w].job # None
  BY <1>0 DEF Attempting, TypeInv, HoldsJob, CallInv
<1> QED
  BY <1>1, <1>2, <1>3, QuietProvider DEF ProviderInv

LEMMA WorkProvider ==
    ASSUME IInv, House, ProviderInv, NEW w \in Workers, Work(w) \/ Timeout(w)
    PROVE  ProviderInv'
<1>0. TypeInv /\ TypeOK /\ CallInv /\ WorkFrame(w) /\ RotationInv /\ mixed \subseteq mixed'
  BY WorkKeepsFrame, MixedSteps DEF IInv, TypeInv, House, Next
<1>1. /\ UNCHANGED <<cancelled, provider, switch>>
      /\ \A v \in Workers \ {w} : worker'[v] = worker[v] /\ call'[v] = call[v]
  BY <1>0 DEF WorkFrame
<1>2. \A v \in Workers : /\ Attempting(v) => worker[v].job # None
                         /\ call[v] # "none" => worker[v].job # None
  BY <1>0 DEF Attempting, TypeInv, HoldsJob, CallInv
<1>3. ASSUME NEW v \in Workers, v # w PROVE Rightly(v)'
  <2>1. Attempting(v)' <=> Attempting(v)
    BY <1>1, <1>3 DEF Attempting
  <2> QED
    BY <1>0, <1>1, <1>2, <1>3, <2>1, QuietProvider DEF ProviderInv
<1>4. Rightly(w)'
  <2>1. CASE Take(w)
    <3> DEFINE k == Head(queue)
    <3>1. k \in Queued /\ worker'[w] = Calling(k, 1) /\ call'[w] = "running"
      BY <1>0, <2>1, TakeForm
    <3>2. k.provider = provider
      BY <1>0, <3>1 DEF RotationInv
    <3> HIDE DEF k
    <3>3. worker'[w].job.provider = provider
      BY <3>1, <3>2, LocalFields
    <3> QED
      BY <1>1, <3>1, <3>3 DEF Rightly
  <2>2. CASE ~Take(w)
    <3>1. /\ Attempting(w)' => Attempting(w) /\ worker'[w].job = worker[w].job
          /\ WorkForm(w)
      BY <1>0, <2>2, WorkAttempts
    <3>2. CASE Restarts(w)
      <4>1. /\ worker'[w].job = worker[w].job /\ call'[w] = "running"
            /\ worker[w].job \notin cancelled /\ Attempting(w)
        BY <3>2 DEF Restarts, Attempting
      <4>2. Owed(w) => Owed(w)'
        BY <1>1, <4>1 DEF Owed, Switches
      <4> QED
        BY <1>0, <1>1, <1>2, <4>1, <4>2 DEF Rightly, ProviderInv
    <3>3. CASE WaitsOn(w)
      <4>1. /\ worker'[w].job = worker[w].job /\ call[w] # "none"
            /\ call'[w] = "running" => call[w] = "running"
            /\ call'[w] = "cancelling" => call[w] \in {"running", "cancelling"}
        BY <1>0, <3>3, HeldJob DEF WaitsOn, WorkerState
      <4> QED
        BY <1>0, <1>1, <1>2, <3>1, <4>1, QuietProvider DEF ProviderInv
    <3>4. CASE BacksOff(w) \/ Emits(w) \/ Leaves(w) \/ Dies(w)
      <4>1. call'[w] = "none"
        BY <1>0, <3>4 DEF BacksOff, Emits, Leaves, Dies, CallInv
      <4> QED
        BY <1>0, <1>1, <1>2, <3>1, <4>1, QuietProvider DEF ProviderInv
    <3> QED
      BY <3>1, <3>2, <3>3, <3>4 DEF WorkForm
  <2> QED
    BY <2>1, <2>2
<1> QED
  BY <1>3, <1>4 DEF ProviderInv

\* A switch that stays or another one: what it owes or awaits it still does.
LEMMA OtherSwitches ==
    ASSUME NEW w \in Workers, NEW p \in Providers, UNCHANGED worker,
           \A q \in Providers \ {p} : switch'[q] = switch[q],
           p \in Switches => switch[p].old # worker[w].job.provider
                             \/ (worker[w].job \notin switch[p].jobs /\ w \notin switch[p].calls)
    PROVE  /\ Owed(w) => Owed(w)'
           /\ Awaited(w) => Awaited(w)'
BY DEF Owed, Awaited, Switches

\* One run of the loop of a switch over the jobs it found: those it cancels have
\* their calls awaited, the others are still owed.
LEMMA CancelsRightly ==
    ASSUME TypeInv, CallInv, HandsInv, NEW w \in Workers, NEW p \in Providers,
           NEW old, NEW jobs, NEW calls, NEW removed,
           CancelJobs(p, Switching(old, jobs, calls, removed)),
           UNCHANGED worker,
           worker[w].job # None, worker[w].job.seg \notin mixed, worker[w].job.provider = old,
           \/ worker[w].job \in jobs
           \/ /\ call[w] # "running"
              /\ call[w] = "cancelling" => w \in calls
              /\ Attempting(w) => worker[w].job \in cancelled
    PROVE  /\ Attempting(w) => worker[w].job \in cancelled' \/ Owed(w)'
           /\ call'[w] = "running" => Owed(w)'
           /\ call'[w] = "cancelling" => Owed(w)' \/ Awaited(w)'
<1>0. TypeOK
  BY DEF TypeInv
<1>1. PICK done \in SUBSET jobs :
          /\ cancelled' = cancelled \cup done
          /\ call' = Cancelling(CallsOf(done))
          /\ switch'[p].pc = "switching" /\ switch'[p].old = old
          /\ switch'[p].jobs = jobs \ done
          /\ switch'[p].calls = calls \cup CallsOf(done)
  BY <1>0, CancelJobsForm
<1>2. p \in Switches'
  BY <1>1 DEF Switches
<1>3. worker[w].job \in jobs \ done => Owed(w)'
  BY <1>1, <1>2 DEF Owed
<1>4. w \in calls \cup CallsOf(done) => Awaited(w)'
  BY <1>1, <1>2 DEF Awaited
<1>5. call'[w] = call[w] \/ call'[w] = "cancelling"
  BY <1>1 DEF Cancelling
<1>6. CASE worker[w].job \in done
  <2>1. call[w] \in {"running", "cancelling"} => w \in CallsOf(done)
    <3>1. call[w] \in {"running", "cancelling"} => worker[w].holds /\ w # None
      BY TranslationAssumption DEF CallInv
    <3> QED
      BY <1>6, <3>1 DEF HandsInv, CallsOf
  <2>2. call[w] = "running" => call'[w] = "cancelling"
    BY <1>1, <2>1 DEF Cancelling
  <2>3. call'[w] = "cancelling" => call[w] \in {"running", "cancelling"}
    BY <1>1 DEF Cancelling
  <2> QED
    BY <1>1, <1>4, <1>5, <1>6, <2>1, <2>2, <2>3
<1>7. CASE worker[w].job \notin jobs
  <2>1. call'[w] = call[w]
    BY <1>1, <1>7 DEF Cancelling
  <2> QED
    BY <1>1, <1>4, <1>7, <2>1
<1> QED
  BY <1>1, <1>3, <1>6, <1>7

LEMMA SwitchProvider ==
    ASSUME IInv, House, HandsInv, ProviderInv, NEW p \in Providers, Switch(p)
    PROVE  ProviderInv'
<1>0. TypeInv /\ TypeOK /\ CallInv /\ mixed \subseteq mixed'
  BY MixedSteps DEF IInv, TypeInv, House, Next
<1>1. UNCHANGED <<worker, active>> /\ \A q \in Providers \ {p} : switch'[q] = switch[q]
  BY <1>0, SwitchForms
<1>2. SUFFICES ASSUME NEW w \in Workers, worker[w].job # None, worker[w].job.seg \notin mixed
               PROVE  Rightly(w)'
  BY <1>0, <1>1 DEF ProviderInv, Rightly
<1>3. /\ Attempting(w) =>
            worker[w].job.provider = provider \/ worker[w].job \in cancelled \/ Owed(w)
      /\ call[w] = "running" => worker[w].job.provider = provider \/ Owed(w)
      /\ call[w] = "cancelling" =>
            worker[w].job.provider = provider \/ Owed(w) \/ Awaited(w)
      /\ call[w] \in {"running", "cancelling"} => Attempting(w)
      /\ Attempting(w)' <=> Attempting(w)
  BY <1>0, <1>1, <1>2 DEF ProviderInv, Rightly, CallInv, Attempting
<1>4. CASE /\ switch[p].pc = "ready" /\ provider' = p
           /\ CancelJobs(p, Switching(provider, Running, {}, Taken))
  <2> DEFINE old == provider  jobs == Running  calls == {}  removed == Taken
  <2>1. CancelJobs(p, Switching(old, jobs, calls, removed))
    BY <1>4
  <2>2. Attempting(w) /\ worker[w].job.provider = provider => worker[w].job \in jobs
    BY <1>2, HeldJob, <1>0 DEF HandsInv, Running, Job
  <2>3. p \notin Switches
    BY <1>4 DEF Switches
  <2>4. (Owed(w) => Owed(w)') /\ (Awaited(w) => Awaited(w)')
    BY <1>1, <2>3, OtherSwitches
  <2>5. cancelled \subseteq cancelled' /\ (call'[w] = call[w] \/
            (call[w] = "running" /\ call'[w] = "cancelling"))
    BY <1>4 DEF CancelJobs, Cancelling
  <2> HIDE DEF old, jobs, calls, removed
  <2>6. CASE Attempting(w) /\ worker[w].job.provider = old
    <3>1. /\ Attempting(w) => worker[w].job \in cancelled' \/ Owed(w)'
          /\ call'[w] = "running" => Owed(w)'
          /\ call'[w] = "cancelling" => Owed(w)' \/ Awaited(w)'
      BY <1>0, <1>1, <1>2, <2>1, <2>2, <2>6, CancelsRightly DEF old
    <3> QED
      BY <1>1, <1>3, <3>1 DEF Rightly
  <2>7. CASE ~Attempting(w) \/ worker[w].job.provider # old
    BY <1>1, <1>3, <2>4, <2>5, <2>7 DEF Rightly, old
  <2> QED
    BY <2>6, <2>7
<1>5. CASE /\ switch[p].pc = "switching" /\ provider' = provider
           /\ CancelJobs(p, Switching(switch[p].old, switch[p].jobs, switch[p].calls,
                                      switch[p].removed))
  <2> DEFINE old == switch[p].old  jobs == switch[p].jobs  calls == switch[p].calls
             removed == switch[p].removed
  <2>1. CancelJobs(p, Switching(old, jobs, calls, removed))
    BY <1>5
  <2>2. cancelled \subseteq cancelled' /\ (call'[w] = call[w] \/
            (call[w] = "running" /\ call'[w] = "cancelling"))
    BY <1>5 DEF CancelJobs, Cancelling
  <2>3. \/ worker[w].job.provider = old /\ worker[w].job \in jobs
        \/ /\ Owed(w) => Owed(w)'
           /\ worker[w].job.provider # old \/ w \notin calls => (Awaited(w) => Awaited(w)')
    <3>1. ASSUME Owed(w), ~(worker[w].job.provider = old /\ worker[w].job \in jobs) PROVE Owed(w)'
      BY <1>1, <3>1 DEF Owed, Switches
    <3>2. ASSUME Awaited(w), worker[w].job.provider # old \/ w \notin calls PROVE Awaited(w)'
      BY <1>1, <3>2 DEF Awaited, Switches
    <3> QED
      BY <3>1, <3>2
  <2>4. \E more : switch'[p].pc = "switching" /\ switch'[p].old = old
                  /\ switch'[p].calls = calls \cup more
    BY <1>0, <2>1, CancelJobsForm
  <2>5. worker[w].job.provider = old /\ w \in calls => Awaited(w)'
    BY <1>1, <2>4 DEF Awaited, Switches
  <2> HIDE DEF old, jobs, calls, removed
  <2>6. CASE worker[w].job.provider = old /\ worker[w].job \in jobs
    <3>1. /\ Attempting(w) => worker[w].job \in cancelled' \/ Owed(w)'
          /\ call'[w] = "running" => Owed(w)'
          /\ call'[w] = "cancelling" => Owed(w)' \/ Awaited(w)'
      BY <1>0, <1>1, <1>2, <2>1, <2>6, CancelsRightly
    <3> QED
      BY <1>1, <1>3, <3>1 DEF Rightly
  <2>7. CASE ~(worker[w].job.provider = old /\ worker[w].job \in jobs)
    <3>1. (Owed(w) => Owed(w)') /\ (Awaited(w) => Awaited(w)')
      BY <2>3, <2>5, <2>7
    <3>2. call'[w] = "cancelling" =>
              worker[w].job.provider = provider \/ Owed(w)' \/ Awaited(w)'
      BY <1>3, <2>2, <3>1
    <3> QED
      BY <1>1, <1>3, <1>5, <2>2, <3>1, <3>2 DEF Rightly
  <2> QED
    BY <2>6, <2>7
<1>6. CASE /\ CallsGathered(p) /\ UNCHANGED <<call, provider>>
           /\ cancelled \subseteq cancelled'
  <2>1. Owed(w) => Owed(w)'
    BY <1>1, <1>6 DEF Owed, Switches, CallsGathered
  <2>2. call[w] = "cancelling" /\ Awaited(w) => Awaited(w)'
    BY <1>1, <1>6 DEF Awaited, Switches, CallsGathered
  <2> QED
    BY <1>1, <1>3, <1>6, <2>1, <2>2 DEF Rightly
<1>7. SwitchDrops(p) \/ SwitchCloses(p) => UNCHANGED <<call, provider>> /\ CallsGathered(p)
                                           /\ cancelled \subseteq cancelled'
  BY DEF SwitchDrops, SwitchCloses
<1>8. SwitchBegins(p) => /\ switch[p].pc = "ready" /\ provider' = p
                         /\ CancelJobs(p, Switching(provider, Running, {}, Taken))
  BY DEF SwitchBegins, Running, Taken
<1>9. SwitchCancels(p) =>
        /\ switch[p].pc = "switching" /\ provider' = provider
        /\ CancelJobs(p, Switching(switch[p].old, switch[p].jobs, switch[p].calls,
                                   switch[p].removed))
  BY <1>0, SwitchFields DEF SwitchCancels
<1> QED
  BY <1>4, <1>5, <1>6, <1>7, <1>8, <1>9 DEF Switch

LEMMA NextProvider ==
    ASSUME IInv, House, HandsInv, ProviderInv, [Next]_vars
    PROVE  ProviderInv'
<1>0. TypeInv /\ TypeOK /\ CallInv /\ mixed \subseteq mixed'
  BY MixedSteps DEF IInv, TypeInv, House
<1>1. ASSUME UNCHANGED <<worker, provider, switch>>, cancelled \subseteq cancelled',
             UNCHANGED call \/ \E W : call' = Cancelling(W)
      PROVE  ProviderInv'
  <2>1. \A w \in Workers : /\ Attempting(w)' <=> Attempting(w)
                           /\ call'[w] = call[w] \/ (call[w] = "running" /\ call'[w] = "cancelling")
    BY <1>1 DEF Attempting, Cancelling
  <2>2. \A w \in Workers : /\ Attempting(w) => worker[w].job # None
                           /\ call[w] # "none" => worker[w].job # None
    BY <1>0 DEF Attempting, TypeInv, HoldsJob, CallInv
  <2>3. ASSUME NEW w \in Workers PROVE Rightly(w)'
    BY <1>0, <1>1, <2>1, <2>2, QuietProvider DEF ProviderInv
  <2> QED
    BY <2>3 DEF ProviderInv
<1>2. CASE UNCHANGED vars
  BY <1>1, <1>2 DEF vars
<1>3. CASE Shutdown
  BY <1>1, <1>3 DEF Shutdown, ShutdownBegins, ShutdownCancels, ShutdownReports, ShutdownEnds
<1>4. ASSUME NEW s \in Segments, Submit(s) \/ Cancel(s) PROVE ProviderInv'
  <2>1. CASE Cancel(s)
    BY <1>1, <2>1 DEF Cancel, workerFrame
  <2> QED
    BY <1>0, <1>4, <2>1, SubmitProvider
<1>5. ASSUME NEW w \in Workers, Work(w) \/ Timeout(w) PROVE ProviderInv'
  BY <1>5, WorkProvider
<1>6. ASSUME NEW p \in Providers, Switch(p) PROVE ProviderInv'
  BY <1>6, SwitchProvider
<1> QED
  BY <1>2, <1>3, <1>4, <1>5, <1>6 DEF Next

LEMMA InitProvider == Init => ProviderInv
BY LocalFields DEF Init, ProviderInv, Rightly

-----------------------------------------------------------------------------
(* The shutdown *)

\* Once the workers are cancelled nothing waits, and the captions that are still
\* open are the ones shutdown has to report, or mixed; at the end the tasks are
\* gone.
EndInv ==
    /\ ~InService =>
        /\ queue = << >>
        /\ \A s \in Segments \ mixed : rec[s].status \in InProgress =>
            \E j \in closing.jobs : j.seg = s /\ j.sub = rec[s].sub
    /\ closing.phase = "closed" =>
        closing.jobs = {} /\ \A w \in Workers : worker[w].pc = "dead"

LEMMA WorkEnd ==
    ASSUME IInv, CallInv, EndInv, NEW w \in Workers, Work(w) \/ Timeout(w)
    PROVE  EndInv'
<1>0. TypeInv /\ TypeOK /\ WorkFrame(w) /\ Sound(w)
  BY WorkKeepsFrame DEF IInv, TypeInv, WorkerInv
<1>1. UNCHANGED closing /\ (InService' <=> InService)
  BY <1>0 DEF WorkFrame, InService
<1>2. SUFFICES ASSUME ~InService PROVE EndInv'
  BY <1>1 DEF EndInv, InService
<1>3. queue = << >> /\ ~Take(w)
  BY <1>2 DEF EndInv, Take
<1>4. WorkForm(w) /\ UNCHANGED queue /\ mixed' = mixed
  BY <1>3, WorkForms, WorkAttempts DEF WorkForm, WaitsOn, Restarts, BacksOff, Emits, Leaves, Dies
<1>5. ASSUME NEW s \in Segments, rec'[s].status \in InProgress PROVE rec'[s] = rec[s]
  <2>1. rec'[s] # rec[s] => Restarts(w) \/ Emits(w)
    BY <1>4 DEF WorkForm, WaitsOn, BacksOff, Leaves, Dies
  <2>2. CASE Restarts(w)
    <3>1. rec[worker[w].job.seg].sub = worker[w].job.sub
            => rec[worker[w].job.seg].status = "translating"
      BY <1>0, <2>2 DEF Restarts, Sound
    <3> QED
      BY <1>0, <2>2, <3>1 DEF Restarts, TypeOK, Record
  <2>3. CASE Emits(w)
    <3>1. worker[w].job.seg \in Segments
      BY <1>0, <2>3, HeldJob DEF Emits, TypeInv, HoldsJob, Job
    <3> QED
      BY <1>0, <1>5, <2>3, <3>1 DEF Emits, TypeOK, InProgress
  <2> QED
    BY <2>1, <2>2, <2>3
<1>6. \A s \in Segments \ mixed : rec'[s].status \in InProgress =>
          \E j \in closing.jobs : j.seg = s /\ j.sub = rec'[s].sub
  BY <1>2, <1>5 DEF EndInv
<1>7. closing.phase # "closed"
  <2>1. SUFFICES ASSUME worker[w].pc = "dead", call[w] = "none" PROVE FALSE
    BY DEF EndInv, CallInv
  <2> QED
    BY <1>4, <2>1 DEF WorkForm, WaitsOn, Restarts, BacksOff, Emits, Leaves, Dies
<1> QED
  BY <1>1, <1>3, <1>4, <1>6, <1>7 DEF EndInv

LEMMA ShutdownEnd ==
    ASSUME IInv, House, HandsInv, TendedOn(Segments \ mixed), EndInv, Shutdown
    PROVE  EndInv'
<1>0. TypeInv /\ TypeOK /\ CallInv /\ RotationInv /\ DropInv
  BY DEF IInv, TypeInv, House
<1>5. mixed' = mixed
  BY DEF Shutdown, ShutdownBegins, ShutdownCancels, ShutdownReports, ShutdownEnds
<1>1. CASE ShutdownBegins /\ closing'.phase = "joining"
  BY <1>1, <1>5 DEF EndInv, InService
<1>2. CASE /\ ShutdownCancels /\ closing.phase = "joining" /\ closing'.phase = "gathering"
           /\ closing'.jobs = Queued \cup ({active[s] : s \in Segments} \ {None})
  <2>1. InService /\ LostNothing(Segments \ mixed) /\ queue' = << >> /\ UNCHANGED rec
    BY <1>2 DEF InService, TendedOn, ShutdownCancels
  <2>2. Dropped = {}
    BY <1>0, <1>2, <2>1 DEF DropInv, RotationInv, Dropped
  <2>3. ASSUME NEW s \in Segments \ mixed, rec[s].status = "pending"
        PROVE  \E j \in closing'.jobs : j.seg = s /\ j.sub = rec[s].sub
    BY <1>2, <2>1, <2>2, <2>3 DEF LostNothing
  <2>4. ASSUME NEW s \in Segments \ mixed, rec[s].status = "translating"
        PROVE  \E j \in closing'.jobs : j.seg = s /\ j.sub = rec[s].sub
    <3>1. PICK w \in Workers : /\ worker[w].pc \in {"calling", "backoff"}
                               /\ worker[w].job.seg = s /\ worker[w].job.sub = rec[s].sub
      BY <1>2, <2>1, <2>4 DEF LostNothing
    <3>2. worker[w].job # None
      BY <1>0, <3>1 DEF TypeInv, HoldsJob
    <3>3. active[s] = worker[w].job
      BY <3>1, <3>2 DEF HandsInv
    <3> QED
      BY <1>2, <3>1, <3>2, <3>3
  <2> QED
    BY <1>2, <1>5, <2>1, <2>3, <2>4 DEF EndInv, InProgress
<1>3. CASE /\ ShutdownReports /\ closing.phase = "gathering" /\ closing'.phase = "gathering"
           /\ \E j \in closing.jobs : /\ rec' = Failing({j}, "cancelled")
                                      /\ closing'.jobs = closing.jobs \ {j}
  <2>1. PICK k \in closing.jobs : /\ rec' = Failing({k}, "cancelled")
                                  /\ closing'.jobs = closing.jobs \ {k}
    BY <1>3
  <2>2. UNCHANGED queue /\ ~InService
    BY <1>3 DEF ShutdownReports, InService
  <2>3. ASSUME NEW s \in Segments \ mixed, rec'[s].status \in InProgress
        PROVE  \E j \in closing'.jobs : j.seg = s /\ j.sub = rec'[s].sub
    <3>1. rec'[s] = rec[s]
      BY <2>1, <2>3, FailingForm DEF InProgress
    <3>2. PICK j \in closing.jobs : j.seg = s /\ j.sub = rec[s].sub
      BY <2>2, <2>3, <3>1 DEF EndInv
    <3>3. \A i \in {k} : ~(i.seg = s /\ rec[s].sub = i.sub)
      BY <2>1, <2>3, <3>1, FailingForm
    <3> QED
      BY <2>1, <3>1, <3>2, <3>3
  <2> QED
    BY <1>3, <1>5, <2>2, <2>3 DEF EndInv
<1>4. CASE /\ ShutdownEnds /\ closing.phase = "gathering" /\ closing'.phase = "closed"
           /\ closing.jobs = {} /\ closing'.jobs = {}
  BY <1>4, <1>5 DEF ShutdownEnds, WorkersGone, EndInv, InService
<1> QED
  BY <1>0, <1>1, <1>2, <1>3, <1>4, ShutdownForms

LEMMA NextEnd ==
    ASSUME IInv, House, HandsInv, TendedOn(Segments \ mixed), EndInv, [Next]_vars
    PROVE  EndInv'
<1>0. TypeInv /\ CallInv /\ RotationInv
  BY DEF IInv, House
<1>1. CASE UNCHANGED vars
  <2>1. UNCHANGED <<rec, queue, worker, closing, mixed>>
    BY <1>1 DEF vars
  <2> QED
    BY <2>1 DEF EndInv, InService
<1>2. ASSUME InService, UNCHANGED closing PROVE EndInv'
  BY <1>2 DEF EndInv, InService
<1>3. ASSUME NEW s \in Segments, Submit(s) \/ Cancel(s) PROVE EndInv'
  <2>1. CASE Submit(s)
    BY <1>0, <1>2, <2>1, SubmitForm
  <2>2. CASE Cancel(s)
    BY <1>2, <2>2 DEF Cancel, workerFrame, InService
  <2> QED
    BY <1>3, <2>1, <2>2
<1>4. ASSUME NEW w \in Workers, Work(w) \/ Timeout(w) PROVE EndInv'
  BY <1>0, <1>4, WorkEnd
<1>5. ASSUME NEW p \in Providers, Switch(p) PROVE EndInv'
  <2>1. closing.phase = "no" \/ switch[p].pc = "switching"
    BY <1>5 DEF Switch, SwitchBegins, SwitchCancels, SwitchDrops, SwitchCloses, CallsGathered
  <2>2. InService
    BY <1>0, <2>1 DEF RotationInv, Switches, InService
  <2> QED
    BY <1>0, <1>2, <1>5, <2>2, SwitchForms
<1> QED
  BY <1>1, <1>3, <1>4, <1>5, ShutdownEnd DEF Next

LEMMA InitEnd == Init => EndInv
BY DEF Init, EndInv, InService

-----------------------------------------------------------------------------
(* What the wait clock, the backlog and the closed providers show *)

LEMMA WaitClockFollows == ASSUME DropInv PROVE WaitClockMatchesBacklog
BY DEF DropInv, InService, Backlog, WaitClockMatchesBacklog

\* _pending_since, keyed by caption and popped by whoever takes or drops a job of
\* that caption, always has exactly the keys of the captions that wait: with any
\* number of workers, providers and requests in flight.
THEOREM WaitClock == Spec => []WaitClockMatchesBacklog
<1>1. Init => IInv /\ House
  BY InitInv, InitHouse
<1>2. IInv /\ House /\ [Next]_vars => (IInv /\ House)'
  BY NextInv, NextHouse
<1>3. IInv /\ House => WaitClockMatchesBacklog
  BY WaitClockFollows DEF House
<1> QED
  BY <1>1, <1>2, <1>3, PTL DEF Spec

\* With one worker, or with one translation service that is switched off and on,
\* no caption is shown as in progress without somebody who will settle it.
THEOREM BacklogKept ==
    ASSUME OneWorker \/ OneService
    PROVE  Spec => []BacklogHolds
<1> DEFINE Inv == /\ IInv /\ House /\ TendedInv
                  /\ (OneWorker /\ SoloInv) \/ (OneService /\ ServiceInv)
<1>1. Init => Inv
  BY InitInv, InitHouse, InitTended, InitSolo, InitService DEF TendedInv
<1>2. Inv /\ [Next]_vars => Inv'
  <2> SUFFICES ASSUME Inv, [Next]_vars PROVE Inv'
    OBVIOUS
  <2>1. IInv' /\ House'
    BY NextInv, NextHouse
  <2>2. InService => Matched
    BY SoloMatches DEF IInv, ServiceInv
  <2>3. TendedOn(Segments)'
    BY <2>2, NextTended DEF TendedInv, Cancels
  <2> QED
    BY <2>1, <2>3, NextSolo, NextService DEF TendedInv
<1>3. Inv => BacklogHolds
  <2>1. TendedInv => NothingLost
    BY DEF TendedInv, TendedOn, LostNothing, InService, NothingLost
  <2> QED
    BY <2>1, WaitClockFollows DEF House, BacklogHolds
<1> HIDE DEF Inv
<1> QED
  BY <1>1, <1>2, <1>3, PTL DEF Spec

\* With one worker no caption is ever mixed.
THEOREM OneWorkerNeverMixes ==
    ASSUME OneWorker
    PROVE  Spec => [](mixed = {})
<1> DEFINE Inv == IInv /\ House /\ SoloInv /\ mixed = {}
<1>1. Init => Inv
  BY InitInv, InitHouse, InitSolo DEF Init
<1>2. Inv /\ [Next]_vars => mixed' = {}
  <2> SUFFICES ASSUME Inv, [Next]_vars PROVE mixed' = {}
    OBVIOUS
  <2>0. TypeInv /\ TypeOK /\ CallInv /\ mixed = {}
    BY DEF IInv, TypeInv, House
  <2>1. ASSUME NEW w \in Workers, Take(w) PROVE mixed' = {}
    <3>1. InHands = {}
      BY <2>1 DEF Take, InHands, Working, OneWorker
    <3> QED
      BY <2>0, <2>1, <3>1 DEF Take
  <2>2. ASSUME NEW w \in Workers, Work(w) \/ Timeout(w), ~Take(w) PROVE mixed' = {}
    BY <2>0, <2>2, MixedSteps
  <2>3. ASSUME NEW p \in Providers, SwitchBegins(p) PROVE mixed' = {}
    <3>1. PICK done \in SUBSET Running : mixed' = mixed \cup {j.seg : j \in Mistaken(done)}
      BY <2>3 DEF SwitchBegins, CancelJobs, Running, Switching, SwitchState
    <3>2. ASSUME NEW j \in Running, NEW w \in Workers, activeCall[j.seg] = w PROVE worker[w].job = j
      <4>1. active[j.seg] = j /\ j.seg \in Segments
        BY <2>0, QueuedType DEF Running, CallInv
      <4>2. worker[w].job # None /\ worker[w].job.seg = j.seg
        BY <2>0, <3>2, <4>1 DEF CallInv, TypeInv, HoldsJob
      <4> QED
        BY <4>1, <4>2 DEF SoloInv
    <3>3. Mistaken(done) = {}
      BY <3>1, <3>2 DEF Mistaken
    <3> QED
      BY <2>0, <3>1, <3>3
  <2>4. ASSUME NEW p \in Providers, SwitchCancels(p) \/ SwitchDrops(p) \/ SwitchCloses(p)
        PROVE  mixed' = {}
    BY <2>0, <2>4 DEF SwitchCancels, SwitchDrops, SwitchCloses, SoloInv
  <2>5. ASSUME NEW s \in Segments, Submit(s) \/ Cancel(s) PROVE mixed' = {}
    BY <2>0, <2>5, SubmitFrame DEF Cancel, submitFrame
  <2>6. ASSUME Shutdown PROVE mixed' = {}
    BY <2>0, <2>6 DEF Shutdown, ShutdownBegins, ShutdownCancels, ShutdownReports, ShutdownEnds
  <2>7. ASSUME UNCHANGED vars PROVE mixed' = {}
    BY <2>0, <2>7 DEF vars
  <2> QED
    BY <2>1, <2>2, <2>3, <2>4, <2>5, <2>6, <2>7 DEF Next, Switch
<1>3. Inv /\ [Next]_vars => Inv'
  BY <1>2, NextInv, NextHouse, NextSolo
<1> HIDE DEF Inv
<1>4. Inv => mixed = {}
  BY DEF Inv
<1> QED
  BY <1>1, <1>3, <1>4, PTL DEF Spec

\* With any number of workers, of a caption that was never in two hands: a
\* provider is closed only once its calls are over, and the shutdown leaves no
\* caption in progress.
THEOREM EndedKept == Spec => []EndedStaysEnded
<1> DEFINE Inv == /\ IInv /\ House /\ HandsInv /\ TendedOn(Segments \ mixed)
                  /\ ProviderInv /\ EndInv
<1>1. Init => Inv
  BY InitInv, InitHouse, InitHands, InitTended, InitProvider, InitEnd
<1>2. Inv /\ [Next]_vars => Inv'
  BY NextInv, NextHouse, NextHands, NextStraight, NextProvider, NextEnd
<1>3. Inv => EndedStaysEnded
  <2> SUFFICES ASSUME Inv PROVE EndedStaysEnded
    OBVIOUS
  <2>1. ASSUME NEW w \in Workers, call[w] \in {"running", "cancelling"},
               worker[w].job.seg \notin mixed
        PROVE  worker[w].job.provider \notin closedProviders
    <3>1. worker[w].pc = "calling" /\ worker[w].job # None
      BY <2>1 DEF House, CallInv, IInv, TypeInv, HoldsJob
    <3>2. closing.phase # "closed"
      BY <3>1 DEF EndInv
    <3>3. provider \notin closedProviders
      BY <3>2 DEF House, RotationInv, Past
    <3>4. \A p \in Switches : switch[p].old \notin closedProviders
      BY DEF House, RotationInv
    <3>5. Rightly(w)
      BY DEF ProviderInv
    <3> QED
      BY <2>1, <3>1, <3>3, <3>4, <3>5 DEF Rightly, Owed, Awaited
  <2>2. NothingOpenAfterShutdown
    BY DEF EndInv, NothingOpenAfterShutdown, InService
  <2> QED
    BY <2>1, <2>2 DEF EndedStaysEnded, ClosedProviderIsIdle
<1> HIDE DEF Inv
<1> QED
  BY <1>1, <1>2, <1>3, PTL DEF Spec
=============================================================================
