-------------------------- MODULE TranscriptPipeline --------------------------
(***************************************************************************)
(* From what is recognized to what is published, the other half of         *)
(* backend/app/capture/controller.py: a local session queues utterances    *)
(* for the Whisper worker, a streamed one queues finals for the worker     *)
(* that may have a doubtful one heard again.  Both workers publish a final *)
(* to the session's file, the browser, Decision Radar and the translation, *)
(* and may still do so when the next session runs.                         *)
(*                                                                         *)
(* An utterance is its number, given in the order of speech.  Texts, the   *)
(* choice between two of them and the quality row are abstracted.          *)
(***************************************************************************)
EXTENDS Integers, FiniteSets, SequencesExt

CONSTANTS
    MaxUtterances,     \* bound: utterances of a run
    MaxSessions,       \* bound: sessions of a run
    RecheckMax         \* deepgram_recheck_queue_max_size

ASSUME PipelineAssumption == {MaxUtterances, MaxSessions, RecheckMax} \subseteq Nat \ {0}

VARIABLES
    session,     \* _session_id, 0 for None
    provider,    \* _selected_stt_provider
    opened,      \* the number of sessions so far
    stopping,    \* stop: no, or waiting
    owner,       \* the session of each utterance
    current,     \* _utterance_id, _deepgram_utterance_id, 0 for None
    finals,      \* _final_jobs
    partial,     \* _latest_partial, 0 for None
    worker,      \* _transcription_worker
    jobs,        \* _deepgram_final_jobs
    reviewer,    \* _deepgram_final_worker
    recheck,     \* _recheck_background_task is not done
    threads,     \* the inferences of the recheck engine that run
    pending,     \* _pending_final_completions
    waited,      \* the completions stop() waits for
    screen,      \* the browser: utterances with a partial shown
    published,   \* the browser, the file, the translation: the finals, in order
    owed,        \* history: accepted finals of the stream
    done,        \* history: utterances whose completion is set
    down         \* shutdown() has cancelled the workers

capture == <<session, provider, opened, stopping, waited>>
speech == <<owner, current>>
queues == <<finals, partial, jobs>>
vars == <<capture, speech, queues, worker, reviewer, recheck, threads, pending, screen,
          published, owed, done, down>>

Places == {"file", "browser", "translation"}
Idle == [at |-> "idle", job |-> 0, final |-> FALSE]
At(at, u, final) == [at |-> at, job |-> u, final |-> final]
Spoken == 1 .. Len(owner)

-----------------------------------------------------------------------------
(* Sessions *)

Start ==
    /\ session = 0 /\ ~down /\ opened < MaxSessions
    /\ opened' = opened + 1 /\ session' = opened'
    /\ provider' \in {"local", "deepgram"}
    /\ current' = 0 /\ partial' = 0
    /\ UNCHANGED <<stopping, waited, owner, finals, jobs, worker, reviewer, recheck, threads,
                   pending, screen, published, owed, done, down>>

\* After the flush of the segmenter or of the stream, which makes a final of
\* what the stream had shown; the segmenter may drop what is too short.
Stop ==
    /\ session # 0 /\ stopping = "no"
    /\ provider = "deepgram" => current = 0
    /\ stopping' = "waiting"
    /\ current' = 0
    /\ waited' = pending
    /\ UNCHANGED <<session, provider, opened, owner, queues, worker, reviewer, recheck, threads,
                   pending, screen, published, owed, done, down>>

\* The finals are there, or fifteen seconds are over: stop_and_finalize.
Finalize ==
    /\ stopping = "waiting"
    /\ stopping' = "no" /\ session' = 0 /\ waited' = {}
    /\ UNCHANGED <<provider, opened, speech, queues, worker, reviewer, recheck, threads,
                   pending, screen, published, owed, done, down>>

\* shutdown: the workers are cancelled where they are.
Shutdown ==
    /\ session = 0 /\ ~down
    /\ down' = TRUE
    /\ worker' = Idle /\ reviewer' = Idle
    /\ UNCHANGED <<capture, speech, queues, recheck, threads, pending, screen, published,
                   owed, done>>

-----------------------------------------------------------------------------
(* What is heard.  The next utterance begins when the last one is final. *)

Heard(u) ==
    /\ session # 0 /\ stopping = "no"
    /\ IF current # 0 THEN u = current /\ UNCHANGED owner
       ELSE u = Len(owner) + 1 /\ u <= MaxUtterances /\ owner' = Append(owner, session)

\* _enqueue_segment of a partial: the newest one replaces the last.
SegmentPartial(u) ==
    /\ provider = "local" /\ Heard(u)
    /\ current' = u /\ partial' = u
    /\ UNCHANGED <<capture, finals, jobs, worker, reviewer, recheck, threads, pending, screen,
                   published, owed, done, down>>

\* mutant
SegmentFinalBeside(u) ==
    /\ provider = "local" /\ Heard(u)
    /\ current' = 0
    /\ finals' = Append(finals, u)
    /\ pending' = pending \cup {u}
    /\ UNCHANGED <<capture, jobs, partial, worker, reviewer, recheck, threads, screen, published,
                   owed, done, down>>

\* _enqueue_segment of a final: a partial that waits is of no use any more.
SegmentFinal(u) ==
    /\ provider = "local" /\ Heard(u)
    /\ current' = 0 /\ partial' = 0
    /\ finals' = Append(finals, u)
    /\ pending' = pending \cup {u}
    /\ UNCHANGED <<capture, jobs, worker, reviewer, recheck, threads, screen, published, owed,
                   done, down>>

\* _on_deepgram_transcript of a partial
StreamPartial(u) ==
    /\ provider = "deepgram" /\ Heard(u)
    /\ current' = u
    /\ screen' = screen \cup {u}
    /\ UNCHANGED <<capture, queues, worker, reviewer, recheck, threads, pending, published,
                   owed, done, down>>

\* The text was final a moment ago.
StreamDuplicate(u) ==
    /\ provider = "deepgram" /\ Heard(u)
    /\ current' = 0
    /\ screen' = screen \ {u}
    /\ done' = done \cup {u}
    /\ UNCHANGED <<capture, queues, worker, reviewer, recheck, threads, pending, published,
                   owed, down>>

\* The rechecks that wait or run.
Rechecks == Cardinality({i \in DOMAIN jobs : jobs[i].allow}) + (IF recheck THEN 1 ELSE 0)

\* _on_deepgram_transcript of a final.  A doubtful one stays on the screen as
\* a provisional partial, and is heard again if few wait for that.
StreamFinal(u, risky) ==
    /\ provider = "deepgram" /\ Heard(u)
    /\ current' = 0
    /\ pending' = pending \cup {u}
    /\ owed' = owed \cup {u}
    /\ screen' = IF risky THEN screen \cup {u} ELSE screen
    /\ jobs' = Append(jobs, [utterance |-> u, allow |-> risky /\ Rechecks < RecheckMax])
    /\ UNCHANGED <<capture, finals, partial, worker, reviewer, recheck, threads, published,
                   done, down>>

-----------------------------------------------------------------------------
(* The two workers *)

\* mutant
TakeNewest ==
    /\ worker = Idle /\ ~down
    /\ \/ /\ finals # <<>>
          /\ worker' = At("inferring", Last(finals), TRUE)
          /\ finals' = Front(finals)
          /\ UNCHANGED partial
       \/ /\ finals = <<>> /\ partial # 0
          /\ worker' = At("inferring", partial, FALSE)
          /\ partial' = 0
          /\ UNCHANGED finals
    /\ UNCHANGED <<capture, speech, jobs, reviewer, recheck, threads, pending, screen,
                   published, owed, done, down>>

\* _transcription_worker takes a final, else the partial.
Take ==
    /\ worker = Idle /\ ~down
    /\ \/ /\ finals # <<>>
          /\ worker' = At("inferring", Head(finals), TRUE)
          /\ finals' = Tail(finals)
          /\ UNCHANGED partial
       \/ /\ finals = <<>> /\ partial # 0
          /\ worker' = At("inferring", partial, FALSE)
          /\ partial' = 0
          /\ UNCHANGED finals
    /\ UNCHANGED <<capture, speech, jobs, reviewer, recheck, threads, pending, screen,
                   published, owed, done, down>>

\* A partial is shown if its session is still the one.
InferredPartial ==
    /\ worker.at = "inferring" /\ ~worker.final
    /\ worker' = Idle
    /\ \/ UNCHANGED screen
       \/ /\ owner[worker.job] = session
          /\ screen' = screen \cup {worker.job}
    /\ UNCHANGED <<capture, speech, queues, reviewer, recheck, threads, pending, published,
                   owed, done, down>>

\* finally: the partial is cleared and the completion set.
Completes(u) ==
    /\ screen' = screen \ {u}
    /\ pending' = pending \ {u}
    /\ done' = done \cup {u}

\* A final has a text, or is empty, a duplicate or failed.
InferredFinal ==
    /\ worker.at = "inferring" /\ worker.final
    /\ \/ /\ worker' = [worker EXCEPT !.at = "file"]
          /\ UNCHANGED <<pending, screen, done>>
       \/ /\ worker' = Idle
          /\ Completes(worker.job)
    /\ UNCHANGED <<capture, speech, queues, reviewer, recheck, threads, published, owed, down>>

\* _process_deepgram_final: a recheck must be allowed, possible and alone.
Review ==
    /\ reviewer = Idle /\ jobs # <<>> /\ ~down
    /\ jobs' = Tail(jobs)
    /\ LET u == Head(jobs).utterance IN
       \/ /\ reviewer' = At("file", u, TRUE)
          /\ UNCHANGED <<recheck, threads>>
       \/ /\ Head(jobs).allow /\ ~recheck
          /\ reviewer' = At("rechecking", u, TRUE)
          /\ recheck' = TRUE /\ threads' = threads + 1
    /\ UNCHANGED <<capture, speech, finals, partial, worker, pending, screen, published, owed,
                   done, down>>

\* The thread ends; who waits for it goes on.
RecheckEnds ==
    /\ threads > 0
    /\ threads' = threads - 1
    /\ recheck' = FALSE
    /\ reviewer' = IF reviewer.at = "rechecking" THEN [reviewer EXCEPT !.at = "file"]
                   ELSE reviewer
    /\ UNCHANGED <<capture, speech, queues, worker, pending, screen, published, owed, done,
                   down>>

\* mutant
RecheckForgotten ==
    /\ reviewer.at = "rechecking"
    /\ reviewer' = [reviewer EXCEPT !.at = "file"]
    /\ recheck' = FALSE
    /\ UNCHANGED <<capture, speech, queues, worker, threads, pending, screen, published, owed,
                   done, down>>

\* Its time is over: the text of the stream stands, the thread goes on.
RecheckTimesOut ==
    /\ reviewer.at = "rechecking"
    /\ reviewer' = [reviewer EXCEPT !.at = "file"]
    /\ UNCHANGED <<capture, speech, queues, worker, recheck, threads, pending, screen,
                   published, owed, done, down>>

-----------------------------------------------------------------------------
(* _publish_final_transcript: a failure of one place does not keep the final *)
(* from the next.                                                            *)

Following(at) == CASE at = "file" -> "browser"
                   [] at = "browser" -> "translation"
                   [] OTHER -> "over"

Publishes(task, reached) ==
    /\ task.at \in Places
    /\ reached \/ task.at # "browser"
    /\ published' = IF reached THEN [published EXCEPT ![task.at] = Append(@, task.job)]
                    ELSE published
    /\ IF Following(task.at) = "over" THEN Completes(task.job)
       ELSE UNCHANGED <<screen, pending, done>>

Goes(task) == IF Following(task.at) = "over" THEN Idle
              ELSE [task EXCEPT !.at = Following(task.at)]

\* mutant
ReviewerPublishesOrStops(reached) ==
    /\ Publishes(reviewer, reached)
    /\ reviewer' = IF reached THEN Goes(reviewer) ELSE Idle
    /\ UNCHANGED <<capture, speech, queues, worker, recheck, threads, owed, down>>

ReviewerPublishes(reached) ==
    /\ Publishes(reviewer, reached)
    /\ reviewer' = Goes(reviewer)
    /\ UNCHANGED <<capture, speech, queues, worker, recheck, threads, owed, down>>

WorkerPublishes(reached) ==
    /\ Publishes(worker, reached)
    /\ worker' = Goes(worker)
    /\ UNCHANGED <<capture, speech, queues, reviewer, recheck, threads, owed, down>>

-----------------------------------------------------------------------------
Init ==
    /\ session = 0 /\ provider = "local" /\ opened = 0 /\ stopping = "no" /\ waited = {}
    /\ owner = <<>> /\ current = 0
    /\ finals = <<>> /\ partial = 0 /\ jobs = <<>>
    /\ worker = Idle /\ reviewer = Idle
    /\ recheck = FALSE /\ threads = 0
    /\ pending = {} /\ screen = {} /\ owed = {} /\ done = {}
    /\ published = [p \in Places |-> <<>>]
    /\ down = FALSE

Speech ==
    \E u \in 1 .. MaxUtterances :
        \/ SegmentPartial(u) \/ SegmentFinal(u)
        \/ StreamPartial(u) \/ StreamDuplicate(u)
        \/ \E risky \in BOOLEAN : StreamFinal(u, risky)
Local == Take \/ InferredPartial \/ InferredFinal \/ \E r \in BOOLEAN : WorkerPublishes(r)
Streamed == Review \/ RecheckTimesOut \/ \E r \in BOOLEAN : ReviewerPublishes(r)

Next ==
    \/ Start \/ Stop \/ Finalize \/ Shutdown
    \/ Speech \/ Local \/ Streamed \/ RecheckEnds

Spec == Init /\ [][Next]_vars

\* The workers go on, an inference of the worker ends, a recheck ends or times out.
FairSpec == Spec /\ WF_vars(Local) /\ WF_vars(Streamed)

-----------------------------------------------------------------------------
(* Properties *)

\* The types of the variables; what is pending is spoken and not done.
TypeOK ==
    /\ {session, opened} \subseteq 0 .. MaxSessions
    /\ provider \in {"local", "deepgram"} /\ stopping \in {"no", "waiting"}
    /\ owner \in Seq(1 .. MaxSessions) /\ {current, partial} \subseteq {0} \cup Spoken
    /\ finals \in Seq(Spoken)
    /\ \A i \in 1 .. Len(jobs) : jobs[i].utterance \in Spoken
    /\ worker.at \in {"idle", "inferring"} \cup Places
    /\ reviewer.at \in {"idle", "rechecking"} \cup Places
    /\ threads \in Nat /\ {recheck, down} \subseteq BOOLEAN
    /\ pending \cup screen \cup owed \cup done \subseteq Spoken /\ pending \cap done = {}
    /\ published \in [Places -> Seq(Spoken)]

\* Of a session, no final is published twice anywhere, nor before an earlier one.
SessionInOrder ==
    \A p \in Places : LET s == published[p] IN
        \A i, j \in 1 .. Len(s) :
            i < j /\ owner[s[i]] = owner[s[j]] => s[i] < s[j]

\* With it, the types hold, and what is pending is not done.
PublishedInOrder == TypeOK /\ SessionInOrder

\* Whatever becomes of its recheck, of the file and of the translation, an
\* accepted final of the stream is shown when its completion is set; and no
\* partial is left, or comes, on the screen for an utterance that is done: the
\* comment at controller.py:2139.
FinalReplacesPartial ==
    /\ owed \cap done \subseteq ToSet(published["browser"])
    /\ screen \cap done = {}

\* One recheck runs at a time, and few wait for it.
RecheckBounded ==
    /\ threads <= 1
    /\ Rechecks <= RecheckMax

\* Every final is handled, unless the workers are cancelled.
FinalsHandled ==
    \A u \in 1 .. MaxUtterances : u \in pending ~> u \notin pending \/ down

-----------------------------------------------------------------------------
(* The inductive invariant.  What is published in order depends on the   *)
(* order of the queues, and what is done on nobody having it any more.      *)
(* The stream and the local recognizer share the places they publish to and *)
(* are kept apart by one fact, that they never have utterances of the same  *)
(* session (Apart).                                                         *)

Busy(task) == task.at # "idle"
Has(task) == IF Busy(task) THEN {task.job} ELSE {}

\* The places a task has still to publish its final to.
Ahead(p, task) ==
    \/ task.at = p
    \/ task.at \in {"inferring", "rechecking", "file"}
    \/ task.at = "browser" /\ p = "translation"
Brings(task, p) == IF task.final /\ Ahead(p, task) THEN {task.job} ELSE {}

\* The utterances that nothing is said to any more.
Closed == Spoken \ {current}

InFinals == {finals[i] : i \in 1 .. Len(finals)}
InJobs == {jobs[i].utterance : i \in 1 .. Len(jobs)}
LocalHas == InFinals \cup ({partial} \ {0}) \cup Has(worker)
StreamHas == InJobs \cup Has(reviewer)

\* The finals that were published to p, and those that may still be.
Published(p) == {published[p][i] : i \in 1 .. Len(published[p])}
Coming(p) == InFinals \cup InJobs \cup Brings(worker, p) \cup Brings(reviewer, p)

\* x may be published before y.
Precedes(x, y) == owner[x] = owner[y] => x < y

Types ==
    /\ session \in Nat /\ opened \in Nat /\ session <= opened /\ opened <= MaxSessions
    /\ provider \in {"local", "deepgram"} /\ stopping \in {"no", "waiting"}
    /\ owner \in Seq(Nat \ {0}) /\ partial \in Nat
    /\ finals \in Seq(Nat) /\ jobs \in Seq([utterance : Nat, allow : BOOLEAN])
    /\ worker \in [at : {"idle", "inferring"} \cup Places, job : Nat, final : BOOLEAN]
    /\ reviewer \in [at : {"idle", "rechecking"} \cup Places, job : Nat, final : BOOLEAN]
    /\ threads \in Nat /\ recheck \in BOOLEAN /\ down \in BOOLEAN
    /\ published \in [Places -> Seq(Nat)]

\* The sessions of the utterances; the one that is spoken is the last.
Speaking ==
    /\ \A u \in Spoken : owner[u] <= opened
    /\ current \in {0, Len(owner)}
    /\ current # 0 => session # 0 /\ owner[current] = session /\ stopping = "no"

\* An idle task holds nothing, and only finals are published.
Tasks ==
    /\ worker.final => Busy(worker) /\ worker.job \in Closed
    /\ worker.at \in Places => worker.final
    /\ reviewer.final <=> Busy(reviewer)

\* What the tasks and the queues hold was spoken, and the finals are closed.
Past ==
    /\ LocalHas \subseteq Spoken /\ InFinals \subseteq Closed
    /\ StreamHas \subseteq owed
    /\ pending \subseteq Closed /\ owed \subseteq Closed /\ done \subseteq Closed
    /\ screen \subseteq Spoken
    /\ \A p \in Places : Published(p) \subseteq Closed

\* The local recognizer and the stream have no session in common.
Apart ==
    /\ \A u \in owed, x \in LocalHas : owner[u] # owner[x]
    /\ session # 0 /\ provider = "local" => \A u \in owed : owner[u] # session
    /\ session # 0 /\ provider = "deepgram" => \A x \in LocalHas : owner[x] # session

FinalsSorted == \A i, k \in 1 .. Len(finals) : i < k => finals[i] < finals[k]
JobsSorted == \A i, k \in 1 .. Len(jobs) : i < k => jobs[i].utterance < jobs[k].utterance

\* The queues are in the order of speech, and come after what was taken.
Queued ==
    /\ FinalsSorted /\ JobsSorted
    /\ worker.final => \A x \in InFinals : worker.job < x
    /\ Busy(reviewer) => \A x \in InJobs : reviewer.job < x
    /\ partial # 0 => /\ \A x \in InFinals : x < partial
                      /\ worker.final => worker.job < partial

\* Every final was published before those that have still to come.
Ordered ==
    \A p \in Places :
        /\ \A x \in Published(p), y \in Coming(p) : Precedes(x, y)
        /\ \A i, k \in 1 .. Len(published[p]) :
              i < k => Precedes(published[p][i], published[p][k])

\* What is done is in nobody's hands, and was shown if the stream owed it.
Settled ==
    /\ \A u \in done : u \notin LocalHas \cup StreamHas \cup pending \cup screen
    /\ \A u \in owed : u \in done => u \in Published("browser")
    /\ reviewer.at = "translation" => reviewer.job \in Published("browser")

IInv ==
    /\ Types /\ Speaking /\ Tasks /\ Past
    /\ Apart /\ Queued /\ Ordered /\ Settled

\* A thread runs exactly while the task that waits for it is not done.
Alone ==
    /\ threads = IF recheck THEN 1 ELSE 0
    /\ Rechecks <= RecheckMax
=============================================================================
