# Verification of WhyKaigi (meeting-live-translator)

WhyKaigi captures the sound of a meeting, transcribes it, translates each final
caption and shows both live in a browser; it keeps every session on disk,
derives decisions and analyses from it, and can share the captions with remote
viewers. The application is one Python process (FastAPI on one asyncio event
loop) with helper threads for blocking work. This directory holds TLA+ models
of its parts, the TLC runs that check them and machine-checked proofs.

## 1. Inventory

| Component | State it keeps | Operations | Hard behaviour |
|---|---|---|---|
| Translation manager and queue (`translation/manager.py`, `queue.py`) | a record per caption, bounded queue, worker tasks, dictionaries of active jobs and calls, current provider | submit, retry, cancel, switch_provider, shutdown | retries overlapping the previous submission, cancellation racing answers and timeouts, stale lists across awaits, shutdown |
| Translation providers | none the manager relies on | translate, health_check, close | late, failing and cancelled calls |
| Local translation worker (`translation/worker_provider.py`) | child process, pid file, failure count, readiness, two locks | start, stop, monitor, restart, translate | crash of the worker or of the server, a process that cannot be ended, a stop during a start, answers to requests given up |
| Capture controller (`capture/controller.py`) | device, status, stream client, reconnect buffer and offsets; utterances, jobs, pending finals | start, pause, resume, stop, shutdown, reconnect; segments, streamed finals, rechecks, publication | a recovery cancelled in any await, bounded buffers, stop waiting for finals, a partial that outlives its final |
| Deepgram streaming client (`transcription/deepgram_stream.py`) | socket, utterance under assembly, two timers | send, finalize, stop | late, missing and overlapping results, timers that race them |
| Local transcription (`transcription/*`) | segmenter buffer, deduplicator history, audio ring | push, flush, check | boundaries of buffers, limits |
| Audio devices (`audio/*`) | device handles | open, read, close | external library |
| Session repository and manager (`sessions/*`) | event logs, manifest, session.json per session | start, append, stop, finalize, recover | crash between files, late appends, recovery, concurrent writers |
| WebSocket fan-out (`websocket/manager.py`) | bounded queue and sender task per browser | connect, disconnect, broadcast | overflow, lossy replacement, snapshot against live events |
| Decision Radar (`decision_radar/*`) | items and tombstones per session, buffers, batch queue, provider | submit_final, update_item, configure | an answer that meets items the user changed meanwhile, a provider switch during a batch, a full queue |
| Analysis manager (`analysis/*`) | a record and a task per session | submit, retry, cancel, switch, shutdown | overlapping submissions, what was loaded before the lock, cancellation against the threads of the repository |
| Live sharing (`sharing/manager.py`) | room, bounded queue, publisher task, kept access logs | start, stop, publish, heartbeat, read the log | eviction, batches sent again, lost answers, a batch that waits while the room closes |
| Context engine, glossary | term tables | normalize | string algorithms |
| Application and services (`main.py`, `services.py`) | wiring | requests, lifespan | order of the shutdown |
| Front end, desktop, viewer site, scripts | display state | | outside the models |

How they interact: the capture controller hands each final caption to the
session repository (append), the WebSocket fan-out (broadcast), the translation
manager (`submit_event`) and the Decision Radar (`submit_final`). The
translation manager emits its events through a sink
(`services.py:145-191`) that appends translations and errors to the session log
in a thread, updates the Radar, and broadcasts. The browser calls back over
HTTP: retry of a caption, provider switch, capture and session commands. At exit
`main.py:296-310` stops sharing, the controller, the Radar, the analysis and the
translation manager, in that order.

What makes each component correct is in the hazards of `PROJECT.json`: each one
names the line where it bites and the properties that would catch it.

## 2. Plan

Modelled and checked, in this order:

1. `TranslationManager` with its abstract specification `CaptionLedger`;
   its safety and refinement proved (section 3).
2. `SessionLog`, `SessionStore` and the abstract `SessionArchive`; all five
   properties proved, the refinement among them (section 4).
3. `EventFanout`: the bounded queue of each browser; its safety proved (section 5).
4. `DecisionRadar`: batches, switches, review; its four properties proved (section 6).
5. `LiveShare`: the queue behind the sinks of the fan-out; its three properties
   proved (section 7).
6. `WorkerSupervisor`: the child process of the local translation; its safety
   proved (section 8).
7. `AnalysisManager`: one run at a time, results that accumulate; both proved
   (section 9).
8. `DeepgramStream`: from words to finals; its safety proved (section 10).
9. `CaptureController`: operations, frames, reconnection; its safety proved
   (section 11).
10. `TranscriptPipeline`: from finals to what is published; its safety proved
    (section 12).

`SessionStore` includes what the controller, the translation sink and the
analysis manager ask of it; `TranslationManager` includes the suspension in the
sink, whose append is `AppendOutcome` of `SessionStore`; `LiveShare` takes what `EventFanout` hands to its sinks;
`TranscriptPipeline` takes the finals `DeepgramStream` makes, in any order of
its callbacks, and ends where `SessionStore`, `EventFanout` and
`TranslationManager` begin. `CaptureController` and `TranscriptPipeline` are two
halves of one class that share only the life of a session: the first has the
audio, the second the text.

Left: the numeric algorithms (utterance segmentation, audio ring, text
similarity) against reference definitions.

Each module keeps one type invariant. Several named parts that belong together
are checked as one conjunction, so that a run asks few questions: `FilesAgree`,
for instance, is `TypeOK`, `ExportsAgree`, `MetadataAgrees` and `AnalysisBacked`.

## 3. Translation manager

### Model and code

`TranslationManager.tla` models `backend/app/translation/manager.py`,
`queue.py`, the translation sink of `services.py`, the settings request and the
shutdown order of `main.py`.

**Atomicity.** asyncio runs one task at a time and switches only where a task
suspends, so an action is a task's run from one suspension to the next. In this
application the suspensions are the provider call, the backoff sleep, and the
emission of `translation` and `translation_error`, because their sink persists
the event in a thread (`asyncio.to_thread`). All other events are delivered by
`broadcast` without suspending, and so is everything between: `submit` takes its
lock, updates the record and queues the job in one run. After a job a worker
takes the next one without suspending when the queue is not empty; the model
makes two actions of it, which only adds interleavings.

| Code | Model |
|---|---|
| `_records[segment_id]` | `rec`: submission number, status, the submission of the kept COMPLETED result, error code |
| `queue` | `queue`, a sequence of jobs (caption, submission, provider) |
| `_pending_since` keys | `waiting` |
| `job.cancel_event` | membership of `cancelled` |
| a worker task | `worker[w]`: where it is suspended, its job, the attempt, whether the timer of `wait_for` fired, the event it emits |
| the call task | `call[w]`: none, running, cancelling, or its outcome |
| `worker.cancel()` | `interrupt[w]`: pending until delivered |
| `_active_jobs`, `_active_calls` | `active`, `activeCall`, keyed by caption as in the code, popped by whoever runs its `finally` |
| `provider`, `_closed_provider_ids` | `provider`, `closedProviders` |
| a `switch_provider` call | `switch[p]`, with the list of jobs it took at its start and the calls it gathers |
| `shutdown` | `closing`: phase and the jobs to report |
| (history) | `mixed`: the captions that were in the hands of two workers, or whose running call a switch took for that of an older job |

Submissions: `Refuse`, `Skip` (unknown language), `Disable` (provider `none`),
`Overflow` (queue full), `Enqueue`; a retry is a submission of a known caption.
Workers: `Take`, `Timeout`, `CallEnds`, `Succeed`, `Fail`, `Cancelled`,
`BackoffEnds`, `EmitEnds`, and `Interrupted` for the cancellation of the task.
Switch: `SwitchBegins`, `SwitchCancels` (the loop up to the next emission),
`SwitchDrops`, `SwitchCloses`. Shutdown: `ShutdownBegins`, `ShutdownCancels`,
`ShutdownReports`, `ShutdownEnds`.

Decisions a reader should know:

- Python 3.11 (`README.md:106`): when a worker is cancelled while its call is
  already done, `wait_for` returns the outcome and the cancellation is lost
  (first disjunct of `Interrupted`). In every other place it ends the task.
- A `CancelledError` of a call whose job was not cancelled is re-raised and ends
  the worker (`Cancelled`); `start()` revives the pool only when all are done.
- The order in which `switch_provider` visits the active jobs is left open:
  dictionaries iterate in insertion order and every order can occur.
- Two switches may be in flight (the settings request takes no lock). The
  shutdown begins when no switch is: the server finishes its requests first.
- `cancel(segment_id)` has no caller in the application but is the manager's
  interface and tested; the constant `CancelAPI` says whether it is used.
- Submissions between the cancellation of the shutdown and its end are left out:
  `controller.shutdown()` has stopped the captions before (`main.py:300`).
- Retired providers (`cancel_pending=False`) are not used by the application.
- All provider error codes are one code `provider`: `_finish_error` compares
  codes only to drop repeats, and a submission fails at the provider once.

`CaptionLedger.tla` is what the manager promises of each caption: numbered
submissions, one open at a time, completed at most once and only from
`translating`, an error never over the translation of its own submission.

### Properties

- `OneOwner`: a submission waits at one place of the queue or is held by one
  worker; a queued job is newer than one still being worked on.
- `BacklogHolds`: `NothingLost`, a caption shown as pending or translating has
  somebody who will settle it, and `WaitClockMatchesBacklog`, the clock of the
  oldest wait has the keys of exactly the waiting captions.
- `EndedStaysEnded`: `ClosedProviderIsIdle`, no call runs on a closed provider,
  and `NothingOpenAfterShutdown`, every caption is settled by then; both for the
  captions that are not in `mixed`. The exception is exact: a caption enters
  `mixed` only when a worker takes it while another still has it, or when a switch
  looks up the call of a job and finds that of a newer one, and the counterexamples
  below are of such captions.
- `EverySubmissionSettles`: liveness, under `FairSpec`.
- `ImplementsLedger`: refinement of `CaptionLedger`.

### Runs

All set `CHECK_DEADLOCK FALSE`: the application really stops after its shutdown
and when every caption has used its submissions. `MaxSubmissions` is the only
artificial bound; two submissions are the least with an older and a newer job of
one caption. Two captions suffice for the interference of jobs since all
dictionaries are keyed by caption; two workers are the configured default
(`max_concurrency = 2`). Captions of known language are symmetric; runs with
liveness properties use no symmetry.

| Run | Instance | Shows |
|---|---|---|
| `translation_switch` | 3 captions (one of unknown language), 2 workers, 2 providers, queue of 2, cancel, shutdown | `EndedStaysEnded` |
| `translation_workers` | 2 captions, 2 workers, a provider and `none`, queue of 1, 1 retry, fairness | `OneOwner`, `BacklogHolds`, `ImplementsLedger`, `EverySubmissionSettles` |

The first run has no retries of an attempt, which keep a caption in the same hands;
`TranslationStraight.cfg` has one. Some properties need one worker or one provider
to hold, which is why the runs differ; with other values of the constants TLC shows what the code does instead:

- two workers and two providers break `NothingLost`
  (`TranslationForeignCancel.cfg`): a switch suspended in its loop cancels the
  call of a newer job of the new provider, the worker ends and the caption stays
  translating;
- they break `ClosedProviderIsIdle` without its exception: a retry taken by a second worker while the
  first emits the old translation is hidden when the first pops the shared
  entries, and a switch closes the provider under its call (`manager.py:596`);
- two workers break `NothingOpenAfterShutdown` without its exception: the shutdown misses such a hidden
  job, and its caption stays translating (`manager.py:916`);
- nothing is claimed of the order of a caption's rows in the session log: two
  workers append in two threads (`services.py:163`), so that the log may end with
  the older translation, and an append that fails is only logged
  (`services.py:174-180`), so that it may lack the one that is shown;
- the provider `none` breaks `TranslationKept` (a kept translation only gives way
  to a later one): a retry discards it (`manager.py:421`). The ledger allows it;
- one worker is enough to break `ShutdownTerminates`
  (`TranslationShutdownHangs.cfg`): a cancellation that `wait_for` swallows is
  not repeated, and the shutdown waits for ever (`manager.py:923`).

`TranslationOverlap.cfg` checks the invariants of the proofs for two workers and one
service, `OneOwner` and the refinement with three captions,
`TranslationOneWorker.cfg` those for one worker with three providers, and
`TranslationStraight.cfg` those of `EndedKept` for two workers and two providers.

**Fairness** (`FairSpec`): a worker that can run does, which includes that each
provider call ends, by its answer or by the timer of `wait_for`; the pending
steps of a switch and of the shutdown are taken. Nothing is assumed of
submissions, cancellations or of the start of a switch or shutdown. It is weak
fairness: the event loop runs every ready task, and these actions stay enabled
until taken, or are disabled by the task's own next step.

### Proofs

`TranslationManagerProofs.tla` proves, for every set of captions, workers and
providers and every bound, from `TranslationAssumption` and `NoneAssumption`
only: `TypeCorrect` (`TypeOK`), `OneOwnerHolds` (`OneOwner`), `Refinement`
(`ImplementsLedger`) and `WaitClock` (`WaitClockMatchesBacklog`). The first three
follow from `Invariance`: `IInv` is inductive. `EndedKept` (`EndedStaysEnded`) has no
hypothesis either, and `OneWorkerNeverMixes` says that with one worker `mixed` stays
empty, so that nothing is excepted there. Where the counterexamples above show that
a property needs it, the theorem says so: `BacklogKept` (`BacklogHolds`) is proved
for one worker (`OneWorker`, `translation_max_concurrency` is 1) with any number of
providers and for any number of workers with one service, which may be switched off
and on (`OneService`).

`OneOwner` alone is not inductive: that a newer job may enter the queue rests on
the record, that the record is right rests on which jobs still exist. `IInv` has
the types, `HoldsJob` (a worker has a job exactly while it works), `KnowsOld` (a
switch under way knows what it replaces) and three parts: `JobInv` (no job that
anybody still refers to is newer than its record, and a submission has one job),
`QueueInv` (a queued job is of its record's current, pending submission, one per
caption, and nobody outside the queue refers to it) and `WorkerInv` (no two
workers hold the same job; `Sound`: while an attempt of the current submission
is under way the record says `translating`, or `cancelled` with the job's event
set). The argument: every step of a worker but `Take` is an `ActorStep`, which
touches only the record of its own submission (`ActorStepInv`); `Take` moves one
job from the queue to a worker (`TakeInv`); a cancellation settles records of
jobs that leave the queue or whose event is set (`FailingInv`); a submission is
numbered after every job of its caption (`RenewedInv`).

The other theorems add invariants, each proved on top of those before it:

- `House`, for all constants. `CallInv`: a worker has a call exactly while it awaits
  one, and an entry of `_active_calls` is of a worker whose `finally` is still to
  run. `RotationInv`: a provider is installed once and replaced by one switch, and
  what waits in the queue is for the current one. `DropInv`: what a switch took from
  the queue is pending and in nobody's hands, and the wait clock has its key. Every
  step of a worker but `Take` has one of six forms (`WorkForms`), which say what it
  does to all of these at once.
- `SoloInv` for one worker, `ServiceInv` for one service: two reasons why the entries
  of the dictionaries, popped by whoever ends, are still those of the attempt they
  are used for (`Matched`). With one worker they hold its job. With one service all
  attempts are at the current submission while it is on, and none starts while it is
  off.
- `TendedInv`, from `Matched`: a call that was cancelled belongs to a job whose event
  is set, so that no worker dies of a foreign cancellation, and `NothingLost`.
- `HandsInv`, for all constants: the worker of a caption outside `mixed` is its only
  one, and the entries of the dictionaries are that worker's. From it `Matched` for
  these captions, and with it what `TendedInv` says, for them (`TendedOn`).
- `ProviderInv` (a call on a replaced provider is gathered by the switch that will
  close it) and `EndInv` (what is open after the cancellation of the shutdown is on
  its list), for the same captions.

The refinement maps each
of these to one step of the ledger or a stutter.

Left to TLC: the liveness properties. `BacklogHolds` is proved for one worker or one
service: these are the instances in which it holds, and the hypotheses name no other
condition.

## 4. Session store

### Model and code

`SessionStore.tla` models `backend/app/sessions/repository.py`, `manager.py` and
`recovery.py`, with what drives them: the capture controller, the translation
sink, the analysis manager, the session requests of the API and the recovery of
`main.py`'s lifespan. `SessionLog.tla` models the rows of a log and the assembly
of a document from them (`assembler.py`). `SessionArchive.tla` is the abstract
specification: logs only grow, by rows that may be damaged,
and what is shown of a session is always the assembly of its whole log.

**Atomicity.** Every repository operation holds one lock (`self._lock`), so
operations do not overlap, but each is a list of file writes, and the process
may die, or the write fail, at each of them. `job` is the operation that holds
the lock with the writes it has left; `WriteFile` does the next one. A file
written by `atomic_write_text` is replaced in one step or not at all; an
appended row may be cut, and cut inside a character when it holds text.

| Code | Model |
|---|---|
| the files of a session directory and the root-level log of Phases 1 and 2 | `disk[s]`, a record of files |
| the operation under the lock, its remaining writes, whether a failure below it was recorded | `job` |
| `_session_id` of the repository, `_active_session_id` of the manager | `active` |
| `_storage_policy` | `policy`; the copy a session keeps is in its manifest |
| the controller's life cycle around `start`, `stop_and_finalize` | `capture` |
| `_publish` of a final, then the translation sink | `stage[s][g]`: how far caption `g` is |
| the analysis task | `analysing`; queued and running are one state |
| `recover_incomplete`'s iteration | `scan` |

Life cycle: `StartSession`, `Pause`, `StopBegins`, `StopSession`, `Configure`.
Appends: `AppendFinal`, `AppendQuality`, `AppendNormalization`, `AppendOutcome`
(translation or error; a finished session is finalized again). Requests:
`FinalizeRequest`, `RecoverRequest`, `ExportRequest`. Analysis: `AnalysisBegins`,
`SaveAnalysis`, `AnalysisFails`. Failure: `WriteFails`, `Crash`, `Startup`,
`RecoverNext`, `RecoveryEnds`.

Decisions a reader should know:

- A text is present or not; identifiers, timestamps, revision counters, warnings,
  the order of segments and the layout of the exports are left out. An export is
  what a reader finds in it: originals, translations, the analysis.
- What a finalization writes is computed when it takes the lock: nothing else
  writes meanwhile, and the writes that change its inputs are accounted for.
- An append that fails, or is interrupted by a crash, may leave a part of its line.
  The next row of that log continues it, and both are one damaged line
  (`Appended`); `glued` remembers such rows.
- Automatic recovery at startup is on, as configured by default.
- Captions are appended while the session is open or late, after the stop; a
  session is captured once, and a crash loses the captions under way.

### Properties

- `FilesAgree`: `ExportsAgree`, the files of a finished session are of one
  generation; `MetadataAgrees`, without crashes and failed writes the manifest
  has the document's status; `AnalysisBacked`, nothing tells of an analysis that
  is not on disk.
- `NothingMissing`: `AcknowledgedIsLogged`, a row whose append returned is in the
  log, unless it continued what a failed append had left (`repository.py:279`), and
  without a failed write none did; `OutcomesShown`, without crashes and failed writes a finished document
  shows every logged outcome; `RecoveryComplete`, no session of an earlier run is
  left half-way.
- `NothingShownIsLost`: `session.json` never loses an original or a translation
  it showed, through any finalization, crash or recovery.
- `ResultsConsented`: the policy of the session, not the present one, decides which
  translations and analyses are kept. Of the original text it says nothing: the
  code does not keep to what the documents say of it (below).
- `ImplementsArchive`: refinement of `SessionArchive`.

### Run

`session_files`: one session, the policies all and nothing, every request, one
crash and one failed write at any point, each of which may cut a row, three rows of
log. Sessions
are independent but for the lock and the active session, so one suffices, except
where a legacy log is imported beside it: `SessionLegacy.cfg` checks
`AnalysisBacked` and `ImplementsArchive` with two sessions, one of them a Phase 1
log. `MaxLog` bounds repeated outcomes: three rows are a final, a row about it
and an outcome. `CHECK_DEADLOCK FALSE`: a stored session may rest.

What else the model shows of the code, with other values of the constants or one
more line of specification:

- `SessionOriginalStored.cfg`: the normalization row stores the text of a final
  of a session without `save_original` (`repository.py:405-418`), and so does its
  `session.json`. `docs/phase3_session_schema.md:324` says that the original text
  is then written nowhere, `README_KO.md:385` that only a marker is left.
- `SessionDamagedRow.cfg`: a row cut inside a character makes the whole log
  undecodable, and the session unrecoverable.
- `AcknowledgedIsLogged` fails without its exception: after a failed append that
  left part of its line the next row continues that line and is lost with it, though
  its append returned (`repository.py:279`).
- `MetadataAgrees` does not hold across a crash between the last two writes of a
  finalization: `session.json` says `finalizing` under a completed manifest, and
  the recovery skips the session (`repository.py:645`).
- A finalize request completes the session that is being captured
  (`manager.py:114`), against `docs/phase3_session_schema.md:89-90`.
- Saving an analysis finalizes with `recovered` whenever the root-level mirror
  exists, which it does for ordinary sessions (`repository.py:791`).
- A final that comes after the stop is logged, but no finalization follows
  (`repository.py:326`), unlike a translation.

### Proofs

`SessionStoreProofs.tla` proves the five properties of the run for every set of
sessions, legacy logs, captions and policies and every number of rows, crashes and
failed writes, from `SessionAssumption` and `NoFileAssumption` (what stands for a
missing file is no file).

An operation is a list of writes, each of which may be the last, so what a directory
owes has two halves. `Sound` is what is true at any instant, whatever was
interrupted: the files are typed and there is no document without a manifest
(`Built`); rows and documents hold only what the session's own policy grants
(`Granted`); `session.json` shows no more than the log, in which a caption is final
once, and no analysis that is not kept (`Showing`); under a final manifest the
exports render the document (`Agreed`). `Todo` is what the writes that are left will do
to the directory: they are a suffix of the writes of the operation, computed from the
files as they are now. The proof goes along the lists: each write leaves the
directory sound and moves one list to the next (`TodoMoves`); a failed or cut write
leaves it sound with the rest dropped or turned into the error path; the last
one leaves what the operation promises (`Leaves`).

`IInv` has the parts `Typed`; `Working` (what each operation that holds the lock has
to do with the session that is open, the life of the controller and the recovery);
`Directories` (each is `Sound`); `AtWork` (`Todo` of the operation under way);
`AtRest` (what a session that no operation works on owes: without crashes and faults
its document tells what its manifest and log tell, and no session of an earlier run
is left half-way once the recovery is over); and `Streaming` (a session that
is recorded has a manifest, and a caption the pipeline has not heard is not final in
its log). The invariants follow from it.
`NothingShownIsLost` and `ImplementsArchive` follow from the same lemmas: `Steps`
says that one step replaces `session.json` by an assembly of the whole log, or makes
the log grow, or leaves both alone, which is a step of `SessionArchive` or a stutter.

`NothingMissing` needs a second invariant, `Remembered`: every acknowledged row is
in the log or continued a cut line, and unless a write failed the log of the session
that is open ends in a whole line and no row continued another. A crash cuts lines
too, but no session goes on after it.

`SessionInvariant.cfg` checks `IInv` and `Remembered` for one session with one crash
and one failed write (about four minutes with four workers: `Todo` quantifies over
lists of writes). Two sessions were only proved.

## 5. WebSocket fan-out

`EventFanout.tla` models `backend/app/websocket/manager.py` and the `/ws/live`
handler of `main.py`. Enqueueing never suspends, so a broadcast reaches every
queue in one action; it suspends only in `disconnect`, for the sender of a
browser it drops.

| Code | Model |
|---|---|
| `_clients` | `clients`, with `queue[c]` and `sender[c]` |
| `_sender_loop` | `SenderTakes`, `Sends`, `SendFails`, `SenderEnds` |
| `live`: connect, snapshot, receive loop, finally | `Connect`, `SendSnapshot`, `HandlerNotices`, `HandlerEnds` |
| `broadcast` and its stale browsers | `Broadcast`, `Drop`, `Dropped`, `BroadcastEnds`; `task[b]` |
| `close_all` | `CloseAll`, then `Drop` |
| the network | `open`, `Closes`, and no fairness for `Sends` |

Events are their type and their place in the log of broadcasts. `since` is what
the snapshot shows: the handler reads the capture state in the same run that
registered the browser, and builds the rest across awaits. Pongs and the
cancellation of a task in the middle of a broadcast are left out.

Run `fanout`: a browser, 2 tasks, a critical and two lossy types, a queue of 3 and 4
events, with fairness. With the snapshot, four events are the least that fill the
queue with one of each type and displace the first of them, so that a queue that is
emptied and filled again (`manager.py:132`) has two events whose order may change.
Browsers share nothing but the drops of one broadcast; `FanoutInvariant.cfg` checks
the same properties with two of them, a queue of 1 and 2 events.

- `DeliveryHolds`: `CriticalComplete`, a registered browser not about to be
  dropped misses no critical event since its snapshot, and `DeliveredInOrder`.
- `OnlyCoalesced`: what waits is displaced by nothing but a newer event of its
  own lossy type.
- `NobodyHeldUp`: `BroadcastsEnd`, no browser holds up a broadcast, and
  `ClosedIsForgotten`.

Fairness is weak fairness of the tasks of the event loop: the handler, the
sender once it is not waiting for the network, and a suspended broadcast. A
frame may stay in transit for ever, and browsers need not read.

`CriticalComplete` needs its exception: a broadcast that drops two browsers
suspends for the first, and a later broadcast may still reach the second, which
then has a gap until it is dropped. Three more behaviours are visible in the
model and covered by no property that holds: `disconnect` does not close the
WebSocket, so a dropped browser stays connected to nothing (`FanoutDropped.cfg`
violates `DroppedIsClosed`); `send_to` ignores an overflow, so a snapshot that
finds its queue full is lost (`manager.py:92`); and while a broadcast awaits a
sender a later one reaches the sinks before it (`manager.py:102`).

### Proofs

`CaptionConsumersProofs.tla`, which also holds the proofs of section 6, proves, for every set of browsers, tasks and types and every
number of events and size of the queues, `DeliveryHolds` and `OnlyCoalesced`, from
`FanoutAssumption` only. What concerns a browser is a line of three parts: what it
has received, the event in transit, and its queue. `DeliveredInOrder` speaks of the
first; that it stays true when a frame arrives rests on the other two. `IInv`, at the
end of `EventFanout.tla`, has the
parts `Typed`; `Registered` (a browser is registered as long as its sender is at
work, which sends with an event and waits without one); `InLine` (each event of the line is one of the log since the
snapshot, and the line ascends); and `NoneMissed` (a critical event since the snapshot
is somewhere in the line, or a broadcast is about to drop the browser). A broadcast
keeps `NoneMissed` because it condemns, in the same step, each browser it could not
serve; `EnqueuedFacts` says what a queue is afterwards, with room, with a lossy event
displaced, or full, and the lemmas on lines what that does to the other two parts.
`FanoutInvariant.cfg` checks `IInv` too.
`NobodyHeldUp` is liveness and stays with TLC.

## 6. Decision Radar

`DecisionRadar.tla` models `decision_radar/manager.py` with the settings request
of `main.py` that checks, awaits two health checks, and configures.

| Code | Model |
|---|---|
| `provider`, and which instances are closed | `provider`, `unclosed`, `asked` (a request between check and configure) |
| `_queue`, `_pending`, `_segments` | `backlog`, `pending`, `buffered` |
| `_run`, one task for the life of the manager | `worker`: its phase, batch, window, attempt, the provider it began with |
| `_states` | `state`: items in order and tombstones per session |

Actions: `Submit`, `Run` (`TakeFirst`, `TakeMore`, `CloseBatch`, `Send`, `Refuse`,
`Fail`, `Settle`), `Answer` (any suggestions, whatever they cite, and any retractions among what was
offered), `Review` (approve, edit, delete), `Ask`, `Unavailable`, `Configure`,
`Shutdown`.

- `EvidenceIsFinal`: every item cites finals of its own session.
- `DecisionsStand`: no answer, of whatever age, retracts what the user approved or
  edited, or changes its text, its review, or an assignee or due date it has
  (`ReviewedIsKept`), or brings back what was deleted (`DeletedStaysDeleted`). What an
  answer may do is cite more evidence and, with it, fill an assignee or a due date that
  is empty (`Supplemented`, `manager.py:485-500`), also of an item that was approved
  without one, or of one whose assignee the user has taken out: `Extends` says so.
  `docs/decision_radar_report.md:71-72` keeps such items whatever a model answers;
  taken to the letter, that is more than the code does.
- `OnlySelectedReceives`: captions go to a service only while it is selected.
- `WorkerGoesOn`: the worker outlives whatever a provider does, and a segment
  remembered in `_pending` is one it will look at, once. Each half has an exception
  that a history variable names. `astray`: a segment was buffered but not queued
  after the rest, because it waited already, because the queue was full, because it
  was in a batch, or because a switch to none had emptied the queue. A later batch
  may then exceed its window, `RadarRequest` raises outside the `try`, and nothing
  restarts `_run` (`manager.py:264`). `again`: a segment came again that such a
  switch had made the queue forget while it was in the batch being gathered; the
  batch and the queue then both have it.

Run `radar`: one session of three segments, one text, providers `none` and
`openai`, batches and windows of two, a queue of one, one retry, two items, one
switch. Three segments are the least that leave one behind in the buffer.
`MaxItems` and `MaxSwitches` are artificial. Segments are symmetric. The second
exception needs two switches, and some ways to the first need two sessions;
`RadarInvariant.cfg` has both, with four segments, a queue of two and no items.

Left out: the status shown, the writing of the items to disk (threads share a
`.tmp` file, and an older state may be written last), and the suspensions of
emissions but the one before the first attempt; hence "partly".

### Proofs

`CaptionConsumersProofs.tla` proves the four properties for any sessions, segments
and texts and every limit with a batch no longer than the window and a window no
longer than the buffer (`RadarAssumption`, which the constructor demands,
`manager.py:64-69`). The proof
found the bounds of the run too small for what `WorkerGoesOn` had claimed: with a
second switch, or a second session, it failed, and `again` and a wider `astray` now
name when. `RadarInv`, at the end of `DecisionRadar.tla`, has these parts:

- `Selected`: only the selected instance is open, and a batch is of it or of an
  earlier one. `OnlySelectedReceives` follows: a replaced instance has no client, and
  the one that is selected now and not `none` is the one a batch of it was begun with.
- `Sound`: a request cites finals of the session of its group. With `ValidEvidence` it
  keeps `EvidenceIsFinal`, whatever was answered.
- `Recent`: the finals are a line without repetition, and each buffer holds the last
  ones of its session, in their order.
- `PendingIsQueued`, unless `again`.
- `Straight`, unless `astray`: the queue is the end of the line of finals, the batch
  being gathered the stretch before it, and a batch under way a stretch (`Convex`).

Why no batch then exceeds its window: between two segments of a group that are still
buffered, every segment of the session in the buffer lies in the stretch, hence in
the group. The segments at the places between them are thus different segments of the
batch, which has at most `BatchSize` segments, so that the first is less than
`ContextWindow` places before the last (`WindowCovers`). `Entered` then never yields
`"dead"`, for this group or the next. `DecisionsStand` goes through the steps of a
merge (`RetractedIs`, `MergedIs`, `TrimmedIs`, then `AnswerIs`) and needs of the
invariant that a new item has a number no item had.

## 7. Live sharing

`LiveShare.tla` models `sharing/manager.py`. The relay is external: it may answer,
refuse, or do what it was asked and lose the answer, and rooms expire.

| Code | Model |
|---|---|
| `_room_id`, `_host_token` | `room` |
| `_queue` | `queue`, events numbered in the order of publication |
| `_worker_loop`, `_heartbeat_loop` | `worker`, `heartbeat` |
| `start_share`, `stop_share`, `access_logs` requests | `starting`, `stopping`, `reading`, of each request that runs |
| `_send_lock`, `_audit_lock` | `lock`, `audit`: holder and waiters in order, as asyncio's locks are fair |
| `_remember_access_log` | `accessLog` |
| the relay | `relay`, and `seen`, the events it has of each room |

- `RoomsAccounted`: a room the relay has is one the host can leave, or is being
  made or deleted, unless an answer was lost or another start replaced it
  (`NoOrphan`); only starts that overlap replace a room (`Unhurried`); the limits hold.
- `NothingAfterDelete`: once a room's deletion is on its way no caption is sent to
  it, although a batch may have waited for the lock or for its next attempt.
- `ViewersServed`: captions arrive in order (`InOrder`), a full queue evicts what is
  lossy first (`CriticalLast`), and the log of the end stays (`EndedLogIsFinal`).

Run `share`: queue and batch of two, two attempts, two rooms, three events: the
least with an eviction while a batch is out, and a batch gathered in one room that
may go to the next, which `README_KO.md:502` tells. Two requests to start may
overlap: `start_share` looks whether a room is open before it waits for the lock
and not again, so both make a room and the later one takes the place of the other,
which nobody can stop any more (`replaced`): the relay ends it when its time is
over. `ShareInvariant.cfg` has two requests to stop as well. The
thread of a cancelled heartbeat goes on; status and retention are left out.

### Proofs

`LiveShareProofs.tla` proves, for every set of requests, every queue and batch size
and every number of attempts, rooms and events, `RoomsAccounted`, `NothingAfterDelete` and
`ViewersServed`. `IInv` has the parts `Typed`; `Serial` (a task is in the line for the
request lock exactly while it waits or talks to the relay, and then at its head);
`Housed` (which room each request is concerned with, and how far the relay is with
it: no two requests stop the same room, and none stops the one that is being made);
`Hastes` (without overlapping starts no room is open while one is made);
`Logged` (the same for the lock of the audit, and `Behind`: the stop that stores the
log of the end waits behind whoever has an older log of that room in hand); and
`Flows` (what waits is later than what is out, and that later than what any room has
seen, but for what the room has of the batch itself). `NothingAfterDelete`
rests on `Serial` and `Housed` together: whoever posts to a room holds the lock that
its deletion needs. A waiter that is cancelled leaves the line from any place, so the
line is not a queue: `Without` takes a task out once, as a fair `asyncio.Lock` does.
`ViewersServed` is an action property; it follows from `IInv` step by step.
`ShareInvariant.cfg` checks `IInv`.

## 8. Local translation worker

`WorkerSupervisor.tla` models `translation/worker_provider.py` and what it sees of
`scripts/local_translation_worker.py`: a process that is started, says its pid,
loads, answers in order, may fail at any time, may refuse to die, and outlives a
server that is killed.

| Code | Model |
|---|---|
| `_desired_running`, `_process`, `_actual_pid`, `_state`, `_consecutive_failures`, `_ready_event` | `desired`, `process`, `pid`, `state`, `failures`, `event` |
| `start`, `stop`, `restart`, the monitor, `translate` | tasks, each with `local[k]`: where it is suspended, and the process it holds |
| `_lifecycle_lock`, `_request_lock` | `lifecycle`, `requests` |
| the pipe | `pipe`: the requests written whose answers are unread |
| processes, the pid file | `os`, `pidFile` |

- `OneKnownWorker`: the server holds one worker at most, including one a killed server
  had named (`OneWorker`); the supervisor and the pid file know it, and never take one
  that was let go for it again (`WorkerKnown`); after a stop there is none and none
  comes (`StoppedIsStopped`).
- `PipeClean`: the answer a request reads is its own, whatever timed out before.
- `Recovers`: a worker that is wanted comes back, or the supervisor has given up.
- `RequestsEnd`: every translation asked for ends.

Run `worker`: two processes, one request, two failures to start, one crash of the
server, one restart. `MaxFailures` is the code's own limit, smaller; identifiers
are reused, so two are enough for an old and a new process. A lock that is free is
taken by the first that waits before anything else happens (`HandedOver`), which
is how asyncio hands it over. Fairness: weak for taking a lock, strong for the
tasks and the end of a process that was told to end. Strong fairness stands for
time-outs that end each wait although the guards of the model flicker with the
locks. The runtime and the model are taken as installed; a stop that overlaps a
restart is undone by it; the translation is left out.

What the code does *not* promise is that only one process lives. `_wait_process`
(lines 472-476) swallows its timeout of five seconds, and with no pid said there is
nothing else to confirm: `_dispose_process_locked` drops `_process` and returns `True`
while the killed process may live on, and the next `_spawn` starts a second one. Nor
does a server that is started again know of a worker that had not said its pid when the
last one was killed. `Disposed` lets such a process go as `"unheard"` (its pid file is
never written, for nobody reads what it says), and `OneKnownWorker` is about the
worker that is *held*: several `"unheard"` ones may live beside it, after a stop too.
With a pid the code confirms the end (500-512), and that is what the properties rest on.

### Proofs

`WorkerSupervisorProofs.tla` proves `OneKnownWorker` and `PipeClean` for every number
of processes, requests, failures, crashes and restarts. The one assumption,
`WorkerAssumption`, says only that processes, requests and the names of the other
tasks are different things. `WorkerInvariant.cfg` checks the invariant with two
requests.

Neither property is inductive: both rest on where each task is suspended and on which
of the two locks it holds there. `IInv` is `Core` with three parts about the order of
the lock queues.

- `Role` says where each task may be, and for which job; `Placed`, which locks it
  waits for or holds there: whoever starts or ends a worker holds the first one, and
  `restart`, `stop` and the requests their place in the second.
- `Relies` is what a task read before it was suspended and still takes for true after
  it: no worker is there while one is launched, the process whose end was noticed has
  ended, and what a request wrote is all there is in the pipe. `Lives` says of each
  process that lives who knows of it, and `Owned` that what is in the pipe of a ready
  worker belongs to the holder of the request lock.
- `Begins`, beside `IInv`: a monitor that begins its loop finds no worker that is still
  being started. The monitor looks without being suspended (`HandedOver`), so that only
  the end of a start matters; without it the monitor could watch a process that is let
  go under it.
- `Starts`: the first start has the lock before anybody else, and no monitor yet.
- `Restarts`: `restart` starts the new worker with the lifecycle lock alone. No request
  waits behind it there to end a worker, for that one would end the new worker while
  another request uses it; and until the new worker is ready nothing is sent.
- `Late`: the monitor may wait for that lock with a process that is gone while another
  one became ready. What keeps it from ending a worker in use is that only the stop
  can be before it then; TLC's counterexamples to `Core` alone led to these parts.

Each action is one lemma (`JoinedKeeps`, ...). `QueueIs`, `JoinsStep` and `LeavesStep`
say what entering and leaving a lock does to who holds it and who is before whom.
`Recovers` and `RequestsEnd` are liveness and stay with TLC.

## 9. Analysis manager

`AnalysisManager.tla` models `analysis/manager.py`, the chunking of `chunking.py`
and the check of evidence of `validation.py`. An answer is the segments it cites,
which may be none: a purpose without evidence and empty lists pass
(`validation.py:31-44`). A result is the parts it was merged from, each a chunk with
what the answer to it cites; the merge drops but one kind of item, the purposes
behind the first (`chunking.py:150-158`).

| Code | Model |
|---|---|
| the run of `_execute` and its record | `run[i]`; runs are numbered as they are registered |
| `_records`, `_tasks` | `record`, `task`: the run of each session, or 0 |
| a call of `submit` or `retry` | `request[q]`: loading, or loaded and waiting for the lock |
| `cancel`, `switch_provider`, `shutdown` | `cancel[who]`: gathering the tasks it cancelled, or storing |
| the repository, in threads | `calls` under way and `disk` |

- `TasksTracked`: of all sessions one task in `_tasks` is not done, however
  submissions overlap (`OneTracked`), and none after the shutdown
  (`ShutdownIsFinal`).
- `ResultWhole`: a stored result was merged from one answer to each chunk, the
  chunks share out the segments of its session within the limits, and each answer
  cites only segments of its chunk. How much it cites is up to the model.
- `ResultsAccumulate`: a shown result is lost to no failure, cancellation or crash
  (`ResultKept`); a new run has a later revision than any before it
  (`RevisionGrows`), although what was loaded before the lock may be stale.

A chunk is known by its first segment: `Chunk(s, f)` has the segments from `f` on
before which the chunk is not closed. `MCAnalysisManager` compares it with the loop
of `chunk_segments`, written as a fold, for all sessions of up to five segments of up
to three characters (`ChunksAreThoseOfTheLoop`).

Run `analysis`: a session of a full chunk and an open one, answers that cite nothing,
one segment or segments of both chunks, and an empty session; providers `none` and
`openai`, a submission and a retry, two runs, one order to cancel, switch or stop,
one failing call or crash. No liveness: nothing bounds a provider's answer but its
own client. `AnalysisOneRun.cfg` violates `OneRun`, the docstring's words
(`manager.py:49`) taken for all live runs: `cancel` removes the entry of `_tasks`
after an await, whatever it holds by then (`manager.py:693`), and the run that
took its place goes on beside the next. Emissions are merged with the step before
them; threads whose caller was cancelled go on and write in any order, so the
stored status may disagree after a cancellation; `provider.close` and
`save_analysis = false` are left out.

### Proofs

`AnalysisManagerProofs.tla` proves, for every number of sessions, providers, requests
and runs, every division into segments and all answers, `TasksTracked`,
`ResultWhole` and `ResultsAccumulate`.
The invariant `IInv`, checked by `AnalysisInvariant.cfg`, has six parts: `Types`;
`RunsSound` (runs are used in the order of their numbers, and a revision is the
number of a used run); `CancelSound` (what cancels knows runs of sessions);
`Tracked` (two running sessions are the same, and after the close the task that
still runs is one the shutdown is gathering); `Recorded` (without a record nothing
has happened to a session, so that what a request loaded is what is stored; with
one, the record is of the latest run); and `Kept` (a completed result on its way
belongs to one run that waits for it, and a shown one is on the disk). `Tracked`
rests on one fact: no step but a registration under the lock brings a task to life,
and a crash empties everything. `Recorded` is why a stale load is harmless: a submission takes the
loaded result only while there is no record.

`ResultWhole` has an invariant of its own, `EvidenceInv`: the parts of a run that
asks for a chunk share out the segments before that chunk (`Progress`), and what is
on its way to the disk those of the whole session. Its step is the lemma `PartAdds`:
an answer adds the chunk that begins where the others ended, and leaves what begins
with the next one. A call that a cancelled run left behind carries a whole result,
or none; that is all the cancellations and crashes need.

## 10. Deepgram streaming client

`DeepgramStream.tla` models `transcription/deepgram_stream.py`. The words are
spoken in order and numbered; a text is a set of words. What the text heuristics
decide is given: after which words a text is incomplete (`Dangling`), which close a
sentence or a clause (`Closing`), and whether a short candidate may be dropped, as
in Korean (`MayReplace`). The provider's results go on where its last stable one
ended; they are interim or stable, late or missing, a Finalize may never be
answered, and the connection may be lost.

| Code | Model |
|---|---|
| committed and latest text, the candidate held back, the cutoff, the pending Finalize, the finals | `asm` |
| `send_audio`, `stop` | `sender`, `stopper` |
| `_receive_loop`; the two timers | `Receiver`; `CandidateTimeout`, `FinalizeTimeout` |
| the provider | `stable`, `asked`; `heard` is history |

- `FinalsMakeOneText`: no word is in two finals, and finals follow the speech,
  whatever a late stable result overlaps (`OnceInOrder`).
- `NothingLost`: a word of a stable result is in a final or in the assembly, or was
  dropped on purpose (`gone`).
- `TailKept`: `stop` makes final what was shown last, and nothing follows.
- `RequestsEnd`: no candidate, Finalize or `stop` waits for ever, if the provider is
  silent for ever; only the timers, the sends and `stop` are fair.

Run `deepgram`: three words, a limit of two. Handling a message and emitting its
finals is one step: the controller's sink never suspends. A client is used for one
connection.

### Proofs

`TranscriptionProofs.tla`, which also holds the proofs of section 12, proves, for every number of words, every limit and
whatever the heuristics decide, `FinalsMakeOneText`, `NothingLost` and `TailKept`.
None is inductive: a result that comes late may overlap what is already final, and
only the cutoff says how much of it is new. `StreamInv`
(at the end of `DeepgramStream.tla`) says of the assembly that it is
`Whole`: `Parted` (finals are apart, in order and end at or before the cutoff),
`Based` (what is committed is every stable word from its first one on, and the last
final reaches the cutoff without a gap), `Covered` (each stable word up to the cutoff
is in a final or was dropped on purpose) and `Seen` (what is shown has no gap, so that
its end tells all of it); and besides `Timed` (a timer runs for a candidate, and the watchdog only for a
Finalize) and `Ended` (after `stop` nothing is received or left). `RemainderIs` is the lemma they rest on:
what is left of a result after the cutoff is exactly its new words. `FinalLeaves`,
`ResultCommits`, `ResultDropped` and `ResultShows` then say what each branch of the
handler does to `Whole`. `DeepgramInvariant.cfg` checks `StreamInv`; `RequestsEnd` is
liveness and stays with TLC.

## 11. Capture controller

`CaptureController.tla` models the audio half of `capture/controller.py`: the
operations under `_control_lock`, the device's frames, the frame processor, and
the recovery of the stream.

| Code | Model |
|---|---|
| `_control_lock` and its holder | `control`: the operation and its place |
| `_status`, `_capture`, `_accept_frames` | `status`, `device`, `accept` |
| `_frame_queue`, `_process_frames` | `queue`, `processor` |
| `_recover_deepgram` | `recovery`: its place, client and frame |
| the reconnect buffer, base offset, counters | `audio` |
| `_deepgram_failed`, `_reconnecting`, `_exhausted` | `link` |
| the clients | `deepgram`, `conns`: state and what each heard |

- `OneTypedConnection`: never do two connections hear.
- `Quiet`: with no operation under way and nothing listened to, nothing is left that
  could hear or reconnect.
- `AudioKept`: what was kept is sent in order before what comes after (`InOrder`);
  each frame is sent, waits, or is counted as dropped (`Accounted`).
- `OperationsEnd`: operations return, reconnections end.

Run `capture`: four frames, a queue of one, a buffer of two, two attempts, four
connections: the least with a connection lost, one that fails while it is flushed,
and one that works. Fairness: the tasks of the event loop; every await in them has
a time limit. Run `capture_offsets` violates `OffsetsTrue`: see the finding below.

The callback of the device and its queueing are one step; a device that cannot be
stopped counts as stopped; `set_model`, levels and a second cancellation of the
cleanup are left out; a send that timed out may have been heard, and what is heard
twice is left to the deduplicator. A frame cut by a cancellation is the one that
is not counted (`audio.cut`), and a recovery that failed in its last flush or while
it reports is only tried again with the next frame.

**Finding** (`capture_offsets`): `_recover_deepgram` reads the base offset from the
first buffered frame before it awaits `client.start` (`controller.py:1097`); a frame
put back, or dropped by the buffer's limit meanwhile, shifts every offset of that
connection, where `docs/BUILD_WEEK_LOG.md:853` promises absolute ones.

### Proofs

`CaptureControllerProofs.tla` proves, for every number of frames, attempts and
connections and all sizes of the queue and the buffer, `OneTypedConnection`, `Quiet`
and `AudioKept`. `IInv` has the parts `Typed`; `Life` (what each place of an operation,
of the processor and of the recovery implies about the status, the device and each
other); `Wired` (only the current client can hear, none while a recovery waits or opens, and none in
the places where no operation has a client); and `Sound` (`Flowing`: what waits in the queue, is in
work, and is in the buffer is in order, and after all that was sent; `Accounted`).
`OneTypedConnection` rests on `Wired`, and that on `Life`: an operation cancels the
recovery before it closes the client, and no recovery lives but while the application
listens or an operation waits for its end.
`CaptureInvariant.cfg` checks `IInv`; `OperationsEnd` is liveness and stays with TLC.

## 12. Transcript pipeline

`TranscriptPipeline.tla` models the text half of `capture/controller.py`: segments of
the local engine and finals of the stream, the transcription worker, the worker of
streamed finals with its recheck, and the publication of a final to the browser, the
session file and the translation.

| Code | Model |
|---|---|
| `_session_id`, the session of each utterance | `session`, `owner` |
| `_final_jobs`, `_latest_partial`, `_transcription_worker` | `finals`, `partial`, `worker` |
| `_deepgram_final_jobs`, `_deepgram_final_worker` | `jobs`, `reviewer` |
| `_recheck_background_task`, and the threads that outlive it | `recheck`, `threads` |
| `_pending_final_completions`, what `stop` waits for | `pending`, `waited` |
| what each consumer has | `screen`, `published` |

- `PublishedInOrder`: of one session no place gets a final twice, or before an earlier
  one, although `stop` gives up after 15 s and late finals are published while the
  next session runs.
- `FinalReplacesPartial`: an accepted final of the stream is shown when its completion
  is set, and no partial is left, or comes back, for an utterance that is done, which
  the comment at `controller.py:2139` wants.
- `RecheckBounded`: one recheck runs, although a thread outlives its time-out.
- `FinalsHandled`: every final is handled unless the workers are cancelled.

Run `pipeline`: three utterances, two sessions, a recheck queue of one. Fairness: the
two workers; inferences and rechecks end or time out. Pauses are left out; the choice
between two texts (`controller.py:1673-1913`) is the choice whether the final is
replaced; the partial of a local utterance that was dropped as too short leaves its
identifier to the next one; `generation` is never read by the code.

### Proofs

`TranscriptionProofs.tla` proves, for every number of utterances, sessions and
waiting rechecks: `PipelineInvariance`, `PublishedInOrderHolds` and
`FinalReplacesPartialHolds`. `PublishedInOrder` is not inductive: that a final is later
than all those published rests on what waits. `IInv` (at the end of `TranscriptPipeline.tla`) has the parts `Types`; `Speaking`
(the utterance being spoken is the newest and waits nowhere); `Tasks` (what a worker
holds fits its place); `Past` (what is published is spoken and accounted for); `Apart`
(the local recognizer and the stream never share a session, so that the two workers
never publish for the same one); `Queued` (what waits is pending, and in order);
`Ordered` (each place's finals of a session are in order, and all before what is
still `Coming` to it); and `Settled` (what is done is on the screen as a final, and
not as a partial). The lemmas `OrderedStays`, `OrderedPublishes`, `Handed`,
`StillKeeps` and `HeardKeeps` say what publishing, taking a job and hearing an
utterance do to those parts; each action is then one lemma. `RecheckBoundedHolds`
has an invariant of its own: `Alone`, of one thread exactly while a recheck is under way, and of the bound itself. `PipelineInvariant.cfg`
checks `IInv` and `Alone` with TLC.

## 13. What is proved and what is model-checked

Every safety and action property of the runs is proved for every value of the
constants, `BacklogHolds` under a named hypothesis on them, without which the code
breaks it (section 3). `PROJECT.json` lists eight theorems of section 3, three each
of sections 5 and 8, four each of sections 7, 9, 10, 11 and 12, five of section 6
and six of section 4. Out of the proof system's reach are the liveness properties
(`EverySubmissionSettles`, `NobodyHeldUp`, `Recovers`, `FinalsHandled` and those
named `RequestsEnd` and `OperationsEnd`), which TLC checks on the instances above.
The mutants of `PROJECT.json` change one definition each the way a plausible bug
would; the property they name then fails in its run.

Configurations kept beside the listed runs, each of which can be given to `tlc`:

| Configuration | Module | Result |
|---|---|---|
| `TranslationOverlap.cfg` | `TranslationManagerProofs` | `IInv`, `House`, `ServiceInv`, `TendedInv`, `OneOwner`, `ImplementsLedger` hold with three captions |
| `TranslationOneWorker.cfg` | `TranslationManagerProofs` | `House`, `SoloInv`, `TendedInv` hold with three providers |
| `TranslationStraight.cfg` | `TranslationManagerProofs` | `House`, `HandsInv`, `ProviderInv`, `EndInv` hold with two workers, two providers and a retry |
| `AnalysisInvariant.cfg` | `MCAnalysisManager` | `IInv`, `EvidenceInv` hold |
| `FanoutInvariant.cfg` | `EventFanout` | `IInv`, `DeliveryHolds`, `OnlyCoalesced`, `NobodyHeldUp` hold with two browsers |
| `RadarInvariant.cfg` | `MCDecisionRadar` | `RadarInv` holds with two sessions and two switches |
| `ShareInvariant.cfg` | `LiveShareProofs` | `IInv` holds |
| `DeepgramInvariant.cfg` | `DeepgramStream` | `StreamInv` holds |
| `WorkerInvariant.cfg` | `WorkerSupervisorProofs` | `IInv`, `Begins`, `OneKnownWorker`, `PipeClean` hold |
| `CaptureInvariant.cfg` | `CaptureControllerProofs` | `IInv` holds |
| `PipelineInvariant.cfg` | `TranscriptPipeline` | `IInv`, `Alone` hold |
| `SessionInvariant.cfg` | `MCSessionStore` | `IInv`, `Remembered` hold |
| `SessionLegacy.cfg` | `MCSessionStore` | `AnalysisBacked`, `ImplementsArchive` hold with a Phase 1 log |
| `TranslationForeignCancel.cfg` | `MCTranslationManager` | `NothingLost` fails |
| `TranslationShutdownHangs.cfg` | `MCTranslationManager` | `ShutdownTerminates` fails |
| `SessionOriginalStored.cfg` | `MCSessionStore` | `OriginalNeverStored` fails |
| `SessionDamagedRow.cfg` | `MCSessionStore` | `DamagedRowTolerated` fails |
| `FanoutDropped.cfg` | `MCEventFanout` | `DroppedIsClosed` fails |
| `AnalysisOneRun.cfg` | `MCAnalysisManager` | `OneRun` fails |

## 14. Not modelled

- Energy segmentation of utterances, the audio ring and the similarity of texts
  (`transcription/buffer.py`, `audio_ring.py`, `deduplicator.py`) and the context
  engine: algorithms on numbers and strings; the models take what they decide as given.
- Model inference, audio devices, HTTP, prompts and their parsing: external or pure
  input and output.
- Settings, request validation and routing: no state beyond a file.
- The browser, desktop and viewer code displays what the backend sends; the relay
  behind the viewer site is external to `LiveShare`.
- Scripts: installers and benchmarks outside the application.
