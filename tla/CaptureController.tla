-------------------------- MODULE CaptureController --------------------------
(***************************************************************************)
(* A capture, backend/app/capture/controller.py: its life (start, pause,   *)
(* resume, stop, shutdown, one at a time under the control lock), the      *)
(* frames of the audio device, and the streaming connection with its       *)
(* reconnection.  The control operations, the task that processes frames,  *)
(* the task that reconnects and the callbacks of the client interleave.    *)
(*                                                                         *)
(* Audio is counted in frames: the numbers a session gives to the frames   *)
(* it receives are their offsets.  A connection is what the controller     *)
(* sees of a DeepgramStreamingClient; the callback of the device thread    *)
(* and the queueing of its frame are one step.                             *)
(***************************************************************************)
EXTENDS Integers, FiniteSets, SequencesExt

CONSTANTS
    MaxFrames,     \* bound: frames a session receives
    QueueSize,     \* frame_queue_size
    BufferSize,    \* deepgram_reconnect_buffer_seconds, in frames
    MaxAttempts,   \* deepgram_reconnect_max_attempts
    Connections    \* bound: clients that something still refers to

ASSUME CaptureAssumption ==
    /\ {MaxFrames, QueueSize, BufferSize, MaxAttempts} \subseteq Nat \ {0}
    /\ Connections \subseteq Nat \ {0}
    /\ IsFiniteSet(Connections) /\ Cardinality(Connections) >= 4

VARIABLES
    control,     \* the operation that holds _control_lock, and where it is
    status,      \* _status
    device,      \* _capture: off for None
    accept,      \* _accept_frames
    queue,       \* the number of frames in _frame_queue
    processor,   \* _frame_processor: idle, or the frame it sends and where
    audio,       \* the accounts of the session's frames
    link,        \* _deepgram_failed, _deepgram_reconnecting, _deepgram_..._exhausted
    deepgram,    \* _deepgram
    recovery,    \* the task of _recover_deepgram
    conns,       \* the clients: their state and the frames they sent
    session      \* _session_id is not None

life == <<control, status, device, accept, session>>
stream == <<link, deepgram, recovery, conns>>
vars == <<life, queue, processor, audio, stream>>

None == 0
Frames == 1 .. MaxFrames
Idle == [op |-> "none", at |-> "none"]
Down == [op |-> "down", at |-> "none"]
At(op, at) == [op |-> op, at |-> at]

NoTask == [at |-> "none", client |-> None, attempt |-> 0, item |-> 0, cancelled |-> FALSE]
Resting == [at |-> "idle", frame |-> 0, client |-> None]
Closed == [state |-> "closed", heard |-> <<>>]
NoAudio == [received |-> 0,     \* _deepgram_audio_received_seconds
            base |-> 0,         \* _deepgram_stream_base_offset
            buffer |-> <<>>,    \* _deepgram_buffer
            dropped |-> 0,      \* _deepgram_dropped_audio_seconds
            sent |-> 0,         \* history: sends that succeeded
            cut |-> 0]          \* history: sends that a cancellation cut
Good == [failed |-> FALSE, reconnecting |-> FALSE, exhausted |-> FALSE]

Live == {c \in Connections : conns[c].state # "closed"}
Opens(c) == conns' = [conns EXCEPT ![c] = [state |-> "open", heard |-> <<>>]]
Closes(c) == conns' = [n \in Connections |-> IF n = c THEN Closed ELSE conns[n]]

\* A client nothing refers to.
Unused == Min(Connections \ (Live \cup {deepgram, processor.client, recovery.client}))

-----------------------------------------------------------------------------
(* The accounts of the audio *)

\* The newest frames are kept.
Newest(s) == IF Len(s) <= BufferSize THEN s ELSE SubSeq(s, Len(s) - BufferSize + 1, Len(s))

\* _buffer_deepgram_audio
Buffered(a, frame) ==
    IF link.exhausted THEN [a EXCEPT !.dropped = @ + 1]
    ELSE LET all == Append(a.buffer, frame) IN
         [a EXCEPT !.buffer = Newest(all),
                   !.dropped = @ + Len(all) - Len(Newest(all))]

Discarded(a) == [a EXCEPT !.dropped = @ + Len(a.buffer), !.buffer = <<>>]

\* The offset that a new connection starts from.
Rebased(a) == [a EXCEPT !.base = IF a.buffer = <<>> THEN a.received ELSE Head(a.buffer) - 1]

\* _ensure_deepgram_reconnect
Ensured == IF link.exhausted \/ recovery.at # "none" THEN recovery
           ELSE [NoTask EXCEPT !.at = "stopping", !.client = deepgram]

\* _on_deepgram_error
OnError ==
    IF status = "listening"
    THEN /\ link' = [link EXCEPT !.failed = TRUE, !.reconnecting = ~link.exhausted]
         /\ recovery' = Ensured
    ELSE UNCHANGED <<link, recovery>>

-----------------------------------------------------------------------------
(* Frames *)

\* _on_audio_frame, _queue_frame: the oldest frame makes room.
Frame ==
    /\ device = "running" /\ accept
    /\ audio.received + queue < MaxFrames
    /\ queue' = IF queue < QueueSize THEN queue + 1 ELSE queue
    /\ UNCHANGED <<life, processor, audio, stream>>

\* _frame_processor takes a frame.
Process ==
    /\ processor = Resting /\ queue > 0
    /\ queue' = queue - 1
    /\ LET frame == audio.received + 1
           a == [audio EXCEPT !.received = frame]
       IN  IF status # "listening" THEN UNCHANGED <<processor, audio, link, recovery>>
           ELSE IF link.reconnecting \/ link.failed
           THEN /\ audio' = Buffered(a, frame)
                /\ recovery' = Ensured
                /\ link' = IF Ensured = recovery THEN link
                           ELSE [link EXCEPT !.reconnecting = TRUE]
                /\ UNCHANGED processor
           ELSE /\ audio' = a
                /\ processor' = [at |-> "sending", frame |-> frame, client |-> deepgram]
                /\ UNCHANGED <<link, recovery>>
    /\ UNCHANGED <<life, deepgram, conns>>

Sent ==
    /\ processor.at = "sending"
    /\ conns[processor.client].state = "open"
    /\ conns' = [conns EXCEPT ![processor.client].heard = Append(@, processor.frame)]
    /\ audio' = [audio EXCEPT !.sent = @ + 1]
    /\ processor' = Resting
    /\ UNCHANGED <<life, queue, link, deepgram, recovery>>

\* mutant
SendFailsInPlace ==
    /\ processor.at = "sending"
    /\ conns' = [conns EXCEPT ![processor.client].state = IF @ = "open" THEN "lost" ELSE @]
    /\ OnError
    /\ UNCHANGED <<life, queue, processor, audio, deepgram>>

\* The send fails, times out or finds no connection.
SendFails ==
    /\ processor.at = "sending"
    /\ conns' = [conns EXCEPT ![processor.client].state = IF @ = "open" THEN "lost" ELSE @]
    /\ audio' = Buffered(audio, processor.frame)
    /\ processor' = Resting
    /\ OnError
    /\ UNCHANGED <<life, queue, deepgram>>

-----------------------------------------------------------------------------
(* The client's callbacks *)

\* _receive_loop ends, or the provider reports an error.
Lost(c) ==
    /\ conns[c].state = "open"
    /\ \/ conns' = [conns EXCEPT ![c].state = "lost"]
       \/ UNCHANGED conns
    /\ OnError
    /\ UNCHANGED <<life, queue, processor, audio, deepgram>>

-----------------------------------------------------------------------------
(* _recover_deepgram, whose every await may be cancelled *)

Running(at) == recovery.at = at /\ ~recovery.cancelled

\* What the next attempt does first.
Attempt(a, n) ==
    IF status # "listening"
    THEN recovery' = NoTask /\ audio' = a /\ link' = [link EXCEPT !.failed = @ \/ n > 1]
    ELSE IF n > MaxAttempts
    THEN /\ recovery' = [NoTask EXCEPT !.at = "reporting"]
         /\ audio' = Discarded(a)
         /\ link' = [failed |-> TRUE, reconnecting |-> FALSE, exhausted |-> TRUE]
    ELSE IF n > 1
    THEN /\ recovery' = [NoTask EXCEPT !.at = "waiting", !.attempt = n]
         /\ audio' = a
         /\ link' = [link EXCEPT !.failed = TRUE]
    ELSE /\ recovery' = [NoTask EXCEPT !.at = "opening", !.client = Unused, !.attempt = n]
         /\ audio' = Rebased(a)
         /\ UNCHANGED link

\* mutant
OldLeft ==
    /\ Running("stopping")
    /\ Attempt(audio, 1)
    /\ UNCHANGED <<life, queue, processor, deepgram, conns>>

OldStopped ==
    /\ Running("stopping")
    /\ Closes(recovery.client)
    /\ Attempt(audio, 1)
    /\ UNCHANGED <<life, queue, processor, deepgram>>

Waited ==
    /\ Running("waiting")
    /\ recovery' = [recovery EXCEPT !.at = "opening", !.client = Unused]
    /\ audio' = Rebased(audio)
    /\ UNCHANGED <<life, queue, processor, link, deepgram, conns>>

\* mutant
FlushFromEnd(a, client, n) ==
    IF a.buffer = <<>>
    THEN /\ recovery' = [NoTask EXCEPT !.at = "reporting"]
         /\ audio' = a
         /\ link' = Good
    ELSE /\ recovery' = [NoTask EXCEPT !.at = "flushing", !.client = client,
                                       !.attempt = n, !.item = Last(a.buffer)]
         /\ audio' = [a EXCEPT !.buffer = Front(@)]
         /\ UNCHANGED link

\* The buffer is sent, oldest first, until it is empty.
Flush(a, client, n) ==
    IF a.buffer = <<>>
    THEN /\ recovery' = [NoTask EXCEPT !.at = "reporting"]
         /\ audio' = a
         /\ link' = Good
    ELSE /\ recovery' = [NoTask EXCEPT !.at = "flushing", !.client = client,
                                       !.attempt = n, !.item = Head(a.buffer)]
         /\ audio' = [a EXCEPT !.buffer = Tail(@)]
         /\ UNCHANGED link

Reopened ==
    /\ Running("opening")
    /\ Opens(recovery.client)
    /\ deepgram' = recovery.client
    /\ Flush(audio, recovery.client, recovery.attempt)
    /\ UNCHANGED <<life, queue, processor>>

ReopenFails ==
    /\ Running("opening")
    /\ Attempt(audio, recovery.attempt + 1)
    /\ UNCHANGED <<life, queue, processor, deepgram, conns>>

Flushed ==
    /\ Running("flushing")
    /\ conns[recovery.client].state = "open"
    /\ conns' = [conns EXCEPT ![recovery.client].heard = Append(@, recovery.item)]
    /\ Flush([audio EXCEPT !.sent = @ + 1], recovery.client, recovery.attempt)
    /\ UNCHANGED <<life, queue, processor, deepgram>>

\* The item goes back to the front.
FlushFails ==
    /\ Running("flushing")
    /\ audio' = [audio EXCEPT !.buffer = <<recovery.item>> \o @]
    /\ conns' = [conns EXCEPT ![recovery.client].state = "lost"]
    /\ recovery' = [recovery EXCEPT !.at = "closing", !.item = 0]
    /\ link' = IF status = "listening"
               THEN [link EXCEPT !.failed = TRUE, !.reconnecting = TRUE] ELSE link
    /\ UNCHANGED <<life, queue, processor, deepgram>>

NewStopped ==
    /\ Running("closing")
    /\ Closes(recovery.client)
    /\ Attempt(audio, recovery.attempt + 1)
    /\ UNCHANGED <<life, queue, processor, deepgram>>

Reported ==
    /\ Running("reporting")
    /\ recovery' = NoTask
    /\ UNCHANGED <<life, queue, processor, audio, link, deepgram, conns>>

\* A cancelled attempt stops its client.  A stop() under way may be cut short,
\* or swallows the cancellation; the status then ends the task.
Cuts ==
    /\ recovery.cancelled
    /\ recovery' = NoTask
    /\ audio' = [audio EXCEPT !.cut = IF recovery.item # 0 THEN @ + 1 ELSE @]
    /\ \/ recovery.at # "flushing" /\ UNCHANGED conns
       \/ recovery.at \in {"stopping", "flushing", "closing"} /\ Closes(recovery.client)
    /\ UNCHANGED <<life, queue, processor, link, deepgram>>

-----------------------------------------------------------------------------
(* The end of a listening: stop, pause, a restart, a failed start, shutdown *)

Stopping == {"stop", "restart", "shutdown"}
Goes(op, at) == control' = At(op, at)

\* _cancel_deepgram_reconnect up to its await
CancelAsked ==
    recovery' = IF recovery.at = "none" THEN recovery ELSE [recovery EXCEPT !.cancelled = TRUE]

Stop ==
    /\ control = Idle
    /\ IF device = "off" /\ status \in {"idle", "stopped"}
       THEN status' = "stopped" /\ UNCHANGED control
       ELSE Goes("stop", "device") /\ UNCHANGED status
    /\ UNCHANGED <<device, accept, session, queue, processor, audio, stream>>

Pause ==
    /\ control = Idle /\ status = "listening"
    /\ Goes("pause", "device")
    /\ UNCHANGED <<status, device, accept, session, queue, processor, audio, stream>>

PauseFails ==
    /\ control = At("pause", "device")
    /\ control' = Idle
    /\ UNCHANGED <<status, device, accept, session, queue, processor, audio, stream>>

\* The device is silent; _drain_captured_frames closes the gate.
DeviceStopped ==
    /\ control.at = "device" /\ control.op \in Stopping \cup {"pause"}
    /\ Goes(control.op, "draining")
    /\ device' = IF control.op = "pause" THEN "paused" ELSE "off"
    /\ accept' = FALSE
    /\ UNCHANGED <<status, session, queue, processor, audio, stream>>

\* mutant
DrainedEarly ==
    /\ control.at = "draining"
    /\ queue = 0
    /\ status' = IF control.op = "pause" THEN "paused" ELSE "stopped"
    /\ Goes(control.op, "cancelling")
    /\ CancelAsked
    /\ UNCHANGED <<device, accept, session, queue, processor, audio, link, deepgram, conns>>

\* Every queued frame is processed first.
Drained ==
    /\ control.at = "draining"
    /\ queue = 0 /\ processor = Resting
    /\ status' = IF control.op = "pause" THEN "paused" ELSE "stopped"
    /\ Goes(control.op, "cancelling")
    /\ CancelAsked
    /\ UNCHANGED <<device, accept, session, queue, processor, audio, link, deepgram, conns>>

\* The task is over; its buffer is discarded.
ReconnectCancelled ==
    /\ control.at = "cancelling" /\ recovery.at = "none"
    /\ control' = IF control.op = "ending" THEN Down ELSE At(control.op, "closing")
    /\ link' = [link EXCEPT !.reconnecting = FALSE]
    /\ audio' = Discarded(audio)
    /\ UNCHANGED <<status, device, accept, session, queue, processor, deepgram, recovery, conns>>

\* _deepgram.stop()
ClientStopped ==
    /\ control.at = "closing"
    /\ control' = IF control.op \in {"pause", "undo"} THEN Idle ELSE At(control.op, "finishing")
    /\ Closes(deepgram)
    /\ UNCHANGED <<status, device, accept, session, queue, processor, audio, link, deepgram,
                   recovery>>

\* The pending finals, 15 s at most, and stop_and_finalize.
Finished ==
    /\ control.at = "finishing"
    /\ session' = FALSE
    /\ accept' = IF control.op = "shutdown" THEN FALSE ELSE accept
    /\ control' = CASE control.op = "restart" -> At("start", "listing")
                    [] control.op = "shutdown" -> At("ending", "cancelling")
                    [] OTHER -> Idle
    /\ UNCHANGED <<status, device, queue, processor, audio, stream>>

Shutdown ==
    /\ control = Idle
    /\ IF device # "off"
       THEN Goes("shutdown", "device") /\ UNCHANGED <<accept, recovery>>
       ELSE Goes("ending", "cancelling") /\ accept' = FALSE /\ CancelAsked
    /\ UNCHANGED <<status, device, session, queue, processor, audio, link, deepgram, conns>>

-----------------------------------------------------------------------------
(* The beginning of a listening: start and resume *)

Start ==
    /\ control = Idle
    /\ control' = IF status \in {"listening", "paused"} THEN At("restart", "device")
                  ELSE At("start", "listing")
    /\ UNCHANGED <<status, device, accept, session, queue, processor, audio, stream>>

ListFails ==
    /\ control = At("start", "listing")
    /\ control' = Idle
    /\ UNCHANGED <<status, device, accept, session, queue, processor, audio, stream>>

\* The device is known; everything of the last session is reset.
Listed ==
    /\ control = At("start", "listing")
    /\ Goes("start", "opening")
    /\ queue' = 0
    /\ audio' = NoAudio
    /\ link' = Good
    /\ deepgram' = Unused
    /\ UNCHANGED <<status, device, accept, session, processor, recovery, conns>>

Resume ==
    /\ control = Idle /\ status = "paused"
    /\ Goes("resume", "opening")
    /\ audio' = [audio EXCEPT !.base = audio.received]
    /\ link' = [link EXCEPT !.failed = FALSE, !.exhausted = FALSE]
    /\ deepgram' = Unused
    /\ UNCHANGED <<status, device, accept, session, queue, processor, recovery, conns>>

\* _open_deepgram_with_retry, the first or the second attempt
Opened ==
    /\ control.at \in {"opening", "retrying"}
    /\ Opens(deepgram)
    /\ Goes(control.op, IF control.op = "start" THEN "session" ELSE "device")
    /\ UNCHANGED <<status, device, accept, session, queue, processor, audio, link, deepgram,
                   recovery>>

OpenFails ==
    /\ control.at = "opening" /\ MaxAttempts > 1
    /\ Goes(control.op, "retrying")
    /\ deepgram' = Unused
    /\ UNCHANGED <<status, device, accept, session, queue, processor, audio, link, recovery,
                   conns>>

SessionStarted ==
    /\ control = At("start", "session")
    /\ session' = TRUE
    /\ accept' = TRUE
    /\ device' = "running"
    /\ Goes("start", "device")
    /\ UNCHANGED <<status, queue, processor, audio, stream>>

DeviceStarted ==
    /\ control.at = "device" /\ control.op \in {"start", "resume"}
    /\ status' = "listening"
    /\ device' = "running"
    /\ accept' = TRUE
    /\ control' = Idle
    /\ UNCHANGED <<session, queue, processor, audio, stream>>

\* An error or a cancellation: _cleanup_failed_start.
StartFails ==
    /\ control.op = "start"
    /\ control.at \in {"opening", "retrying", "session", "device"}
    /\ Goes("cleanup", "cancelling")
    /\ status' \in {"error", "stopped"}
    /\ accept' = FALSE /\ device' = "off"
    /\ CancelAsked
    /\ UNCHANGED <<session, queue, processor, audio, link, deepgram, conns>>

ResumeFails ==
    /\ control.op = "resume"
    /\ control.at \in {"retrying", "device"} \/ (control.at = "opening" /\ MaxAttempts = 1)
    /\ Goes("undo", "closing")
    /\ UNCHANGED <<status, device, accept, session, queue, processor, audio, stream>>

-----------------------------------------------------------------------------
Init ==
    /\ control = Idle /\ status = "idle"
    /\ device = "off" /\ accept = FALSE /\ session = FALSE
    /\ queue = 0 /\ processor = Resting
    /\ audio = NoAudio /\ link = Good
    /\ deepgram = None /\ recovery = NoTask
    /\ conns = [c \in Connections |-> Closed]

Processor == Process \/ Sent \/ SendFails
Recovery ==
    \/ OldStopped \/ Waited \/ Reopened \/ ReopenFails \/ Flushed \/ FlushFails
    \/ NewStopped \/ Reported \/ Cuts
Request == Start \/ Pause \/ Resume \/ Stop \/ Shutdown
Operation ==
    \/ PauseFails \/ DeviceStopped \/ Drained \/ ReconnectCancelled \/ ClientStopped
    \/ Finished \/ ListFails \/ Listed \/ Opened \/ OpenFails \/ SessionStarted
    \/ DeviceStarted \/ StartFails \/ ResumeFails

Next == Frame \/ Processor \/ Recovery \/ Request \/ Operation \/ \E c \in Connections : Lost(c)

Spec == Init /\ [][Next]_vars

\* Every await has a timeout or is awaited to its end; requests, frames and
\* the loss of a connection may come or not.
FairSpec ==
    /\ Spec
    /\ WF_vars(Processor) /\ WF_vars(Recovery) /\ WF_vars(Operation)

-----------------------------------------------------------------------------
(* Properties *)

\* The types of the variables; a Flush that fails may leave one frame more
\* than the buffer's limit.
TypeOK ==
    /\ status \in {"idle", "listening", "paused", "error", "stopped"}
    /\ device \in {"off", "running", "paused"}
    /\ {accept, session} \subseteq BOOLEAN
    /\ queue \in 0 .. QueueSize
    /\ processor.frame \in {0} \cup Frames /\ processor.client \in {None} \cup Connections
    /\ audio.buffer \in Seq(Frames) /\ Len(audio.buffer) <= BufferSize + 1
    /\ {audio.received, audio.base, audio.dropped, audio.sent} \subseteq 0 .. MaxFrames
    /\ audio.cut \in 0 .. MaxFrames
    /\ DOMAIN link = DOMAIN Good
    /\ deepgram \in {None} \cup Connections
    /\ recovery.at \in {"none", "stopping", "waiting", "opening", "flushing", "closing",
                        "reporting"}
    /\ \A c \in Connections : conns[c].state \in {"closed", "open", "lost"}

\* Two connections never hear at a time: their finals would share one offset.
OneConnection == Cardinality(Live) <= 1

\* With it, the types and the bounds hold.
OneTypedConnection == TypeOK /\ OneConnection

\* When no operation is under way and nothing is listened to, nothing is left
\* that could still hear or reconnect: no client, no task, no frame or buffer,
\* and a session only if it is paused.
Quiet ==
    control.op \in {"none", "down"} /\ status # "listening" =>
        /\ Live = {} /\ recovery = NoTask /\ ~accept
        /\ processor = Resting /\ audio.buffer = <<>>
        /\ session = (status = "paused")

\* README_KO.md:305: what was kept while reconnecting is sent in order, before
\* what comes after.
InOrder ==
    \A c \in Live :
        LET rest == IF recovery.client = c /\ recovery.item # 0
                    THEN <<recovery.item>> \o audio.buffer ELSE audio.buffer
            all == conns[c].heard \o rest
        IN  \A i, j \in 1 .. Len(all) : i < j => all[i] < all[j]

\* A frame is sent, waits, or is counted as dropped; a cancellation alone may
\* cut the send of one.
Accounted ==
    audio.received =
        audio.sent + Len(audio.buffer) + audio.dropped + audio.cut
        + (IF processor.at = "sending" THEN 1 ELSE 0)
        + (IF recovery.item # 0 THEN 1 ELSE 0)

\* No audio is lost unnoticed, heard twice by a connection, or out of order.
AudioKept == InOrder /\ Accounted

\* Every operation returns, and a reconnection ends, with success or not.
OperationsEnd ==
    /\ control # Idle ~> control.op \in {"none", "down"}
    /\ recovery.at # "none" ~> recovery.at = "none"

\* docs/BUILD_WEEK_LOG.md:853: the offsets of a final are absolute.  They are
\* if what a connection heard begins where the connection is said to begin.
OffsetsTrue ==
    \A c \in Live : \A i \in 1 .. Len(conns[c].heard) : conns[c].heard[i] = audio.base + i
=============================================================================
