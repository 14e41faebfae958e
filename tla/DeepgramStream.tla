--------------------------- MODULE DeepgramStream ---------------------------
(***************************************************************************)
(* One streaming connection, backend/app/transcription/deepgram_stream.py: *)
(* the results of the provider, interim or stable, are assembled into      *)
(* finals, each of which is stored and translated.  The receiver, two      *)
(* timers, the sender of the audio and stop() share the assembly.          *)
(*                                                                         *)
(* Speech is a sequence of words, each of one unit of audio; a text is the *)
(* set of its words.  The sink of the controller returns without a         *)
(* suspension, so that a message is handled in one step.  The provider is  *)
(* outside: its results are consecutive, each goes on where the last       *)
(* stable one ended, and may be late, overlap a final or not come.         *)
(***************************************************************************)
EXTENDS Integers, FiniteSetsExt, SequencesExt

CONSTANTS
    MaxWords,      \* bound: words spoken
    HardLimit,     \* hard_limit_seconds, in words
    Dangling,      \* words after which a text is incomplete
    Closing,       \* words after which a sentence or a clause is complete
    MayReplace     \* a short candidate may be dropped: Korean

ASSUME DeepgramAssumption ==
    /\ {MaxWords, HardLimit} \subseteq Nat \ {0}
    /\ Dangling \cup Closing \subseteq 1 .. MaxWords
    /\ Dangling \cap Closing = {}
    /\ MayReplace \in BOOLEAN

VARIABLES
    asm,         \* the assembly: the fields of the client that hold text
    sent,        \* _audio_sent_seconds
    sender,      \* the call of send_audio: idle, sending or asking to finalize
    stopper,     \* the call of stop
    connected,   \* _connected
    receiving,   \* the task of _receive_loop is not done
    stable,      \* the provider: the last word of a stable result
    asked,       \* the provider: the audio it had at the Finalize to answer
    heard        \* history: the words of the stable results handled

client == <<sent, sender, stopper, connected, receiving>>
remote == <<stable, asked>>
streamVars == <<asm, client, remote, heard>>

Words == 1 .. MaxWords
Text(from, to) == from .. to
End(text) == IF text = {} THEN 0 ELSE Max(text)

Fresh == [committed |-> {},     \* _committed
          latest |-> {},        \* _latest_partial
          active |-> 0,         \* the first word of the utterance, 0 for None
          cutoff |-> 0,         \* _discard_results_through_offset
          lastFinal |-> {},     \* _last_final_text
          held |-> FALSE,       \* _candidate_held
          timer |-> FALSE,      \* _candidate_watchdog waits
          pending |-> "no",     \* _finalize_pending_reason
          at |-> 0,             \* _finalize_requested_at_audio_seconds
          watchdog |-> FALSE,   \* _finalize_watchdog waits
          finals |-> <<>>,      \* history: what the sink got
          gone |-> {}]          \* history: words the code drops on purpose

-----------------------------------------------------------------------------
(* The assembly, each step a function of its state *)

Incomplete(text) == End(text) \in Dangling

Acknowledged(a) == [a EXCEPT !.pending = "no", !.at = 0, !.watchdog = FALSE]
Unheld(a) == [a EXCEPT !.held = FALSE, !.timer = FALSE]

\* _hold_incomplete_final: a text that is not whole waits for its end.
Held(a) == [a EXCEPT !.held = TRUE, !.timer = TRUE]

\* The text of a final: the interim words count if they reach far enough.
Promoted(a, interim) ==
    IF interim /\ a.latest # {} /\ End(a.latest) >= End(a.committed)
    THEN a.latest ELSE a.committed

\* _flush_final: results up to its end are not wanted any more.
Flush(a, interim) ==
    LET text == Promoted(a, interim) IN
    Acknowledged(Unheld(
        [a EXCEPT !.committed = {}, !.latest = {}, !.active = 0,
                  !.finals = IF text = {} THEN @ ELSE Append(@, text),
                  !.cutoff = IF text = {} THEN @ ELSE Max({@, End(text)}),
                  !.lastFinal = IF text = {} THEN @ ELSE text]))

\* mutant
RemainderAll(a, text, timed) == IF End(text) <= a.cutoff THEN {} ELSE text

\* _remove_finalized_overlap: of a result that overlaps the last final, the
\* words after it, if they are timed or if the text begins with that final.
Remainder(a, text, timed) ==
    LET after == {w \in text : w > a.cutoff} IN
    IF after = text \/ timed THEN after
    ELSE IF after # {} /\ a.lastFinal # {} /\ a.lastFinal \subseteq text
            /\ Min(a.lastFinal) = Min(text)
    THEN text \ a.lastFinal
    ELSE {}

\* _should_replace_short_candidate, _discard_committed_candidate
Replaced(a, text) ==
    [a EXCEPT !.gone = @ \cup a.committed, !.committed = {}, !.latest = {},
              !.active = Min(text)]

\* mutant
ShownAlone(a, text) == [a EXCEPT !.latest = text]

\* _emit_partial of what is stable and what is not yet.
Shown(a, text) == [a EXCEPT !.latest = a.committed \cup text]

Span(text) == IF text = {} THEN 0 ELSE Max(text) - Min(text) + 1

\* A stable result: it ends the utterance, waits for more or is shown.
Stable(a, text, hard, speechFinal, stop) ==
    LET b == [a EXCEPT !.committed = @ \cup text]
        limit == hard \/ Span(b.committed) >= HardLimit
        whole == ~Incomplete(b.committed)
    IN  IF (limit \/ speechFinal) /\ ~whole THEN Shown(Held(b), {})
        ELSE IF limit \/ speechFinal \/ End(b.committed) \in Closing \/ stop
        THEN Flush(b, FALSE)
        ELSE Shown(b, {})

\* _handle_message of a result.  The reason is that of the request the result
\* acknowledges, flagged or by its reach.
Handled(a, r, replaces) ==
    LET acks == r.fromFinalize \/ (r.final /\ r.to >= a.at)
        reason == IF acks THEN a.pending ELSE "no"
        b == IF acks /\ a.pending # "no" THEN Acknowledged(a) ELSE a
        forced == reason \in {"hard", "stop"}
        text == Remainder(b, r.text, r.timed)
        c == [b EXCEPT !.active = IF @ = 0 \/ @ > Min(text) THEN Min(text) ELSE @]
    IN  IF r.text = {}
        THEN IF forced \/ r.speechFinal THEN Flush(b, TRUE) ELSE b
        ELSE IF text = {}
        THEN [b EXCEPT !.gone = IF r.final THEN @ \cup r.text ELSE @]
        ELSE IF r.final
        THEN LET d == IF c.held /\ replaces THEN Replaced(c, text) ELSE c IN
             Stable(Unheld(d), text, reason = "hard", r.speechFinal, reason = "stop")
        ELSE IF forced THEN Flush(Shown(c, text), TRUE) ELSE Shown(c, text)

\* _handle_utterance_end
UtteranceEnded(a) ==
    LET text == Promoted(a, TRUE) IN
    IF Incomplete(text)
    THEN IF a.held THEN a ELSE [Held(a) EXCEPT !.latest = text]
    ELSE Flush(a, TRUE)

-----------------------------------------------------------------------------
(* The sender: audio goes out, is counted, and may ask for a final. *)

\* What the provider has: the audio that is being sent may have arrived.
Arrived == IF sender = "sending" THEN sent + 1 ELSE sent

Send ==
    /\ sender = "idle" /\ connected /\ stopper # "stopped"
    /\ sent < MaxWords
    /\ sender' = "sending"
    /\ UNCHANGED <<asm, sent, stopper, connected, receiving, remote, heard>>

\* The utterance is as long as it may get.
Overdue(n) ==
    /\ asm.active # 0
    /\ ~asm.held
    /\ asm.pending = "no"
    /\ n - asm.active + 1 >= HardLimit

Counted ==
    /\ sender = "sending"
    /\ sent' = sent + 1
    /\ sender' = IF Overdue(sent') THEN "asking" ELSE "idle"
    /\ asked' = IF Overdue(sent') THEN asked \cup {sent'} ELSE asked
    /\ UNCHANGED <<asm, stopper, connected, receiving, stable, heard>>

\* _request_finalize after its send; a hard limit is watched.
Requested(a, reason) ==
    [a EXCEPT !.pending = reason, !.at = sent,
              !.watchdog = IF reason = "hard" THEN TRUE ELSE @]

AskedHard ==
    /\ sender = "asking"
    /\ sender' = "idle"
    /\ asm' = Requested(asm, "hard")
    /\ UNCHANGED <<sent, stopper, connected, receiving, remote, heard>>

\* A send fails or takes too long: the audio may have arrived all the same.
SendFails ==
    /\ sender # "idle"
    /\ sender' = "idle"
    /\ connected' = FALSE
    /\ UNCHANGED <<asm, sent, stopper, receiving, remote, heard>>

-----------------------------------------------------------------------------
(* The provider and the receiver *)

Flags == [final : BOOLEAN, speechFinal : BOOLEAN, timed : BOOLEAN]

\* A result up to a word; one that answers a Finalize reaches that point.
Result(to, f, q) ==
    /\ receiving
    /\ to \in stable .. Arrived
    /\ q # 0 => q \in asked /\ to >= q
    /\ LET text == Text(stable + 1, to)
           r == [text |-> text, to |-> to, fromFinalize |-> q # 0,
                 final |-> f.final, speechFinal |-> f.speechFinal, timed |-> f.timed]
       IN  /\ \E replaces \in BOOLEAN :
                /\ replaces => MayReplace /\ Cardinality(asm.committed) = 1
                /\ asm' = Handled(asm, r, replaces)
           /\ stable' = IF f.final THEN to ELSE stable
           /\ asked' = asked \ {q}
           /\ heard' = IF f.final THEN heard \cup text ELSE heard
    /\ UNCHANGED client

UtteranceEnd ==
    /\ receiving
    /\ asm' = UtteranceEnded(asm)
    /\ UNCHANGED <<client, remote, heard>>

\* The connection is lost or, after CloseStream, closed.
Lost ==
    /\ receiving
    /\ receiving' = FALSE
    /\ connected' = FALSE
    /\ UNCHANGED <<asm, sent, sender, stopper, remote, heard>>

-----------------------------------------------------------------------------
(* The timers *)

\* _candidate_timeout
CandidateTimeout ==
    /\ asm.timer
    /\ asm' = IF asm.held THEN Flush(asm, TRUE) ELSE [asm EXCEPT !.timer = FALSE]
    /\ UNCHANGED <<client, remote, heard>>

\* _finalize_timeout
FinalizeTimeout ==
    /\ asm.watchdog
    /\ asm' = IF asm.pending = "hard" THEN Flush(Acknowledged(asm), TRUE)
              ELSE [asm EXCEPT !.watchdog = FALSE]
    /\ UNCHANGED <<client, remote, heard>>

-----------------------------------------------------------------------------
(* stop *)

StopCalled ==
    /\ stopper = "no"
    /\ LET asks == connected /\ asm.pending = "no" IN
       /\ stopper' = IF asks THEN "asking" ELSE IF connected THEN "pausing" ELSE "joining"
       /\ asked' = IF asks THEN asked \cup {sent} ELSE asked
    /\ UNCHANGED <<asm, sent, sender, connected, receiving, stable, heard>>

\* The request went out, or its send failed.
AskedStop ==
    /\ stopper = "asking"
    /\ \/ stopper' = "pausing" /\ asm' = Requested(asm, "stop")
       \/ stopper' = "joining" /\ UNCHANGED asm
    /\ UNCHANGED <<sent, sender, connected, receiving, remote, heard>>

\* CloseStream went out after the pause, or could not.
Close ==
    /\ stopper = "pausing"
    /\ stopper' = "joining"
    /\ UNCHANGED <<asm, sent, sender, connected, receiving, remote, heard>>

\* mutant
StoppedStableOnly ==
    /\ stopper = "joining"
    /\ stopper' = "stopped"
    /\ receiving' = FALSE /\ connected' = FALSE
    /\ asm' = [Flush(asm, FALSE) EXCEPT !.watchdog = FALSE, !.timer = FALSE]
    /\ UNCHANGED <<sent, sender, remote, heard>>

\* mutant
StoppedUntimed ==
    /\ stopper = "joining" /\ ~receiving
    /\ stopper' = "stopped"
    /\ connected' = FALSE
    /\ asm' = [Flush(asm, TRUE) EXCEPT !.watchdog = FALSE, !.timer = FALSE]
    /\ UNCHANGED <<sent, sender, receiving, remote, heard>>

\* The receiver is over or is cancelled after two seconds; the tail is flushed.
Stopped ==
    /\ stopper = "joining"
    /\ stopper' = "stopped"
    /\ receiving' = FALSE /\ connected' = FALSE
    /\ asm' = [Flush(asm, TRUE) EXCEPT !.watchdog = FALSE, !.timer = FALSE]
    /\ UNCHANGED <<sent, sender, remote, heard>>

-----------------------------------------------------------------------------
StreamInit ==
    /\ asm = Fresh
    /\ sent = 0
    /\ sender = "idle" /\ stopper = "no"
    /\ connected = TRUE /\ receiving = TRUE
    /\ stable = 0 /\ asked = {}
    /\ heard = {}

Sender == Send \/ Counted \/ AskedHard \/ SendFails
Receiver == UtteranceEnd \/ Lost \/
            \E to \in 0 .. MaxWords, f \in Flags, q \in asked \cup {0} : Result(to, f, q)
Stopper == StopCalled \/ AskedStop \/ Close \/ Stopped

StreamNext == Sender \/ Receiver \/ CandidateTimeout \/ FinalizeTimeout \/ Stopper

StreamSpec == StreamInit /\ [][StreamNext]_streamVars

\* The timers fire, the deadline of a held candidate bounds its refreshes, and
\* every send has a timeout.  Nothing is expected of the provider.
FairStreamSpec ==
    /\ StreamSpec
    /\ WF_streamVars(CandidateTimeout) /\ WF_streamVars(FinalizeTimeout)
    /\ WF_streamVars(Counted) /\ WF_streamVars(AskedHard)
    /\ WF_streamVars(AskedStop \/ Close \/ Stopped)

-----------------------------------------------------------------------------
(* Properties *)

\* The types of the variables; a request is watched if it is for the limit.
StreamTypeOK ==
    /\ {asm.committed, asm.latest, asm.lastFinal, asm.gone, heard} \subseteq SUBSET Words
    /\ asm.finals \in Seq((SUBSET Words) \ {{}})
    /\ {asm.active, asm.cutoff, asm.at, sent, stable} \subseteq 0 .. MaxWords
    /\ {asm.held, asm.timer, asm.watchdog, connected, receiving} \subseteq BOOLEAN
    /\ asm.pending \in {"no", "hard", "stop"}
    /\ sender \in {"idle", "sending", "asking"}
    /\ stopper \in {"no", "asking", "pausing", "joining", "stopped"}
    /\ asked \subseteq 0 .. MaxWords
    /\ asm.watchdog => asm.pending # "no"
    /\ asm.timer = asm.held

\* No word is in two finals, and the finals follow the speech: a result that
\* is late, or overlaps interim words that a timer or stop() made final, adds
\* only what is new.
OnceInOrder ==
    \A i, j \in 1 .. Len(asm.finals) :
        i < j => Max(asm.finals[i]) < Min(asm.finals[j])

\* The finals make one text.
FinalsMakeOneText == StreamTypeOK /\ OnceInOrder

\* A word of a stable result is in a final or still in the assembly, unless
\* the code drops it on purpose.
NothingLost ==
    heard \subseteq (UNION ToSet(asm.finals)) \cup asm.committed \cup asm.gone

\* stop() makes final what was shown last, stable or not, and nothing follows.
TailKept ==
    [][/\ stopper' = "stopped" /\ stopper # "stopped" =>
            asm.committed \cup asm.latest \subseteq UNION ToSet(asm'.finals)
       /\ stopper = "stopped" => asm'.finals = asm.finals]_streamVars

\* Whatever the provider does, no text waits for ever: a candidate that is not
\* whole becomes final, a final asked for at the limit comes, and stop() returns.
RequestsEnd ==
    /\ asm.held ~> ~asm.held
    /\ asm.pending = "hard" ~> asm.pending # "hard"
    /\ stopper # "no" ~> stopper = "stopped"

-----------------------------------------------------------------------------
(* The inductive invariant *)

\* What a final may be.
Texts == (SUBSET Words) \ {{}}

Assembly ==
    [committed : SUBSET Words, latest : SUBSET Words, active : 0 .. MaxWords,
     cutoff : 0 .. MaxWords, lastFinal : SUBSET Words, held : BOOLEAN, timer : BOOLEAN,
     pending : {"no", "hard", "stop"}, at : 0 .. MaxWords, watchdog : BOOLEAN,
     finals : Seq(Texts), gone : SUBSET Words]

Typed ==
    /\ asm \in Assembly
    /\ sent \in 0 .. MaxWords /\ stable \in 0 .. MaxWords
    /\ sender \in {"idle", "sending", "asking"}
    /\ stopper \in {"no", "asking", "pausing", "joining", "stopped"}
    /\ connected \in BOOLEAN /\ receiving \in BOOLEAN
    /\ asked \subseteq 0 .. MaxWords
    /\ heard \subseteq Words

Said(fs) == UNION ToSet(fs)

\* The finals follow each other up to the offset cu.
Parted(fs, cu) ==
    /\ \A i \in 1 .. Len(fs) : \A w \in fs[i] : w <= cu
    /\ \A i, j \in 1 .. Len(fs) : i < j => \A x \in fs[i], y \in fs[j] : x < y

\* The committed words are all that is stable from the first of them on, and
\* the last final reaches to the offset without a gap.
Based(co, cu, lf, s) ==
    /\ \A w \in co : cu < w /\ w <= s
    /\ \A x \in co, w \in Words : x <= w /\ w <= s => w \in co
    /\ \A w \in lf : w <= cu
    /\ \A x \in lf, w \in Words : x <= w /\ w <= cu => w \in lf

\* A word up to the offset that is not stable yet was made final or dropped on
\* purpose, and so was a stable word that is not committed.
Covered(fs, co, cu, go, s, h) ==
    /\ \A w \in Words : s < w /\ w <= cu => w \in Said(fs) \cup go
    /\ h \subseteq Said(fs) \cup co \cup go

\* What is shown begins with what is committed, has no gap, and reaches back to
\* the words that are stable or final.
Seen(co, la, cu, s) ==
    /\ co \subseteq la
    /\ \A w \in la : cu < w
    /\ \A x, y \in la, w \in Words : x <= w /\ w <= y => w \in la
    /\ \A y \in la, w \in Words : s < w /\ cu < w /\ w <= y => w \in la

Base(a, s, h) ==
    /\ Parted(a.finals, a.cutoff)
    /\ Based(a.committed, a.cutoff, a.lastFinal, s)
    /\ Covered(a.finals, a.committed, a.cutoff, a.gone, s, h)

Whole(a, s, h) == Base(a, s, h) /\ Seen(a.committed, a.latest, a.cutoff, s)

\* Requests and timers of the assembly.
Timed(a) == (a.watchdog => a.pending # "no") /\ a.timer = a.held

Ended == stopper = "stopped" =>
    ~receiving /\ asm.committed = {} /\ asm.latest = {} /\ ~asm.held

StreamInv ==
    /\ Typed
    /\ Whole(asm, stable, heard)
    /\ Timed(asm)
    /\ Ended
    /\ sender = "sending" => sent < MaxWords
=============================================================================
