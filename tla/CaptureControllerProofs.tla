----------------------- MODULE CaptureControllerProofs -----------------------
(***************************************************************************)
(* OneTypedConnection, Quiet and AudioKept hold for any number of frames   *)
(* and attempts and any size of the queue and the buffer.  The invariant   *)
(* has three parts: where the control operation is and what it has done by *)
(* then (Life), which client may still be connected and on whose behalf    *)
(* the reconnection works (Wired), and where every frame is (Sound).       *)
(***************************************************************************)
EXTENDS CaptureController, SequenceTheorems, FiniteSetTheorems,
        WellFoundedInduction, TLAPS

-----------------------------------------------------------------------------
(* The invariant *)

Accounts == [received : Nat, base : 0 .. MaxFrames, buffer : Seq(Frames),
             dropped : Nat, sent : Nat, cut : Nat]
Clients == [state : {"closed", "open", "lost"}, heard : Seq(Frames)]

Senders == [at : {"idle", "sending"}, frame : {0} \cup Frames, client : {None} \cup Connections]
Links == [failed : BOOLEAN, reconnecting : BOOLEAN, exhausted : BOOLEAN]
Tasks == [at : {"none", "stopping", "waiting", "opening", "flushing", "closing", "reporting"},
          client : {None} \cup Connections, attempt : Nat,
          item : {0} \cup Frames, cancelled : BOOLEAN]
Operations == {"none", "down", "stop", "restart", "shutdown", "pause", "start", "resume",
               "cleanup", "undo", "ending"}
Awaits == {"none", "device", "draining", "cancelling", "closing", "finishing", "listing",
           "opening", "retrying", "session"}

Typed ==
    /\ control \in [op : Operations, at : Awaits]
    /\ status \in {"idle", "listening", "paused", "error", "stopped"}
    /\ device \in {"off", "running", "paused"}
    /\ accept \in BOOLEAN /\ session \in BOOLEAN
    /\ queue \in 0 .. QueueSize
    /\ processor \in Senders
    /\ audio \in Accounts
    /\ link \in Links
    /\ deepgram \in {None} \cup Connections
    /\ recovery \in Tasks
    /\ conns \in [Connections -> Clients]

\* What an operation has done before each of its awaits.
Ends == Stopping \cup {"pause"}
Life ==
    /\ control.op = "none" <=> control.at = "none" /\ control.op # "down"
    /\ control.op = "down" => control.at = "none"
    /\ control.at = "device" => control.op \in Ends \cup {"start", "resume"}
    /\ control.at = "draining" => control.op \in Ends
    /\ control.at = "cancelling" => control.op \in Ends \cup {"cleanup", "ending"}
    /\ control.at = "closing" => control.op \in Ends \cup {"cleanup", "undo"}
    /\ control.at = "finishing" => control.op \in Stopping \cup {"cleanup"}
    /\ control.at \in {"listing", "session"} => control.op = "start"
    /\ control.at \in {"opening", "retrying"} => control.op \in {"start", "resume"}
    /\ status = "listening" =>
           /\ session /\ control.op \in Ends \cup {"none"}
           /\ control.at \in {"none", "device", "draining"}
           /\ control.at # "draining" => device = "running"
    /\ status = "paused" =>
           /\ session /\ control.op \in Ends \cup {"none", "resume", "undo"}
           /\ control.op \in {"none", "resume", "undo"} => device = "paused"
    /\ control.op \in {"none", "down", "ending"} /\ status \notin {"listening", "paused"} =>
           device = "off" /\ ~session
    /\ control.op \in {"none", "down", "ending", "resume", "undo"} /\ status # "listening" =>
           ~accept
    /\ control.op \in {"down", "ending"} => status \notin {"listening", "paused"}
    /\ control.op = "start" => status \notin {"listening", "paused"}
    /\ control.at \in {"listing", "opening", "retrying", "session"} /\ control.op = "start" =>
           ~session /\ ~accept /\ device = "off"
    /\ control = At("start", "device") => session
    /\ control.op \in {"resume", "undo"} => status = "paused"
    /\ control = At("pause", "device") => status = "listening"
    /\ control.at = "draining" =>
           /\ ~accept
           /\ control.op = "pause" => status = "listening" /\ device = "paused"
           /\ control.op # "pause" => device = "off"
    /\ control.at \in {"cancelling", "closing", "finishing"} => ~accept /\ status # "listening"
    /\ control.op \in Stopping /\ control.at \in {"cancelling", "closing", "finishing"} =>
           status = "stopped" /\ device = "off"
    /\ control.op = "pause" /\ control.at \in {"cancelling", "closing"} =>
           status = "paused" /\ device = "paused"
    /\ control.op = "cleanup" => status \in {"error", "stopped"} /\ device = "off"

\* Where the control operation is when no client is connected.
Mute ==
    /\ status # "listening"
    /\ \/ control.op \in {"none", "down", "ending"}
       \/ control.at \in {"listing", "opening", "retrying", "finishing"}
       \/ control.op \in Ends /\ control.at \in {"device", "draining"}

\* Where it is when _deepgram is there.
Calling ==
    \/ status = "listening"
    \/ /\ control.op \in {"start", "resume"}
       /\ control.at \in {"opening", "retrying", "session", "device"}

Wired ==
    /\ Calling => deepgram # None
    /\ Live \subseteq {deepgram}
    /\ \A c \in Connections : conns[c].state = "closed" => conns[c].heard = <<>>
    /\ Mute => Live = {}
    /\ recovery.at = "none" => recovery = NoTask
    /\ recovery.at # "none" =>
           status = "listening" \/ (recovery.cancelled /\ control.at = "cancelling")
    /\ recovery.at \in {"stopping", "flushing", "closing"} => recovery.client = deepgram
    /\ recovery.at \in {"stopping", "opening", "flushing", "closing"} => recovery.client # None
    /\ recovery.at \in {"waiting", "opening"} => Live = {}

\* The frames b of the buffer, with the item i in front of them, are in order,
\* and those of the connection, h, come before: of the first n and m frames.
Lined(h, i, b, n, m) ==
    /\ \A j, k \in 1 .. Len(b) : j < k => b[j] < b[k]
    /\ \A k \in 1 .. Len(b) : b[k] <= n
    /\ i # 0 => i <= n /\ \A k \in 1 .. Len(b) : i < b[k]
    /\ \A j, k \in 1 .. Len(h) : j < k => h[j] < h[k]
    /\ \A j \in 1 .. Len(h) :
           /\ h[j] <= m
           /\ i # 0 => h[j] < i
           /\ \A k \in 1 .. Len(b) : h[j] < b[k]

InFlight == IF processor.at = "sending" THEN 1 ELSE 0
AtWork(i, s) == IF i = 0 THEN s ELSE s + 1
Upto(r, s) == r - s

\* Of r frames the buffer b is waiting, d were dropped, t sent, c cut, and e are
\* at work.
Sums(r, b, d, t, c, e) == r = t + Len(b) + d + c + e /\ r <= MaxFrames
Fits(b, i) == Len(b) <= BufferSize + 1 /\ (i # 0 => Len(b) <= BufferSize)

\* What the connections cs heard is in order with the rest.
AllLined(cs, i, b, n, m) == \A c \in Connections : Lined(cs[c].heard, i, b, n, m)

Holding(r, b, d, t, c, i, s, cs) ==
    /\ Fits(b, i)
    /\ Sums(r, b, d, t, c, AtWork(i, s))
    /\ s = 1 => b = <<>> /\ i = 0
    /\ AllLined(cs, i, b, r, Upto(r, s))

\* The accounts a with the item i of the reconnection, s frames being sent, and
\* what the connections cs heard.
Kept(a, i, s, cs) ==
    Holding(a.received, a.buffer, a.dropped, a.sent, a.cut, i, s, cs)

Sound ==
    /\ Kept(audio, recovery.item, InFlight, conns)
    /\ processor.at = "sending" =>
           processor.frame = audio.received /\ status = "listening" /\ processor.client # None
    /\ processor.at = "idle" => processor = Resting
    /\ recovery.item # 0 <=> recovery.at = "flushing"
    /\ audio.received + queue <= MaxFrames
    /\ link.failed \/ link.reconnecting \/ audio.buffer = <<>>
    /\ recovery.at \notin {"none", "reporting"} => link.failed \/ link.reconnecting
    /\ status # "listening" /\ control.at # "cancelling" => audio.buffer = <<>>

IInv == Typed /\ Life /\ Wired /\ Sound

-----------------------------------------------------------------------------
(* Sequences *)

LEMMA AppendFacts ==
    ASSUME NEW S, NEW s \in Seq(S), NEW e \in S
    PROVE /\ Append(s, e) \in Seq(S) /\ Len(s) \in Nat
          /\ Len(Append(s, e)) = Len(s) + 1
          /\ \A i \in 1 .. Len(s) : Append(s, e)[i] = s[i]
          /\ Append(s, e)[Len(s) + 1] = e
OBVIOUS

LEMMA TailFacts ==
    ASSUME NEW S, NEW s \in Seq(S), s # << >>
    PROVE /\ Tail(s) \in Seq(S) /\ Len(s) \in Nat \ {0}
          /\ Head(s) = s[1] /\ Head(s) \in S
          /\ Len(Tail(s)) = Len(s) - 1
          /\ \A i \in 1 .. Len(Tail(s)) : Tail(s)[i] = s[i + 1] /\ i + 1 \in 1 .. Len(s)
OBVIOUS

LEMMA PushFacts ==
    ASSUME NEW S, NEW s \in Seq(S), NEW e \in S
    PROVE /\ <<e>> \o s \in Seq(S) /\ Len(s) \in Nat
          /\ Len(<<e>> \o s) = Len(s) + 1
          /\ (<<e>> \o s)[1] = e
          /\ \A i \in 1 .. Len(s) : (<<e>> \o s)[i + 1] = s[i]
<1>1. PICK t : t = <<e>> \o s
  OBVIOUS
<1>2. <<e>> \in Seq(S) /\ Len(<<e>>) = 1 /\ <<e>>[1] = e /\ Len(s) \in Nat
  OBVIOUS
<1>3. /\ t \in Seq(S) /\ Len(t) = 1 + Len(s)
      /\ \A i \in 1 .. 1 + Len(s) : t[i] = IF i <= 1 THEN <<e>>[i] ELSE s[i - 1]
  BY <1>1, <1>2, ConcatProperties
<1>4. t[1] = e
  <2>1. 1 \in 1 .. 1 + Len(s)
    BY <1>2
  <2> QED BY <1>2, <1>3, <2>1
<1>5. ASSUME NEW i \in 1 .. Len(s) PROVE t[i + 1] = s[i]
  <2>1. i + 1 \in 1 .. 1 + Len(s) /\ ~(i + 1 <= 1) /\ (i + 1) - 1 = i
    BY <1>2
  <2>2. t[i + 1] = s[(i + 1) - 1]
    BY <1>3, <2>1
  <2> QED BY <2>1, <2>2
<1> QED BY <1>1, <1>2, <1>3, <1>4, <1>5

LEMMA FramesFacts ==
    ASSUME NEW s \in Seq(Frames)
    PROVE \A i \in 1 .. Len(s) : s[i] \in Frames /\ s[i] \in Nat /\ s[i] # 0
<1>1. \A f \in Frames : f \in Nat /\ f # 0
  BY DEF Frames
<1>2. \A i \in 1 .. Len(s) : s[i] \in Frames
  OBVIOUS
<1> QED BY <1>1, <1>2

\* The newest frames are a suffix.
LEMMA NewestFacts ==
    ASSUME NEW s \in Seq(Frames)
    PROVE \E t \in Seq(Frames), k \in Nat :
              /\ t = Newest(s) /\ Len(t) <= BufferSize /\ Len(t) = Len(s) - k
              /\ \A i \in 1 .. Len(t) : i + k \in 1 .. Len(s) /\ t[i] = s[i + k]
<1>1. BufferSize \in Nat \ {0} /\ Len(s) \in Nat
  BY CaptureAssumption
<1>2. CASE Len(s) <= BufferSize
  <2>1. Newest(s) = s
    BY <1>2 DEF Newest
  <2>2. \A i \in 1 .. Len(s) : i + 0 = i
    BY <1>1
  <2> QED BY <1>1, <1>2, <2>1, <2>2
<1>3. CASE ~(Len(s) <= BufferSize)
  <2>1. PICK m : m = Len(s) - BufferSize + 1
    OBVIOUS
  <2>2. m \in 1 .. Len(s) /\ m \in Nat
    BY <1>1, <1>3, <2>1
  <2>3. PICK t : t = SubSeq(s, m, Len(s))
    OBVIOUS
  <2>4. /\ t \in Seq(Frames) /\ Len(t) = Len(s) - m + 1
        /\ \A i \in 1 .. Len(s) - m + 1 : t[i] = s[m + i - 1]
    BY <1>1, <2>2, <2>3
  <2>5. Newest(s) = t
    BY <1>3, <2>1, <2>3 DEF Newest
  <2>6. Len(t) = BufferSize /\ m - 1 \in Nat /\ Len(t) = Len(s) - (m - 1)
    BY <1>1, <2>1, <2>2, <2>4
  <2>7. ASSUME NEW i \in 1 .. Len(t) PROVE i + (m - 1) \in 1 .. Len(s) /\ t[i] = s[i + (m - 1)]
    <3>1. i \in 1 .. Len(s) - m + 1 /\ m + i - 1 = i + (m - 1) /\ i + (m - 1) \in 1 .. Len(s)
      BY <1>1, <2>1, <2>2, <2>4
    <3> QED BY <2>4, <3>1
  <2>8. PICK k : k = m - 1
    OBVIOUS
  <2>9. k \in Nat /\ Len(t) = Len(s) - k /\ Len(t) <= BufferSize
    BY <1>1, <2>6, <2>8
  <2>10. \A i \in 1 .. Len(t) : i + k \in 1 .. Len(s) /\ t[i] = s[i + k]
    BY <2>7, <2>8
  <2> QED BY <2>4, <2>5, <2>9, <2>10
<1> QED BY <1>2, <1>3

LEMMA NatLeast ==
    ASSUME NEW S \in SUBSET Nat, S # {}
    PROVE \E i \in S : \A j \in S : i <= j
<1>1. IsWellFoundedOn(OpToRel(<, Nat), Nat)
  BY NatLessThanWellFounded
<1>2. PICK i \in S : \A j \in S : ~(<<j, i>> \in OpToRel(<, Nat))
  BY <1>1, WFMin
<1>3. ASSUME NEW j \in S, j < i PROVE FALSE
  <2>1. <<j, i>> \in OpToRel(<, Nat)
    BY <1>3 DEF OpToRel
  <2> QED BY <1>2, <2>1, Zenon
<1>4. \A j \in S : j \in Nat /\ i \in Nat /\ ~(j < i)
  BY <1>3
<1> QED BY <1>4

-----------------------------------------------------------------------------
(* What happens to the frames *)

LEMMA LinedWider ==
    ASSUME NEW h \in Seq(Frames), NEW i, NEW b \in Seq(Frames), NEW n \in Nat, NEW m \in Int,
           NEW o \in Nat, NEW p \in Int, n <= o, m <= p, i \in Nat, Lined(h, i, b, n, m)
    PROVE Lined(h, i, b, o, p)
<1>1. /\ \A k \in 1 .. Len(b) : b[k] \in Nat
      /\ \A k \in 1 .. Len(h) : h[k] \in Nat
  BY FramesFacts, Zenon
<1>2. \A k \in 1 .. Len(b) : b[k] <= o
  BY <1>1 DEF Lined
<1>3. \A k \in 1 .. Len(h) : h[k] <= p
  BY <1>1 DEF Lined
<1>4. i # 0 => i <= o
  BY DEF Lined
<1> QED BY <1>2, <1>3, <1>4 DEF Lined

\* A frame f that is newer than all the others enters the buffer.
LEMMA LinedBuffers ==
    ASSUME NEW h \in Seq(Frames), NEW i \in Nat, NEW b \in Seq(Frames), NEW n \in Nat, NEW m \in Int,
           NEW f \in Frames, Lined(h, i, b, n, m), m < f, \A k \in 1 .. Len(b) : b[k] < f,
           i # 0 => i < f, n <= f
    PROVE Lined(h, i, Newest(Append(b, f)), f, f)
<1>0. f \in Nat
  BY DEF Frames
<1>1. PICK s : s = Append(b, f)
  OBVIOUS
<1>2. /\ s \in Seq(Frames) /\ Len(b) \in Nat /\ Len(s) = Len(b) + 1
      /\ \A k \in 1 .. Len(b) : s[k] = b[k]
      /\ s[Len(b) + 1] = f
  BY <1>1, AppendFacts
<1>3. ASSUME NEW k \in 1 .. Len(s)
      PROVE (k \in 1 .. Len(b) /\ s[k] = b[k]) \/ (k = Len(b) + 1 /\ s[k] = f)
  <2>1. k \in 1 .. Len(b) \/ k = Len(b) + 1
    BY <1>2
  <2> QED BY <1>2, <2>1
<1>4. \A k \in 1 .. Len(h) : h[k] \in Nat /\ h[k] <= m
  BY FramesFacts DEF Lined
<1>5. \A k \in 1 .. Len(h) : h[k] < f /\ h[k] <= f
  BY <1>0, <1>4
<1>6. ASSUME NEW k \in 1 .. Len(s)
      PROVE /\ s[k] <= f /\ (i # 0 => i < s[k])
            /\ \A j \in 1 .. Len(h) : h[j] < s[k]
  <2>1. CASE k \in 1 .. Len(b) /\ s[k] = b[k]
    <3>1. b[k] \in Nat /\ b[k] < f
      BY <2>1, FramesFacts
    <3>2. (i # 0 => i < b[k]) /\ \A j \in 1 .. Len(h) : h[j] < b[k]
      BY <2>1 DEF Lined
    <3> QED BY <1>0, <2>1, <3>1, <3>2
  <2>2. CASE s[k] = f
    BY <1>0, <1>5, <2>2
  <2> QED BY <1>3, <2>1, <2>2
<1>7. ASSUME NEW j \in 1 .. Len(s), NEW k \in 1 .. Len(s), j < k PROVE s[j] < s[k]
  <2>1. j \in 1 .. Len(b) /\ s[j] = b[j]
    BY <1>2, <1>7
  <2>2. CASE k \in 1 .. Len(b) /\ s[k] = b[k]
    BY <1>7, <2>1, <2>2 DEF Lined
  <2>3. CASE s[k] = f
    BY <2>1, <2>3
  <2> QED BY <1>3, <2>2, <2>3
<1>8. PICK t \in Seq(Frames), d \in Nat :
          /\ t = Newest(s) /\ Len(t) <= BufferSize /\ Len(t) = Len(s) - d
          /\ \A k \in 1 .. Len(t) : k + d \in 1 .. Len(s) /\ t[k] = s[k + d]
  BY <1>2, NewestFacts
<1>9. ASSUME NEW j \in 1 .. Len(t), NEW k \in 1 .. Len(t), j < k PROVE t[j] < t[k]
  <2>1. j + d \in 1 .. Len(s) /\ k + d \in 1 .. Len(s) /\ j + d < k + d
    BY <1>8, <1>9
  <2> QED BY <1>7, <1>8, <2>1
<1>10. ASSUME NEW k \in 1 .. Len(t)
       PROVE /\ t[k] <= f /\ (i # 0 => i < t[k])
             /\ \A j \in 1 .. Len(h) : h[j] < t[k]
  BY <1>6, <1>8
<1>11. i # 0 => i <= f
  BY <1>0
<1>12. Lined(h, i, t, f, f)
  BY <1>5, <1>9, <1>10, <1>11 DEF Lined
<1> QED BY <1>1, <1>8, <1>12

\* The first frame of the buffer becomes the item.
LEMMA LinedTakes ==
    ASSUME NEW h, NEW b \in Seq(Frames), b # <<>>, NEW n, NEW m, Lined(h, 0, b, n, m)
    PROVE Lined(h, Head(b), Tail(b), n, m)
<1>1. PICK t : t = Tail(b)
  OBVIOUS
<1>2. /\ t \in Seq(Frames) /\ Len(b) \in Nat \ {0} /\ Head(b) = b[1] /\ Len(t) = Len(b) - 1
      /\ \A k \in 1 .. Len(t) : t[k] = b[k + 1] /\ k + 1 \in 1 .. Len(b)
  BY <1>1, TailFacts
<1>3. 1 \in 1 .. Len(b) /\ \A k \in 1 .. Len(t) : 1 < k + 1 /\ k + 1 \in 1 .. Len(b)
  BY <1>2
<1>4. b[1] <= n /\ \A k \in 1 .. Len(t) : b[1] < t[k]
  BY <1>2, <1>3 DEF Lined
<1>5. ASSUME NEW j \in 1 .. Len(t), NEW k \in 1 .. Len(t), j < k PROVE t[j] < t[k]
  <2>1. j + 1 \in 1 .. Len(b) /\ k + 1 \in 1 .. Len(b) /\ j + 1 < k + 1
    BY <1>2, <1>5
  <2>2. b[j + 1] < b[k + 1]
    BY <2>1 DEF Lined
  <2> QED BY <1>2, <2>2
<1>6. \A k \in 1 .. Len(t) : t[k] <= n /\ \A j \in 1 .. Len(h) : h[j] < t[k]
  BY <1>2 DEF Lined
<1>7. \A j \in 1 .. Len(h) : h[j] < b[1]
  BY <1>3 DEF Lined
<1>8. Lined(h, b[1], t, n, m)
  BY <1>4, <1>5, <1>6, <1>7 DEF Lined
<1> QED BY <1>1, <1>2, <1>8

\* The item goes back.
LEMMA LinedBack ==
    ASSUME NEW h, NEW i \in Frames, NEW b \in Seq(Frames), NEW n, NEW m, Lined(h, i, b, n, m)
    PROVE Lined(h, 0, <<i>> \o b, n, m)
<1>1. PICK t : t = <<i>> \o b
  OBVIOUS
<1>2. /\ Len(b) \in Nat /\ Len(t) = Len(b) + 1 /\ t[1] = i
      /\ \A k \in 1 .. Len(b) : t[k + 1] = b[k]
  BY <1>1, PushFacts
<1>3. i # 0
  BY DEF Frames
<1>4. ASSUME NEW k \in 1 .. Len(t)
      PROVE (k = 1 /\ t[k] = i) \/ (k - 1 \in 1 .. Len(b) /\ t[k] = b[k - 1])
  <2>1. CASE k = 1
    BY <1>2, <2>1
  <2>2. CASE k # 1
    <3>1. k - 1 \in 1 .. Len(b) /\ (k - 1) + 1 = k
      BY <1>2, <2>2
    <3>2. t[(k - 1) + 1] = b[k - 1]
      BY <1>2, <3>1
    <3> QED BY <3>1, <3>2
  <2> QED BY <2>1, <2>2
<1>5. ASSUME NEW j \in 1 .. Len(t), NEW k \in 1 .. Len(t), j < k PROVE t[j] < t[k]
  <2>1. k - 1 \in 1 .. Len(b) /\ t[k] = b[k - 1]
    BY <1>2, <1>4, <1>5
  <2>2. CASE j = 1 /\ t[j] = i
    BY <1>3, <2>1, <2>2 DEF Lined
  <2>3. CASE j - 1 \in 1 .. Len(b) /\ t[j] = b[j - 1]
    <3>1. j - 1 < k - 1
      BY <1>2, <1>5
    <3> QED BY <2>1, <2>3, <3>1 DEF Lined
  <2> QED BY <1>4, <2>2, <2>3
<1>6. \A k \in 1 .. Len(t) : t[k] <= n /\ \A j \in 1 .. Len(h) : h[j] < t[k]
  BY <1>3, <1>4 DEF Lined
<1>7. Lined(h, 0, t, n, m)
  BY <1>5, <1>6 DEF Lined
<1> QED BY <1>1, <1>7

\* The connection hears the frame f, which is newer than what it heard and
\* older than the buffer.
LEMMA LinedHears ==
    ASSUME NEW h \in Seq(Frames), NEW i, NEW b \in Seq(Frames), NEW n \in Nat, NEW m,
           Lined(h, i, b, n, m), NEW f \in Frames, f <= n,
           \A j \in 1 .. Len(h) : h[j] < f, \A k \in 1 .. Len(b) : f < b[k]
    PROVE Lined(Append(h, f), 0, b, n, n)
<1>1. PICK t : t = Append(h, f)
  OBVIOUS
<1>2. /\ t \in Seq(Frames) /\ Len(h) \in Nat /\ Len(t) = Len(h) + 1
      /\ \A k \in 1 .. Len(h) : t[k] = h[k]
      /\ t[Len(h) + 1] = f
  BY <1>1, AppendFacts
<1>3. ASSUME NEW k \in 1 .. Len(t)
      PROVE (k \in 1 .. Len(h) /\ t[k] = h[k]) \/ (k = Len(h) + 1 /\ t[k] = f)
  <2>1. k \in 1 .. Len(h) \/ k = Len(h) + 1
    BY <1>2
  <2> QED BY <1>2, <2>1
<1>4. ASSUME NEW j \in 1 .. Len(t), NEW k \in 1 .. Len(t), j < k PROVE t[j] < t[k]
  <2>1. j \in 1 .. Len(h) /\ t[j] = h[j]
    BY <1>2, <1>4
  <2>2. CASE k \in 1 .. Len(h) /\ t[k] = h[k]
    BY <1>4, <2>1, <2>2 DEF Lined
  <2>3. CASE t[k] = f
    BY <2>1, <2>3
  <2> QED BY <1>3, <2>2, <2>3
<1>5. ASSUME NEW k \in 1 .. Len(t) PROVE t[k] <= n /\ \A j \in 1 .. Len(b) : t[k] < b[j]
  <2>1. CASE k \in 1 .. Len(h) /\ t[k] = h[k]
    <3>0. f \in Nat
      BY DEF Frames
    <3>1. h[k] \in Nat /\ f \in Nat /\ h[k] < f
      BY <2>1, <3>0, FramesFacts
    <3>2. h[k] <= n
      BY <3>1
    <3>3. \A j \in 1 .. Len(b) : h[k] < b[j]
      BY <2>1 DEF Lined
    <3> QED BY <2>1, <3>2, <3>3
  <2>2. CASE t[k] = f
    BY <2>2
  <2> QED BY <1>3, <2>1, <2>2
<1>6. Lined(t, 0, b, n, n)
  BY <1>4, <1>5 DEF Lined
<1> QED BY <1>1, <1>6

\* What a connection that is closed heard, the item, or the buffer, is gone.
LEMMA LinedLess ==
    ASSUME NEW h, NEW i, NEW b, NEW n, NEW m, Lined(h, i, b, n, m)
    PROVE Lined(h, 0, b, n, m) /\ Lined(h, i, <<>>, n, m) /\ Lined(<<>>, i, b, n, m)
BY DEF Lined

LEMMA AccountFacts ==
    ASSUME NEW a \in Accounts
    PROVE /\ a.received \in Nat /\ a.sent \in Nat /\ a.dropped \in Nat /\ a.cut \in Nat
          /\ a.base \in 0 .. MaxFrames
          /\ a.buffer \in Seq(Frames) /\ Len(a.buffer) \in Nat
BY DEF Accounts

\* The accounts d with these entries.
Entries(d, received, base, buffer, dropped, sent, cut) ==
    /\ d \in Accounts
    /\ d.received = received /\ d.base = base /\ d.buffer = buffer
    /\ d.dropped = dropped /\ d.sent = sent /\ d.cut = cut

\* One entry of the accounts changes.
LEMMA EntryChanges ==
    ASSUME NEW a \in Accounts
    PROVE /\ \A x \in Nat :
                /\ Entries([a EXCEPT !.received = x], x, a.base, a.buffer, a.dropped, a.sent, a.cut)
                /\ Entries([a EXCEPT !.dropped = x], a.received, a.base, a.buffer, x, a.sent, a.cut)
                /\ Entries([a EXCEPT !.sent = x], a.received, a.base, a.buffer, a.dropped, x, a.cut)
                /\ Entries([a EXCEPT !.cut = x], a.received, a.base, a.buffer, a.dropped, a.sent, x)
          /\ \A x \in 0 .. MaxFrames :
                Entries([a EXCEPT !.base = x], a.received, x, a.buffer, a.dropped, a.sent, a.cut)
          /\ \A b \in Seq(Frames) :
                /\ Entries([a EXCEPT !.buffer = b], a.received, a.base, b, a.dropped, a.sent, a.cut)
                /\ \A x \in Nat : Entries([a EXCEPT !.buffer = b, !.dropped = x],
                                          a.received, a.base, b, x, a.sent, a.cut)
BY DEF Entries, Accounts

LEMMA EntriesKeep ==
    ASSUME NEW d, NEW r, NEW ba, NEW b, NEW x, NEW t, NEW c, Entries(d, r, ba, b, x, t, c),
           NEW i, NEW s, NEW cs, Holding(r, b, x, t, c, i, s, cs)
    PROVE d \in Accounts /\ Kept(d, i, s, cs)
BY DEF Entries, Kept

LEMMA Numbers ==
    /\ MaxFrames \in Nat \ {0} /\ QueueSize \in Nat \ {0} /\ BufferSize \in Nat \ {0}
    /\ MaxAttempts \in Nat \ {0} /\ None \notin Connections
    /\ \A f \in Frames : f # 0 /\ f \in Nat /\ f <= MaxFrames
BY CaptureAssumption DEF Frames, None

LEMMA WorkFacts ==
    /\ AtWork(0, 0) = 0 /\ AtWork(0, 1) = 1
    /\ \A i \in {0} \cup Frames : AtWork(i, 0) \in Nat
    /\ \A f \in Frames : AtWork(f, 0) = 1
    /\ \A r \in Nat : Upto(r, 0) = r /\ Upto(r, 1) = r - 1 /\ Upto(r, 1) \in Int
    /\ \A r \in Nat : Upto(r + 1, 1) = r
BY Numbers DEF AtWork, Upto

-----------------------------------------------------------------------------
(* The sum of the accounts *)

LEMMA SumsChange ==
    ASSUME NEW r \in Nat, NEW b \in Seq(Frames), NEW d \in Nat, NEW t \in Nat, NEW c \in Nat,
           NEW e \in Nat
    PROVE /\ Sums(r, b, d, t, c, e) /\ r < MaxFrames => Sums(r + 1, b, d, t, c, e + 1)
          /\ Sums(r, b, d, t, c, e + 1) => Sums(r, b, d + 1, t, c, e)
          /\ Sums(r, b, d, t, c, e + 1) => Sums(r, b, d, t + 1, c, e)
          /\ Sums(r, b, d, t, c, e + 1) => Sums(r, b, d, t, c + 1, e)
<1>1. PICK n \in Nat, M \in Nat : n = Len(b) /\ M = MaxFrames
  BY Numbers
<1> QED BY <1>1 DEF Sums

LEMMA SumsMove ==
    ASSUME NEW r \in Nat, NEW b \in Seq(Frames), NEW d \in Nat, NEW t \in Nat, NEW c \in Nat,
           NEW e \in Nat, NEW a \in Seq(Frames), NEW f \in Nat, NEW x \in Nat,
           Sums(r, b, d, t, c, e), Len(a) + f + x = Len(b) + d + e
    PROVE Sums(r, a, f, t, c, x)
<1>1. PICK n \in Nat, m \in Nat : n = Len(b) /\ m = Len(a)
  OBVIOUS
<1>2. r = t + n + d + c + e /\ r <= MaxFrames /\ m + f + x = n + d + e
  BY <1>1 DEF Sums
<1>3. r = t + m + f + c + x
  BY <1>2
<1> QED BY <1>1, <1>2, <1>3 DEF Sums

-----------------------------------------------------------------------------
(* What all connections heard *)

LEMMA HeardFacts ==
    ASSUME NEW cs \in [Connections -> Clients], NEW c \in Connections
    PROVE cs[c].heard \in Seq(Frames) /\ Len(cs[c].heard) \in Nat
BY DEF Clients

LEMMA AllWider ==
    ASSUME NEW cs \in [Connections -> Clients], NEW i \in Nat, NEW b \in Seq(Frames), NEW n \in Nat,
           NEW m \in Int, NEW o \in Nat, NEW p \in Int, n <= o, m <= p, AllLined(cs, i, b, n, m)
    PROVE AllLined(cs, i, b, o, p)
<1> SUFFICES ASSUME NEW c \in Connections PROVE Lined(cs[c].heard, i, b, o, p)
  BY DEF AllLined
<1>1. PICK h \in Seq(Frames) : h = cs[c].heard
  BY HeardFacts
<1>2. Lined(h, i, b, n, m)
  BY <1>1 DEF AllLined
<1>3. Lined(h, i, b, o, p)
  BY <1>2, LinedWider
<1> QED BY <1>1, <1>3

LEMMA AllBuffers ==
    ASSUME NEW cs \in [Connections -> Clients], NEW i \in Nat, NEW b \in Seq(Frames), NEW n \in Nat,
           NEW m \in Int, NEW f \in Frames, AllLined(cs, i, b, n, m), m < f,
           \A k \in 1 .. Len(b) : b[k] < f, i # 0 => i < f, n <= f
    PROVE AllLined(cs, i, Newest(Append(b, f)), f, f)
<1> SUFFICES ASSUME NEW c \in Connections
             PROVE Lined(cs[c].heard, i, Newest(Append(b, f)), f, f)
  BY DEF AllLined
<1>1. PICK h \in Seq(Frames) : h = cs[c].heard
  BY HeardFacts
<1>2. Lined(h, i, b, n, m)
  BY <1>1 DEF AllLined
<1>3. Lined(h, i, Newest(Append(b, f)), f, f)
  BY <1>2, LinedBuffers
<1> QED BY <1>1, <1>3

\* Some connection is in line, so that the buffer and the item are.
LEMMA AllBounds ==
    ASSUME NEW cs, NEW i, NEW b, NEW n, NEW m, AllLined(cs, i, b, n, m)
    PROVE /\ i # 0 => i <= n
          /\ \A k \in 1 .. Len(b) : b[k] <= n
<1>1. PICK c : c \in Connections
  BY CaptureAssumption, FS_EmptySet
<1> QED BY <1>1 DEF AllLined, Lined

-----------------------------------------------------------------------------
(* The operations on the accounts *)

\* A frame is taken from the queue to be sent.
LEMMA KeptSends ==
    ASSUME NEW a \in Accounts, NEW cs \in [Connections -> Clients], Kept(a, 0, 0, cs),
           a.buffer = <<>>, a.received < MaxFrames, NEW d, d = [a EXCEPT !.received = a.received + 1]
    PROVE d \in Accounts /\ Kept(d, 0, 1, cs)
<1>n. /\ a.received \in Nat /\ a.sent \in Nat /\ a.dropped \in Nat /\ a.cut \in Nat
      /\ a.buffer \in Seq(Frames) /\ Len(a.buffer) \in Nat
  BY AccountFacts
<1>1. PICK r \in Nat : r = a.received
  BY <1>n
<1>2. r + 1 \in Nat /\ r <= r + 1 /\ r <= r /\ r \in Int /\ r < MaxFrames
  BY <1>1
<1>3. Entries(d, r + 1, a.base, a.buffer, a.dropped, a.sent, a.cut)
  BY <1>1, <1>2, EntryChanges
<1>4. Holding(r, a.buffer, a.dropped, a.sent, a.cut, 0, 0, cs)
  BY <1>1 DEF Kept
<1>5. Sums(r, a.buffer, a.dropped, a.sent, a.cut, 0)
  BY <1>4, WorkFacts DEF Holding
<1>6. Sums(r + 1, a.buffer, a.dropped, a.sent, a.cut, 0 + 1)
  BY <1>2, <1>5, <1>n, SumsChange
<1>7. AllLined(cs, 0, a.buffer, r, r)
  BY <1>4, WorkFacts DEF Holding
<1>8. AllLined(cs, 0, a.buffer, r + 1, r)
  BY <1>2, <1>7, <1>n, AllWider
<1>9. Sums(r + 1, a.buffer, a.dropped, a.sent, a.cut, AtWork(0, 1))
  BY <1>6, WorkFacts
<1>10. AllLined(cs, 0, a.buffer, r + 1, Upto(r + 1, 1))
  BY <1>8, WorkFacts
<1>11. Holding(r + 1, a.buffer, a.dropped, a.sent, a.cut, 0, 1, cs)
  BY <1>4, <1>9, <1>10 DEF Holding
<1> QED BY <1>3, <1>11, EntriesKeep

\* The frame f that a receives, or could not send, is buffered.
LEMMA KeptBuffers ==
    ASSUME NEW a \in Accounts, NEW i \in {0} \cup Frames, NEW cs \in [Connections -> Clients],
           NEW n \in Nat, NEW m \in Int, NEW f \in Frames, a.received = f, Fits(a.buffer, i),
           Sums(f, a.buffer, a.dropped, a.sent, a.cut, AtWork(i, 0) + 1),
           AllLined(cs, i, a.buffer, n, m), n <= f, m < f, i # 0 => i < f,
           \A k \in 1 .. Len(a.buffer) : a.buffer[k] < f,
           NEW d, d = Buffered(a, f)
    PROVE d \in Accounts /\ Kept(d, i, 0, cs)
<1>n. /\ a.received \in Nat /\ a.sent \in Nat /\ a.dropped \in Nat /\ a.cut \in Nat
      /\ a.buffer \in Seq(Frames) /\ Len(a.buffer) \in Nat
  BY AccountFacts
<1>0. f \in Nat /\ i \in Nat /\ f <= f /\ m <= f /\ f \in Int
  BY Numbers
<1>e. PICK e \in Nat : e = AtWork(i, 0)
  BY WorkFacts
<1>s. Sums(f, a.buffer, a.dropped, a.sent, a.cut, e + 1)
  BY <1>e
<1>u. Upto(f, 0) = f
  BY <1>0, WorkFacts
<1>1. CASE link.exhausted
  <2>1. d = [a EXCEPT !.dropped = a.dropped + 1] /\ a.dropped + 1 \in Nat
    BY <1>1, <1>n DEF Buffered
  <2>2. Entries(d, f, a.base, a.buffer, a.dropped + 1, a.sent, a.cut)
    BY <2>1, EntryChanges
  <2>3. Sums(f, a.buffer, a.dropped + 1, a.sent, a.cut, AtWork(i, 0))
    BY <1>0, <1>e, <1>s, <1>n, SumsChange
  <2>4. AllLined(cs, i, a.buffer, f, Upto(f, 0))
    BY <1>0, <1>u, <1>n, AllWider
  <2>5. Holding(f, a.buffer, a.dropped + 1, a.sent, a.cut, i, 0, cs)
    BY <2>3, <2>4 DEF Holding
  <2> QED BY <2>2, <2>5, EntriesKeep
<1>2. CASE ~link.exhausted
  <2>1. PICK all : all = Append(a.buffer, f)
    OBVIOUS
  <2>2. all \in Seq(Frames) /\ Len(all) = Len(a.buffer) + 1
    BY <2>1, <1>n, AppendFacts
  <2>3. PICK t \in Seq(Frames), k \in Nat :
            /\ t = Newest(all) /\ Len(t) <= BufferSize /\ Len(t) = Len(all) - k
            /\ \A j \in 1 .. Len(t) : j + k \in 1 .. Len(all) /\ t[j] = all[j + k]
    BY <2>2, NewestFacts
  <2>4. Len(t) \in Nat /\ Len(all) \in Nat
    BY <2>2, <2>3
  <2>x. PICK x \in Nat : x = a.dropped + Len(all) - Len(t)
    <3>1. a.dropped + Len(all) - Len(t) = a.dropped + k
      BY <2>3, <2>4, <1>n
    <3> QED BY <3>1, <1>n
  <2>5. Len(t) + x + e = Len(a.buffer) + a.dropped + (e + 1) /\ e + 1 \in Nat
    <3>1. PICK p \in Nat, q \in Nat, y \in Nat : p = Len(t) /\ q = Len(a.buffer) /\ y = a.dropped
      BY <2>4, <1>n
    <3>2. x = y + (q + 1) - p
      BY <3>1, <2>2, <2>x
    <3>3. p + x + e = q + y + (e + 1)
      BY <3>2
    <3> QED BY <3>1, <3>3
  <2>6. d = [a EXCEPT !.buffer = t, !.dropped = x]
    BY <1>2, <2>1, <2>3, <2>x DEF Buffered
  <2>7. Entries(d, f, a.base, t, x, a.sent, a.cut)
    <3>1. Entries([a EXCEPT !.buffer = t, !.dropped = x], a.received, a.base, t, x, a.sent, a.cut)
      BY EntryChanges, Zenon
    <3> QED BY <3>1, <2>6
  <2>8. Sums(f, t, x, a.sent, a.cut, e)
    BY <1>0, <1>s, <2>5, <1>n, SumsMove
  <2>9. AllLined(cs, i, t, f, f)
    BY <1>0, <2>1, <2>3, <1>n, AllBuffers
  <2>10. Fits(t, i)
    BY <2>3, <2>5, Numbers DEF Fits
  <2>11. Sums(f, t, x, a.sent, a.cut, AtWork(i, 0)) /\ AllLined(cs, i, t, f, Upto(f, 0))
    BY <1>e, <1>u, <2>8, <2>9
  <2>12. Holding(f, t, x, a.sent, a.cut, i, 0, cs)
    BY <2>10, <2>11 DEF Holding
  <2> QED BY <2>7, <2>12, EntriesKeep
<1> QED BY <1>1, <1>2

\* A frame arrives while the connection is down.
LEMMA KeptWaits ==
    ASSUME NEW a \in Accounts, NEW i \in {0} \cup Frames, NEW cs \in [Connections -> Clients],
           Kept(a, i, 0, cs), a.received < MaxFrames,
           NEW d, d = Buffered([a EXCEPT !.received = a.received + 1], a.received + 1)
    PROVE d \in Accounts /\ Kept(d, i, 0, cs)
<1>n. /\ a.received \in Nat /\ a.sent \in Nat /\ a.dropped \in Nat /\ a.cut \in Nat
      /\ a.buffer \in Seq(Frames) /\ Len(a.buffer) \in Nat /\ MaxFrames \in Nat
  BY AccountFacts, Numbers
<1>1. PICK r \in Nat, f \in Nat : r = a.received /\ f = r + 1
  BY <1>n
<1>2. f \in Frames /\ r \in Int /\ r < f /\ r <= f /\ r < MaxFrames
  BY <1>1, <1>n DEF Frames
<1>3. PICK g : g = [a EXCEPT !.received = f]
  OBVIOUS
<1>4. Entries(g, f, a.base, a.buffer, a.dropped, a.sent, a.cut)
  BY <1>1, <1>3, EntryChanges
<1>5. Holding(r, a.buffer, a.dropped, a.sent, a.cut, i, 0, cs)
  BY <1>1 DEF Kept
<1>6. PICK e \in Nat : e = AtWork(i, 0)
  BY WorkFacts
<1>7. Sums(r, a.buffer, a.dropped, a.sent, a.cut, e) /\ Fits(a.buffer, i)
  BY <1>5, <1>6 DEF Holding
<1>8. Sums(r + 1, a.buffer, a.dropped, a.sent, a.cut, e + 1)
  BY <1>2, <1>7, <1>n, SumsChange
<1>9. AllLined(cs, i, a.buffer, r, r)
  BY <1>5, WorkFacts DEF Holding
<1>10. (i # 0 => i <= r) /\ \A k \in 1 .. Len(a.buffer) : a.buffer[k] <= r
  BY <1>9, AllBounds
<1>11. i # 0 => i < f
  BY <1>1, <1>10, Numbers
<1>12. \A k \in 1 .. Len(a.buffer) : a.buffer[k] < f
  BY <1>1, <1>10, <1>n, FramesFacts
<1>13. /\ g \in Accounts /\ g.received = f /\ Fits(g.buffer, i)
       /\ Sums(f, g.buffer, g.dropped, g.sent, g.cut, AtWork(i, 0) + 1)
       /\ AllLined(cs, i, g.buffer, r, r)
       /\ \A k \in 1 .. Len(g.buffer) : g.buffer[k] < f
  BY <1>1, <1>4, <1>6, <1>7, <1>8, <1>9, <1>12 DEF Entries
<1>14. d = Buffered(g, f)
  BY <1>1, <1>3
<1> QED BY <1>2, <1>11, <1>13, <1>14, KeptBuffers

\* The frame could not be sent.
LEMMA KeptReturns ==
    ASSUME NEW a \in Accounts, NEW cs \in [Connections -> Clients], Kept(a, 0, 1, cs),
           NEW d, d = Buffered(a, a.received)
    PROVE d \in Accounts /\ Kept(d, 0, 0, cs)
<1>n. /\ a.received \in Nat /\ a.sent \in Nat /\ a.dropped \in Nat /\ a.cut \in Nat
      /\ a.buffer \in Seq(Frames) /\ Len(a.buffer) \in Nat /\ MaxFrames \in Nat
  BY AccountFacts, Numbers
<1>1. PICK f \in Nat : f = a.received
  BY <1>n
<1>2. Holding(f, a.buffer, a.dropped, a.sent, a.cut, 0, 1, cs)
  BY <1>1 DEF Kept
<1>3. a.buffer = <<>> /\ Fits(a.buffer, 0) /\ Sums(f, a.buffer, a.dropped, a.sent, a.cut, AtWork(0, 1))
  BY <1>2 DEF Holding
<1>4. AtWork(0, 1) = AtWork(0, 0) + 1 /\ AtWork(0, 0) = 0
  BY WorkFacts
<1>5. Sums(f, a.buffer, a.dropped, a.sent, a.cut, AtWork(0, 0) + 1)
  BY <1>3, <1>4
<1>6. f >= 1 /\ f <= MaxFrames
  BY <1>3, <1>4, <1>5, <1>n DEF Sums
<1>7. f \in Frames /\ f - 1 \in Int /\ f - 1 < f /\ f <= f
  BY <1>6, <1>n DEF Frames
<1>8. AllLined(cs, 0, a.buffer, f, f - 1)
  BY <1>2, WorkFacts DEF Holding
<1>9. Len(a.buffer) = 0
  BY <1>3
<1>10. \A k \in 1 .. Len(a.buffer) : a.buffer[k] < f
  BY <1>9
<1> QED BY <1>1, <1>3, <1>5, <1>7, <1>8, <1>10, KeptBuffers

\* A connection hears a frame.
Hears(cs, c, f, ds) ==
    /\ ds \in [Connections -> Clients]
    /\ \A x \in Connections : ds[x].state = cs[x].state
    /\ \A x \in Connections : x # c => ds[x].heard = cs[x].heard
    /\ ds[c].heard = Append(cs[c].heard, f)

LEMMA ConnectionHears ==
    ASSUME NEW cs \in [Connections -> Clients], NEW c \in Connections, NEW f \in Frames,
           NEW ds, ds = [cs EXCEPT ![c].heard = Append(@, f)]
    PROVE Hears(cs, c, f, ds)
<1>1. PICK r : r = [cs[c] EXCEPT !.heard = Append(@, f)]
  OBVIOUS
<1>2. cs[c] \in Clients /\ cs[c].heard \in Seq(Frames) /\ Append(cs[c].heard, f) \in Seq(Frames)
  BY HeardFacts
<1>3. r \in Clients /\ r.state = cs[c].state /\ r.heard = Append(cs[c].heard, f)
  BY <1>1, <1>2 DEF Clients
<1>4. ds = [cs EXCEPT ![c] = r]
  BY <1>1
<1> QED BY <1>3, <1>4 DEF Hears

\* The frame f has been sent to c: it was in flight or the item i.
LEMMA AllHears ==
    ASSUME NEW cs \in [Connections -> Clients], NEW c \in Connections, NEW f \in Frames,
           NEW i \in Nat, NEW b \in Seq(Frames), NEW n \in Nat, NEW m \in Int, m <= n,
           AllLined(cs, i, b, n, m), f <= n,
           (i # 0 /\ f = i) \/ (m < f /\ b = <<>>),
           NEW ds, ds = [cs EXCEPT ![c].heard = Append(@, f)]
    PROVE AllLined(ds, 0, b, n, n)
<1>h. Hears(cs, c, f, ds)
  BY ConnectionHears
<1>1. ASSUME NEW x \in Connections PROVE Lined(ds[x].heard, 0, b, n, n)
  <2>1. PICK h \in Seq(Frames) : h = cs[x].heard
    BY HeardFacts
  <2>2. Lined(h, i, b, n, m)
    BY <2>1 DEF AllLined
  <2>3. CASE x = c
    <3>1. \A j \in 1 .. Len(h) : h[j] < f
      <4>1. \A j \in 1 .. Len(h) : h[j] \in Frames /\ h[j] <= m /\ (i # 0 => h[j] < i)
        BY <2>2 DEF Lined
      <4>2. \A j \in 1 .. Len(h) : h[j] \in Nat
        BY <4>1, FramesFacts
      <4>3. f \in Nat /\ \A g \in Nat : (g < f \/ (m < f /\ g <= m)) => g < f
        BY Numbers
      <4>4. (i # 0 /\ f = i) \/ m < f
        OBVIOUS
      <4> QED BY <4>1, <4>2, <4>3, <4>4
    <3>2. \A k \in 1 .. Len(b) : f < b[k]
      <4>1. CASE i # 0 /\ f = i
        BY <4>1, <2>2 DEF Lined
      <4>2. CASE b = <<>>
        <5>1. Len(b) = 0
          BY <4>2
        <5> QED BY <5>1
      <4> QED BY <4>1, <4>2
    <3>3. Lined(Append(h, f), 0, b, n, n)
      BY <2>2, <3>1, <3>2, LinedHears
    <3>4. ds[x].heard = Append(h, f)
      BY <2>1, <2>3, <1>h DEF Hears
    <3> QED BY <3>3, <3>4
  <2>4. CASE x # c
    <3>1. ds[x].heard = h
      BY <2>1, <2>4, <1>h DEF Hears
    <3>2. Lined(h, 0, b, n, m)
      BY <2>2, LinedLess
    <3>3. n \in Int /\ n <= n /\ 0 \in Nat
      OBVIOUS
    <3>4. Lined(h, 0, b, n, n)
      BY <3>2, <3>3, LinedWider
    <3> QED BY <3>1, <3>4
  <2> QED BY <2>3, <2>4
<1> QED BY <1>1 DEF AllLined

\* The frame in flight, or the item, has been sent to c.
LEMMA KeptHears ==
    ASSUME NEW a \in Accounts, NEW i \in {0} \cup Frames, NEW cs \in [Connections -> Clients],
           NEW s \in {0, 1}, Kept(a, i, s, cs), NEW c \in Connections, NEW f \in Frames,
           (s = 1 /\ f = a.received) \/ (s = 0 /\ i # 0 /\ f = i),
           NEW d, d = [a EXCEPT !.sent = a.sent + 1],
           NEW ds, ds = [cs EXCEPT ![c].heard = Append(@, f)]
    PROVE d \in Accounts /\ Kept(d, 0, 0, ds)
<1>n. /\ a.received \in Nat /\ a.sent \in Nat /\ a.dropped \in Nat /\ a.cut \in Nat
      /\ a.buffer \in Seq(Frames) /\ Len(a.buffer) \in Nat /\ MaxFrames \in Nat /\ i \in Nat
  BY AccountFacts, Numbers
<1>1. PICK r \in Nat : r = a.received
  BY <1>n
<1>2. Holding(r, a.buffer, a.dropped, a.sent, a.cut, i, s, cs)
  BY <1>1 DEF Kept
<1>3. /\ Fits(a.buffer, i) /\ Sums(r, a.buffer, a.dropped, a.sent, a.cut, AtWork(i, s))
      /\ s = 1 => a.buffer = <<>> /\ i = 0
      /\ AllLined(cs, i, a.buffer, r, Upto(r, s))
  BY <1>2 DEF Holding
<1>4. AtWork(i, s) = 0 + 1
  <2>1. CASE s = 1
    BY <1>3, <2>1, WorkFacts
  <2>2. CASE s = 0 /\ i # 0
    BY <2>2, WorkFacts
  <2> QED BY <2>1, <2>2
<1>5. Sums(r, a.buffer, a.dropped, a.sent, a.cut, 0 + 1)
  BY <1>3, <1>4
<1>6. Sums(r, a.buffer, a.dropped, a.sent + 1, a.cut, 0)
  BY <1>5, <1>n, SumsChange
<1>7. Entries(d, r, a.base, a.buffer, a.dropped, a.sent + 1, a.cut)
  <2>1. a.sent + 1 \in Nat
    BY <1>n
  <2>2. Entries([a EXCEPT !.sent = a.sent + 1], a.received, a.base, a.buffer, a.dropped, a.sent + 1, a.cut)
    BY <2>1, EntryChanges, Zenon
  <2> QED BY <2>2, <1>1
<1>8. PICK m \in Int : m = Upto(r, s) /\ m <= r /\ (s = 1 => m < r)
  BY DEF Upto
<1>9. AllLined(cs, i, a.buffer, r, m)
  BY <1>3, <1>8
<1>10. f <= r
  <2>1. i # 0 => i <= r
    BY <1>9, AllBounds
  <2> QED BY <1>1, <2>1
<1>11. (i # 0 /\ f = i) \/ (m < f /\ a.buffer = <<>>)
  BY <1>1, <1>3, <1>8
<1>12. AllLined(ds, 0, a.buffer, r, r)
  BY <1>8, <1>9, <1>10, <1>11, <1>n, AllHears
<1>13. Fits(a.buffer, 0)
  BY <1>3 DEF Fits
<1>14. /\ Sums(r, a.buffer, a.dropped, a.sent + 1, a.cut, AtWork(0, 0))
       /\ AllLined(ds, 0, a.buffer, r, Upto(r, 0))
  BY <1>6, <1>12, WorkFacts
<1>15. Holding(r, a.buffer, a.dropped, a.sent + 1, a.cut, 0, 0, ds)
  BY <1>13, <1>14 DEF Holding
<1> QED BY <1>7, <1>15, EntriesKeep

\* The head of the buffer becomes the item.
LEMMA KeptTaken ==
    ASSUME NEW a \in Accounts, NEW cs \in [Connections -> Clients], NEW s \in {0, 1},
           Kept(a, 0, s, cs), a.buffer # <<>>, NEW d, d = [a EXCEPT !.buffer = Tail(a.buffer)]
    PROVE /\ d \in Accounts /\ Kept(d, Head(a.buffer), 0, cs) /\ s = 0
          /\ Head(a.buffer) \in Frames
<1>n. /\ a.received \in Nat /\ a.sent \in Nat /\ a.dropped \in Nat /\ a.cut \in Nat
      /\ a.buffer \in Seq(Frames) /\ Len(a.buffer) \in Nat /\ MaxFrames \in Nat
      /\ BufferSize \in Nat
  BY AccountFacts, Numbers
<1>1. PICK r \in Nat : r = a.received
  BY <1>n
<1>2. Holding(r, a.buffer, a.dropped, a.sent, a.cut, 0, s, cs)
  BY <1>1 DEF Kept
<1>3. /\ Fits(a.buffer, 0) /\ Sums(r, a.buffer, a.dropped, a.sent, a.cut, AtWork(0, s))
      /\ s = 0
      /\ AllLined(cs, 0, a.buffer, r, Upto(r, s))
  BY <1>2 DEF Holding
<1>4. PICK t : t = Tail(a.buffer)
  OBVIOUS
<1>5. t \in Seq(Frames) /\ Len(t) = Len(a.buffer) - 1 /\ Head(a.buffer) \in Frames
  BY <1>4, <1>n, TailFacts
<1>6. Len(t) \in Nat /\ Len(t) + a.dropped + 1 = Len(a.buffer) + a.dropped + 0
  BY <1>5, <1>n
<1>7. Sums(r, a.buffer, a.dropped, a.sent, a.cut, 0) /\ AllLined(cs, 0, a.buffer, r, Upto(r, 0))
  BY <1>3, WorkFacts
<1>8. Sums(r, t, a.dropped, a.sent, a.cut, 1)
  BY <1>5, <1>6, <1>7, <1>n, SumsMove
<1>9. AllLined(cs, Head(a.buffer), t, r, Upto(r, 0))
  BY <1>4, <1>7, <1>n, LinedTakes DEF AllLined
<1>10. Fits(t, Head(a.buffer))
  BY <1>3, <1>5, <1>6, <1>n DEF Fits
<1>11. Sums(r, t, a.dropped, a.sent, a.cut, AtWork(Head(a.buffer), 0))
  BY <1>5, <1>8, WorkFacts
<1>12. Holding(r, t, a.dropped, a.sent, a.cut, Head(a.buffer), 0, cs)
  BY <1>9, <1>10, <1>11 DEF Holding
<1>13. Entries(d, r, a.base, t, a.dropped, a.sent, a.cut)
  <2>1. Entries([a EXCEPT !.buffer = t], a.received, a.base, t, a.dropped, a.sent, a.cut)
    BY <1>5, EntryChanges, Zenon
  <2> QED BY <2>1, <1>1, <1>4
<1>14. d \in Accounts /\ Kept(d, Head(a.buffer), 0, cs)
  BY <1>12, <1>13, EntriesKeep
<1> QED BY <1>3, <1>5, <1>14

\* The item goes back to the front of the buffer.
LEMMA KeptBack ==
    ASSUME NEW a \in Accounts, NEW cs \in [Connections -> Clients], NEW i \in Frames,
           NEW s \in {0, 1}, Kept(a, i, s, cs), NEW d, d = [a EXCEPT !.buffer = <<i>> \o a.buffer]
    PROVE d \in Accounts /\ Kept(d, 0, 0, cs) /\ s = 0
<1>n. /\ a.received \in Nat /\ a.sent \in Nat /\ a.dropped \in Nat /\ a.cut \in Nat
      /\ a.buffer \in Seq(Frames) /\ Len(a.buffer) \in Nat /\ MaxFrames \in Nat
      /\ BufferSize \in Nat /\ i # 0
  BY AccountFacts, Numbers
<1>1. PICK r \in Nat : r = a.received
  BY <1>n
<1>2. Holding(r, a.buffer, a.dropped, a.sent, a.cut, i, s, cs)
  BY <1>1 DEF Kept
<1>3. /\ Fits(a.buffer, i) /\ Sums(r, a.buffer, a.dropped, a.sent, a.cut, AtWork(i, s))
      /\ s = 0
      /\ AllLined(cs, i, a.buffer, r, Upto(r, s))
  BY <1>2, <1>n DEF Holding
<1>4. PICK t : t = <<i>> \o a.buffer
  OBVIOUS
<1>5. t \in Seq(Frames) /\ Len(t) = Len(a.buffer) + 1
  BY <1>4, <1>n, PushFacts
<1>6. Len(t) \in Nat /\ Len(t) + a.dropped + 0 = Len(a.buffer) + a.dropped + 1
  BY <1>5, <1>n
<1>7. Sums(r, a.buffer, a.dropped, a.sent, a.cut, 1) /\ AllLined(cs, i, a.buffer, r, Upto(r, 0))
  BY <1>3, WorkFacts
<1>8. Sums(r, t, a.dropped, a.sent, a.cut, 0)
  BY <1>5, <1>6, <1>7, <1>n, SumsMove
<1>9. AllLined(cs, 0, t, r, Upto(r, 0))
  BY <1>4, <1>7, <1>n, LinedBack DEF AllLined
<1>10. Fits(t, 0)
  BY <1>3, <1>5, <1>6, <1>n DEF Fits
<1>11. Sums(r, t, a.dropped, a.sent, a.cut, AtWork(0, 0))
  BY <1>8, WorkFacts
<1>12. Holding(r, t, a.dropped, a.sent, a.cut, 0, 0, cs)
  BY <1>9, <1>10, <1>11 DEF Holding
<1>13. Entries(d, r, a.base, t, a.dropped, a.sent, a.cut)
  <2>1. Entries([a EXCEPT !.buffer = t], a.received, a.base, t, a.dropped, a.sent, a.cut)
    BY <1>5, EntryChanges, Zenon
  <2> QED BY <2>1, <1>1, <1>4
<1>14. d \in Accounts /\ Kept(d, 0, 0, cs)
  BY <1>12, <1>13, EntriesKeep
<1> QED BY <1>3, <1>14

\* A cancellation cuts the send of the item.
LEMMA KeptCut ==
    ASSUME NEW a \in Accounts, NEW cs \in [Connections -> Clients], NEW i \in Frames,
           NEW s \in {0, 1}, Kept(a, i, s, cs), NEW d, d = [a EXCEPT !.cut = a.cut + 1]
    PROVE d \in Accounts /\ Kept(d, 0, 0, cs) /\ s = 0
<1>n. /\ a.received \in Nat /\ a.sent \in Nat /\ a.dropped \in Nat /\ a.cut \in Nat
      /\ a.buffer \in Seq(Frames) /\ i # 0
  BY AccountFacts, Numbers
<1>1. PICK r \in Nat : r = a.received
  BY <1>n
<1>2. Holding(r, a.buffer, a.dropped, a.sent, a.cut, i, s, cs)
  BY <1>1 DEF Kept
<1>3. /\ Fits(a.buffer, i) /\ Sums(r, a.buffer, a.dropped, a.sent, a.cut, AtWork(i, s))
      /\ s = 0
      /\ AllLined(cs, i, a.buffer, r, Upto(r, s))
  BY <1>2, <1>n DEF Holding
<1>4. AtWork(i, s) = 0 + 1
  BY <1>3, WorkFacts
<1>5. Sums(r, a.buffer, a.dropped, a.sent, a.cut, 0 + 1)
  BY <1>3, <1>4
<1>6. Sums(r, a.buffer, a.dropped, a.sent, a.cut + 1, 0)
  BY <1>5, <1>n, SumsChange
<1>7. Sums(r, a.buffer, a.dropped, a.sent, a.cut + 1, AtWork(0, 0))
  BY <1>6, WorkFacts
<1>8. AllLined(cs, 0, a.buffer, r, Upto(r, 0))
  BY <1>3, LinedLess DEF AllLined
<1>9. Fits(a.buffer, 0)
  BY <1>3 DEF Fits
<1>10. Holding(r, a.buffer, a.dropped, a.sent, a.cut + 1, 0, 0, cs)
  BY <1>7, <1>8, <1>9 DEF Holding
<1>11. Entries(d, r, a.base, a.buffer, a.dropped, a.sent, a.cut + 1)
  <2>1. a.cut + 1 \in Nat
    BY <1>n
  <2>2. Entries([a EXCEPT !.cut = a.cut + 1], a.received, a.base, a.buffer, a.dropped, a.sent, a.cut + 1)
    BY <2>1, EntryChanges, Zenon
  <2> QED BY <2>2, <1>1
<1>12. d \in Accounts /\ Kept(d, 0, 0, cs)
  BY <1>10, <1>11, EntriesKeep
<1> QED BY <1>3, <1>12

\* The buffer is discarded.
LEMMA KeptDiscarded ==
    ASSUME NEW a \in Accounts, NEW cs \in [Connections -> Clients], NEW s \in {0, 1},
           Kept(a, 0, s, cs), NEW d, d = Discarded(a)
    PROVE d \in Accounts /\ Kept(d, 0, s, cs) /\ d.buffer = <<>> /\ d.received = a.received
<1>n. /\ a.received \in Nat /\ a.sent \in Nat /\ a.dropped \in Nat /\ a.cut \in Nat
      /\ a.buffer \in Seq(Frames) /\ Len(a.buffer) \in Nat /\ BufferSize \in Nat
  BY AccountFacts, Numbers
<1>1. PICK r \in Nat, x \in Nat : r = a.received /\ x = a.dropped + Len(a.buffer)
  BY <1>n
<1>2. Holding(r, a.buffer, a.dropped, a.sent, a.cut, 0, s, cs)
  BY <1>1 DEF Kept
<1>3. /\ Sums(r, a.buffer, a.dropped, a.sent, a.cut, AtWork(0, s))
      /\ AllLined(cs, 0, a.buffer, r, Upto(r, s))
  BY <1>2 DEF Holding
<1>e. PICK e \in Nat : e = AtWork(0, s)
  BY WorkFacts
<1>4. <<>> \in Seq(Frames) /\ Len(<<>>) = 0
  OBVIOUS
<1>5. Len(<<>>) + x + e = Len(a.buffer) + a.dropped + e
  BY <1>1, <1>4, <1>n
<1>6. Sums(r, <<>>, x, a.sent, a.cut, e)
  BY <1>3, <1>e, <1>4, <1>5, <1>n, SumsMove
<1>7. AllLined(cs, 0, <<>>, r, Upto(r, s))
  BY <1>3, LinedLess DEF AllLined
<1>8. Fits(<<>>, 0)
  BY <1>4, <1>n DEF Fits
<1>9. Holding(r, <<>>, x, a.sent, a.cut, 0, s, cs)
  BY <1>6, <1>e, <1>7, <1>8 DEF Holding
<1>10. d = [a EXCEPT !.buffer = <<>>, !.dropped = x]
  BY <1>1 DEF Discarded
<1>11. Entries(d, r, a.base, <<>>, x, a.sent, a.cut)
  <2>1. Entries([a EXCEPT !.buffer = <<>>, !.dropped = x], a.received, a.base, <<>>, x, a.sent, a.cut)
    BY <1>4, EntryChanges, Zenon
  <2> QED BY <2>1, <1>1, <1>10
<1>12. d \in Accounts /\ Kept(d, 0, s, cs)
  BY <1>9, <1>11, EntriesKeep
<1> QED BY <1>1, <1>11, <1>12 DEF Entries

\* A new connection begins, or resumes, at some offset.
LEMMA KeptBased ==
    ASSUME NEW a \in Accounts, NEW cs \in [Connections -> Clients], NEW i, NEW s, Kept(a, i, s, cs),
           NEW x \in 0 .. MaxFrames, NEW d, d = [a EXCEPT !.base = x]
    PROVE d \in Accounts /\ Kept(d, i, s, cs) /\ d.buffer = a.buffer /\ d.received = a.received
<1>1. Entries(d, a.received, x, a.buffer, a.dropped, a.sent, a.cut)
  BY EntryChanges
<1>2. Holding(a.received, a.buffer, a.dropped, a.sent, a.cut, i, s, cs)
  BY DEF Kept
<1> QED BY <1>1, <1>2, EntriesKeep DEF Entries

LEMMA KeptRebased ==
    ASSUME NEW a \in Accounts, NEW cs \in [Connections -> Clients], NEW i, NEW s, Kept(a, i, s, cs),
           NEW d, d = Rebased(a)
    PROVE d \in Accounts /\ Kept(d, i, s, cs) /\ d.buffer = a.buffer /\ d.received = a.received
<1>n. /\ a.received \in Nat /\ a.sent \in Nat /\ a.dropped \in Nat /\ a.cut \in Nat
      /\ a.buffer \in Seq(Frames) /\ Len(a.buffer) \in Nat /\ MaxFrames \in Nat
  BY AccountFacts, Numbers
<1>1. PICK x : x = IF a.buffer = <<>> THEN a.received ELSE Head(a.buffer) - 1
  OBVIOUS
<1>2. a.received <= MaxFrames
  BY DEF Kept, Holding, Sums
<1>3. x \in 0 .. MaxFrames
  <2>1. CASE a.buffer = <<>>
    BY <1>1, <1>2, <1>n, <2>1
  <2>2. CASE a.buffer # <<>>
    <3>1. Head(a.buffer) \in Frames
      BY <1>n, <2>2, TailFacts
    <3> QED BY <1>1, <1>n, <2>2, <3>1 DEF Frames
  <2> QED BY <2>1, <2>2
<1>4. d = [a EXCEPT !.base = x]
  BY <1>1 DEF Rebased
<1> QED BY <1>3, <1>4, KeptBased

\* Connections are closed or opened: what they heard is gone.
LEMMA KeptConns ==
    ASSUME NEW a \in Accounts, NEW cs \in [Connections -> Clients], NEW i, NEW s, Kept(a, i, s, cs),
           NEW ds, \A c \in Connections : ds[c].heard = cs[c].heard \/ ds[c].heard = <<>>
    PROVE Kept(a, i, s, ds)
<1>1. PICK r, b : r = a.received /\ b = a.buffer
  OBVIOUS
<1>2. Holding(r, b, a.dropped, a.sent, a.cut, i, s, cs)
  BY <1>1 DEF Kept
<1>3. ASSUME NEW c \in Connections PROVE Lined(ds[c].heard, i, b, r, Upto(r, s))
  <2>1. Lined(cs[c].heard, i, b, r, Upto(r, s))
    BY <1>2 DEF Holding, AllLined
  <2>2. Lined(<<>>, i, b, r, Upto(r, s))
    BY <2>1, LinedLess
  <2> QED BY <2>1, <2>2
<1>4. Holding(r, b, a.dropped, a.sent, a.cut, i, s, ds)
  BY <1>2, <1>3 DEF Holding, AllLined
<1> QED BY <1>1, <1>4 DEF Kept

\* A session begins.
LEMMA KeptReset ==
    ASSUME NEW cs, \A c \in Connections : cs[c].heard = <<>>
    PROVE NoAudio \in Accounts /\ Kept(NoAudio, 0, 0, cs)
<1>1. <<>> \in Seq(Frames) /\ Len(<<>>) = 0 /\ MaxFrames \in Nat /\ BufferSize \in Nat
  BY Numbers
<1>2. Entries(NoAudio, 0, 0, <<>>, 0, 0, 0)
  BY <1>1 DEF Entries, Accounts, NoAudio
<1>3. Lined(<<>>, 0, <<>>, 0, 0)
  BY <1>1 DEF Lined
<1>4. AllLined(cs, 0, <<>>, 0, Upto(0, 0))
  BY <1>3, WorkFacts DEF AllLined
<1>5. Sums(0, <<>>, 0, 0, 0, AtWork(0, 0))
  BY <1>1, WorkFacts DEF Sums
<1>6. Holding(0, <<>>, 0, 0, 0, 0, 0, cs)
  BY <1>1, <1>4, <1>5 DEF Holding, Fits
<1> QED BY <1>2, <1>6, EntriesKeep

-----------------------------------------------------------------------------
(* The steps of the control operation alone *)

\* What such a step keeps: it may only tell the rest that it is over.
LEMMA Controls ==
    ASSUME Wired, Sound, UNCHANGED <<queue, processor, audio, stream>>,
           Mute' => Live = {}, Calling' => deepgram # None,
           recovery.at # "none" =>
               status' = "listening" \/ (recovery.cancelled /\ control'.at = "cancelling"),
           processor.at = "sending" => status' = "listening",
           status' # "listening" /\ control'.at # "cancelling" => audio.buffer = <<>>
    PROVE Wired' /\ Sound'
<1>1. Live' = Live /\ InFlight' = InFlight
  BY DEF Live, InFlight, stream
<1>2. Wired'
  BY <1>1 DEF Wired, stream
<1>3. Kept(audio, recovery.item, InFlight, conns)'
  BY <1>1 DEF Sound, stream
<1>4. Sound'
  BY <1>3 DEF Sound, stream
<1> QED BY <1>2, <1>4

LEMMA StopKeeps ==
    ASSUME IInv, Stop
    PROVE IInv'
<1>1. Typed'
  BY DEF IInv, Typed, Operations, Awaits, Stop, Goes, At, Idle, Stopping, stream
<1>2. Life'
  BY DEF IInv, Typed, Operations, Awaits, Life, Ends, Stop, Goes, At, Idle, Stopping, stream
<1>3. Wired' /\ Sound'
  <2>1. Mute' => Live = {}
    BY DEF IInv, Typed, Operations, Awaits, Life, Mute, Wired, Ends, Stop, Goes, At, Idle, Stopping, stream
  <2>c. Calling' => deepgram # None
    BY DEF IInv, Typed, Operations, Awaits, Life, Calling, Wired, Ends, Stop, Goes, At, Idle, Stopping, stream
  <2>2. recovery.at # "none" =>
            status' = "listening" \/ (recovery.cancelled /\ control'.at = "cancelling")
    BY DEF IInv, Typed, Operations, Awaits, Life, Wired, Ends, Stop, Goes, At, Idle, Stopping, stream
  <2>3. processor.at = "sending" => status' = "listening"
    BY DEF IInv, Typed, Operations, Awaits, Life, Sound, Ends, Stop, Goes, At, Idle, Stopping, stream
  <2>4. status' # "listening" /\ control'.at # "cancelling" => audio.buffer = <<>>
    BY DEF IInv, Typed, Operations, Awaits, Life, Sound, Ends, Stop, Goes, At, Idle, Stopping, stream
  <2> QED BY <2>1, <2>c, <2>2, <2>3, <2>4, Controls DEF IInv, Stop
<1> QED BY <1>1, <1>2, <1>3 DEF IInv

LEMMA PauseKeeps ==
    ASSUME IInv, Pause
    PROVE IInv'
<1>1. Typed'
  BY DEF IInv, Typed, Operations, Awaits, Pause, Goes, At, Idle, Stopping, stream
<1>2. Life'
  BY DEF IInv, Typed, Operations, Awaits, Life, Ends, Pause, Goes, At, Idle, Stopping, stream
<1>3. Wired' /\ Sound'
  <2>1. Mute' => Live = {}
    BY DEF IInv, Typed, Operations, Awaits, Life, Mute, Wired, Ends, Pause, Goes, At, Idle, Stopping, stream
  <2>c. Calling' => deepgram # None
    BY DEF IInv, Typed, Operations, Awaits, Life, Calling, Wired, Ends, Pause, Goes, At, Idle, Stopping, stream
  <2>2. recovery.at # "none" =>
            status' = "listening" \/ (recovery.cancelled /\ control'.at = "cancelling")
    BY DEF IInv, Typed, Operations, Awaits, Life, Wired, Ends, Pause, Goes, At, Idle, Stopping, stream
  <2>3. processor.at = "sending" => status' = "listening"
    BY DEF IInv, Typed, Operations, Awaits, Life, Sound, Ends, Pause, Goes, At, Idle, Stopping, stream
  <2>4. status' # "listening" /\ control'.at # "cancelling" => audio.buffer = <<>>
    BY DEF IInv, Typed, Operations, Awaits, Life, Sound, Ends, Pause, Goes, At, Idle, Stopping, stream
  <2> QED BY <2>1, <2>c, <2>2, <2>3, <2>4, Controls DEF IInv, Pause
<1> QED BY <1>1, <1>2, <1>3 DEF IInv

LEMMA PauseFailsKeeps ==
    ASSUME IInv, PauseFails
    PROVE IInv'
<1>1. Typed'
  BY DEF IInv, Typed, Operations, Awaits, PauseFails, At, Idle, Stopping, stream
<1>2. Life'
  BY DEF IInv, Typed, Operations, Awaits, Life, Ends, PauseFails, At, Idle, Stopping, stream
<1>3. Wired' /\ Sound'
  <2>1. Mute' => Live = {}
    BY DEF IInv, Typed, Operations, Awaits, Life, Mute, Wired, Ends, PauseFails, At, Idle, Stopping, stream
  <2>c. Calling' => deepgram # None
    BY DEF IInv, Typed, Operations, Awaits, Life, Calling, Wired, Ends, PauseFails, At, Idle, Stopping, stream
  <2>2. recovery.at # "none" =>
            status' = "listening" \/ (recovery.cancelled /\ control'.at = "cancelling")
    BY DEF IInv, Typed, Operations, Awaits, Life, Wired, Ends, PauseFails, At, Idle, Stopping, stream
  <2>3. processor.at = "sending" => status' = "listening"
    BY DEF IInv, Typed, Operations, Awaits, Life, Sound, Ends, PauseFails, At, Idle, Stopping, stream
  <2>4. status' # "listening" /\ control'.at # "cancelling" => audio.buffer = <<>>
    BY DEF IInv, Typed, Operations, Awaits, Life, Sound, Ends, PauseFails, At, Idle, Stopping, stream
  <2> QED BY <2>1, <2>c, <2>2, <2>3, <2>4, Controls DEF IInv, PauseFails
<1> QED BY <1>1, <1>2, <1>3 DEF IInv

LEMMA DeviceStoppedKeeps ==
    ASSUME IInv, DeviceStopped
    PROVE IInv'
<1>1. Typed'
  <2>1. /\ control.op \in Operations /\ control' = [op |-> control.op, at |-> "draining"]
        /\ device' \in {"off", "running", "paused"} /\ accept' \in BOOLEAN
    BY DEF IInv, Typed, DeviceStopped, Goes, At
  <2>2. control' \in [op : Operations, at : Awaits]
    BY <2>1 DEF Awaits
  <2>3. UNCHANGED <<status, session, queue, processor, audio, stream>>
    BY DEF DeviceStopped
  <2> QED BY <2>1, <2>2, <2>3 DEF IInv, Typed, stream
<1>2. Life'
  BY DEF IInv, Typed, Operations, Awaits, Life, Ends, DeviceStopped, Goes, At, Idle, Stopping, stream
<1>3. Wired' /\ Sound'
  <2>1. Mute' => Live = {}
    BY DEF IInv, Typed, Operations, Awaits, Life, Mute, Wired, Ends, DeviceStopped, Goes, At, Idle, Stopping, stream
  <2>c. Calling' => deepgram # None
    BY DEF IInv, Typed, Operations, Awaits, Life, Calling, Wired, Ends, DeviceStopped, Goes, At, Idle, Stopping, stream
  <2>2. recovery.at # "none" =>
            status' = "listening" \/ (recovery.cancelled /\ control'.at = "cancelling")
    BY DEF IInv, Typed, Operations, Awaits, Life, Wired, Ends, DeviceStopped, Goes, At, Idle, Stopping, stream
  <2>3. processor.at = "sending" => status' = "listening"
    BY DEF IInv, Typed, Operations, Awaits, Life, Sound, Ends, DeviceStopped, Goes, At, Idle, Stopping, stream
  <2>4. status' # "listening" /\ control'.at # "cancelling" => audio.buffer = <<>>
    BY DEF IInv, Typed, Operations, Awaits, Life, Sound, Ends, DeviceStopped, Goes, At, Idle, Stopping, stream
  <2> QED BY <2>1, <2>c, <2>2, <2>3, <2>4, Controls DEF IInv, DeviceStopped
<1> QED BY <1>1, <1>2, <1>3 DEF IInv

LEMMA FinishedKeeps ==
    ASSUME IInv, Finished
    PROVE IInv'
<1>1. Typed'
  <2>1. control' \in {At("start", "listing"), At("ending", "cancelling"), Idle}
    BY DEF Finished
  <2>2. control' \in [op : Operations, at : Awaits]
    BY <2>1 DEF Operations, Awaits, At, Idle
  <2>3. accept' \in BOOLEAN /\ session' \in BOOLEAN
    BY DEF IInv, Typed, Finished
  <2>4. UNCHANGED <<status, device, queue, processor, audio, stream>>
    BY DEF Finished
  <2> QED BY <2>2, <2>3, <2>4 DEF IInv, Typed, stream
<1>2. Life'
  BY DEF IInv, Typed, Operations, Awaits, Life, Ends, Finished, At, Idle, Stopping, stream
<1>3. Wired' /\ Sound'
  <2>1. Mute' => Live = {}
    BY DEF IInv, Typed, Operations, Awaits, Life, Mute, Wired, Ends, Finished, At, Idle, Stopping, stream
  <2>c. Calling' => deepgram # None
    BY DEF IInv, Typed, Operations, Awaits, Life, Calling, Wired, Ends, Finished, At, Idle, Stopping, stream
  <2>2. recovery.at # "none" =>
            status' = "listening" \/ (recovery.cancelled /\ control'.at = "cancelling")
    BY DEF IInv, Typed, Operations, Awaits, Life, Wired, Ends, Finished, At, Idle, Stopping, stream
  <2>3. processor.at = "sending" => status' = "listening"
    BY DEF IInv, Typed, Operations, Awaits, Life, Sound, Ends, Finished, At, Idle, Stopping, stream
  <2>4. status' # "listening" /\ control'.at # "cancelling" => audio.buffer = <<>>
    BY DEF IInv, Typed, Operations, Awaits, Life, Sound, Ends, Finished, At, Idle, Stopping, stream
  <2> QED BY <2>1, <2>c, <2>2, <2>3, <2>4, Controls DEF IInv, Finished
<1> QED BY <1>1, <1>2, <1>3 DEF IInv

LEMMA StartKeeps ==
    ASSUME IInv, Start
    PROVE IInv'
<1>1. Typed'
  BY DEF IInv, Typed, Operations, Awaits, Start, At, Idle, Stopping, stream
<1>2. Life'
  BY DEF IInv, Typed, Operations, Awaits, Life, Ends, Start, At, Idle, Stopping, stream
<1>3. Wired' /\ Sound'
  <2>1. Mute' => Live = {}
    BY DEF IInv, Typed, Operations, Awaits, Life, Mute, Wired, Ends, Start, At, Idle, Stopping, stream
  <2>c. Calling' => deepgram # None
    BY DEF IInv, Typed, Operations, Awaits, Life, Calling, Wired, Ends, Start, At, Idle, Stopping, stream
  <2>2. recovery.at # "none" =>
            status' = "listening" \/ (recovery.cancelled /\ control'.at = "cancelling")
    BY DEF IInv, Typed, Operations, Awaits, Life, Wired, Ends, Start, At, Idle, Stopping, stream
  <2>3. processor.at = "sending" => status' = "listening"
    BY DEF IInv, Typed, Operations, Awaits, Life, Sound, Ends, Start, At, Idle, Stopping, stream
  <2>4. status' # "listening" /\ control'.at # "cancelling" => audio.buffer = <<>>
    BY DEF IInv, Typed, Operations, Awaits, Life, Sound, Ends, Start, At, Idle, Stopping, stream
  <2> QED BY <2>1, <2>c, <2>2, <2>3, <2>4, Controls DEF IInv, Start
<1> QED BY <1>1, <1>2, <1>3 DEF IInv

LEMMA ListFailsKeeps ==
    ASSUME IInv, ListFails
    PROVE IInv'
<1>1. Typed'
  BY DEF IInv, Typed, Operations, Awaits, ListFails, At, Idle, Stopping, stream
<1>2. Life'
  BY DEF IInv, Typed, Operations, Awaits, Life, Ends, ListFails, At, Idle, Stopping, stream
<1>3. Wired' /\ Sound'
  <2>1. Mute' => Live = {}
    BY DEF IInv, Typed, Operations, Awaits, Life, Mute, Wired, Ends, ListFails, At, Idle, Stopping, stream
  <2>c. Calling' => deepgram # None
    BY DEF IInv, Typed, Operations, Awaits, Life, Calling, Wired, Ends, ListFails, At, Idle, Stopping, stream
  <2>2. recovery.at # "none" =>
            status' = "listening" \/ (recovery.cancelled /\ control'.at = "cancelling")
    BY DEF IInv, Typed, Operations, Awaits, Life, Wired, Ends, ListFails, At, Idle, Stopping, stream
  <2>3. processor.at = "sending" => status' = "listening"
    BY DEF IInv, Typed, Operations, Awaits, Life, Sound, Ends, ListFails, At, Idle, Stopping, stream
  <2>4. status' # "listening" /\ control'.at # "cancelling" => audio.buffer = <<>>
    BY DEF IInv, Typed, Operations, Awaits, Life, Sound, Ends, ListFails, At, Idle, Stopping, stream
  <2> QED BY <2>1, <2>c, <2>2, <2>3, <2>4, Controls DEF IInv, ListFails
<1> QED BY <1>1, <1>2, <1>3 DEF IInv

LEMMA SessionStartedKeeps ==
    ASSUME IInv, SessionStarted
    PROVE IInv'
<1>1. Typed'
  BY DEF IInv, Typed, Operations, Awaits, SessionStarted, Goes, At, Idle, Stopping, stream
<1>2. Life'
  BY DEF IInv, Typed, Operations, Awaits, Life, Ends, SessionStarted, Goes, At, Idle, Stopping, stream
<1>3. Wired' /\ Sound'
  <2>1. Mute' => Live = {}
    BY DEF IInv, Typed, Operations, Awaits, Life, Mute, Wired, Ends, SessionStarted, Goes, At, Idle, Stopping, stream
  <2>c. Calling' => deepgram # None
    BY DEF IInv, Typed, Operations, Awaits, Life, Calling, Wired, Ends, SessionStarted, Goes, At, Idle, Stopping, stream
  <2>2. recovery.at # "none" =>
            status' = "listening" \/ (recovery.cancelled /\ control'.at = "cancelling")
    BY DEF IInv, Typed, Operations, Awaits, Life, Wired, Ends, SessionStarted, Goes, At, Idle, Stopping, stream
  <2>3. processor.at = "sending" => status' = "listening"
    BY DEF IInv, Typed, Operations, Awaits, Life, Sound, Ends, SessionStarted, Goes, At, Idle, Stopping, stream
  <2>4. status' # "listening" /\ control'.at # "cancelling" => audio.buffer = <<>>
    BY DEF IInv, Typed, Operations, Awaits, Life, Sound, Ends, SessionStarted, Goes, At, Idle, Stopping, stream
  <2> QED BY <2>1, <2>c, <2>2, <2>3, <2>4, Controls DEF IInv, SessionStarted
<1> QED BY <1>1, <1>2, <1>3 DEF IInv

LEMMA DeviceStartedKeeps ==
    ASSUME IInv, DeviceStarted
    PROVE IInv'
<1>1. Typed'
  BY DEF IInv, Typed, Operations, Awaits, DeviceStarted, At, Idle, Stopping, stream
<1>2. Life'
  BY DEF IInv, Typed, Operations, Awaits, Life, Ends, DeviceStarted, At, Idle, Stopping, stream
<1>3. Wired' /\ Sound'
  <2>1. Mute' => Live = {}
    BY DEF IInv, Typed, Operations, Awaits, Life, Mute, Wired, Ends, DeviceStarted, At, Idle, Stopping, stream
  <2>c. Calling' => deepgram # None
    BY DEF IInv, Typed, Operations, Awaits, Life, Calling, Wired, Ends, DeviceStarted, At, Idle, Stopping, stream
  <2>2. recovery.at # "none" =>
            status' = "listening" \/ (recovery.cancelled /\ control'.at = "cancelling")
    BY DEF IInv, Typed, Operations, Awaits, Life, Wired, Ends, DeviceStarted, At, Idle, Stopping, stream
  <2>3. processor.at = "sending" => status' = "listening"
    BY DEF IInv, Typed, Operations, Awaits, Life, Sound, Ends, DeviceStarted, At, Idle, Stopping, stream
  <2>4. status' # "listening" /\ control'.at # "cancelling" => audio.buffer = <<>>
    BY DEF IInv, Typed, Operations, Awaits, Life, Sound, Ends, DeviceStarted, At, Idle, Stopping, stream
  <2> QED BY <2>1, <2>c, <2>2, <2>3, <2>4, Controls DEF IInv, DeviceStarted
<1> QED BY <1>1, <1>2, <1>3 DEF IInv

LEMMA ResumeFailsKeeps ==
    ASSUME IInv, ResumeFails
    PROVE IInv'
<1>1. Typed'
  BY DEF IInv, Typed, Operations, Awaits, ResumeFails, Goes, At, Idle, Stopping, stream
<1>2. Life'
  BY DEF IInv, Typed, Operations, Awaits, Life, Ends, ResumeFails, Goes, At, Idle, Stopping, stream
<1>3. Wired' /\ Sound'
  <2>1. Mute' => Live = {}
    BY DEF IInv, Typed, Operations, Awaits, Life, Mute, Wired, Ends, ResumeFails, Goes, At, Idle, Stopping, stream
  <2>c. Calling' => deepgram # None
    BY DEF IInv, Typed, Operations, Awaits, Life, Calling, Wired, Ends, ResumeFails, Goes, At, Idle, Stopping, stream
  <2>2. recovery.at # "none" =>
            status' = "listening" \/ (recovery.cancelled /\ control'.at = "cancelling")
    BY DEF IInv, Typed, Operations, Awaits, Life, Wired, Ends, ResumeFails, Goes, At, Idle, Stopping, stream
  <2>3. processor.at = "sending" => status' = "listening"
    BY DEF IInv, Typed, Operations, Awaits, Life, Sound, Ends, ResumeFails, Goes, At, Idle, Stopping, stream
  <2>4. status' # "listening" /\ control'.at # "cancelling" => audio.buffer = <<>>
    BY DEF IInv, Typed, Operations, Awaits, Life, Sound, Ends, ResumeFails, Goes, At, Idle, Stopping, stream
  <2> QED BY <2>1, <2>c, <2>2, <2>3, <2>4, Controls DEF IInv, ResumeFails
<1> QED BY <1>1, <1>2, <1>3 DEF IInv

-----------------------------------------------------------------------------
(* The other steps of the control operation *)

LEMMA Triples ==
    ASSUME NEW x, NEW y, NEW z
    PROVE IsFiniteSet({x, y, z}) /\ Cardinality({x, y, z}) <= 3
<1>1. IsFiniteSet({x}) /\ Cardinality({x}) = 1
  BY FS_Singleton
<1>2. /\ IsFiniteSet({x} \cup {y}) /\ Cardinality({x} \cup {y}) \in Nat
      /\ Cardinality({x} \cup {y}) <= 2
  <2>1. /\ IsFiniteSet({x} \cup {y})
        /\ Cardinality({x} \cup {y}) = Cardinality({x}) + 1 \/ Cardinality({x} \cup {y}) = Cardinality({x})
    BY <1>1, FS_AddElement
  <2> QED BY <1>1, <2>1
<1>3. PICK T, U, n, m : /\ T = {x} \cup {y} /\ U = T \cup {z}
                        /\ n = Cardinality(T) /\ m = Cardinality(U)
  OBVIOUS
<1>4. IsFiniteSet(T) /\ n \in Nat /\ n <= 2
  BY <1>2, <1>3
<1>5. IsFiniteSet(U) /\ (m = n + 1 \/ m = n)
  BY <1>3, <1>4, FS_AddElement
<1>6. m <= 3
  BY <1>4, <1>5
<1>7. {x, y, z} = U
  BY <1>3
<1> QED BY <1>3, <1>5, <1>6, <1>7

\* There is a client that nothing refers to.
LEMMA UnusedFacts ==
    ASSUME Wired
    PROVE /\ Unused \in Connections /\ Unused # deepgram
          /\ Unused # processor.client /\ Unused # recovery.client
<1>1. PICK T, S : T = {deepgram, processor.client, recovery.client}
                  /\ S = Connections \ (Live \cup {deepgram, processor.client, recovery.client})
  OBVIOUS
<1>2. S = Connections \ T
  BY <1>1 DEF Wired
<1>3. S # {}
  <2> SUFFICES ASSUME S = {} PROVE FALSE
    OBVIOUS
  <2>1. Connections \subseteq T
    BY <1>2
  <2>2. IsFiniteSet(T) /\ Cardinality(T) <= 3 /\ Cardinality(T) \in Nat
    BY <1>1, Triples, FS_CardinalityType
  <2>3. Cardinality(Connections) <= Cardinality(T) /\ Cardinality(Connections) \in Nat
    BY <2>1, <2>2, FS_Subset, FS_CardinalityType
  <2>4. Cardinality(Connections) >= 4
    BY CaptureAssumption
  <2> QED BY <2>2, <2>3, <2>4
<1>4. S \in SUBSET Nat
  BY <1>2, CaptureAssumption
<1>5. \E i \in S : \A j \in S : i <= j
  BY <1>3, <1>4, NatLeast
<1>6. Min(S) \in S
  BY <1>5 DEF Min
<1>7. Unused = Min(S)
  BY <1>1 DEF Unused
<1> QED BY <1>1, <1>2, <1>6, <1>7

LEMMA Asked ==
    ASSUME Typed, CancelAsked
    PROVE /\ recovery' \in Tasks /\ recovery'.at = recovery.at /\ recovery'.client = recovery.client
          /\ recovery'.item = recovery.item
          /\ recovery.at = "none" => recovery' = recovery
          /\ recovery.at # "none" => recovery'.cancelled
BY DEF Typed, Tasks, CancelAsked

\* A step of the control operation that may also cancel the reconnection.
LEMMA ControlsAsk ==
    ASSUME Typed, Wired, Sound, UNCHANGED <<queue, processor, audio, link, deepgram, conns>>,
           CancelAsked, control'.at = "cancelling",
           Mute' => Live = {}, Calling' => deepgram # None,
           processor.at = "sending" => status' = "listening"
    PROVE Wired' /\ Sound'
<1>1. Live' = Live /\ InFlight' = InFlight
  BY DEF Live, InFlight
<1>2. Wired'
  BY <1>1, Asked DEF Wired
<1>3. Kept(audio, recovery.item, InFlight, conns)'
  BY <1>1, Asked DEF Sound
<1>4. Sound'
  BY <1>3, Asked DEF Sound
<1> QED BY <1>2, <1>4

LEMMA DrainedKeeps ==
    ASSUME IInv, Drained
    PROVE IInv'
<1>1. Typed'
  <2>1. control.op \in Operations /\ control' = [op |-> control.op, at |-> "cancelling"]
    BY DEF IInv, Typed, Drained, Goes, At
  <2>2. control' \in [op : Operations, at : Awaits]
    BY <2>1 DEF Awaits
  <2> QED BY <2>2, Asked DEF IInv, Typed, Drained
<1>2. Life'
  BY DEF IInv, Typed, Operations, Awaits, Life, Ends, Drained, Goes, At, Idle, Stopping
<1>3. Mute' => Live = {}
  BY DEF IInv, Typed, Operations, Awaits, Life, Ends, Mute, Wired, Drained, Goes, At, Idle, Stopping
<1>c. Calling' => deepgram # None
  BY DEF IInv, Typed, Operations, Awaits, Life, Ends, Calling, Wired, Drained, Goes, At, Idle, Stopping
<1>4. control'.at = "cancelling" /\ CancelAsked /\ processor.at # "sending"
      /\ UNCHANGED <<queue, processor, audio, link, deepgram, conns>>
  BY DEF Drained, Goes, At, Resting
<1>5. Wired' /\ Sound'
  BY <1>3, <1>c, <1>4, ControlsAsk DEF IInv
<1> QED BY <1>1, <1>2, <1>5 DEF IInv

LEMMA StartFailsKeeps ==
    ASSUME IInv, StartFails
    PROVE IInv'
<1>1. Typed'
  <2>1. control' = [op |-> "cleanup", at |-> "cancelling"]
    BY DEF StartFails, Goes, At
  <2>2. control' \in [op : Operations, at : Awaits]
    BY <2>1 DEF Operations, Awaits
  <2>3. recovery' \in Tasks
    BY Asked DEF IInv, StartFails
  <2> QED BY <2>2, <2>3 DEF IInv, Typed, StartFails
<1>2. Life'
  BY DEF IInv, Typed, Operations, Awaits, Life, Ends, StartFails, Goes, At, Idle, Stopping
<1>3. Mute' => Live = {}
  BY DEF IInv, Typed, Operations, Awaits, Life, Ends, Mute, Wired, StartFails, Goes, At, Idle, Stopping
<1>c. Calling' => deepgram # None
  BY DEF IInv, Typed, Operations, Awaits, Life, Ends, Calling, Wired, StartFails, Goes, At, Idle, Stopping
<1>4. control'.at = "cancelling" /\ CancelAsked
      /\ UNCHANGED <<queue, processor, audio, link, deepgram, conns>>
  BY DEF StartFails, Goes, At
<1>5. processor.at # "sending"
  BY DEF IInv, Life, Sound, StartFails
<1>6. Wired' /\ Sound'
  BY <1>3, <1>c, <1>4, <1>5, ControlsAsk DEF IInv
<1> QED BY <1>1, <1>2, <1>6 DEF IInv

LEMMA ShutdownKeeps ==
    ASSUME IInv, Shutdown
    PROVE IInv'
<1>1. CASE device # "off"
  <2>1. Typed'
    BY <1>1 DEF IInv, Typed, Operations, Awaits, Shutdown, Goes, At, Idle
  <2>2. Life'
    BY <1>1 DEF IInv, Typed, Operations, Awaits, Life, Ends, Shutdown, Goes, At, Idle, Stopping
  <2>3. UNCHANGED <<status, queue, processor, audio, stream>> /\ control = Idle
    BY <1>1 DEF Shutdown, stream
  <2>4. Mute' => Live = {}
    BY <1>1 DEF IInv, Typed, Operations, Awaits, Life, Ends, Mute, Wired, Shutdown, Goes, At, Idle, Stopping
  <2>c. Calling' => deepgram # None
    BY <1>1 DEF IInv, Typed, Operations, Awaits, Life, Ends, Calling, Wired, Shutdown, Goes, At, Idle, Stopping
  <2>5. /\ recovery.at # "none" => status' = "listening"
        /\ processor.at = "sending" => status' = "listening"
        /\ status' # "listening" => audio.buffer = <<>>
    BY <2>3 DEF IInv, Wired, Sound, Idle
  <2>6. Wired' /\ Sound'
    BY <2>3, <2>4, <2>c, <2>5, Controls DEF IInv
  <2> QED BY <2>1, <2>2, <2>6 DEF IInv
<1>2. CASE device = "off"
  <2>1. Typed'
    <3>1. control' = [op |-> "ending", at |-> "cancelling"] /\ accept' = FALSE
      BY <1>2 DEF Shutdown, Goes, At
    <3>2. control' \in [op : Operations, at : Awaits]
      BY <3>1 DEF Operations, Awaits
    <3>3. recovery' \in Tasks
      BY <1>2, Asked DEF IInv, Shutdown
    <3> QED BY <3>1, <3>2, <3>3 DEF IInv, Typed, Shutdown
  <2>2. Life'
    BY <1>2 DEF IInv, Typed, Operations, Awaits, Life, Ends, Shutdown, Goes, At, Idle, Stopping
  <2>3. UNCHANGED <<status, queue, processor, audio, link, deepgram, conns>> /\ control = Idle
        /\ control'.at = "cancelling" /\ CancelAsked
    BY <1>2 DEF Shutdown, Goes, At
  <2>4. Mute' => Live = {}
    BY <1>2 DEF IInv, Typed, Operations, Awaits, Life, Ends, Mute, Wired, Shutdown, Goes, At, Idle, Stopping
  <2>c. Calling' => deepgram # None
    BY <1>2 DEF IInv, Typed, Operations, Awaits, Life, Ends, Calling, Wired, Shutdown, Goes, At, Idle, Stopping
  <2>5. processor.at = "sending" => status' = "listening"
    BY <2>3 DEF IInv, Sound
  <2>6. Wired' /\ Sound'
    BY <2>3, <2>4, <2>c, <2>5, ControlsAsk DEF IInv
  <2> QED BY <2>1, <2>2, <2>6 DEF IInv
<1> QED BY <1>1, <1>2

LEMMA ReconnectCancelledKeeps ==
    ASSUME IInv, ReconnectCancelled
    PROVE IInv'
<1>0. /\ control.at = "cancelling" /\ recovery.at = "none" /\ recovery = NoTask
      /\ status # "listening" /\ processor.at # "sending" /\ InFlight = 0
      /\ UNCHANGED <<status, device, accept, session, queue, processor, deepgram, recovery, conns>>
      /\ audio' = Discarded(audio) /\ link' = [link EXCEPT !.reconnecting = FALSE]
      /\ control' = IF control.op = "ending" THEN Down ELSE At(control.op, "closing")
  BY DEF IInv, Life, Wired, Sound, InFlight, ReconnectCancelled
<1>1. /\ audio' \in Accounts /\ Kept(audio', 0, 0, conns)
      /\ audio'.buffer = <<>> /\ audio'.received = audio.received
  BY <1>0, KeptDiscarded DEF IInv, Typed, Sound, NoTask
<1>2. Typed'
  <2>1. control' \in [op : Operations, at : Awaits]
    BY <1>0 DEF IInv, Typed, Operations, Awaits, Down, At
  <2>2. link' \in Links
    BY <1>0 DEF IInv, Typed, Links
  <2> QED BY <1>0, <1>1, <2>1, <2>2 DEF IInv, Typed
<1>3. Life'
  BY <1>0 DEF IInv, Typed, Operations, Awaits, Life, Ends, Down, At, Idle, Stopping
<1>4. Wired'
  <2>1. Live' = Live
    BY <1>0 DEF Live
  <2>2. (Mute' => Mute) /\ ~Calling'
    BY <1>0 DEF IInv, Typed, Operations, Awaits, Life, Ends, Mute, Calling, Down, At, Idle, Stopping
  <2> QED BY <1>0, <2>1, <2>2 DEF IInv, Wired
<1>5. Sound'
  <2>1. Kept(audio, recovery.item, InFlight, conns)'
    BY <1>0, <1>1 DEF InFlight, NoTask
  <2> QED BY <1>0, <1>1, <2>1 DEF IInv, Sound
<1> QED BY <1>2, <1>3, <1>4, <1>5 DEF IInv

\* The client c is closed, or opened.
LEMMA ClosesFacts ==
    ASSUME Typed, Wired, NEW c, Closes(c)
    PROVE /\ conns' \in [Connections -> Clients]
          /\ Live' = Live \ {c}
          /\ \A x \in Connections : conns'[x].heard = conns[x].heard \/ conns'[x].heard = <<>>
          /\ \A x \in Connections : conns'[x].state = "closed" => conns'[x].heard = <<>>
<1>1. Closed \in Clients /\ Closed.heard = <<>> /\ Closed.state = "closed"
  BY DEF Closed, Clients
<1>2. \A x \in Connections : conns'[x] = Closed \/ conns'[x] = conns[x]
  BY DEF Closes
<1>3. conns' \in [Connections -> Clients]
  BY <1>1 DEF Closes, Typed
<1>4. Live' = Live \ {c}
  <2>1. ASSUME NEW x \in Connections
        PROVE conns'[x].state # "closed" <=> conns[x].state # "closed" /\ x # c
    BY <1>1 DEF Closes
  <2>2. Live' = {x \in Connections : conns'[x].state # "closed"}
    BY DEF Live
  <2> QED BY <2>1, <2>2 DEF Live
<1> QED BY <1>1, <1>2, <1>3, <1>4 DEF Wired

LEMMA OpensFacts ==
    ASSUME Typed, Wired, NEW c, Opens(c), Live = {}
    PROVE /\ conns' \in [Connections -> Clients]
          /\ Live' \subseteq {c}
          /\ \A x \in Connections : conns'[x].heard = <<>>
<1>1. PICK o : o = [state |-> "open", heard |-> <<>>]
  OBVIOUS
<1>2. o \in Clients /\ o.heard = <<>>
  BY <1>1 DEF Clients
<1>3. /\ conns' \in [Connections -> Clients]
      /\ \A x \in Connections : (x = c /\ conns'[x] = o) \/ (x # c /\ conns'[x] = conns[x])
  BY <1>1, <1>2 DEF Opens, Typed
<1>4. \A x \in Connections : conns[x].state = "closed" /\ conns[x].heard = <<>>
  BY DEF Live, Wired
<1>5. Live' = {x \in Connections : conns'[x].state # "closed"}
  BY DEF Live
<1> QED BY <1>2, <1>3, <1>4, <1>5

LEMMA ClientStoppedKeeps ==
    ASSUME IInv, ClientStopped
    PROVE IInv'
<1>0. /\ control.at = "closing" /\ status # "listening" /\ Closes(deepgram)
      /\ control' = IF control.op \in {"pause", "undo"} THEN Idle ELSE At(control.op, "finishing")
      /\ UNCHANGED <<status, device, accept, session, queue, processor, audio, link, deepgram,
                     recovery>>
  BY DEF IInv, Life, ClientStopped
<1>1. /\ conns' \in [Connections -> Clients] /\ Live' = {}
      /\ \A x \in Connections : conns'[x].heard = conns[x].heard \/ conns'[x].heard = <<>>
      /\ \A x \in Connections : conns'[x].state = "closed" => conns'[x].heard = <<>>
  BY <1>0, ClosesFacts DEF IInv, Wired
<1>2. Typed'
  <2>1. control' \in [op : Operations, at : Awaits]
    BY <1>0 DEF IInv, Typed, Operations, Awaits, Idle, At
  <2> QED BY <1>0, <1>1, <2>1 DEF IInv, Typed
<1>3. Life'
  BY <1>0 DEF IInv, Typed, Operations, Awaits, Life, Ends, At, Idle, Stopping
<1>4. Wired'
  <2>1. ~Calling'
    BY <1>0 DEF Calling, At, Idle
  <2> QED BY <1>0, <1>1, <2>1 DEF IInv, Wired
<1>5. Sound'
  <2>1. InFlight' = InFlight /\ Kept(audio, recovery.item, InFlight, conns)
    BY <1>0 DEF InFlight, IInv, Sound
  <2>2. PICK cs : cs = conns'
    OBVIOUS
  <2>3. Kept(audio, recovery.item, InFlight, cs)
    BY <1>1, <2>1, <2>2, KeptConns DEF IInv, Typed
  <2>4. Kept(audio, recovery.item, InFlight, conns)'
    BY <1>0, <2>1, <2>2, <2>3
  <2> QED BY <1>0, <2>4 DEF IInv, Sound
<1> QED BY <1>2, <1>3, <1>4, <1>5 DEF IInv

LEMMA ListedKeeps ==
    ASSUME IInv, Listed
    PROVE IInv'
<1>0. /\ control = At("start", "listing") /\ control' = At("start", "opening")
      /\ queue' = 0 /\ audio' = NoAudio /\ link' = Good /\ deepgram' = Unused
      /\ UNCHANGED <<status, device, accept, session, processor, recovery, conns>>
  BY DEF Listed, Goes
<1>1. /\ status # "listening" /\ Mute /\ Live = {} /\ recovery = NoTask /\ processor = Resting
      /\ control.at = "listing" /\ control.op = "start"
  BY <1>0 DEF IInv, Typed, Senders, Life, Mute, Wired, Sound, At
<1>2. \A c \in Connections : conns[c].heard = <<>>
  BY <1>1 DEF IInv, Wired, Live
<1>3. NoAudio \in Accounts /\ Kept(NoAudio, 0, 0, conns)
  BY <1>2, KeptReset
<1>4. Typed'
  <2>1. control' \in [op : Operations, at : Awaits] /\ link' \in Links
    BY <1>0 DEF Operations, Awaits, At, Good, Links
  <2>2. queue' \in 0 .. QueueSize /\ deepgram' \in {None} \cup Connections
    BY <1>0, Numbers, UnusedFacts DEF IInv
  <2> QED BY <1>0, <1>3, <2>1, <2>2 DEF IInv, Typed
<1>5. Life'
  BY <1>0, <1>1 DEF IInv, Life, Ends, At, Idle, Stopping
<1>6. Wired'
  <2>1. Live' = {}
    BY <1>0, <1>1 DEF Live
  <2>2. deepgram' # None
    BY <1>0, UnusedFacts, Numbers DEF IInv
  <2> QED BY <1>0, <1>1, <2>1, <2>2 DEF IInv, Wired, NoTask
<1>7. Sound'
  <2>1. Kept(audio, recovery.item, InFlight, conns)'
    BY <1>0, <1>1, <1>3 DEF InFlight, NoTask, Resting
  <2>2. NoAudio.received = 0 /\ NoAudio.buffer = <<>> /\ 0 + 0 <= MaxFrames
    BY Numbers DEF NoAudio
  <2> QED BY <1>0, <1>1, <2>1, <2>2 DEF IInv, Sound, Resting, NoTask
<1> QED BY <1>4, <1>5, <1>6, <1>7 DEF IInv

LEMMA ResumeKeeps ==
    ASSUME IInv, Resume
    PROVE IInv'
<1>0. /\ control = Idle /\ status = "paused" /\ control' = At("resume", "opening")
      /\ audio' = [audio EXCEPT !.base = audio.received]
      /\ link' = [link EXCEPT !.failed = FALSE, !.exhausted = FALSE] /\ deepgram' = Unused
      /\ UNCHANGED <<status, device, accept, session, queue, processor, recovery, conns>>
  BY DEF Resume, Goes
<1>1. /\ Mute /\ Live = {} /\ recovery = NoTask /\ processor = Resting /\ audio.buffer = <<>>
      /\ control.at = "none" /\ control.op = "none" /\ InFlight = 0
  BY <1>0 DEF IInv, Typed, Senders, Life, Mute, Wired, Sound, Idle, InFlight, Resting
<1>2. audio.received \in 0 .. MaxFrames /\ Kept(audio, 0, 0, conns)
  <2>1. Kept(audio, 0, 0, conns)
    BY <1>1 DEF IInv, Sound, NoTask
  <2>2. audio.received <= MaxFrames /\ audio.received \in Nat /\ MaxFrames \in Nat
    BY <2>1, AccountFacts, Numbers DEF Kept, Holding, Sums, IInv, Typed
  <2> QED BY <2>1, <2>2
<1>3. /\ audio' \in Accounts /\ Kept(audio', 0, 0, conns)
      /\ audio'.buffer = audio.buffer /\ audio'.received = audio.received
  BY <1>0, <1>2, KeptBased DEF IInv, Typed
<1>4. Typed'
  <2>1. control' \in [op : Operations, at : Awaits] /\ link' \in Links
    BY <1>0 DEF IInv, Typed, Operations, Awaits, At, Links
  <2>2. deepgram' \in {None} \cup Connections
    BY <1>0, UnusedFacts DEF IInv
  <2> QED BY <1>0, <1>3, <2>1, <2>2 DEF IInv, Typed
<1>5. Life'
  BY <1>0, <1>1 DEF IInv, Life, Ends, At, Idle, Stopping
<1>6. Wired'
  <2>1. Live' = {}
    BY <1>0, <1>1 DEF Live
  <2>2. deepgram' # None
    BY <1>0, UnusedFacts, Numbers DEF IInv
  <2> QED BY <1>0, <1>1, <2>1, <2>2 DEF IInv, Wired, NoTask
<1>7. Sound'
  <2>1. Kept(audio, recovery.item, InFlight, conns)'
    BY <1>0, <1>1, <1>3 DEF InFlight, NoTask, Resting
  <2> QED BY <1>0, <1>1, <1>3, <2>1 DEF IInv, Sound, Resting, NoTask
<1> QED BY <1>4, <1>5, <1>6, <1>7 DEF IInv

LEMMA OpenedKeeps ==
    ASSUME IInv, Opened
    PROVE IInv'
<1>0. /\ control.at \in {"opening", "retrying"} /\ Opens(deepgram)
      /\ control' = At(control.op, IF control.op = "start" THEN "session" ELSE "device")
      /\ UNCHANGED <<status, device, accept, session, queue, processor, audio, link, deepgram,
                     recovery>>
  BY DEF Opened, Goes
<1>1. /\ status # "listening" /\ Mute /\ Live = {} /\ recovery = NoTask /\ processor = Resting
      /\ control.op \in {"start", "resume"}
  BY <1>0 DEF IInv, Typed, Senders, Life, Mute, Wired, Sound
<1>2. /\ conns' \in [Connections -> Clients] /\ Live' \subseteq {deepgram}
      /\ \A x \in Connections : conns'[x].heard = <<>>
  BY <1>0, <1>1, OpensFacts DEF IInv
<1>3. Typed'
  <2>1. control' \in [op : Operations, at : Awaits]
    BY <1>0, <1>1 DEF Operations, Awaits, At
  <2> QED BY <1>0, <1>2, <2>1 DEF IInv, Typed
<1>4. Life'
  BY <1>0, <1>1 DEF IInv, Life, Ends, At, Idle, Stopping
<1>5. Wired'
  <2>1. ~Mute'
    BY <1>0, <1>1 DEF Mute, At, Ends, Stopping
  <2>2. deepgram # None
    BY <1>0, <1>1 DEF IInv, Wired, Calling
  <2> QED BY <1>0, <1>1, <1>2, <2>1, <2>2 DEF IInv, Wired, NoTask
<1>6. Sound'
  <2>1. InFlight' = InFlight /\ Kept(audio, recovery.item, InFlight, conns)
    BY <1>0 DEF InFlight, IInv, Sound
  <2>2. PICK cs : cs = conns'
    OBVIOUS
  <2>3. Kept(audio, recovery.item, InFlight, cs)
    BY <1>2, <2>1, <2>2, KeptConns DEF IInv, Typed
  <2>4. Kept(audio, recovery.item, InFlight, conns)'
    BY <1>0, <2>1, <2>2, <2>3
  <2>5. audio.buffer = <<>>
    BY <1>0, <1>1 DEF IInv, Sound
  <2> QED BY <1>0, <1>1, <2>4, <2>5 DEF IInv, Sound
<1> QED BY <1>3, <1>4, <1>5, <1>6 DEF IInv

LEMMA OpenFailsKeeps ==
    ASSUME IInv, OpenFails
    PROVE IInv'
<1>0. /\ control.at = "opening" /\ control' = At(control.op, "retrying") /\ deepgram' = Unused
      /\ UNCHANGED <<status, device, accept, session, queue, processor, audio, link, recovery,
                     conns>>
  BY DEF OpenFails, Goes
<1>1. /\ status # "listening" /\ Mute /\ Live = {} /\ recovery = NoTask /\ processor = Resting
      /\ control.op \in {"start", "resume"} /\ audio.buffer = <<>>
  BY <1>0 DEF IInv, Typed, Senders, Life, Mute, Wired, Sound
<1>2. Typed'
  <2>1. control' \in [op : Operations, at : Awaits]
    BY <1>0, <1>1 DEF Operations, Awaits, At
  <2>2. deepgram' \in {None} \cup Connections
    BY <1>0, UnusedFacts DEF IInv
  <2> QED BY <1>0, <2>1, <2>2 DEF IInv, Typed
<1>3. Life'
  BY <1>0, <1>1 DEF IInv, Life, Ends, At, Idle, Stopping
<1>4. Wired'
  <2>1. Live' = {}
    BY <1>0, <1>1 DEF Live
  <2>2. deepgram' # None
    BY <1>0, UnusedFacts, Numbers DEF IInv
  <2> QED BY <1>0, <1>1, <2>1, <2>2 DEF IInv, Wired, NoTask
<1>5. Sound'
  <2>1. Kept(audio, recovery.item, InFlight, conns)'
    BY <1>0 DEF InFlight, IInv, Sound
  <2> QED BY <1>0, <1>1, <2>1 DEF IInv, Sound
<1> QED BY <1>2, <1>3, <1>4, <1>5 DEF IInv

-----------------------------------------------------------------------------
(* Frames *)

\* What follows when nothing of the operation and the connections changes.
LEMMA LifeStays ==
    ASSUME Life, UNCHANGED life
    PROVE Life'
BY DEF Life, life

LEMMA FrameKeeps ==
    ASSUME IInv, Frame
    PROVE IInv'
<1>0. /\ audio.received + queue < MaxFrames /\ queue' \in {queue, queue + 1}
      /\ queue' # queue => queue < QueueSize /\ queue' = queue + 1
      /\ UNCHANGED <<life, processor, audio, stream>>
  BY DEF Frame
<1>n. queue \in Nat /\ audio.received \in Nat /\ QueueSize \in Nat /\ MaxFrames \in Nat
  BY AccountFacts, Numbers DEF IInv, Typed
<1>1. Typed'
  <2>1. queue' \in 0 .. QueueSize
    BY <1>0, <1>n DEF IInv, Typed
  <2> QED BY <1>0, <2>1 DEF IInv, Typed, life, stream
<1>2. Life'
  BY <1>0, LifeStays DEF IInv
<1>3. Live' = Live /\ InFlight' = InFlight /\ (Mute' <=> Mute) /\ (Calling' <=> Calling)
  BY <1>0 DEF Live, InFlight, Mute, Calling, life, stream
<1>4. Wired'
  BY <1>0, <1>3 DEF IInv, Wired, life, stream
<1>5. Sound'
  <2>1. Kept(audio, recovery.item, InFlight, conns)'
    BY <1>0, <1>3 DEF IInv, Sound, stream
  <2>2. audio'.received + queue' <= MaxFrames
    BY <1>0, <1>n
  <2> QED BY <1>0, <2>1, <2>2 DEF IInv, Sound, life, stream
<1> QED BY <1>1, <1>2, <1>4, <1>5 DEF IInv

\* The task of the reconnection is started unless it is there, or is given up.
LEMMA EnsuredFacts ==
    ASSUME Typed, Wired
    PROVE /\ Ensured \in Tasks /\ Ensured.item = recovery.item
          /\ \/ Ensured = recovery
             \/ /\ recovery.at = "none" /\ Ensured.at = "stopping" /\ Ensured.client = deepgram
                /\ Ensured.item = 0
BY DEF Typed, Wired, Tasks, Ensured, NoTask

\* Wired, when the reconnection may have been started.
LEMMA WiredEnsures ==
    ASSUME IInv, status = "listening", recovery' = recovery \/ recovery' = Ensured,
           UNCHANGED <<life, deepgram>>, Live' = Live,
           \A c \in Connections : conns'[c].state = "closed" => conns'[c].heard = <<>>
    PROVE Wired'
<1>1. ~Mute' /\ status' = "listening" /\ deepgram' # None
  BY DEF IInv, Wired, Calling, Mute, life
<1>2. \/ recovery' = recovery
      \/ /\ recovery.at = "none" /\ recovery'.at = "stopping" /\ recovery'.client = deepgram
         /\ deepgram # None
  BY <1>1, EnsuredFacts DEF IInv
<1>3. /\ recovery'.at = "none" => recovery' = NoTask
      /\ recovery'.at \in {"stopping", "flushing", "closing"} => recovery'.client = deepgram'
      /\ recovery'.at \in {"stopping", "opening", "flushing", "closing"} => recovery'.client # None
      /\ recovery'.at \in {"waiting", "opening"} => Live' = {}
  BY <1>2 DEF IInv, Wired
<1> QED BY <1>1, <1>3 DEF IInv, Wired

LEMMA ProcessKeeps ==
    ASSUME IInv, Process
    PROVE IInv'
<1>0. /\ processor = Resting /\ queue > 0 /\ queue' = queue - 1 /\ UNCHANGED <<life, deepgram, conns>>
      /\ processor.at = "idle" /\ InFlight = 0
  BY DEF Process, Resting, InFlight
<1>n. queue \in Nat /\ audio.received \in Nat /\ QueueSize \in Nat /\ MaxFrames \in Nat
      /\ queue' \in 0 .. QueueSize /\ audio.received + queue <= MaxFrames
  BY <1>0, AccountFacts, Numbers DEF IInv, Typed, Sound
<1>1. Life'
  BY <1>0, LifeStays DEF IInv
<1>2. Live' = Live /\ (Mute' <=> Mute) /\ (Calling' <=> Calling)
  BY <1>0 DEF Live, Mute, Calling, life
<1>k. Kept(audio, recovery.item, 0, conns)
  BY <1>0 DEF IInv, Sound
<1>r. /\ audio.received < MaxFrames
      /\ audio.received + 1 \in Nat /\ audio.received + 1 + queue' <= MaxFrames
  BY <1>0, <1>n
<1>3. CASE status # "listening"
  <2>0. UNCHANGED <<life, processor, audio, stream>>
    BY <1>0, <1>3 DEF Process, stream
  <2>1. Typed'
    BY <2>0, <1>n DEF IInv, Typed, life, stream
  <2>2. Wired'
    BY <2>0, <1>2 DEF IInv, Wired, life, stream
  <2>3. Sound'
    <3>1. Kept(audio, recovery.item, InFlight, conns)'
      BY <2>0 DEF IInv, Sound, InFlight, stream
    <3>2. audio'.received + queue' <= MaxFrames
      BY <2>0, <1>0, <1>n
    <3> QED BY <2>0, <3>1, <3>2 DEF IInv, Sound, life, stream
  <2> QED BY <1>1, <2>1, <2>2, <2>3 DEF IInv
<1>4. CASE status = "listening" /\ (link.reconnecting \/ link.failed)
  <2>0. /\ audio' = Buffered([audio EXCEPT !.received = audio.received + 1], audio.received + 1)
        /\ recovery' = Ensured /\ UNCHANGED processor
        /\ link' = IF Ensured = recovery THEN link ELSE [link EXCEPT !.reconnecting = TRUE]
    BY <1>4 DEF Process
  <2>1. /\ recovery' \in Tasks /\ recovery'.item = recovery.item
        /\ recovery'.at = recovery.at \/ recovery'.at = "stopping"
        /\ recovery'.at = "stopping" \/ recovery' = recovery
    BY <2>0, EnsuredFacts DEF IInv
  <2>2. link' \in Links /\ (link'.reconnecting \/ link'.failed)
    BY <1>4, <2>0 DEF IInv, Typed, Links
  <2>3. recovery.item \in {0} \cup Frames
    BY DEF IInv, Typed, Tasks
  <2>4. audio' \in Accounts /\ Kept(audio', recovery.item, 0, conns)
    BY <1>k, <1>r, <2>0, <2>3, KeptWaits DEF IInv, Typed
  <2>5. audio'.received = audio.received + 1
    <3>1. PICK g : g = [audio EXCEPT !.received = audio.received + 1]
      OBVIOUS
    <3>2. g \in Accounts /\ g.received = audio.received + 1
      BY <1>r, <3>1, EntryChanges DEF Entries, IInv, Typed
    <3>3. audio' = Buffered(g, audio.received + 1)
      BY <2>0, <3>1
    <3>4. audio'.received = g.received
      BY <3>2, <3>3 DEF Buffered, Accounts
    <3> QED BY <3>2, <3>4
  <2>6. Typed'
    BY <1>0, <1>n, <2>0, <2>1, <2>2, <2>4 DEF IInv, Typed, life
  <2>7. Wired'
    BY <1>0, <1>2, <1>4, <2>0, WiredEnsures DEF IInv, Wired
  <2>8. Sound'
    <3>1. Kept(audio, recovery.item, InFlight, conns)'
      BY <1>0, <2>0, <2>1, <2>4 DEF InFlight
    <3>2. recovery'.item # 0 <=> recovery'.at = "flushing"
      BY <2>0, EnsuredFacts DEF IInv, Sound
    <3>3. audio'.received + queue' <= MaxFrames
      BY <1>r, <2>5
    <3> QED BY <1>0, <1>4, <2>0, <2>2, <3>1, <3>2, <3>3 DEF IInv, Sound, life
  <2> QED BY <1>1, <2>6, <2>7, <2>8 DEF IInv
<1>5. CASE status = "listening" /\ ~link.reconnecting /\ ~link.failed
  <2>0. /\ audio' = [audio EXCEPT !.received = audio.received + 1]
        /\ processor' = [at |-> "sending", frame |-> audio.received + 1, client |-> deepgram]
        /\ UNCHANGED <<link, recovery>>
    BY <1>5 DEF Process
  <2>1. audio.buffer = <<>> /\ recovery.item = 0
    BY <1>5 DEF IInv, Sound
  <2>2. audio' \in Accounts /\ Kept(audio', 0, 1, conns)
    BY <1>k, <1>r, <2>0, <2>1, KeptSends DEF IInv, Typed
  <2>3. audio'.received = audio.received + 1 /\ audio'.buffer = audio.buffer
    BY <2>0, <1>r, EntryChanges DEF Entries, IInv, Typed
  <2>4. processor' \in Senders /\ processor'.at = "sending" /\ processor'.frame = audio'.received
        /\ processor'.client # None
    <3>1. audio.received + 1 \in Frames
      BY <1>r, <1>n DEF Frames
    <3> QED BY <1>5, <2>0, <2>3, <3>1 DEF IInv, Typed, Senders, Wired, Calling
  <2>5. Typed'
    BY <1>0, <1>n, <2>0, <2>2, <2>4 DEF IInv, Typed, life
  <2>6. Wired'
    BY <1>0, <1>2, <2>0 DEF IInv, Wired, life
  <2>7. Sound'
    <3>1. Kept(audio, recovery.item, InFlight, conns)'
      BY <1>0, <2>0, <2>1, <2>2, <2>4 DEF InFlight
    <3>2. audio'.received + queue' <= MaxFrames
      BY <1>r, <2>3
    <3> QED BY <1>0, <1>5, <2>0, <2>1, <2>3, <2>4, <3>1, <3>2 DEF IInv, Sound, life
  <2> QED BY <1>1, <2>5, <2>6, <2>7 DEF IInv
<1> QED BY <1>3, <1>4, <1>5

LEMMA SentKeeps ==
    ASSUME IInv, Sent
    PROVE IInv'
<1>0. /\ processor.at = "sending" /\ conns[processor.client].state = "open"
      /\ conns' = [conns EXCEPT ![processor.client].heard = Append(@, processor.frame)]
      /\ audio' = [audio EXCEPT !.sent = audio.sent + 1] /\ processor' = Resting
      /\ UNCHANGED <<life, queue, link, deepgram, recovery>>
  BY DEF Sent
<1>1. /\ processor.frame = audio.received /\ status = "listening" /\ InFlight = 1
      /\ processor.frame \in {0} \cup Frames /\ processor.client \in {None} \cup Connections
      /\ recovery.item \in {0} \cup Frames
  BY <1>0 DEF IInv, Typed, Senders, Tasks, Sound, InFlight
<1>2. Kept(audio, recovery.item, 1, conns)
  BY <1>1 DEF IInv, Sound
<1>3. processor.frame \in Frames /\ recovery.item = 0 /\ audio.buffer = <<>>
  <2>1. recovery.item = 0 /\ audio.buffer = <<>>
    BY <1>2 DEF Kept, Holding
  <2>2. PICK r, t, d, c : r = audio.received /\ t = audio.sent /\ d = audio.dropped /\ c = audio.cut
    OBVIOUS
  <2>3. r \in Nat /\ t \in Nat /\ d \in Nat /\ c \in Nat
    BY <2>2, AccountFacts DEF IInv, Typed
  <2>4. r = t + Len(<<>>) + d + c + 1
    BY <1>2, <2>1, <2>2, WorkFacts DEF Kept, Holding, Sums
  <2>5. r # 0
    BY <2>3, <2>4
  <2> QED BY <1>1, <2>1, <2>2, <2>5
<1>4. CASE processor.client \in Connections
  <2>1. PICK cs, d, f, c : cs = conns' /\ d = audio' /\ f = processor.frame /\ c = processor.client
    OBVIOUS
  <2>2. cs = [conns EXCEPT ![c].heard = Append(@, f)] /\ d = [audio EXCEPT !.sent = audio.sent + 1]
    BY <1>0, <2>1
  <2>3. d \in Accounts /\ Kept(d, 0, 0, cs)
    <3>1. audio \in Accounts /\ conns \in [Connections -> Clients] /\ f \in Frames
          /\ c \in Connections /\ f = audio.received /\ 0 \in {0} \cup Frames /\ 1 \in {0, 1}
      BY <1>1, <1>3, <1>4, <2>1 DEF IInv, Typed
    <3>2. Kept(audio, 0, 1, conns)
      BY <1>2, <1>3
    <3> QED BY <2>2, <3>1, <3>2, KeptHears
  <2>4. /\ cs \in [Connections -> Clients]
        /\ \A x \in Connections : cs[x].state = conns[x].state
        /\ \A x \in Connections : x # c => cs[x].heard = conns[x].heard
    <3>1. Hears(conns, c, f, cs)
      BY <2>1, <2>2, <1>3, <1>4, ConnectionHears DEF IInv, Typed
    <3> QED BY <3>1 DEF Hears
  <2>5. Live' = Live
    BY <2>1, <2>4 DEF Live
  <2>6. \A x \in Connections : cs[x].state = "closed" => cs[x].heard = <<>>
    BY <1>0, <2>1, <2>4 DEF IInv, Wired
  <2>7. audio'.received = audio.received /\ audio'.buffer = audio.buffer
    BY <1>0 DEF IInv, Typed, Accounts
  <2>8. Typed'
    <3>1. processor' \in Senders
      BY <1>0 DEF Resting, Senders
    <3> QED BY <1>0, <2>1, <2>3, <2>4, <3>1 DEF IInv, Typed, life
  <2>9. Life'
    BY <1>0, LifeStays DEF IInv
  <2>10. Wired'
    BY <1>0, <1>1, <2>1, <2>5, <2>6, WiredEnsures
  <2>11. Sound'
    <3>1. Kept(audio, recovery.item, InFlight, conns)'
      BY <1>0, <1>3, <2>1, <2>3 DEF InFlight, Resting
    <3> QED BY <1>0, <1>1, <1>3, <2>7, <3>1 DEF IInv, Sound, life, Resting
  <2> QED BY <2>8, <2>9, <2>10, <2>11 DEF IInv
<1>5. processor.client # None
  BY <1>0 DEF IInv, Sound
<1> QED BY <1>1, <1>4, <1>5

-----------------------------------------------------------------------------
(* Failures *)

LEMMA StateChanges ==
    ASSUME NEW cs \in [Connections -> Clients], NEW c \in Connections,
           NEW x \in {"closed", "open", "lost"}, NEW ds, ds = [cs EXCEPT ![c].state = x]
    PROVE /\ ds \in [Connections -> Clients]
          /\ \A n \in Connections : ds[n].heard = cs[n].heard
          /\ \A n \in Connections : n # c => ds[n] = cs[n]
          /\ ds[c].state = x
<1>1. PICK r : r = [cs[c] EXCEPT !.state = x]
  OBVIOUS
<1>2. cs[c] \in Clients
  OBVIOUS
<1>3. r \in Clients /\ r.state = x /\ r.heard = cs[c].heard
  BY <1>1, <1>2 DEF Clients
<1>4. ds = [cs EXCEPT ![c] = r]
  BY <1>1
<1> QED BY <1>3, <1>4

LEMMA ErrorFacts ==
    ASSUME IInv, OnError
    PROVE /\ link' \in Links /\ recovery' \in Tasks /\ recovery'.item = recovery.item
          /\ recovery' = recovery \/ recovery' = Ensured
          /\ recovery'.item # 0 <=> recovery'.at = "flushing"
          /\ status = "listening" => link'.failed
          /\ status # "listening" => UNCHANGED <<link, recovery>>
<1>1. CASE status = "listening"
  <2>1. /\ link' = [link EXCEPT !.failed = TRUE, !.reconnecting = ~link.exhausted]
        /\ recovery' = Ensured
    BY <1>1 DEF OnError
  <2>2. link' \in Links /\ link'.failed
    BY <2>1 DEF IInv, Typed, Links
  <2> QED BY <1>1, <2>1, <2>2, EnsuredFacts DEF IInv, Sound
<1>2. CASE status # "listening"
  BY <1>2 DEF OnError, IInv, Typed, Sound
<1> QED BY <1>1, <1>2

LEMMA SendFailsKeeps ==
    ASSUME IInv, SendFails
    PROVE IInv'
<1>0. /\ processor.at = "sending" /\ OnError
      /\ conns' = [conns EXCEPT ![processor.client].state = IF @ = "open" THEN "lost" ELSE @]
      /\ audio' = Buffered(audio, processor.frame) /\ processor' = Resting
      /\ UNCHANGED <<life, queue, deepgram>>
  BY DEF SendFails
<1>1. /\ processor.frame = audio.received /\ status = "listening" /\ InFlight = 1
      /\ processor.client \in Connections
  BY <1>0 DEF IInv, Typed, Senders, Sound, InFlight
<1>2. Kept(audio, recovery.item, 1, conns)
  BY <1>1 DEF IInv, Sound
<1>3. recovery.item = 0
  BY <1>2 DEF Kept, Holding
<1>p. PICK cs, d, c : cs = conns' /\ d = audio' /\ c = processor.client
  OBVIOUS
<1>4. PICK x \in {"closed", "open", "lost"} :
          x = IF conns[c].state = "open" THEN "lost" ELSE conns[c].state
  <2>1. conns[c].state \in {"closed", "open", "lost"}
    BY <1>1, <1>p DEF IInv, Typed, Clients
  <2> QED BY <2>1
<1>5. cs = [conns EXCEPT ![c].state = x]
  BY <1>0, <1>p, <1>4
<1>6. /\ cs \in [Connections -> Clients]
      /\ \A n \in Connections : cs[n].heard = conns[n].heard
      /\ \A n \in Connections : n # c => cs[n] = conns[n]
      /\ cs[c].state = x
  BY <1>1, <1>p, <1>4, <1>5, StateChanges DEF IInv, Typed
<1>7. \A n \in Connections : cs[n].state = "closed" <=> conns[n].state = "closed"
  BY <1>p, <1>4, <1>6
<1>8. d \in Accounts /\ Kept(d, 0, 0, cs)
  <2>1. d = Buffered(audio, audio.received)
    BY <1>0, <1>1, <1>p, <1>4
  <2>2. Kept(audio, 0, 1, conns) /\ audio \in Accounts /\ conns \in [Connections -> Clients]
    BY <1>2, <1>3 DEF IInv, Typed
  <2>3. d \in Accounts /\ Kept(d, 0, 0, conns)
    BY <2>1, <2>2, KeptReturns
  <2> QED BY <1>6, <2>2, <2>3, KeptConns
<1>9. Live' = Live
  BY <1>p, <1>4, <1>7 DEF Live
<1>10. audio'.received = audio.received
  BY <1>0, <1>1 DEF Buffered, IInv, Typed, Accounts
<1>11. Typed'
  <2>1. processor' \in Senders
    BY <1>0 DEF Resting, Senders
  <2> QED BY <1>0, <1>p, <1>4, <1>6, <1>8, <2>1, ErrorFacts DEF IInv, Typed, life
<1>12. Life'
  BY <1>0, LifeStays DEF IInv
<1>13. Wired'
  <2>1. \A n \in Connections : conns'[n].state = "closed" => conns'[n].heard = <<>>
    BY <1>p, <1>4, <1>6, <1>7 DEF IInv, Wired
  <2>2. recovery' = recovery \/ recovery' = Ensured
    BY <1>0, ErrorFacts
  <2> QED BY <1>0, <1>1, <1>9, <2>1, <2>2, WiredEnsures
<1>14. Sound'
  <2>1. recovery'.item = 0
    BY <1>0, <1>3, ErrorFacts
  <2>2. Kept(audio, recovery.item, InFlight, conns)'
    BY <1>0, <1>p, <1>4, <1>8, <2>1 DEF InFlight, Resting
  <2>3. link'.failed /\ (recovery'.item # 0 <=> recovery'.at = "flushing")
    BY <1>0, <1>1, ErrorFacts
  <2> QED BY <1>0, <1>1, <1>10, <2>2, <2>3 DEF IInv, Sound, life, Resting
<1> QED BY <1>11, <1>12, <1>13, <1>14 DEF IInv

LEMMA LostKeeps ==
    ASSUME IInv, NEW c \in Connections, Lost(c)
    PROVE IInv'
<1>0. /\ conns[c].state = "open" /\ OnError
      /\ conns' = [conns EXCEPT ![c].state = "lost"] \/ UNCHANGED conns
      /\ UNCHANGED <<life, queue, processor, audio, deepgram>>
  BY DEF Lost
<1>1. /\ conns' \in [Connections -> Clients]
      /\ \A n \in Connections : conns'[n].heard = conns[n].heard
      /\ \A n \in Connections : conns'[n].state = "closed" <=> conns[n].state = "closed"
  <2>1. CASE UNCHANGED conns
    BY <2>1 DEF IInv, Typed
  <2>2. CASE conns' = [conns EXCEPT ![c].state = "lost"]
    <3>1. PICK cs : cs = conns'
      OBVIOUS
    <3>2. /\ cs \in [Connections -> Clients]
          /\ \A n \in Connections : cs[n].heard = conns[n].heard
          /\ \A n \in Connections : n # c => cs[n] = conns[n]
          /\ cs[c].state = "lost"
      BY <2>2, <3>1, StateChanges DEF IInv, Typed
    <3> QED BY <1>0, <3>1, <3>2
  <2> QED BY <1>0, <2>1, <2>2
<1>2. Live' = Live /\ InFlight' = InFlight /\ (Mute' <=> Mute) /\ (Calling' <=> Calling)
  BY <1>0, <1>1 DEF Live, InFlight, Mute, Calling, life
<1>3. \A n \in Connections : conns'[n].state = "closed" => conns'[n].heard = <<>>
  BY <1>1 DEF IInv, Wired
<1>4. Kept(audio, recovery.item, InFlight, conns)'
  <2>1. PICK cs : cs = conns'
    OBVIOUS
  <2>2. Kept(audio, recovery.item, InFlight, conns)
    BY DEF IInv, Sound
  <2>3. Kept(audio, recovery.item, InFlight, cs)
    BY <1>1, <2>1, <2>2, KeptConns DEF IInv, Typed
  <2>4. recovery'.item = recovery.item
    BY <1>0, ErrorFacts
  <2> QED BY <1>0, <1>2, <2>1, <2>3, <2>4
<1>5. Typed'
  BY <1>0, <1>1, ErrorFacts DEF IInv, Typed, life
<1>6. Life'
  BY <1>0, LifeStays DEF IInv
<1>7. CASE status = "listening"
  <2>1. Wired'
    <3>1. recovery' = recovery \/ recovery' = Ensured
      BY <1>0, ErrorFacts
    <3> QED BY <1>0, <1>2, <1>3, <1>7, <3>1, WiredEnsures
  <2>2. link'.failed /\ (recovery'.item # 0 <=> recovery'.at = "flushing")
    BY <1>0, <1>7, ErrorFacts
  <2>3. Sound'
    BY <1>0, <1>4, <1>7, <2>2 DEF IInv, Sound, life
  <2> QED BY <1>5, <1>6, <2>1, <2>3 DEF IInv
<1>8. CASE status # "listening"
  <2>1. UNCHANGED <<link, recovery>>
    BY <1>0, <1>8, ErrorFacts
  <2>2. Wired'
    BY <1>0, <1>2, <1>3, <2>1 DEF IInv, Wired, life
  <2>3. Sound'
    BY <1>0, <1>4, <2>1 DEF IInv, Sound, life
  <2> QED BY <1>5, <1>6, <2>2, <2>3 DEF IInv
<1> QED BY <1>7, <1>8

-----------------------------------------------------------------------------
(* The reconnection *)

\* It goes on only while there is something to listen to.
LEMMA RunningListens ==
    ASSUME IInv, NEW at, Running(at), at # "none"
    PROVE /\ status = "listening" /\ recovery.at = at /\ ~recovery.cancelled
          /\ InFlight \in {0, 1}
          /\ Kept(audio, recovery.item, InFlight, conns)
          /\ at # "flushing" => recovery.item = 0
          /\ at # "reporting" => link.failed \/ link.reconnecting
BY DEF IInv, Wired, Sound, Running, InFlight

\* A step of the reconnection while the session is listening.
LEMMA RunningStep ==
    ASSUME IInv, status = "listening", UNCHANGED <<life, queue, processor>>,
           audio' \in Accounts, audio'.received = audio.received,
           Kept(audio', recovery'.item, InFlight, conns'),
           link' \in Links, deepgram' \in Connections, recovery' \in Tasks,
           conns' \in [Connections -> Clients],
           recovery'.item # 0 <=> recovery'.at = "flushing",
           link'.failed \/ link'.reconnecting \/ audio'.buffer = <<>>,
           recovery'.at \notin {"none", "reporting"} => link'.failed \/ link'.reconnecting,
           Live' \subseteq {deepgram'},
           \A c \in Connections : conns'[c].state = "closed" => conns'[c].heard = <<>>,
           recovery'.at = "none" => recovery' = NoTask,
           recovery'.at \in {"stopping", "flushing", "closing"} => recovery'.client = deepgram',
           recovery'.at \in {"stopping", "opening", "flushing", "closing"} => recovery'.client # None,
           recovery'.at \in {"waiting", "opening"} => Live' = {}
    PROVE IInv'
<1>1. Typed'
  BY DEF IInv, Typed, life
<1>2. Life'
  BY LifeStays DEF IInv
<1>3. Wired'
  <2>1. ~Mute' /\ deepgram' # None /\ status' = "listening"
    BY Numbers DEF Mute, life
  <2> QED BY <2>1 DEF Wired
<1>4. Sound'
  <2>1. InFlight' = InFlight /\ status' = "listening"
    BY DEF InFlight, life
  <2>2. Kept(audio, recovery.item, InFlight, conns)'
    BY <2>1
  <2> QED BY <2>1, <2>2 DEF IInv, Sound, life
<1> QED BY <1>1, <1>2, <1>3, <1>4 DEF IInv

\* The next attempt, of the accounts a and when the connections are cs.
LEMMA AttemptFacts ==
    ASSUME IInv, status = "listening", link.failed \/ link.reconnecting, NEW n \in Nat,
           Attempt(audio, n), recovery.item = 0, NEW s \in {0, 1},
           NEW cs \in [Connections -> Clients], Kept(audio, 0, s, cs)
    PROVE /\ audio' \in Accounts /\ audio'.received = audio.received
          /\ Kept(audio', recovery'.item, s, cs)
          /\ link' \in Links /\ recovery' \in Tasks
          /\ recovery'.item = 0 /\ recovery'.at \in {"reporting", "waiting", "opening"}
          /\ recovery'.at = "opening" => recovery'.client # None
          /\ link'.failed \/ link'.reconnecting
<1>0. audio \in Accounts
  BY DEF IInv, Typed
<1>1. CASE n > MaxAttempts
  <2>1. /\ recovery' = [NoTask EXCEPT !.at = "reporting"] /\ audio' = Discarded(audio)
        /\ link' = [failed |-> TRUE, reconnecting |-> FALSE, exhausted |-> TRUE]
    BY <1>1 DEF Attempt
  <2>2. /\ recovery' \in Tasks /\ recovery'.item = 0 /\ recovery'.at = "reporting"
        /\ link' \in Links /\ link'.failed
    BY <2>1 DEF NoTask, Tasks, Links
  <2>3. audio' \in Accounts /\ Kept(audio', 0, s, cs) /\ audio'.received = audio.received
    BY <1>0, <2>1, KeptDiscarded
  <2> QED BY <2>2, <2>3
<1>2. CASE ~(n > MaxAttempts) /\ n > 1
  <2>1. /\ recovery' = [NoTask EXCEPT !.at = "waiting", !.attempt = n] /\ audio' = audio
        /\ link' = [link EXCEPT !.failed = TRUE]
    BY <1>2 DEF Attempt
  <2>2. /\ recovery' \in Tasks /\ recovery'.item = 0 /\ recovery'.at = "waiting"
    BY <2>1 DEF NoTask, Tasks
  <2>3. link' \in Links /\ link'.failed
    BY <2>1 DEF Links, IInv, Typed
  <2> QED BY <1>0, <2>1, <2>2, <2>3
<1>3. CASE ~(n > MaxAttempts) /\ ~(n > 1)
  <2>1. /\ recovery' = [NoTask EXCEPT !.at = "opening", !.client = Unused, !.attempt = n]
        /\ audio' = Rebased(audio) /\ UNCHANGED link
    BY <1>3 DEF Attempt
  <2>2. /\ recovery' \in Tasks /\ recovery'.item = 0 /\ recovery'.at = "opening"
        /\ recovery'.client # None
    BY <2>1, UnusedFacts, Numbers DEF NoTask, Tasks, IInv
  <2>3. audio' \in Accounts /\ Kept(audio', 0, s, cs) /\ audio'.received = audio.received
    BY <1>0, <2>1, KeptRebased
  <2> QED BY <2>1, <2>2, <2>3 DEF IInv, Typed
<1> QED BY <1>1, <1>2, <1>3

LEMMA OldStoppedKeeps ==
    ASSUME IInv, OldStopped \/ NewStopped
    PROVE IInv'
<1>0. PICK at \in {"stopping", "closing"}, n \in Nat :
          /\ Running(at) /\ Closes(recovery.client) /\ Attempt(audio, n)
          /\ UNCHANGED <<life, queue, processor, deepgram>>
  BY DEF OldStopped, NewStopped, IInv, Typed, Tasks
<1>1. /\ status = "listening" /\ recovery.at = at /\ ~recovery.cancelled /\ recovery.item = 0
      /\ InFlight \in {0, 1} /\ Kept(audio, 0, InFlight, conns)
      /\ link.failed \/ link.reconnecting
  BY <1>0, RunningListens
<1>2. recovery.client = deepgram /\ deepgram \in Connections
  BY <1>0, <1>1 DEF IInv, Typed, Wired
<1>3. PICK cs, s : cs = conns' /\ s = InFlight
  OBVIOUS
<1>4. /\ cs \in [Connections -> Clients] /\ Live' = {}
      /\ \A x \in Connections : cs[x].heard = conns[x].heard \/ cs[x].heard = <<>>
      /\ \A x \in Connections : cs[x].state = "closed" => cs[x].heard = <<>>
  BY <1>0, <1>2, <1>3, ClosesFacts DEF IInv, Wired
<1>5. Kept(audio, 0, s, cs)
  BY <1>1, <1>3, <1>4, KeptConns DEF IInv, Typed
<1>6. /\ audio' \in Accounts /\ audio'.received = audio.received
      /\ Kept(audio', recovery'.item, s, cs)
      /\ link' \in Links /\ recovery' \in Tasks
      /\ recovery'.item = 0 /\ recovery'.at \in {"reporting", "waiting", "opening"}
      /\ recovery'.at = "opening" => recovery'.client # None
      /\ link'.failed \/ link'.reconnecting
  BY <1>0, <1>1, <1>3, <1>4, <1>5, AttemptFacts
<1>7. deepgram' \in Connections
  BY <1>0, <1>2
<1> QED BY <1>0, <1>1, <1>3, <1>4, <1>6, <1>7, RunningStep

LEMMA ReopenFailsKeeps ==
    ASSUME IInv, ReopenFails
    PROVE IInv'
<1>0. PICK n \in Nat :
          /\ Running("opening") /\ Attempt(audio, n)
          /\ UNCHANGED <<life, queue, processor, deepgram, conns>>
  BY DEF ReopenFails, IInv, Typed, Tasks
<1>1. /\ status = "listening" /\ recovery.at = "opening" /\ recovery.item = 0
      /\ InFlight \in {0, 1} /\ Kept(audio, 0, InFlight, conns)
      /\ link.failed \/ link.reconnecting
  BY <1>0, RunningListens
<1>2. deepgram \in Connections
  BY <1>1 DEF IInv, Typed, Wired, Calling
<1>3. PICK s : s = InFlight
  OBVIOUS
<1>4. Live' = {} /\ \A x \in Connections : conns[x].state = "closed" => conns[x].heard = <<>>
  BY <1>0, <1>1 DEF Live, IInv, Wired
<1>6. /\ audio' \in Accounts /\ audio'.received = audio.received
      /\ Kept(audio', recovery'.item, s, conns)
      /\ link' \in Links /\ recovery' \in Tasks
      /\ recovery'.item = 0 /\ recovery'.at \in {"reporting", "waiting", "opening"}
      /\ recovery'.at = "opening" => recovery'.client # None
      /\ link'.failed \/ link'.reconnecting
  BY <1>0, <1>1, <1>3, AttemptFacts DEF IInv, Typed
<1>7. deepgram' \in Connections /\ conns' \in [Connections -> Clients] /\ conns' = conns
  BY <1>0, <1>2 DEF IInv, Typed
<1> QED BY <1>0, <1>1, <1>3, <1>4, <1>6, <1>7, RunningStep

LEMMA WaitedKeeps ==
    ASSUME IInv, Waited
    PROVE IInv'
<1>0. /\ Running("waiting") /\ audio' = Rebased(audio)
      /\ recovery' = [recovery EXCEPT !.at = "opening", !.client = Unused]
      /\ UNCHANGED <<life, queue, processor, link, deepgram, conns>>
  BY DEF Waited
<1>1. /\ status = "listening" /\ recovery.at = "waiting" /\ recovery.item = 0
      /\ InFlight \in {0, 1} /\ Kept(audio, 0, InFlight, conns)
      /\ link.failed \/ link.reconnecting
  BY <1>0, RunningListens
<1>2. deepgram \in Connections
  BY <1>1 DEF IInv, Typed, Wired, Calling
<1>3. /\ recovery' \in Tasks /\ recovery'.at = "opening" /\ recovery'.item = 0
      /\ recovery'.client # None
  BY <1>0, <1>1, UnusedFacts, Numbers DEF IInv, Typed, Tasks
<1>4. Live' = {} /\ \A x \in Connections : conns[x].state = "closed" => conns[x].heard = <<>>
  BY <1>0, <1>1 DEF Live, IInv, Wired
<1>5. audio' \in Accounts /\ Kept(audio', 0, InFlight, conns) /\ audio'.received = audio.received
  BY <1>0, <1>1, KeptRebased DEF IInv, Typed
<1>6. Kept(audio', recovery'.item, InFlight, conns')
  BY <1>0, <1>3, <1>5
<1>7. /\ deepgram' \in Connections /\ conns' \in [Connections -> Clients] /\ link' \in Links
      /\ (link'.failed \/ link'.reconnecting) /\ conns' = conns
  BY <1>0, <1>1, <1>2 DEF IInv, Typed
<1>8. UNCHANGED <<life, queue, processor>>
  BY <1>0
<1> QED BY <1>0, <1>1, <1>3, <1>4, <1>5, <1>6, <1>7, <1>8, RunningStep

LEMMA ReportedKeeps ==
    ASSUME IInv, Reported
    PROVE IInv'
<1>0. /\ Running("reporting") /\ recovery' = NoTask
      /\ UNCHANGED <<life, queue, processor, audio, link, deepgram, conns>>
  BY DEF Reported
<1>1. /\ status = "listening" /\ recovery.at = "reporting" /\ recovery.item = 0
      /\ InFlight \in {0, 1} /\ Kept(audio, 0, InFlight, conns)
  BY <1>0, RunningListens
<1>2. deepgram \in Connections
  BY <1>1 DEF IInv, Typed, Wired, Calling
<1>3. recovery' \in Tasks /\ recovery'.at = "none" /\ recovery'.item = 0
  BY <1>0 DEF NoTask, Tasks
<1>4. /\ Live' \subseteq {deepgram'} /\ conns' \in [Connections -> Clients] /\ link' \in Links
      /\ \A x \in Connections : conns'[x].state = "closed" => conns'[x].heard = <<>>
      /\ audio' \in Accounts /\ audio'.received = audio.received /\ deepgram' \in Connections
      /\ link'.failed \/ link'.reconnecting \/ audio'.buffer = <<>>
  BY <1>0, <1>2 DEF Live, IInv, Typed, Wired, Sound
<1>5. Kept(audio', recovery'.item, InFlight, conns')
  BY <1>0, <1>1, <1>3
<1> QED BY <1>0, <1>1, <1>3, <1>4, <1>5, RunningStep

\* The buffer is empty, or its head is sent next.
LEMMA FlushFacts ==
    ASSUME NEW a \in Accounts, NEW client \in Connections, NEW n \in Nat, Flush(a, client, n),
           NEW s \in {0, 1}, NEW cs \in [Connections -> Clients], Kept(a, 0, s, cs), link \in Links,
           link.failed \/ link.reconnecting
    PROVE /\ audio' \in Accounts /\ audio'.received = a.received
          /\ Kept(audio', recovery'.item, s, cs)
          /\ link' \in Links /\ recovery' \in Tasks
          /\ recovery'.item # 0 <=> recovery'.at = "flushing"
          /\ recovery'.at \in {"reporting", "flushing"}
          /\ recovery'.at = "flushing" => recovery'.client = client
          /\ link'.failed \/ link'.reconnecting \/ audio'.buffer = <<>>
          /\ recovery'.at = "flushing" => link'.failed \/ link'.reconnecting
<1>1. CASE a.buffer = <<>>
  <2>1. recovery' = [NoTask EXCEPT !.at = "reporting"] /\ audio' = a /\ link' = Good
    BY <1>1 DEF Flush
  <2>2. recovery' \in Tasks /\ recovery'.item = 0 /\ recovery'.at = "reporting" /\ link' \in Links
    BY <2>1 DEF NoTask, Tasks, Good, Links
  <2> QED BY <1>1, <2>1, <2>2
<1>2. CASE a.buffer # <<>>
  <2>1. /\ recovery' = [NoTask EXCEPT !.at = "flushing", !.client = client, !.attempt = n,
                                     !.item = Head(a.buffer)]
        /\ audio' = [a EXCEPT !.buffer = Tail(a.buffer)] /\ UNCHANGED link
    BY <1>2 DEF Flush
  <2>2. PICK d : d = audio'
    OBVIOUS
  <2>3. /\ d \in Accounts /\ Kept(d, Head(a.buffer), 0, cs) /\ s = 0
        /\ Head(a.buffer) \in Frames
    BY <1>2, <2>1, <2>2, KeptTaken
  <2>4. /\ recovery' \in Tasks /\ recovery'.item = Head(a.buffer) /\ recovery'.at = "flushing"
        /\ recovery'.client = client
    BY <2>1, <2>3 DEF NoTask, Tasks
  <2>5. recovery'.item # 0
    BY <2>3, <2>4, Numbers
  <2>6. audio'.received = a.received
    BY <2>1 DEF Accounts
  <2> QED BY <2>1, <2>2, <2>3, <2>4, <2>5, <2>6
<1> QED BY <1>1, <1>2

LEMMA ReopenedKeeps ==
    ASSUME IInv, Reopened
    PROVE IInv'
<1>0. /\ Running("opening") /\ Opens(recovery.client) /\ deepgram' = recovery.client
      /\ Flush(audio, recovery.client, recovery.attempt)
      /\ UNCHANGED <<life, queue, processor>>
  BY DEF Reopened
<1>1. /\ status = "listening" /\ recovery.at = "opening" /\ recovery.item = 0
      /\ InFlight \in {0, 1} /\ Kept(audio, 0, InFlight, conns)
      /\ link.failed \/ link.reconnecting
  BY <1>0, RunningListens
<1>2. /\ recovery.client \in Connections /\ recovery.attempt \in Nat /\ Live = {}
      /\ link \in Links /\ audio \in Accounts
  BY <1>1 DEF IInv, Typed, Wired, Tasks
<1>3. PICK cs, s : cs = conns' /\ s = InFlight
  OBVIOUS
<1>4. /\ cs \in [Connections -> Clients] /\ Live' \subseteq {recovery.client}
      /\ \A x \in Connections : cs[x].heard = <<>>
  BY <1>0, <1>2, <1>3, OpensFacts DEF IInv
<1>5. Kept(audio, 0, s, cs)
  BY <1>1, <1>3, <1>4, KeptConns DEF IInv, Typed
<1>6. PICK k, n : k = recovery.client /\ n = recovery.attempt
  OBVIOUS
<1>7. Flush(audio, k, n) /\ s \in {0, 1} /\ k \in Connections /\ n \in Nat
  BY <1>0, <1>1, <1>2, <1>3, <1>6
<1>8. /\ audio' \in Accounts /\ audio'.received = audio.received
      /\ Kept(audio', recovery'.item, s, cs)
      /\ link' \in Links /\ recovery' \in Tasks
      /\ recovery'.item # 0 <=> recovery'.at = "flushing"
      /\ recovery'.at \in {"reporting", "flushing"}
      /\ recovery'.at = "flushing" => recovery'.client = k
      /\ link'.failed \/ link'.reconnecting \/ audio'.buffer = <<>>
      /\ recovery'.at = "flushing" => link'.failed \/ link'.reconnecting
  BY <1>1, <1>2, <1>4, <1>5, <1>7, FlushFacts
<1>9. deepgram' \in Connections /\ k # None /\ deepgram' = k
  BY <1>0, <1>2, <1>6, Numbers
<1> QED BY <1>0, <1>1, <1>3, <1>4, <1>6, <1>8, <1>9, RunningStep

LEMMA FlushedKeeps ==
    ASSUME IInv, Flushed
    PROVE IInv'
<1>0. /\ Running("flushing") /\ conns[recovery.client].state = "open"
      /\ conns' = [conns EXCEPT ![recovery.client].heard = Append(@, recovery.item)]
      /\ Flush([audio EXCEPT !.sent = audio.sent + 1], recovery.client, recovery.attempt)
      /\ UNCHANGED <<life, queue, processor, deepgram>>
  BY DEF Flushed
<1>1. /\ status = "listening" /\ recovery.at = "flushing"
      /\ InFlight \in {0, 1} /\ Kept(audio, recovery.item, InFlight, conns)
      /\ link.failed \/ link.reconnecting
  BY <1>0, RunningListens
<1>2. /\ recovery.client \in Connections /\ recovery.attempt \in Nat /\ recovery.client = deepgram
      /\ link \in Links /\ audio \in Accounts /\ recovery.item \in Frames
  BY <1>1 DEF IInv, Typed, Wired, Sound, Tasks
<1>3. InFlight = 0
  <2>1. InFlight = 1 => recovery.item = 0
    BY <1>1 DEF Kept, Holding
  <2> QED BY <1>1, <1>2, <2>1, Numbers
<1>4. PICK cs, a, k, n, f : cs = conns' /\ a = [audio EXCEPT !.sent = audio.sent + 1]
                       /\ k = recovery.client /\ n = recovery.attempt /\ f = recovery.item
  OBVIOUS
<1>5. /\ k \in Connections /\ f \in Frames /\ conns \in [Connections -> Clients] /\ f # 0
      /\ conns[k].state = "open" /\ n \in Nat /\ audio \in Accounts
  BY <1>0, <1>2, <1>4, Numbers DEF IInv, Typed
<1>c. cs = [conns EXCEPT ![k].heard = Append(@, f)] /\ a = [audio EXCEPT !.sent = audio.sent + 1]
  BY <1>0, <1>4
<1>6. a \in Accounts /\ Kept(a, 0, 0, cs)
  <2>1. Kept(audio, f, 0, conns) /\ f \in {0} \cup Frames /\ 0 \in {0, 1}
    BY <1>1, <1>3, <1>4, <1>5
  <2> QED BY <1>c, <1>5, <2>1, KeptHears
<1>7. a.received = audio.received
  BY <1>4, <1>5 DEF Accounts
<1>8. /\ cs \in [Connections -> Clients]
      /\ \A x \in Connections : cs[x].state = conns[x].state
      /\ \A x \in Connections : x # k => cs[x].heard = conns[x].heard
  <2>1. k \in Connections /\ f \in Frames /\ conns \in [Connections -> Clients]
    BY <1>5
  <2>2. cs = [conns EXCEPT ![k].heard = Append(@, f)]
    BY <1>c
  <2>3. Hears(conns, k, f, cs)
    BY <2>1, <2>2, ConnectionHears
  <2> QED BY <2>3 DEF Hears
<1>9. Live' \subseteq {deepgram} /\ \A x \in Connections : cs[x].state = "closed" => cs[x].heard = <<>>
  <2>1. Live' = Live
    BY <1>4, <1>8 DEF Live
  <2> QED BY <1>5, <1>8, <2>1 DEF IInv, Wired
<1>10. Flush(a, k, n)
  BY <1>0, <1>4
<1>11. /\ audio' \in Accounts /\ audio'.received = a.received
       /\ Kept(audio', recovery'.item, 0, cs)
       /\ link' \in Links /\ recovery' \in Tasks
       /\ recovery'.item # 0 <=> recovery'.at = "flushing"
       /\ recovery'.at \in {"reporting", "flushing"}
       /\ recovery'.at = "flushing" => recovery'.client = k
       /\ link'.failed \/ link'.reconnecting \/ audio'.buffer = <<>>
       /\ recovery'.at = "flushing" => link'.failed \/ link'.reconnecting
  BY <1>1, <1>2, <1>5, <1>6, <1>8, <1>10, FlushFacts
<1>12. deepgram' \in Connections /\ k # None /\ deepgram' = k /\ deepgram' = deepgram
  BY <1>0, <1>2, <1>4, Numbers
<1>13. audio'.received = audio.received /\ Kept(audio', recovery'.item, InFlight, conns')
  BY <1>3, <1>4, <1>7, <1>11
<1> QED BY <1>0, <1>1, <1>4, <1>8, <1>9, <1>11, <1>12, <1>13, RunningStep

LEMMA FlushFailsKeeps ==
    ASSUME IInv, FlushFails
    PROVE IInv'
<1>0. /\ Running("flushing") /\ audio' = [audio EXCEPT !.buffer = <<recovery.item>> \o audio.buffer]
      /\ conns' = [conns EXCEPT ![recovery.client].state = "lost"]
      /\ recovery' = [recovery EXCEPT !.at = "closing", !.item = 0]
      /\ link' = IF status = "listening"
                 THEN [link EXCEPT !.failed = TRUE, !.reconnecting = TRUE] ELSE link
      /\ UNCHANGED <<life, queue, processor, deepgram>>
  BY DEF FlushFails
<1>1. /\ status = "listening" /\ recovery.at = "flushing"
      /\ InFlight \in {0, 1} /\ Kept(audio, recovery.item, InFlight, conns)
  BY <1>0, RunningListens
<1>2. /\ recovery.client \in Connections /\ recovery.client = deepgram
      /\ audio \in Accounts /\ recovery.item \in Frames
  BY <1>1 DEF IInv, Typed, Wired, Sound, Tasks
<1>3. PICK cs, d, k, f, s : /\ cs = conns' /\ d = audio' /\ k = recovery.client
                            /\ f = recovery.item /\ s = InFlight
  OBVIOUS
<1>4. d \in Accounts /\ Kept(d, 0, 0, conns) /\ s = 0
  <2>1. /\ d = [audio EXCEPT !.buffer = <<f>> \o audio.buffer] /\ f \in Frames /\ s \in {0, 1}
        /\ conns \in [Connections -> Clients] /\ Kept(audio, f, s, conns) /\ audio \in Accounts
    BY <1>0, <1>1, <1>2, <1>3 DEF IInv, Typed
  <2> QED BY <2>1, KeptBack
<1>5. /\ cs \in [Connections -> Clients]
      /\ \A n \in Connections : cs[n].heard = conns[n].heard
      /\ \A n \in Connections : n # k => cs[n] = conns[n]
      /\ cs[k].state = "lost"
  BY <1>0, <1>2, <1>3, StateChanges DEF IInv, Typed
<1>6. Kept(d, 0, 0, cs)
  BY <1>4, <1>5, KeptConns DEF IInv, Typed
<1>7. Live' \subseteq {deepgram} /\ \A x \in Connections : cs[x].state = "closed" => cs[x].heard = <<>>
  <2>1. Live' \subseteq Live \cup {k}
    BY <1>3, <1>5 DEF Live
  <2> QED BY <1>2, <1>3, <1>5, <2>1 DEF IInv, Wired
<1>8. /\ recovery' \in Tasks /\ recovery'.at = "closing" /\ recovery'.item = 0
      /\ recovery'.client = recovery.client
  BY <1>0 DEF IInv, Typed, Tasks
<1>9. link' \in Links /\ link'.failed
  BY <1>0, <1>1 DEF IInv, Typed, Links
<1>10. audio'.received = audio.received /\ Kept(audio', recovery'.item, InFlight, conns')
  <2>1. audio'.received = audio.received
    BY <1>0, <1>2 DEF Accounts
  <2> QED BY <1>3, <1>4, <1>6, <1>8, <2>1
<1>11. deepgram' \in Connections /\ deepgram' = deepgram /\ deepgram # None
  BY <1>0, <1>2, Numbers
<1> QED BY <1>0, <1>1, <1>2, <1>3, <1>4, <1>5, <1>7, <1>8, <1>9, <1>10, <1>11, RunningStep

LEMMA CutsKeeps ==
    ASSUME IInv, Cuts
    PROVE IInv'
<1>0. /\ recovery.cancelled /\ recovery' = NoTask
      /\ audio' = [audio EXCEPT !.cut = IF recovery.item # 0 THEN audio.cut + 1 ELSE audio.cut]
      /\ UNCHANGED conns \/ Closes(recovery.client)
      /\ UNCHANGED <<life, queue, processor, link, deepgram>>
  BY DEF Cuts
<1>1. Kept(audio, recovery.item, InFlight, conns) /\ InFlight \in {0, 1} /\ audio \in Accounts
      /\ recovery.item \in {0} \cup Frames /\ conns \in [Connections -> Clients]
  BY DEF IInv, Typed, Tasks, Sound, InFlight
<1>2. PICK d, s, f : d = audio' /\ s = InFlight /\ f = recovery.item
  OBVIOUS
<1>3. d \in Accounts /\ Kept(d, 0, s, conns)
  <2>1. CASE f = 0
    <3>1. d = audio
      BY <1>0, <1>1, <1>2, <2>1 DEF Accounts
    <3> QED BY <1>1, <1>2, <2>1, <3>1
  <2>2. CASE f # 0
    <3>1. /\ d = [audio EXCEPT !.cut = audio.cut + 1] /\ f \in Frames /\ s \in {0, 1}
          /\ Kept(audio, f, s, conns)
      BY <1>0, <1>1, <1>2, <2>2
    <3>2. d \in Accounts /\ Kept(d, 0, 0, conns) /\ s = 0
      BY <1>1, <3>1, KeptCut
    <3> QED BY <3>2
  <2> QED BY <2>1, <2>2
<1>4. audio'.received = audio.received /\ audio'.buffer = audio.buffer
  BY <1>0, <1>1 DEF Accounts
<1>5. PICK cs : cs = conns'
  OBVIOUS
<1>6. /\ cs \in [Connections -> Clients] /\ Live' \subseteq Live
      /\ \A x \in Connections : cs[x].heard = conns[x].heard \/ cs[x].heard = <<>>
      /\ \A x \in Connections : cs[x].state = "closed" => cs[x].heard = <<>>
  <2>1. CASE UNCHANGED conns
    BY <1>1, <1>5, <2>1 DEF Live, IInv, Wired
  <2>2. CASE Closes(recovery.client)
    BY <1>5, <2>2, ClosesFacts DEF IInv
  <2> QED BY <1>0, <2>1, <2>2
<1>7. Kept(d, 0, s, cs)
  BY <1>1, <1>3, <1>6, KeptConns
<1>8. NoTask \in Tasks /\ NoTask.at = "none" /\ NoTask.item = 0
  BY DEF NoTask, Tasks
<1>9. Typed'
  BY <1>0, <1>2, <1>3, <1>5, <1>6, <1>8 DEF IInv, Typed, life
<1>10. Life'
  BY <1>0, LifeStays DEF IInv
<1>11. Wired'
  <2>1. (Mute' <=> Mute) /\ (Calling' <=> Calling)
    BY <1>0 DEF Mute, Calling, life
  <2> QED BY <1>0, <1>5, <1>6, <1>8, <2>1 DEF IInv, Wired
<1>12. Sound'
  <2>1. Kept(audio, recovery.item, InFlight, conns)'
    BY <1>0, <1>2, <1>5, <1>7, <1>8 DEF InFlight
  <2> QED BY <1>0, <1>4, <1>8, <2>1 DEF IInv, Sound, life
<1> QED BY <1>9, <1>10, <1>11, <1>12 DEF IInv

-----------------------------------------------------------------------------
(* The theorems *)

LEMMA InitHolds ==
    ASSUME Init
    PROVE IInv
<1>0. /\ control = Idle /\ status = "idle" /\ device = "off" /\ accept = FALSE /\ session = FALSE
      /\ queue = 0 /\ processor = Resting /\ audio = NoAudio /\ link = Good
      /\ deepgram = None /\ recovery = NoTask /\ conns = [c \in Connections |-> Closed]
  BY DEF Init
<1>1. Closed \in Clients /\ Closed.state = "closed" /\ Closed.heard = <<>>
  BY DEF Closed, Clients
<1>2. \A c \in Connections : conns[c].state = "closed" /\ conns[c].heard = <<>>
  BY <1>0, <1>1
<1>3. NoAudio \in Accounts /\ Kept(NoAudio, 0, 0, conns)
  BY <1>2, KeptReset
<1>4. Typed
  <2>1. control \in [op : Operations, at : Awaits]
    BY <1>0 DEF Idle, Operations, Awaits
  <2>2. processor \in Senders /\ link \in Links /\ recovery \in Tasks
    BY <1>0 DEF Resting, Senders, Good, Links, NoTask, Tasks
  <2>3. queue \in 0 .. QueueSize /\ conns \in [Connections -> Clients]
    BY <1>0, <1>1, Numbers
  <2> QED BY <1>0, <1>3, <2>1, <2>2, <2>3 DEF Typed
<1>5. Life
  BY <1>0 DEF Life, Idle, Ends, Stopping, At
<1>6. Wired
  <2>1. Live = {} /\ ~Calling
    BY <1>0, <1>2 DEF Live, Calling, Idle
  <2> QED BY <1>0, <1>2, <2>1 DEF Wired, NoTask
<1>7. Sound
  <2>1. Kept(audio, recovery.item, InFlight, conns)
    BY <1>0, <1>3 DEF InFlight, Resting, NoTask
  <2>2. audio.received + queue <= MaxFrames /\ audio.buffer = <<>>
    BY <1>0, Numbers DEF NoAudio
  <2> QED BY <1>0, <2>1, <2>2 DEF Sound, Resting, NoTask
<1> QED BY <1>4, <1>5, <1>6, <1>7 DEF IInv

LEMMA StuttersKeep ==
    ASSUME IInv, UNCHANGED vars
    PROVE IInv'
<1>0. UNCHANGED <<control, status, device, accept, session, queue, processor, audio, link,
                  deepgram, recovery, conns>>
  BY DEF vars, life, stream
<1>1. Live' = Live /\ InFlight' = InFlight /\ (Mute' <=> Mute) /\ (Calling' <=> Calling)
  BY <1>0 DEF Live, InFlight, Mute, Calling
<1>2. Typed'
  BY <1>0 DEF IInv, Typed
<1>3. Life'
  BY <1>0, LifeStays DEF IInv, life
<1>4. Wired'
  BY <1>0, <1>1 DEF IInv, Wired
<1>5. Kept(audio, recovery.item, InFlight, conns)'
  BY <1>0, <1>1 DEF IInv, Sound
<1>6. Sound'
  BY <1>0, <1>5 DEF IInv, Sound
<1> QED BY <1>2, <1>3, <1>4, <1>6 DEF IInv

LEMMA NextKeeps ==
    ASSUME IInv, [Next]_vars
    PROVE IInv'
<1>1. CASE UNCHANGED vars
  BY <1>1, StuttersKeep
<1>2. CASE Frame \/ Processor
  BY <1>2, FrameKeeps, ProcessKeeps, SentKeeps, SendFailsKeeps DEF Processor
<1>3. CASE Recovery
  BY <1>3, OldStoppedKeeps, WaitedKeeps, ReopenedKeeps, ReopenFailsKeeps, FlushedKeeps,
     FlushFailsKeeps, ReportedKeeps, CutsKeeps DEF Recovery
<1>4. CASE Request
  BY <1>4, StartKeeps, PauseKeeps, ResumeKeeps, StopKeeps, ShutdownKeeps DEF Request
<1>5. CASE Operation
  BY <1>5, PauseFailsKeeps, DeviceStoppedKeeps, DrainedKeeps, ReconnectCancelledKeeps,
     ClientStoppedKeeps, FinishedKeeps, ListFailsKeeps, ListedKeeps, OpenedKeeps, OpenFailsKeeps,
     SessionStartedKeeps, DeviceStartedKeeps, StartFailsKeeps, ResumeFailsKeeps DEF Operation
<1>6. CASE \E c \in Connections : Lost(c)
  BY <1>6, LostKeeps
<1> QED BY <1>1, <1>2, <1>3, <1>4, <1>5, <1>6 DEF Next

\* The types, the life of the operations, the one connection and the accounts
\* of the audio hold together at every step of controller.py.
THEOREM CaptureInvariance == Spec => []IInv
<1>1. Init => IInv
  BY InitHolds
<1>2. IInv /\ [Next]_vars => IInv'
  BY NextKeeps
<1> QED BY <1>1, <1>2, PTL DEF Spec

\* Whatever the interleaving of an operation, the reconnection and the
\* callbacks, at most one client is connected (two would write finals at one
\* offset), and the queue, the buffer and the numbers stay within their bounds.
THEOREM OneTypedConnectionAlways == Spec => []OneTypedConnection
<1>1. ASSUME IInv PROVE TypeOK
  <2>n. /\ audio.received \in Nat /\ audio.sent \in Nat /\ audio.dropped \in Nat /\ audio.cut \in Nat
        /\ audio.buffer \in Seq(Frames) /\ Len(audio.buffer) \in Nat /\ MaxFrames \in Nat
        /\ audio.base \in 0 .. MaxFrames
    BY <1>1, AccountFacts, Numbers DEF IInv, Typed
  <2>1. Len(audio.buffer) <= BufferSize + 1
    BY <1>1 DEF IInv, Sound, Kept, Holding, Fits
  <2>2. /\ audio.received <= MaxFrames /\ audio.sent <= audio.received
        /\ audio.dropped <= audio.received /\ audio.cut <= audio.received
    <3>1. PICK e : e = AtWork(recovery.item, InFlight)
      OBVIOUS
    <3>2. e \in Nat
      BY <1>1, <3>1, Numbers DEF AtWork, InFlight, IInv, Typed, Tasks
    <3>3. PICK r, t, d, c, n : /\ r = audio.received /\ t = audio.sent /\ d = audio.dropped
                               /\ c = audio.cut /\ n = Len(audio.buffer)
      OBVIOUS
    <3>4. r = t + n + d + c + e /\ r <= MaxFrames
      BY <1>1, <3>1, <3>3 DEF IInv, Sound, Kept, Holding, Sums
    <3>5. r \in Nat /\ t \in Nat /\ d \in Nat /\ c \in Nat /\ n \in Nat
      BY <2>n, <3>3
    <3>6. t <= r /\ d <= r /\ c <= r
      BY <3>2, <3>4, <3>5
    <3> QED BY <3>3, <3>4, <3>6
  <2>3. {audio.received, audio.base, audio.dropped, audio.sent} \subseteq 0 .. MaxFrames
        /\ audio.cut \in 0 .. MaxFrames
    BY <2>n, <2>2
  <2>4. DOMAIN link = DOMAIN Good
    BY <1>1 DEF IInv, Typed, Links, Good
  <2>5. /\ processor.frame \in {0} \cup Frames /\ processor.client \in {None} \cup Connections
        /\ recovery.at \in {"none", "stopping", "waiting", "opening", "flushing", "closing",
                            "reporting"}
        /\ \A c \in Connections : conns[c].state \in {"closed", "open", "lost"}
    BY <1>1 DEF IInv, Typed, Senders, Tasks, Clients
  <2> QED BY <1>1, <2>n, <2>1, <2>3, <2>4, <2>5 DEF IInv, Typed, TypeOK
<1>2. ASSUME IInv PROVE OneConnection
  <2>1. Live \subseteq {deepgram}
    BY <1>2 DEF IInv, Wired
  <2>2. IsFiniteSet({deepgram}) /\ Cardinality({deepgram}) = 1
    BY FS_Singleton
  <2>3. Cardinality(Live) <= Cardinality({deepgram})
    BY <2>1, <2>2, FS_Subset
  <2> QED BY <2>2, <2>3 DEF OneConnection
<1>3. IInv => OneTypedConnection
  BY <1>1, <1>2 DEF OneTypedConnection
<1> QED BY <1>3, CaptureInvariance, PTL

\* When no operation is under way and nothing is listened to, no client, task,
\* frame in flight or buffered audio of the ended session is left over.
THEOREM QuietAlways == Spec => []Quiet
<1>1. ASSUME IInv, control.op \in {"none", "down"}, status # "listening"
      PROVE /\ Live = {} /\ recovery = NoTask /\ ~accept
            /\ processor = Resting /\ audio.buffer = <<>>
            /\ session = (status = "paused")
  <2>1. control.at = "none"
    BY <1>1 DEF IInv, Life
  <2>2. Live = {} /\ recovery = NoTask
    BY <1>1, <2>1 DEF IInv, Wired, Mute
  <2>3. processor = Resting /\ audio.buffer = <<>>
    BY <1>1, <2>1 DEF IInv, Typed, Senders, Sound
  <2>4. ~accept /\ session = (status = "paused")
    BY <1>1, <2>1 DEF IInv, Typed, Life
  <2> QED BY <2>2, <2>3, <2>4
<1>2. IInv => Quiet
  BY <1>1 DEF Quiet
<1> QED BY <1>2, CaptureInvariance, PTL

LEMMA LinedInOrder ==
    ASSUME NEW h \in Seq(Frames), NEW b \in Seq(Frames), NEW n, NEW m, Lined(h, 0, b, n, m)
    PROVE \A i, j \in 1 .. Len(h \o b) : i < j => (h \o b)[i] < (h \o b)[j]
<1>1. PICK t : t = h \o b
  OBVIOUS
<1>2. /\ Len(h) \in Nat /\ Len(b) \in Nat /\ Len(t) = Len(h) + Len(b)
      /\ \A i \in 1 .. Len(t) : i <= Len(h) => t[i] = h[i]
      /\ \A i \in 1 .. Len(t) : i > Len(h) => t[i] = b[i - Len(h)]
  BY <1>1, ConcatProperties
<1>3. ASSUME NEW i \in 1 .. Len(t), NEW j \in 1 .. Len(t), i < j
      PROVE t[i] < t[j]
  <2>1. CASE j <= Len(h)
    <3>1. i \in 1 .. Len(h) /\ j \in 1 .. Len(h) /\ t[i] = h[i] /\ t[j] = h[j]
      BY <1>2, <1>3, <2>1
    <3> QED BY <1>3, <3>1 DEF Lined
  <2>2. CASE i <= Len(h) /\ j > Len(h)
    <3>1. i \in 1 .. Len(h) /\ j - Len(h) \in 1 .. Len(b) /\ t[i] = h[i] /\ t[j] = b[j - Len(h)]
      BY <1>2, <1>3, <2>2
    <3> QED BY <3>1 DEF Lined
  <2>3. CASE i > Len(h)
    <3>1. /\ i - Len(h) \in 1 .. Len(b) /\ j - Len(h) \in 1 .. Len(b) /\ i - Len(h) < j - Len(h)
          /\ t[i] = b[i - Len(h)] /\ t[j] = b[j - Len(h)]
      BY <1>2, <1>3, <2>3
    <3> QED BY <3>1 DEF Lined
  <2> QED BY <1>2, <1>3, <2>1, <2>2, <2>3
<1> QED BY <1>1, <1>3

\* Every frame received was sent, waits, was dropped or was cut by a
\* cancellation; and a connection hears its frames once, in order, before those
\* still in the buffer.
THEOREM AudioKeptAlways == Spec => []AudioKept
<1>1. ASSUME IInv PROVE Accounted
  <2>1. PICK e : e = AtWork(recovery.item, InFlight)
    OBVIOUS
  <2>2. /\ audio.received = audio.sent + Len(audio.buffer) + audio.dropped + audio.cut + e
        /\ recovery.item # 0 => InFlight = 0
    BY <1>1, <2>1 DEF IInv, Sound, Kept, Holding, Sums, InFlight
  <2>n. /\ audio.received \in Nat /\ audio.sent \in Nat /\ audio.dropped \in Nat /\ audio.cut \in Nat
        /\ Len(audio.buffer) \in Nat
    BY <1>1, AccountFacts DEF IInv, Typed
  <2>3. PICK S \in Nat : S = audio.sent + Len(audio.buffer) + audio.dropped + audio.cut
    BY <2>n
  <2>4. audio.received = S + e
    BY <2>2, <2>3
  <2>5. S + (IF processor.at = "sending" THEN 1 ELSE 0) + (IF recovery.item # 0 THEN 1 ELSE 0) = S + e
    <3>1. CASE recovery.item # 0
      <4>1. processor.at # "sending" /\ e = 1
        BY <2>1, <2>2, <3>1 DEF AtWork, InFlight
      <4> QED BY <3>1, <4>1
    <3>2. CASE recovery.item = 0
      <4>1. e = IF processor.at = "sending" THEN 1 ELSE 0
        BY <2>1, <3>2 DEF AtWork, InFlight
      <4> QED BY <3>2, <4>1
    <3> QED BY <3>1, <3>2
  <2> QED BY <2>3, <2>4, <2>5 DEF Accounted
<1>2. ASSUME IInv PROVE InOrder
  <2> SUFFICES ASSUME NEW c \in Live, NEW rest, NEW all, all = conns[c].heard \o rest,
                      rest = IF recovery.client = c /\ recovery.item # 0
                             THEN <<recovery.item>> \o audio.buffer ELSE audio.buffer
               PROVE \A i, j \in 1 .. Len(all) : i < j => all[i] < all[j]
    BY DEF InOrder
  <2>1. PICK h, b, f, n, m : /\ h = conns[c].heard /\ b = audio.buffer /\ f = recovery.item
                             /\ n = audio.received /\ m = Upto(audio.received, InFlight)
    OBVIOUS
  <2>2. h \in Seq(Frames) /\ b \in Seq(Frames) /\ f \in {0} \cup Frames /\ c \in Connections
    BY <1>2, <2>1, HeardFacts, AccountFacts DEF IInv, Typed, Tasks, Live
  <2>3. Lined(h, f, b, n, m)
    BY <1>2, <2>1, <2>2 DEF IInv, Sound, Kept, Holding, AllLined
  <2>4. CASE f = 0
    <3>1. all = h \o b /\ Lined(h, 0, b, n, m)
      BY <2>1, <2>3, <2>4
    <3> QED BY <2>2, <3>1, LinedInOrder
  <2>5. CASE f # 0
    <3>1. recovery.client = c
      <4>1. recovery.at = "flushing"
        BY <1>2, <2>1, <2>5 DEF IInv, Sound
      <4> QED BY <1>2, <4>1 DEF IInv, Wired
    <3>2. f \in Frames /\ all = h \o (<<f>> \o b)
      BY <2>1, <2>2, <2>5, <3>1
    <3>3. Lined(h, 0, <<f>> \o b, n, m) /\ <<f>> \o b \in Seq(Frames)
      BY <2>2, <2>3, <3>2, LinedBack, PushFacts
    <3> QED BY <2>2, <3>2, <3>3, LinedInOrder
  <2> QED BY <2>4, <2>5
<1>3. IInv => AudioKept
  BY <1>1, <1>2 DEF AudioKept
<1> QED BY <1>3, CaptureInvariance, PTL

=============================================================================
