-------------------------- MODULE SessionStoreProofs --------------------------
(***************************************************************************)
(* What the session store keeps, for any number of sessions, captions,     *)
(* crashes and failed writes.  An operation is a list of writes, so the    *)
(* invariant has two halves: what is true of a directory at any instant,   *)
(* whatever interrupts an operation (Sound), and what the writes that are  *)
(* left will do to it (Todo).  Each write moves one list to the next.      *)
(***************************************************************************)
EXTENDS SessionStore, SequenceTheorems, WellFoundedInduction, TLAPS

-----------------------------------------------------------------------------
(* What is true of a directory at any instant *)

Has(log, types, g) ==
    \E i \in 1 .. Len(log) : log[i].type \in types /\ log[i].segment = g

\* The captions whose original, and whose translation, an assembly shows.
Spoken(log) == {g \in Segments : Has(log, {"final_transcript"}, g)}
Shared(log) ==
    {g \in Segments : Has(log, FinalTypes, g) /\ Has(log, {"translation"}, g)}

\* A caption is made final once.
Single(log) ==
    \A i, j \in 1 .. Len(log) :
        /\ log[i].type \in FinalTypes /\ log[j].type \in FinalTypes
        /\ log[i].segment = log[j].segment
        => i = j

\* What the policy p of a session lets a row hold.
Fit(row, p) ==
    /\ row.type = "final_transcript" => p.save_original
    /\ row.type = "segment_marker" => ~row.text
    /\ row.type = "translation" => p.save_translation
AllFit(log, p) == \A i \in 1 .. Len(log) : Fit(log[i], p)

Built(d) ==
    /\ d \in Directory
    /\ ~d.dir => d.manifest = NoFile /\ ~d.analysis
    /\ d.manifest = NoFile => d.session = NoFile /\ d.events = <<>>

\* A manifest m tells of a kept analysis only if there is one.
Backs(m, kept) ==
    m.policy.save_analysis /\ m.analysis_status = "completed" => kept

Granted(d) ==
    /\ AllFit(d.events, ManifestOf(d).policy)
    /\ AllFit(d.mirror, ManifestOf(d).policy)
    /\ ManifestOf(d).policy.save_analysis \/ ~d.analysis

Showing(d) ==
    /\ Single(Source(d))
    /\ d.session # NoFile =>
           /\ Originals(d.session) \subseteq Spoken(Source(d))
           /\ Translations(d.session) \subseteq Shared(Source(d))
           /\ d.session.analysis => d.analysis
    /\ d.manifest # NoFile => Backs(d.manifest, d.analysis)

Agreed(d) ==
    d.manifest # NoFile /\ d.session # NoFile =>
        (d.manifest.status \in Final =>
            \A kind \in Exports : d[kind] = Rendered(kind, d.session))

Sound(d) == Built(d) /\ Granted(d) /\ Showing(d) /\ Agreed(d)

-----------------------------------------------------------------------------
(* What the writes that are left will do *)

\* The two kinds of writes: a failure is recorded, or raised to the caller.
Caught(f, v) == Write(f, v, TRUE)
Raised(f, v) == Write(f, v, FALSE)
Yes == TRUE
No == FALSE

Outcomes == {"translation", "translation_error"}

\* What session.json tells of a finished session is what the manifest and the
\* log say, but for the status of the analysis.
Nearly(d) ==
    d.manifest # NoFile /\ d.session # NoFile =>
        (d.manifest.status \in Final =>
            /\ d.session.status = d.manifest.status
            /\ \A g \in DOMAIN d.session.segments :
                   d.session.segments[g].translation_status =
                       Segment(Source(d), g).translation_status)
Told(d) ==
    /\ Nearly(d)
    /\ d.manifest # NoFile /\ d.session # NoFile =>
           (d.manifest.status \in Final =>
               d.session.analysis_status = d.manifest.analysis_status)

\* The session is at its end.
Over(d) == d.manifest # NoFile => d.manifest.status \in Final \cup {"error"}

\* An operation leaves a directory in this state: u says that nothing has
\* failed, o that the session is of an earlier run.
Leaves(d, u, o) == (u => Told(d)) /\ (o => Over(d))

\* finalize_session by the manifest m, the log and whether there is an analysis
Begun(m) == [m EXCEPT !.status = "finalizing"]
Ending(m, end) == [m EXCEPT !.status = end]
Doc(m, log, an) ==
    [status |-> m.status,
     segments |-> Assembled(log),
     analysis |-> m.policy.save_analysis /\ an,
     analysis_status |-> m.analysis_status]
Pub(m, log, an, end) ==
    Publication(Doc(Begun(m), log, an)) \o
    <<Caught("manifest", Ending(m, end)),
      Caught("session", Doc(Ending(m, end), log, an))>>
Core(m, log, an, end) ==
    <<Raised("manifest", Begun(m))>> \o
    IF Undecodable(log) THEN <<Failed(Begun(m))>> ELSE Pub(m, log, an, end)
MakeDir == <<Raised("dir", Yes)>>
Cores(m, log, an) ==
    {Core(m, log, an, end) : end \in Final} \cup
    {MakeDir \o Core(m, log, an, end) : end \in Final}

\* The k-th write of a publication is next.
Published(d, end, k) ==
    /\ d.manifest # NoFile /\ ~Undecodable(Source(d))
    /\ d.manifest = IF k = 6 THEN Ending(d.manifest, end) ELSE Begun(d.manifest)
    /\ k > 1 => d.session = Doc(Begun(d.manifest), Source(d), d.analysis)
    /\ k > 2 => d.transcript_original = Rendered("transcript_original", d.session)
    /\ k > 3 => d.transcript_korean = Rendered("transcript_korean", d.session)
    /\ k > 4 => d.meeting_report = Rendered("meeting_report", d.session)
Publishing(d, ws) ==
    \E end \in Final, k \in 1 .. 6 :
        /\ Published(d, end, k)
        /\ ws = SubSeq(Pub(d.manifest, Source(d), d.analysis, end), k, 6)

Finalizing(d, ws) == ws \in Cores(ManifestOf(d), Source(d), d.analysis)

\* The manifest m replaces the one of d.
Renews(d, m) ==
    /\ m \in Manifest
    /\ m.policy = ManifestOf(d).policy
    /\ m.status \in Final => m.status = ManifestOf(d).status
ManifestWrite(m) == <<Raised("manifest", m)>>

\* stop_session and save_analysis, with the analysis stored
Renewing(d, ws) ==
    \E m \in Manifest :
        /\ Renews(d, m) /\ Backs(m, d.analysis)
        /\ \E rest \in Cores(m, Source(d), d.analysis) : ws = ManifestWrite(m) \o rest

\* save_analysis
Keeping(d, ws) ==
    \E m \in Manifest :
        /\ Renews(d, m) /\ m.policy.save_analysis
        /\ \E rest \in Cores(m, Source(d), Yes) :
               ws = <<Raised("analysis", Yes)>> \o (ManifestWrite(m) \o rest)

\* update_status
Marking(d, ws, o) ==
    /\ ~o /\ d.manifest # NoFile
    /\ \E m \in Manifest :
           /\ Renews(d, m) /\ Backs(m, d.analysis) /\ m.status \notin Final
           /\ ws = ManifestWrite(m)

\* A finalization that failed.
Losing(d, ws) == d.manifest # NoFile /\ ws = <<Failed(d.manifest)>>

\* start_session
Starting(d, ws, o) ==
    /\ ~o /\ d.manifest = NoFile /\ d.mirror = <<>> /\ ~d.analysis
    /\ \E m \in Manifest :
           /\ m.status = "running" /\ m.analysis_status # "completed"
           /\ ws \in {MakeDir \o ManifestWrite(m), ManifestWrite(m)}

\* append_*: the row goes to the log, perhaps to the root log, and a finished
\* session is finalized again.
Appends(d, ws, row, u, o) ==
    /\ d.manifest # NoFile /\ (d.events = <<>> => d.mirror = <<>>)
    /\ row \in Entry /\ Fit(row, d.manifest.policy)
    /\ row.type \in FinalTypes => ~Has(d.events, FinalTypes, row.segment)
    /\ Leaves(d, u, o)
    /\ LET log == Appended(d.events, row)
           again == IF d.manifest.status \in Final
                    THEN Cores(d.manifest, log, d.analysis) ELSE {<<>>}
       IN  \E x \in {<<>>, <<Raised("mirror", Appended(d.mirror, row))>>},
              rest \in {<<>>} \cup again :
              /\ row.type \in Outcomes => rest \in again
              /\ ws = <<Raised("events", log)>> \o (x \o rest)
Mirrors(d, ws, row, u, o) ==
    /\ d.manifest # NoFile /\ d.events # <<>>
    /\ row \in Entry /\ Fit(row, d.manifest.policy)
    /\ \E rest \in {<<>>} \cup Cores(d.manifest, Source(d), d.analysis) :
           /\ rest = <<>> => Leaves(d, u, o)
           /\ ws = <<Raised("mirror", Appended(d.mirror, row))>> \o rest

\* set_analysis_status, and its second write
Retold(d, m) ==
    IF d.session = NoFile THEN <<>>
    ELSE <<Raised("session", [d.session EXCEPT !.analysis_status = m.analysis_status])>>
Analysing(d, ws, u, o) ==
    /\ Leaves(d, u, o)
    /\ \E m \in Manifest :
           /\ Renews(d, m) /\ Backs(m, d.analysis)
           /\ m.status = ManifestOf(d).status
           /\ ws = ManifestWrite(m) \o Retold(d, m)
Retelling(d, ws, u, o) ==
    /\ d.manifest # NoFile /\ d.session # NoFile
    /\ (u => Nearly(d)) /\ (o => Over(d))
    /\ ws = Retold(d, d.manifest)

Todo(d, ws, row, u, o) ==
    \/ Starting(d, ws, o)
    \/ Marking(d, ws, o)
    \/ Appends(d, ws, row, u, o)
    \/ Mirrors(d, ws, row, u, o)
    \/ Analysing(d, ws, u, o)
    \/ Retelling(d, ws, u, o)
    \/ Keeping(d, ws)
    \/ Renewing(d, ws)
    \/ Finalizing(d, ws)
    \/ Publishing(d, ws)
    \/ Losing(d, ws)

-----------------------------------------------------------------------------
(* The inductive invariant *)

Kinds == {"start", "status", "stopping", "stop", "append", "finalize",
          "recover", "analysis_status", "save_analysis"}

\* Nothing but the start of a session and its own pipeline makes it live.
Old(s) == faults = 0 /\ ~Live(s) /\ job.kind # "start"

Typed ==
    /\ active \in Sessions \cup {NoSession}
    /\ policy \in Policies
    /\ capture \in {"idle", "starting", "running", "paused", "stopping",
                    "cleanup", "down", "recovering"}
    /\ stage \in [Sessions -> [Segments ->
           {"gone", "unheard", "final", "quality", "normalized", "settled"}]]
    /\ analysing \in [session : Sessions \cup {NoSession},
                      outcome : {"working", "failed"}]
    /\ scan \subseteq Sessions
    /\ acked \in [Sessions -> SUBSET Entry]
    /\ crashes \in 0 .. MaxCrashes /\ faults \in 0 .. MaxFaults

\* What a start, and an append, are about.
StartIsOn ==
    job.kind = "start" =>
        /\ job.ok /\ ~Live(job.session)
        /\ disk[job.session].mirror = <<>> /\ disk[job.session].events = <<>>
        /\ Starting(disk[job.session], job.writes, No)
AppendIsOn ==
    /\ job.kind # "append" => job.row = NoFile
    /\ job.kind = "append" =>
           /\ Live(job.session) /\ job.row \in Entry
           /\ job.row.type \in FinalTypes =>
                  stage[job.session][job.row.segment] # "unheard"

\* The operation under way and the state of the capture.
Working ==
    /\ DOMAIN job = DOMAIN NoJob
    /\ job.kind \in Kinds \cup {"none"} /\ job.ok \in BOOLEAN
    /\ LockFree <=> job.kind = "none"
    /\ ~LockFree => job.session \in Sessions /\ capture # "down"
    /\ capture = "starting" <=> job.kind = "start"
    /\ StartIsOn /\ AppendIsOn
    /\ job.kind = "stop" => capture = "stopping" /\ active = NoSession
    /\ job.kind = "stopping" => capture = "stopping"
    /\ capture \in {"running", "paused", "stopping", "cleanup"} =>
           active # NoSession \/ job.kind = "stop"
    /\ active # NoSession => Live(active)
    /\ capture = "down" => ~(\E s \in Sessions : Live(s))
    /\ capture # "recovering" => scan = {}

Directories == disk \in [Sessions -> Directory] /\ \A s \in Sessions : Sound(disk[s])

\* The operation has writes left, and they are what they should be.
AtWork ==
    ~LockFree =>
        /\ job.writes # <<>>
        /\ \E u, o \in BOOLEAN :
               /\ Undisturbed => u
               /\ Old(job.session) => o
               /\ Todo(disk[job.session], job.writes, job.row, u, o)

\* What is true of a session at which no operation is at work.
AtRest ==
    \A s \in Sessions :
        job.session # s =>
            /\ Undisturbed => Told(disk[s])
            /\ faults = 0 /\ ~Live(s) /\ capture # "down" /\ s \notin scan => Over(disk[s])

\* A session that is being recorded.
Streaming ==
    \A s \in Sessions :
        Live(s) =>
            /\ disk[s].manifest # NoFile
            /\ disk[s].events = <<>> => disk[s].mirror = <<>>
            /\ \A g \in Segments :
                   stage[s][g] = "unheard" => ~Has(disk[s].events, FinalTypes, g)

IInv == Typed /\ Working /\ Directories /\ AtWork /\ AtRest /\ Streaming

\* An acknowledged row is in the log, or continues a line that is cut; the log of
\* the session that is open ends in a whole line unless a write failed.
InLog(d, row) == \E i \in 1 .. Len(d.events) : d.events[i] = row
Kept(G, d, row) == InLog(d, row) \/ row \in G
Remembered ==
    /\ glued \in [Sessions -> SUBSET Entry]
    /\ \A s \in Sessions :
           /\ faults = 0 => glued[s] = {}
           /\ faults = 0 /\ Live(s) => Whole(disk[s].events)
           /\ \A row \in acked[s] :
                  Kept(glued[s], disk[s], row) /\ row.type \notin TornTypes
    /\ job.kind = "append" =>
           /\ job.row.type \notin TornTypes
           /\ \/ Kept(glued[job.session], disk[job.session], job.row)
              \/ Head(job.writes).file = "events"
-----------------------------------------------------------------------------
(* Sequences *)

LEMMA ConsIs ==
    ASSUME NEW S, NEW w \in S, NEW rest \in Seq(S), NEW ws, ws = <<w>> \o rest
    PROVE /\ ws \in Seq(S) /\ ws # <<>> /\ Len(ws) = Len(rest) + 1
          /\ Head(ws) = w /\ Tail(ws) = rest /\ ws[1] = w
<1>1. <<w>> \in Seq(S) /\ Len(<<w>>) = 1 /\ <<w>>[1] = w
  OBVIOUS
<1>2. PICK n : n = Len(rest)
  OBVIOUS
<1>3. n \in Nat
  BY <1>2, LenProperties
<1>4. /\ ws \in Seq(S) /\ Len(ws) = 1 + n
      /\ \A i \in 1 .. 1 + n : ws[i] = IF i <= 1 THEN <<w>>[i] ELSE rest[i - 1]
  BY <1>1, <1>2, ConcatProperties
<1>5. ws # <<>> /\ ws[1] = w
  <2>1. Len(ws) # 0
    BY <1>3, <1>4
  <2>2. 1 \in 1 .. 1 + n
    BY <1>3
  <2> QED BY <1>1, <1>4, <2>1, <2>2, EmptySeq
<1>6. Head(ws) = w
  BY <1>4, <1>5
<1>7. PICK t : t = Tail(ws)
  OBVIOUS
<1>8. /\ t \in Seq(S) /\ Len(t) = Len(ws) - 1
      /\ \A i \in 1 .. Len(t) : t[i] = ws[i + 1]
  BY <1>4, <1>5, <1>7, HeadTailProperties
<1>9. t = rest
  <2>1. Len(t) = n
    BY <1>3, <1>4, <1>8
  <2>2. ASSUME NEW i \in 1 .. n PROVE t[i] = rest[i]
    <3>1. t[i] = ws[i + 1]
      BY <1>8, <2>1
    <3>2. i + 1 \in 1 .. 1 + n /\ ~(i + 1 <= 1) /\ i + 1 - 1 = i
      BY <1>3
    <3> QED BY <1>4, <3>1, <3>2
  <2> QED BY <1>2, <1>8, <2>1, <2>2, SeqEqual
<1>10. Len(ws) = Len(rest) + 1
  BY <1>2, <1>3, <1>4
<1> QED BY <1>4, <1>5, <1>6, <1>7, <1>9, <1>10

LEMMA AppendIs ==
    ASSUME NEW S, NEW q \in Seq(S), NEW e \in S, NEW v, v = Append(q, e)
    PROVE /\ v \in Seq(S) /\ Len(q) \in Nat /\ Len(v) = Len(q) + 1
          /\ DOMAIN q = 1 .. Len(q) /\ DOMAIN v = 1 .. Len(q) + 1
          /\ \A i \in 1 .. Len(q) : v[i] = q[i]
          /\ v[Len(q) + 1] = e
<1>1. /\ v \in Seq(S) /\ Len(v) = Len(q) + 1
      /\ \A i \in 1 .. Len(q) : v[i] = q[i]
      /\ v[Len(q) + 1] = e
  BY AppendProperties
<1>2. Len(q) \in Nat /\ DOMAIN q = 1 .. Len(q) /\ DOMAIN v = 1 .. Len(v)
  BY <1>1, LenProperties
<1> QED BY <1>1, <1>2

LEMMA NatLeast ==
    ASSUME NEW S \in SUBSET Nat, S # {}
    PROVE \E i \in S : \A j \in S : i <= j
<1>1. IsWellFoundedOn(OpToRel(<, Nat), Nat)
  BY NatLessThanWellFounded
<1>2. PICK i \in S : \A j \in S : ~(<<j, i>> \in OpToRel(<, Nat))
  BY <1>1, WFMin
<1>3. ASSUME NEW j \in S, j < i PROVE FALSE
  <2>1. <<j, i>> \in OpToRel(<, Nat)
    BY <1>3 DEF OpToRel
  <2> QED BY <1>2, <2>1, Zenon
<1>4. \A j \in S : j \in Nat /\ i \in Nat /\ ~(j < i)
  BY <1>3
<1> QED BY <1>4

\* A set of positions has a last one.
LEMMA GreatestOf ==
    ASSUME NEW n \in Nat, NEW T \in SUBSET (1 .. n), T # {}
    PROVE \E i \in T : \A j \in T : j <= i
<1> DEFINE S == {k \in 0 .. n : n - k \in T}
<1>1. PICK x \in T : TRUE
  OBVIOUS
<1>2. x \in 1 .. n /\ n - x \in 0 .. n /\ n - (n - x) = x
  BY <1>1
<1>3. n - x \in S
  BY <1>1, <1>2
<1>4. S \in SUBSET Nat /\ S # {}
  <2>1. \A k \in S : k \in 0 .. n
    OBVIOUS
  <2>2. \A k \in 0 .. n : k \in Nat
    OBVIOUS
  <2> QED BY <1>3, <2>1, <2>2, Zenon
<1>5. PICK i \in S : \A j \in S : i <= j
  BY <1>4, NatLeast
<1>6. n - i \in T /\ i \in 0 .. n
  BY <1>5
<1>7. ASSUME NEW j \in T PROVE j <= n - i
  <2>1. j \in 1 .. n
    OBVIOUS
  <2>2. n - j \in 0 .. n /\ n - (n - j) = j
    BY <2>1
  <2>3. n - j \in S
    BY <2>2
  <2>4. i <= n - j
    BY <1>5, <2>3
  <2> QED BY <1>6, <2>1, <2>4
<1> QED BY <1>6, <1>7

-----------------------------------------------------------------------------
(* The log and its assembly *)

LEMMA LastPositionIs ==
    ASSUME NEW log \in Seq(Entry), NEW types, NEW g
    PROVE /\ LastPosition(log, types, g) \in 0 .. Len(log)
          /\ Has(log, types, g) <=> LastPosition(log, types, g) > 0
          /\ LET p == LastPosition(log, types, g)
             IN  p > 0 => /\ p \in 1 .. Len(log)
                          /\ log[p].type \in types /\ log[p].segment = g
<1>1. PICK n, at, p : /\ n = Len(log) /\ at = Positions(log, types, g)
                      /\ p = LastPosition(log, types, g)
  OBVIOUS
<1>2. n \in Nat /\ DOMAIN log = 1 .. n
  BY <1>1, LenProperties
<1>3. \A i : i \in at <=> i \in 1 .. n /\ log[i].type \in types /\ log[i].segment = g
  BY <1>1, <1>2 DEF Positions
<1>4. p = IF at = {} THEN 0 ELSE CHOOSE i \in at : \A j \in at : j <= i
  BY <1>1 DEF LastPosition
<1>5. Has(log, types, g) <=> at # {}
  BY <1>1, <1>3 DEF Has
<1>6. CASE at = {}
  BY <1>1, <1>2, <1>4, <1>5, <1>6
<1>7. CASE at # {}
  <2>1. at \in SUBSET (1 .. n)
    BY <1>3
  <2>2. \E i \in at : \A j \in at : j <= i
    BY <1>2, <1>7, <2>1, GreatestOf
  <2>3. p \in at
    BY <1>4, <1>7, <2>2
  <2>4. p \in 1 .. n /\ log[p].type \in types /\ log[p].segment = g
    BY <1>3, <2>3
  <2>5. p > 0 /\ p \in 0 .. n
    BY <1>2, <2>4
  <2> QED BY <1>1, <1>5, <1>7, <2>4, <2>5
<1> QED BY <1>6, <1>7

LEMMA OutcomeIs ==
    ASSUME NEW s \in Nat, NEW f \in Nat
    PROVE /\ Outcome(s, f) \in {"success", "failed", "missing"}
          /\ Outcome(s, f) = "success" <=> s > 0
BY DEF Outcome

LEMMA LoggedIs ==
    ASSUME NEW log \in Seq(Entry), NEW types
    PROVE /\ Logged(log, types) \subseteq Segments
          /\ \A g : g \in Logged(log, types) <=> Has(log, types, g)
<1>1. PICK n : n = Len(log)
  OBVIOUS
<1>2. DOMAIN log = 1 .. n /\ \A i \in 1 .. n : log[i] \in Entry
  BY <1>1, LenProperties, ElementOfSeq
<1>3. \A i \in 1 .. n : log[i].segment \in Segments
  BY <1>2 DEF Entry
<1>4. \A g : g \in Logged(log, types) <=> Has(log, types, g)
  BY <1>1, <1>2 DEF Logged, Has
<1>5. \A g : Has(log, types, g) => g \in Segments
  BY <1>1, <1>3 DEF Has
<1> QED BY <1>4, <1>5

LEMMA SegmentIs ==
    ASSUME NEW log \in Seq(Entry), NEW g
    PROVE /\ Segment(log, g) \in AssembledSegment
          /\ Segment(log, g).original =
                 (log[LastPosition(log, FinalTypes, g)].type = "final_transcript")
          /\ Segment(log, g).translation_status = "success" <=>
                 Has(log, {"translation"}, g)
          /\ Segment(log, g).translation_status =
                 Outcome(LastPosition(log, {"translation"}, g),
                         LastPosition(log, {"translation_error"}, g))
<1>1. PICK original, normalized, status, error :
        /\ original = (log[LastPosition(log, FinalTypes, g)].type = "final_transcript")
        /\ normalized = (original \/ Positions(log, {"context_normalization"}, g) # {})
        /\ status = Outcome(LastPosition(log, {"translation"}, g),
                            LastPosition(log, {"translation_error"}, g))
        /\ error = (LastPosition(log, {"translation_error"}, g) >
                        LastPosition(log, {"translation"}, g))
  OBVIOUS
<1>2. Segment(log, g) = [original |-> original, normalized |-> normalized,
                         translation_status |-> status, error |-> error]
  BY <1>1, Zenon DEF Segment
<1>3. original \in BOOLEAN /\ normalized \in BOOLEAN /\ error \in BOOLEAN
  <2>1. original \in BOOLEAN
    BY <1>1
  <2>2. normalized \in BOOLEAN
    BY <1>1
  <2>3. error \in BOOLEAN
    BY <1>1
  <2> QED BY <2>1, <2>2, <2>3
<1>4. PICK s, f : /\ s = LastPosition(log, {"translation"}, g)
                  /\ f = LastPosition(log, {"translation_error"}, g)
  OBVIOUS
<1>5. s \in 0 .. Len(log) /\ f \in 0 .. Len(log) /\ (Has(log, {"translation"}, g) <=> s > 0)
  BY <1>4, LastPositionIs
<1>6. s \in Nat /\ f \in Nat
  BY <1>5
<1>7. /\ status \in {"success", "failed", "missing"}
      /\ status = "success" <=> s > 0
  BY <1>1, <1>4, <1>6, OutcomeIs
<1>8. Segment(log, g) \in AssembledSegment
  BY <1>2, <1>3, <1>7 DEF AssembledSegment
<1>9. Segment(log, g).original = original /\ Segment(log, g).translation_status = status
  BY <1>2
<1> QED BY <1>1, <1>5, <1>7, <1>8, <1>9, Zenon

LEMMA AssembledIs ==
    ASSUME NEW log \in Seq(Entry), NEW segs, segs = Assembled(log)
    PROVE /\ segs \in Assemblies
          /\ DOMAIN segs = Logged(log, FinalTypes)
          /\ \A g \in DOMAIN segs : segs[g] = Segment(log, g)
<1>1. DOMAIN segs = Logged(log, FinalTypes) /\ \A g \in DOMAIN segs : segs[g] = Segment(log, g)
  BY DEF Assembled
<1>2. Logged(log, FinalTypes) \in SUBSET Segments
  BY LoggedIs
<1>3. segs \in [Logged(log, FinalTypes) -> AssembledSegment]
  BY SegmentIs DEF Assembled
<1> QED BY <1>1, <1>2, <1>3, Zenon DEF Assemblies

\* What an assembly of a log in which each caption is final once shows.
LEMMA AssembledShows ==
    ASSUME NEW log \in Seq(Entry), Single(log), NEW doc, doc.segments = Assembled(log)
    PROVE Originals(doc) = Spoken(log) /\ Translations(doc) = Shared(log)
<1>1. PICK segs : segs = doc.segments
  OBVIOUS
<1>2. /\ DOMAIN segs = Logged(log, FinalTypes)
      /\ \A g \in DOMAIN segs : segs[g] = Segment(log, g)
  BY <1>1, AssembledIs
<1>3. \A g : g \in DOMAIN segs <=> g \in Segments /\ Has(log, FinalTypes, g)
  BY <1>2, LoggedIs
<1>4. ASSUME NEW g \in DOMAIN segs
      PROVE segs[g].original <=> Has(log, {"final_transcript"}, g)
  <2>1. PICK p : p = LastPosition(log, FinalTypes, g)
    OBVIOUS
  <2>2. p \in 1 .. Len(log) /\ log[p].type \in FinalTypes /\ log[p].segment = g
    BY <1>3, <2>1, LastPositionIs
  <2>3. segs[g].original <=> log[p].type = "final_transcript"
    BY <1>2, <2>1, SegmentIs, Zenon
  <2>4. ASSUME NEW i \in 1 .. Len(log), log[i].type = "final_transcript", log[i].segment = g
        PROVE i = p
    BY <2>2, <2>4 DEF Single, FinalTypes
  <2>5. Has(log, {"final_transcript"}, g) <=> log[p].type = "final_transcript"
    BY <2>2, <2>4 DEF Has
  <2> QED BY <2>3, <2>5, Zenon
<1>5. ASSUME NEW g \in DOMAIN segs
      PROVE segs[g].translation_status = "success" <=> Has(log, {"translation"}, g)
  BY <1>2, SegmentIs, Zenon
<1>6. \A g : Has(log, {"final_transcript"}, g) => Has(log, FinalTypes, g)
  BY DEF Has, FinalTypes
<1>7. Originals(doc) = Spoken(log)
  <2>1. \A g : g \in Originals(doc) <=> g \in DOMAIN segs /\ segs[g].original
    BY <1>1, Zenon DEF Originals
  <2>2. \A g : g \in Spoken(log) <=> g \in Segments /\ Has(log, {"final_transcript"}, g)
    BY Zenon DEF Spoken
  <2>3. \A g : g \in Originals(doc) <=> g \in Spoken(log)
    BY <1>3, <1>4, <1>6, <2>1, <2>2, Zenon
  <2> QED BY <2>3
<1>8. Translations(doc) = Shared(log)
  <2>1. \A g : g \in Translations(doc) <=>
                   g \in DOMAIN segs /\ segs[g].translation_status = "success"
    BY <1>1, Zenon DEF Translations
  <2>2. \A g : g \in Shared(log) <=> g \in Segments /\ Has(log, FinalTypes, g)
                                        /\ Has(log, {"translation"}, g)
    BY Zenon DEF Shared
  <2>3. \A g : g \in Translations(doc) <=> g \in Shared(log)
    BY <1>3, <1>5, <2>1, <2>2, Zenon
  <2> QED BY <2>3
<1> QED BY <1>7, <1>8

\* A row appended to a log: at its end, or lost in a last line that was cut.
Longer(log, v, row) ==
    /\ v \in Seq(Entry) /\ v # <<>>
    /\ Len(log) \in Nat /\ DOMAIN log = 1 .. Len(log) /\ DOMAIN v = 1 .. Len(v)
    /\ \/ /\ Len(v) = Len(log) + 1 /\ v[Len(v)] = row
          /\ \A i \in 1 .. Len(log) : v[i] = log[i]
       \/ /\ Len(v) = Len(log) /\ ~Whole(log)
          /\ \A i \in 1 .. Len(log) :
                 /\ v[i].segment = log[i].segment
                 /\ \/ v[i] = log[i]
                    \/ /\ v[i].type \in {"malformed", "undecodable"}
                       /\ log[i].type \in TornTypes

LEMMA WholeIs ==
    ASSUME NEW log \in Seq(Entry), NEW n, n = Len(log)
    PROVE Whole(log) <=> ~(n > 0 /\ log[n].type \in TornTypes)
<1>1. n \in Nat /\ (n = 0 <=> log = <<>>)
  BY LenProperties, EmptySeq
<1> QED BY <1>1 DEF Whole

LEMMA AppendedIs ==
    ASSUME NEW log \in Seq(Entry), NEW row \in Entry, NEW v, v = Appended(log, row)
    PROVE Longer(log, v, row)
<1>1. PICK n : n = Len(log)
  OBVIOUS
<1>2. n \in Nat /\ DOMAIN log = 1 .. n /\ \A i \in 1 .. n : log[i] \in Entry
  BY <1>1, LenProperties, ElementOfSeq
<1>3. CASE n > 0 /\ log[n].type \in TornTypes
  <2>1. PICK e : e = [log[n] EXCEPT !.type = Damaged(@)]
    OBVIOUS
  <2>2. n \in 1 .. n
    BY <1>2, <1>3
  <2>3. Damaged(log[n].type) \in {"malformed", "undecodable"}
    BY DEF Damaged
  <2>4. /\ e \in Entry /\ e.segment = log[n].segment
        /\ e.type \in {"malformed", "undecodable"}
    BY <1>2, <2>1, <2>2, <2>3 DEF Entry
  <2>5. v = [log EXCEPT ![n] = e]
    BY <1>1, <1>3, <2>1, WholeIs DEF Appended
  <2>6. v \in Seq(Entry) /\ Len(v) = n
        /\ \A j \in 1 .. n : v[j] = IF j = n THEN e ELSE log[j]
    BY <1>1, <2>2, <2>4, <2>5, ExceptSeq
  <2>7. DOMAIN v = 1 .. n
    BY <2>6, LenProperties
  <2>8. ~Whole(log)
    BY <1>1, <1>3, WholeIs
  <2>9. v # <<>>
    BY <1>2, <1>3, <2>6, EmptySeq
  <2>10. \A i \in 1 .. n :
            /\ v[i].segment = log[i].segment
            /\ \/ v[i] = log[i]
               \/ /\ v[i].type \in {"malformed", "undecodable"}
                  /\ log[i].type \in TornTypes
    <3> SUFFICES ASSUME NEW i \in 1 .. n
                 PROVE /\ v[i].segment = log[i].segment
                       /\ \/ v[i] = log[i]
                          \/ /\ v[i].type \in {"malformed", "undecodable"}
                             /\ log[i].type \in TornTypes
      OBVIOUS
    <3>1. CASE i = n
      <4>1. v[i] = e
        BY <2>6, <3>1
      <4> QED BY <1>3, <2>4, <3>1, <4>1
    <3>2. CASE i # n
      BY <2>6, <3>2
    <3> QED BY <3>1, <3>2
  <2> QED BY <1>1, <1>2, <2>6, <2>7, <2>8, <2>9, <2>10 DEF Longer
<1>4. CASE ~(n > 0 /\ log[n].type \in TornTypes)
  <2>1. v = Append(log, row)
    BY <1>1, <1>4, WholeIs DEF Appended
  <2>2. /\ v \in Seq(Entry) /\ Len(v) = n + 1 /\ DOMAIN v = 1 .. n + 1
        /\ \A i \in 1 .. n : v[i] = log[i]
        /\ v[n + 1] = row
    BY <1>1, <2>1, AppendIs
  <2>3. v # <<>>
    BY <1>2, <2>2, EmptySeq
  <2> QED BY <1>1, <1>2, <2>2, <2>3 DEF Longer
<1> QED BY <1>3, <1>4

\* The types that a damaged line does not have.
Good(types) == types \cap (TornTypes \cup {"malformed", "undecodable"}) = {}

LEMMA HasGrows ==
    ASSUME NEW log \in Seq(Entry), NEW row, NEW v, Longer(log, v, row),
           NEW types, Good(types), NEW g
    PROVE /\ Has(log, types, g) => Has(v, types, g)
          /\ Has(v, types, g) =>
                 Has(log, types, g) \/ (row.type \in types /\ row.segment = g)
<1>1. PICK n : n = Len(log) /\ n \in Nat
  BY DEF Longer
<1>2. \A x \in TornTypes \cup {"malformed", "undecodable"} : x \notin types
  BY DEF Good
<1>3. CASE /\ Len(v) = n + 1 /\ v[n + 1] = row
           /\ \A i \in 1 .. n : v[i] = log[i]
  <2>1. \A i \in 1 .. n : i \in 1 .. n + 1
    BY <1>1
  <2>2. \A i \in 1 .. n + 1 : i \in 1 .. n \/ i = n + 1
    BY <1>1
  <2>3. Has(log, types, g) => Has(v, types, g)
    BY <1>1, <1>3, <2>1 DEF Has
  <2>4. Has(v, types, g) =>
            Has(log, types, g) \/ (row.type \in types /\ row.segment = g)
    BY <1>1, <1>3, <2>2 DEF Has
  <2> QED BY <2>3, <2>4
<1>4. CASE /\ Len(v) = n
           /\ \A i \in 1 .. n :
                  /\ v[i].segment = log[i].segment
                  /\ \/ v[i] = log[i]
                     \/ /\ v[i].type \in {"malformed", "undecodable"}
                        /\ log[i].type \in TornTypes
  <2>1. \A i \in 1 .. n : (v[i].type \in types <=> log[i].type \in types)
                            /\ v[i].segment = log[i].segment
    BY <1>2, <1>4
  <2> QED BY <1>1, <1>4, <2>1 DEF Has
<1> QED BY <1>1, <1>3, <1>4 DEF Longer

LEMMA GoodTypes ==
    /\ Good(FinalTypes) /\ Good({"final_transcript"}) /\ Good({"translation"})
    /\ Good({"translation_error"}) /\ Good(Outcomes)
BY DEF Good, FinalTypes, TornTypes, Outcomes

LEMMA ShownGrows ==
    ASSUME NEW log \in Seq(Entry), NEW row, NEW v, Longer(log, v, row)
    PROVE Spoken(log) \subseteq Spoken(v) /\ Shared(log) \subseteq Shared(v)
<1>1. \A g : /\ Has(log, {"final_transcript"}, g) => Has(v, {"final_transcript"}, g)
             /\ Has(log, {"translation"}, g) => Has(v, {"translation"}, g)
             /\ Has(log, FinalTypes, g) => Has(v, FinalTypes, g)
  BY HasGrows, GoodTypes
<1> QED BY <1>1 DEF Spoken, Shared

LEMMA SingleGrows ==
    ASSUME NEW log \in Seq(Entry), NEW row, NEW v, Longer(log, v, row), Single(log),
           row.type \in FinalTypes => ~Has(log, FinalTypes, row.segment)
    PROVE Single(v)
<1>1. PICK n : n = Len(log) /\ n \in Nat
  BY DEF Longer
<1>2. \A x \in TornTypes \cup {"malformed", "undecodable"} : x \notin FinalTypes
  BY DEF TornTypes, FinalTypes
<1>3. CASE /\ Len(v) = n + 1 /\ v[n + 1] = row
           /\ \A i \in 1 .. n : v[i] = log[i]
  <2> SUFFICES ASSUME NEW i \in 1 .. n + 1, NEW j \in 1 .. n + 1,
                      v[i].type \in FinalTypes, v[j].type \in FinalTypes,
                      v[i].segment = v[j].segment
               PROVE i = j
    BY <1>3 DEF Single
  <2>1. \A k \in 1 .. n + 1 : k \in 1 .. n \/ k = n + 1
    BY <1>1
  <2>2. \A k \in 1 .. n : ~(/\ log[k].type \in FinalTypes /\ row.type \in FinalTypes
                             /\ log[k].segment = row.segment)
    BY <1>1 DEF Has
  <2>3. CASE i \in 1 .. n /\ j \in 1 .. n
    BY <1>1, <1>3, <2>3 DEF Single
  <2>4. CASE i \in 1 .. n /\ j = n + 1
    BY <1>3, <2>2, <2>4
  <2>5. CASE i = n + 1 /\ j \in 1 .. n
    BY <1>3, <2>2, <2>5
  <2> QED BY <2>1, <2>3, <2>4, <2>5
<1>4. CASE /\ Len(v) = n
           /\ \A i \in 1 .. n :
                  /\ v[i].segment = log[i].segment
                  /\ \/ v[i] = log[i]
                     \/ /\ v[i].type \in {"malformed", "undecodable"}
                        /\ log[i].type \in TornTypes
  <2>1. \A i \in 1 .. n : (v[i].type \in FinalTypes <=> log[i].type \in FinalTypes)
                            /\ v[i].segment = log[i].segment
    BY <1>2, <1>4
  <2> QED BY <1>1, <1>4, <2>1 DEF Single
<1> QED BY <1>1, <1>3, <1>4 DEF Longer

LEMMA FitGrows ==
    ASSUME NEW log \in Seq(Entry), NEW row, NEW v, Longer(log, v, row), NEW p,
           AllFit(log, p), Fit(row, p)
    PROVE AllFit(v, p)
<1>1. PICK n : n = Len(log) /\ n \in Nat
  BY DEF Longer
<1>2. CASE /\ Len(v) = n + 1 /\ v[n + 1] = row
           /\ \A i \in 1 .. n : v[i] = log[i]
  <2>1. \A i \in 1 .. n + 1 : i \in 1 .. n \/ i = n + 1
    BY <1>1
  <2> QED BY <1>1, <1>2, <2>1 DEF AllFit
<1>3. CASE /\ Len(v) = n
           /\ \A i \in 1 .. n :
                  /\ v[i].segment = log[i].segment
                  /\ \/ v[i] = log[i]
                     \/ /\ v[i].type \in {"malformed", "undecodable"}
                        /\ log[i].type \in TornTypes
  <2>1. ASSUME NEW i \in 1 .. n PROVE Fit(v[i], p)
    <3>1. CASE v[i] = log[i]
      BY <1>1, <3>1 DEF AllFit
    <3>2. CASE v[i].type \in {"malformed", "undecodable"}
      BY <3>2 DEF Fit
    <3> QED BY <1>3, <3>1, <3>2
  <2> QED BY <1>3, <2>1 DEF AllFit
<1> QED BY <1>1, <1>2, <1>3 DEF Longer

\* A row that is no outcome changes the outcome of no caption.
LEMMA OutcomeStays ==
    ASSUME NEW log \in Seq(Entry), NEW row, NEW v, Longer(log, v, row),
           row.type \notin Outcomes, NEW g
    PROVE Segment(v, g).translation_status = Segment(log, g).translation_status
<1>1. v \in Seq(Entry)
  BY DEF Longer
<1>2. ASSUME NEW types, types = {"translation"} \/ types = {"translation_error"}
      PROVE LastPosition(v, types, g) = LastPosition(log, types, g)
  <2>1. PICK n : n = Len(log) /\ n \in Nat /\ DOMAIN log = 1 .. n /\ DOMAIN v = 1 .. Len(v)
    BY DEF Longer
  <2>2. \A x \in TornTypes \cup {"malformed", "undecodable"} : x \notin types
    BY <1>2 DEF TornTypes
  <2>3. row.type \notin types
    BY <1>2 DEF Outcomes
  <2>4. CASE /\ Len(v) = n + 1 /\ v[n + 1] = row
             /\ \A i \in 1 .. n : v[i] = log[i]
    <3>1. \A i : i \in 1 .. n + 1 <=> i \in 1 .. n \/ i = n + 1
      BY <2>1
    <3>2. \A i : i \in Positions(v, types, g) <=> i \in Positions(log, types, g)
      BY <2>1, <2>3, <2>4, <3>1 DEF Positions
    <3>3. Positions(v, types, g) = Positions(log, types, g)
      BY <3>2
    <3>4. PICK at : at = Positions(log, types, g) /\ at = Positions(v, types, g)
      BY <3>3
    <3>5. LastPosition(v, types, g) =
              IF at = {} THEN 0 ELSE CHOOSE i \in at : \A j \in at : j <= i
      BY <3>4 DEF LastPosition
    <3>6. LastPosition(log, types, g) =
              IF at = {} THEN 0 ELSE CHOOSE i \in at : \A j \in at : j <= i
      BY <3>4 DEF LastPosition
    <3> QED BY <3>5, <3>6
  <2>5. CASE /\ Len(v) = n
             /\ \A i \in 1 .. n :
                    /\ v[i].segment = log[i].segment
                    /\ \/ v[i] = log[i]
                       \/ /\ v[i].type \in {"malformed", "undecodable"}
                          /\ log[i].type \in TornTypes
    <3>1. \A i \in 1 .. n : (v[i].type \in types <=> log[i].type \in types)
                              /\ v[i].segment = log[i].segment
      BY <2>2, <2>5
    <3>2. \A i : i \in Positions(v, types, g) <=> i \in Positions(log, types, g)
      BY <2>1, <2>5, <3>1 DEF Positions
    <3>3. Positions(v, types, g) = Positions(log, types, g)
      BY <3>2
    <3>4. PICK at : at = Positions(log, types, g) /\ at = Positions(v, types, g)
      BY <3>3
    <3>5. LastPosition(v, types, g) =
              IF at = {} THEN 0 ELSE CHOOSE i \in at : \A j \in at : j <= i
      BY <3>4 DEF LastPosition
    <3>6. LastPosition(log, types, g) =
              IF at = {} THEN 0 ELSE CHOOSE i \in at : \A j \in at : j <= i
      BY <3>4 DEF LastPosition
    <3> QED BY <3>5, <3>6
  <2> QED BY <2>1, <2>4, <2>5 DEF Longer
<1>3. PICK s, f : /\ s = LastPosition(log, {"translation"}, g)
                  /\ f = LastPosition(log, {"translation_error"}, g)
                  /\ s = LastPosition(v, {"translation"}, g)
                  /\ f = LastPosition(v, {"translation_error"}, g)
  BY <1>2
<1>4. Segment(v, g).translation_status = Outcome(s, f)
  BY <1>1, <1>3, SegmentIs, Zenon
<1>5. Segment(log, g).translation_status = Outcome(s, f)
  BY <1>3, SegmentIs, Zenon
<1> QED BY <1>4, <1>5, Zenon

\* What is left of a row that was cut is a row of its own.
LEMMA CutIs ==
    ASSUME NEW log \in Seq(Entry), NEW row \in Entry, NEW v, v = Appended(log, row),
           Len(v) > Len(log), NEW c \in Cut(v)
    PROVE \E r \in Entry : r.type \in TornTypes /\ c = Appended(log, r)
<1>1. PICK n : n = Len(log) /\ n \in Nat
  BY AppendedIs DEF Longer
<1>2. Longer(log, v, row)
  BY AppendedIs
<1>3. /\ Len(v) = n + 1 /\ v[n + 1] = row
      /\ \A i \in 1 .. n : v[i] = log[i]
  <2>1. Len(v) # n
    BY <1>1
  <2> QED BY <1>1, <1>2, <2>1 DEF Longer
<1>4. PICK t \in TornTypes : c = [v EXCEPT ![n + 1].type = t]
  BY <1>3 DEF Cut, TornTypes
<1>5. PICK r : r = [row EXCEPT !.type = t]
  OBVIOUS
<1>6. r \in Entry /\ r.type = t
  BY <1>4, <1>5 DEF Entry
<1>7. c = [v EXCEPT ![n + 1] = r]
  BY <1>3, <1>4, <1>5
<1>8. v \in Seq(Entry) /\ n + 1 \in 1 .. Len(v)
  BY <1>1, <1>2, <1>3 DEF Longer
<1>9. c \in Seq(Entry) /\ Len(c) = n + 1
      /\ \A j \in 1 .. n + 1 : c[j] = IF j = n + 1 THEN r ELSE v[j]
  BY <1>3, <1>6, <1>7, <1>8, ExceptSeq
<1>10. PICK a : a = Append(log, r)
  OBVIOUS
<1>11. a \in Seq(Entry) /\ Len(a) = n + 1 /\ a[n + 1] = r
       /\ \A j \in 1 .. n : a[j] = log[j]
  BY <1>1, <1>6, <1>10, AppendIs
<1>12. c = a
  <2>1. \A j \in 1 .. n + 1 : j \in 1 .. n \/ j = n + 1
    BY <1>1
  <2>2. \A j \in 1 .. n : j \in 1 .. n + 1 /\ j # n + 1
    BY <1>1
  <2>3. \A j \in 1 .. n + 1 : c[j] = a[j]
    BY <1>3, <1>9, <1>11, <2>1, <2>2
  <2> QED BY <1>9, <1>11, <2>3, SeqEqual
<1>13. ~(n > 0 /\ log[n].type \in TornTypes)
  <2>1. CASE n > 0 /\ log[n].type \in TornTypes
    <3>1. v = [log EXCEPT ![n].type = Damaged(@)]
      BY <1>1, <2>1, WholeIs DEF Appended
    <3>2. PICK e : e = [log[n] EXCEPT !.type = Damaged(@)]
      OBVIOUS
    <3>3. n \in 1 .. n /\ log[n] \in Entry
      BY <1>1, <2>1, ElementOfSeq
    <3>4. e \in Entry
      BY <2>1, <3>2, <3>3 DEF Entry, Damaged
    <3>5. v = [log EXCEPT ![n] = e]
      BY <3>1, <3>2
    <3>6. Len(v) = n
      BY <1>1, <3>3, <3>4, <3>5, ExceptSeq
    <3> QED BY <1>1, <1>3, <3>6
  <2> QED BY <2>1
<1>14. Appended(log, r) = a
  BY <1>1, <1>10, <1>13, WholeIs DEF Appended
<1> QED BY <1>4, <1>6, <1>12, <1>14

-----------------------------------------------------------------------------
(* The writes of a finalization *)

Files == {"dir", "manifest", "events", "mirror", "session", "analysis",
          "transcript_original", "transcript_korean", "meeting_report"}
Values == BOOLEAN \cup Manifest \cup Seq(Entry) \cup Document \cup Rendering
Writes == [file : Files, value : Values, guarded : BOOLEAN]

LEMMA WriteIs ==
    ASSUME NEW f \in Files, NEW v \in Values
    PROVE /\ Caught(f, v) \in Writes /\ Caught(f, v).file = f
          /\ Caught(f, v).value = v /\ Caught(f, v).guarded
          /\ Raised(f, v) \in Writes /\ Raised(f, v).file = f
          /\ Raised(f, v).value = v /\ ~Raised(f, v).guarded
<1>1. PICK t, n : t = TRUE /\ n = FALSE
  OBVIOUS
<1>2. t \in BOOLEAN /\ n \in BOOLEAN
  BY <1>1, Zenon
<1>3. PICK c, r : c = Write(f, v, t) /\ r = Write(f, v, n)
  OBVIOUS
<1>4. /\ c \in Writes /\ c.file = f /\ c.value = v /\ c.guarded = t
      /\ r \in Writes /\ r.file = f /\ r.value = v /\ r.guarded = n
  BY <1>2, <1>3 DEF Write, Writes
<1>5. c = Caught(f, v) /\ r = Raised(f, v)
  BY <1>1, <1>3, Zenon DEF Caught, Raised
<1>6. c.guarded /\ ~r.guarded
  BY <1>1, <1>4, Zenon
<1> QED BY <1>4, <1>5, <1>6, Zenon

LEMMA ValuesAre ==
    /\ Yes \in Values /\ Yes \in BOOLEAN
    /\ Manifest \subseteq Values /\ Seq(Entry) \subseteq Values
    /\ Document \subseteq Values /\ Rendering \subseteq Values
    /\ "dir" \in Files /\ "manifest" \in Files /\ "events" \in Files
    /\ "mirror" \in Files /\ "session" \in Files /\ "analysis" \in Files
    /\ "transcript_original" \in Files /\ "transcript_korean" \in Files
    /\ "meeting_report" \in Files
<1>1. Yes \in BOOLEAN
  BY Zenon DEF Yes
<1> QED BY <1>1, Zenon DEF Values, Files

LEMMA ManifestWriteIs ==
    ASSUME NEW m \in Manifest
    PROVE /\ Raised("manifest", m) \in Writes
          /\ Raised("manifest", m).file = "manifest"
          /\ Raised("manifest", m).value = m
          /\ ~Raised("manifest", m).guarded
          /\ ManifestWrite(m) \in Seq(Writes)
<1>1. m \in Values /\ "manifest" \in Files
  BY ValuesAre, Zenon
<1>3. PICK w : w = Raised("manifest", m)
  OBVIOUS
<1>4. w \in Writes /\ w.file = "manifest" /\ w.value = m /\ ~w.guarded
  BY <1>1, <1>3, WriteIs, Zenon
<1>5. <<w>> \in Seq(Writes)
  BY <1>4
<1> QED BY <1>3, <1>4, <1>5, Zenon DEF ManifestWrite

LEMMA ManifestIs ==
    ASSUME NEW m \in Manifest
    PROVE /\ m.status \in Status /\ m.policy \in Policies \cup {Everything}
          /\ m.policy.save_original \in BOOLEAN /\ m.policy.save_translation \in BOOLEAN
          /\ m.policy.save_analysis \in BOOLEAN /\ m.analysis_status \in AnalysisStatus
<1>1. m.status \in Status /\ m.policy \in Policies \cup {Everything}
      /\ m.analysis_status \in AnalysisStatus
  BY DEF Manifest, Everything
<1>2. m.policy \in [save_original : BOOLEAN, save_translation : BOOLEAN,
                    save_analysis : BOOLEAN]
  <2>1. Everything \in [save_original : BOOLEAN, save_translation : BOOLEAN,
                        save_analysis : BOOLEAN]
    <3>1. PICK t : t = TRUE
      OBVIOUS
    <3>2. t \in BOOLEAN
      BY <3>1
    <3>3. Everything = [save_original |-> t, save_translation |-> t, save_analysis |-> t]
      BY <3>1, Zenon DEF Everything
    <3> QED BY <3>2, <3>3
  <2> QED BY <1>1, <2>1, SessionAssumption
<1> QED BY <1>1, <1>2

LEMMA BegunIs ==
    ASSUME NEW m \in Manifest, NEW end \in Final
    PROVE /\ Begun(m) \in Manifest /\ Begun(m).status = "finalizing"
          /\ Begun(m).policy = m.policy /\ Begun(m).analysis_status = m.analysis_status
          /\ Begun(Begun(m)) = Begun(m)
          /\ Ending(m, end) \in Manifest /\ Ending(m, end).status \in Final
          /\ Ending(m, end).policy = m.policy
          /\ Ending(m, end).analysis_status = m.analysis_status
          /\ Ending(Begun(m), end) = Ending(m, end)
          /\ Begun(Ending(m, end)) = Begun(m)
          /\ Ending(Ending(m, end), end) = Ending(m, end)
<1>1. PICK b, e : b = Begun(m) /\ e = Ending(m, end)
  OBVIOUS
<1>2. b = [m EXCEPT !.status = "finalizing"]
      /\ e = [m EXCEPT !.status = end]
  BY <1>1 DEF Begun, Ending
<1>3. /\ b \in Manifest /\ b.status = "finalizing" /\ b.policy = m.policy
      /\ b.analysis_status = m.analysis_status
  BY <1>2 DEF Manifest, Status, Unfinished
<1>4. /\ e \in Manifest /\ e.status \in Final /\ e.policy = m.policy
      /\ e.analysis_status = m.analysis_status
  BY <1>2 DEF Manifest, Status, Final
<1>5. [b EXCEPT !.status = "finalizing"] = b
  BY <1>2 DEF Manifest
<1>6. [b EXCEPT !.status = end] = e
  BY <1>2 DEF Manifest
<1>7. [e EXCEPT !.status = "finalizing"] = b
  BY <1>2 DEF Manifest
<1>8. [e EXCEPT !.status = end] = e
  BY <1>2 DEF Manifest
<1> QED BY <1>1, <1>3, <1>4, <1>5, <1>6, <1>7, <1>8 DEF Begun, Ending

LEMMA DocIs ==
    ASSUME NEW m \in Manifest, NEW log \in Seq(Entry), NEW an, an \in BOOLEAN
    PROVE /\ Doc(m, log, an) \in Document
          /\ Doc(m, log, an).status = m.status
          /\ Doc(m, log, an).segments = Assembled(log)
          /\ Doc(m, log, an).analysis = (m.policy.save_analysis /\ an)
          /\ Doc(m, log, an).analysis_status = m.analysis_status
<1>1. PICK kept : kept = (m.policy.save_analysis /\ an)
  OBVIOUS
<1>2. kept \in BOOLEAN
  BY <1>1
<1>3. Doc(m, log, an) = [status |-> m.status, segments |-> Assembled(log),
                         analysis |-> kept, analysis_status |-> m.analysis_status]
  BY <1>1, Zenon DEF Doc
<1>4. Assembled(log) \in Assemblies
  BY AssembledIs
<1>5. m.status \in Status /\ m.analysis_status \in AnalysisStatus
  BY ManifestIs
<1>6. Doc(m, log, an) \in Document
  BY <1>2, <1>3, <1>4, <1>5 DEF Document
<1>7. /\ Doc(m, log, an).status = m.status
      /\ Doc(m, log, an).segments = Assembled(log)
      /\ Doc(m, log, an).analysis = kept
      /\ Doc(m, log, an).analysis_status = m.analysis_status
  BY <1>3
<1> QED BY <1>1, <1>6, <1>7, Zenon

LEMMA RenderedIs ==
    ASSUME NEW doc \in Document, NEW kind
    PROVE Rendered(kind, doc) \in Rendering
<1>1. doc.segments \in Assemblies /\ doc.analysis \in BOOLEAN
  BY DEF Document
<1>2. PICK G \in SUBSET Segments : doc.segments \in [G -> AssembledSegment]
  BY <1>1 DEF Assemblies
<1>3. Originals(doc) \in SUBSET Segments /\ Translations(doc) \in SUBSET Segments
  BY <1>2 DEF Originals, Translations
<1>4. PICK o, t, a :
        /\ o = IF kind = "transcript_korean" THEN {} ELSE Originals(doc)
        /\ t = IF kind = "transcript_original" THEN {} ELSE Translations(doc)
        /\ a = (kind = "meeting_report" /\ doc.analysis)
  OBVIOUS
<1>5. o \in SUBSET Segments
  BY <1>3, <1>4
<1>6. t \in SUBSET Segments
  BY <1>3, <1>4
<1>7. a \in BOOLEAN
  BY <1>4
<1>8. Rendered(kind, doc) = [originals |-> o, translations |-> t, analysis |-> a]
  BY <1>4, Zenon DEF Rendered
<1> QED BY <1>5, <1>6, <1>7, <1>8 DEF Rendering

\* Two documents that differ only in their status and in that of the analysis
\* are rendered the same.
LEMMA SameRendering ==
    ASSUME NEW a, NEW b, a.segments = b.segments, a.analysis = b.analysis, NEW kind
    PROVE /\ Rendered(kind, a) = Rendered(kind, b)
          /\ Originals(a) = Originals(b) /\ Translations(a) = Translations(b)
<1>1. Originals(a) = Originals(b) /\ Translations(a) = Translations(b)
  BY DEF Originals, Translations
<1> QED BY <1>1 DEF Rendered

LEMMA PubIs ==
    ASSUME NEW m \in Manifest, NEW log \in Seq(Entry), NEW an, NEW end \in Final,
           NEW P, NEW doc, an \in BOOLEAN,
           P = Pub(m, log, an, end), doc = Doc(Begun(m), log, an)
    PROVE /\ P \in Seq(Writes) /\ Len(P) = 6
          /\ P[1] = Caught("session", doc)
          /\ P[2] = Caught("transcript_original", Rendered("transcript_original", doc))
          /\ P[3] = Caught("transcript_korean", Rendered("transcript_korean", doc))
          /\ P[4] = Caught("meeting_report", Rendered("meeting_report", doc))
          /\ P[5] = Caught("manifest", Ending(m, end))
          /\ P[6] = Caught("session", Doc(Ending(m, end), log, an))
<1>1. PICK w1, w2, w3, w4, w5, w6 :
        /\ w1 = Caught("session", doc)
        /\ w2 = Caught("transcript_original", Rendered("transcript_original", doc))
        /\ w3 = Caught("transcript_korean", Rendered("transcript_korean", doc))
        /\ w4 = Caught("meeting_report", Rendered("meeting_report", doc))
        /\ w5 = Caught("manifest", Ending(m, end))
        /\ w6 = Caught("session", Doc(Ending(m, end), log, an))
  OBVIOUS
<1>2. doc \in Document /\ Doc(Ending(m, end), log, an) \in Document
      /\ Ending(m, end) \in Manifest
  BY BegunIs, DocIs
<1>3. \A kind : Rendered(kind, doc) \in Rendering
  BY <1>2, RenderedIs
<1>4. w1 \in Writes
  BY <1>1, <1>2, ValuesAre, WriteIs, Zenon
<1>5. w2 \in Writes /\ w3 \in Writes /\ w4 \in Writes
  BY <1>1, <1>3, ValuesAre, WriteIs, Zenon
<1>6. w5 \in Writes /\ w6 \in Writes
  BY <1>1, <1>2, ValuesAre, WriteIs, Zenon
<1>7. PICK f : f = [i \in 1 .. 3 |->
                       LET kind == <<"transcript_original", "transcript_korean",
                                     "meeting_report">>[i]
                       IN  Write(kind, Rendered(kind, doc), TRUE)]
  OBVIOUS
<1>8. f[1] = w2 /\ f[2] = w3 /\ f[3] = w4 /\ f = [i \in 1 .. 3 |-> f[i]]
  <2>1. PICK n : n = <<"transcript_original", "transcript_korean", "meeting_report">>
    OBVIOUS
  <2>2. n[1] = "transcript_original" /\ n[2] = "transcript_korean" /\ n[3] = "meeting_report"
    BY <2>1
  <2>3. f = [i \in 1 .. 3 |-> Caught(n[i], Rendered(n[i], doc))]
    BY <1>7, <2>1, Zenon DEF Caught
  <2>4. /\ f[1] = Caught(n[1], Rendered(n[1], doc))
        /\ f[2] = Caught(n[2], Rendered(n[2], doc))
        /\ f[3] = Caught(n[3], Rendered(n[3], doc))
    BY <2>3
  <2>5. f = [i \in 1 .. 3 |-> f[i]]
    BY <2>3
  <2> QED BY <1>1, <2>2, <2>4, <2>5, Zenon
<1>9. f \in Seq(Writes) /\ Len(f) = 3
  <2>1. \A i \in 1 .. 3 : f[i] \in Writes
    <3>1. \A i \in 1 .. 3 : i = 1 \/ i = 2 \/ i = 3
      OBVIOUS
    <3> QED BY <1>5, <1>8, <3>1
  <2>2. [i \in 1 .. 3 |-> f[i]] \in Seq(Writes) /\ Len([i \in 1 .. 3 |-> f[i]]) = 3
    BY <2>1
  <2> QED BY <1>8, <2>2, Zenon
<1>10. PICK q : q = Publication(doc)
  OBVIOUS
<1>11. q = <<w1>> \o f
  BY <1>1, <1>7, <1>10, Zenon DEF Publication, Caught
<1>12. <<w1>> \in Seq(Writes) /\ Len(<<w1>>) = 1 /\ <<w1>>[1] = w1
  BY <1>4
<1>13. /\ q \in Seq(Writes) /\ Len(q) = 4
       /\ q[1] = w1 /\ q[2] = w2 /\ q[3] = w3 /\ q[4] = w4
  <2>1. /\ q \in Seq(Writes) /\ Len(q) = 1 + 3
        /\ \A i \in 1 .. 1 + 3 : q[i] = IF i <= 1 THEN <<w1>>[i] ELSE f[i - 1]
    <3>1. /\ q \in Seq(Writes) /\ Len(q) = Len(<<w1>>) + Len(f)
          /\ \A i \in 1 .. Len(<<w1>>) + Len(f) :
                 q[i] = IF i <= Len(<<w1>>) THEN <<w1>>[i] ELSE f[i - Len(<<w1>>)]
      BY <1>9, <1>11, <1>12, ConcatProperties, Zenon
    <3> QED BY <1>9, <1>12, <3>1
  <2>2. q[1] = <<w1>>[1] /\ q[2] = f[1] /\ q[3] = f[2] /\ q[4] = f[3]
    BY <2>1
  <2> QED BY <1>8, <1>12, <2>1, <2>2
<1>14. PICK t : t = <<w5, w6>>
  OBVIOUS
<1>15. t \in Seq(Writes) /\ Len(t) = 2 /\ t[1] = w5 /\ t[2] = w6
  BY <1>6, <1>14
<1>16. P = q \o t
  BY <1>1, <1>10, <1>14, Zenon DEF Pub
<1>17. /\ P \in Seq(Writes) /\ Len(P) = 4 + 2
       /\ \A i \in 1 .. 4 + 2 : P[i] = IF i <= 4 THEN q[i] ELSE t[i - 4]
  <2>1. /\ P \in Seq(Writes) /\ Len(P) = Len(q) + Len(t)
        /\ \A i \in 1 .. Len(q) + Len(t) :
               P[i] = IF i <= Len(q) THEN q[i] ELSE t[i - Len(q)]
    <3>1. q \in Seq(Writes) /\ t \in Seq(Writes)
      BY <1>13, <1>15, Zenon
    <3>2. /\ q \o t \in Seq(Writes) /\ Len(q \o t) = Len(q) + Len(t)
          /\ \A i \in 1 .. Len(q) + Len(t) :
                 (q \o t)[i] = IF i <= Len(q) THEN q[i] ELSE t[i - Len(q)]
      BY <3>1, ConcatProperties, Zenon
    <3> QED BY <1>16, <3>2, Zenon
  <2> QED BY <1>13, <1>15, <2>1
<1>18. P[1] = q[1] /\ P[2] = q[2] /\ P[3] = q[3] /\ P[4] = q[4] /\ P[5] = t[1] /\ P[6] = t[2]
  BY <1>17
<1> QED BY <1>1, <1>13, <1>15, <1>17, <1>18

LEMMA LegacyIs == LegacyManifest \in Manifest /\ LegacyManifest.status \in Final
<1>1. PICK p : p = Everything
  OBVIOUS
<1>2. p \in Policies \cup {Everything}
  BY <1>1
<1>3. LegacyManifest = [status |-> "recovered", policy |-> p,
                        analysis_status |-> "not_started"]
  BY <1>1 DEF LegacyManifest
<1>4. Manifest = [status : Status, policy : Policies \cup {Everything},
                  analysis_status : AnalysisStatus]
  BY Zenon DEF Manifest, Everything
<1> QED BY <1>2, <1>3, <1>4 DEF Status, Final, AnalysisStatus

LEMMA DirectoryIs ==
    ASSUME NEW d \in Directory
    PROVE /\ d.dir \in BOOLEAN /\ d.manifest \in Manifest \cup {NoFile}
          /\ d.events \in Seq(Entry) /\ d.mirror \in Seq(Entry)
          /\ d.session \in Document \cup {NoFile} /\ d.analysis \in BOOLEAN
          /\ d.transcript_original \in Rendering \cup {NoFile}
          /\ d.transcript_korean \in Rendering \cup {NoFile}
          /\ d.meeting_report \in Rendering \cup {NoFile}
          /\ Source(d) \in Seq(Entry) /\ ManifestOf(d) \in Manifest
<1>1. /\ d.dir \in BOOLEAN /\ d.manifest \in Manifest \cup {NoFile}
      /\ d.events \in Seq(Entry) /\ d.mirror \in Seq(Entry)
      /\ d.session \in Document \cup {NoFile} /\ d.analysis \in BOOLEAN
      /\ d.transcript_original \in Rendering \cup {NoFile}
      /\ d.transcript_korean \in Rendering \cup {NoFile}
      /\ d.meeting_report \in Rendering \cup {NoFile}
  BY DEF Directory
<1>2. Source(d) \in Seq(Entry)
  BY <1>1, Zenon DEF Source
<1>3. ManifestOf(d) \in Manifest
  BY <1>1, LegacyIs, Zenon DEF ManifestOf
<1> QED BY <1>1, <1>2, <1>3

\* The first write of the rest of an operation, and the rest of it.
Next2(ws, w, rest) == ws # <<>> /\ Head(ws) = w /\ Tail(ws) = rest

LEMMA CoreIs ==
    ASSUME NEW m \in Manifest, NEW log \in Seq(Entry), NEW an, an \in BOOLEAN, NEW end \in Final,
           NEW c, c = Core(m, log, an, end)
    PROVE /\ c \in Seq(Writes)
          /\ Undecodable(log) =>
                 Next2(c, Raised("manifest", Begun(m)), <<Failed(Begun(m))>>)
          /\ ~Undecodable(log) =>
                 Next2(c, Raised("manifest", Begun(m)), Pub(m, log, an, end))
<1>1. PICK b, w : b = Begun(m) /\ w = Raised("manifest", b)
  OBVIOUS
<1>2. b \in Manifest /\ w \in Writes
  BY <1>1, BegunIs, ManifestWriteIs
<1>3. PICK t : t = IF Undecodable(log) THEN <<Failed(b)>> ELSE Pub(m, log, an, end)
  OBVIOUS
<1>4. t \in Seq(Writes)
  <2>1. PICK e : e = [b EXCEPT !.status = "error"]
    OBVIOUS
  <2>2. e \in Manifest
    BY <1>2, <2>1 DEF Manifest, Status
  <2>3. Failed(b) = Raised("manifest", e)
    BY <2>1, Zenon DEF Failed, Raised
  <2>4. Failed(b) \in Writes
    BY <2>2, <2>3, ManifestWriteIs
  <2>5. <<Failed(b)>> \in Seq(Writes)
    BY <2>4
  <2>6. Pub(m, log, an, end) \in Seq(Writes)
    BY PubIs
  <2> QED BY <1>3, <2>5, <2>6, Zenon
<1>5. c = <<w>> \o t
  BY <1>1, <1>3, Zenon DEF Core
<1>6. c \in Seq(Writes) /\ Next2(c, w, t)
  BY <1>2, <1>4, <1>5, ConsIs DEF Next2
<1> QED BY <1>1, <1>3, <1>6, Zenon

LEMMA CoresAre ==
    ASSUME NEW m \in Manifest, NEW log \in Seq(Entry), NEW an, an \in BOOLEAN,
           NEW c \in Cores(m, log, an)
    PROVE /\ c \in Seq(Writes) /\ c # <<>>
          /\ \/ \E end \in Final : c = Core(m, log, an, end)
             \/ \E rest \in Cores(m, log, an) : Next2(c, Raised("dir", Yes), rest)
<1>1. PICK end \in Final :
        c = Core(m, log, an, end) \/ c = MakeDir \o Core(m, log, an, end)
  BY DEF Cores
<1>2. PICK k : k = Core(m, log, an, end)
  OBVIOUS
<1>3. k \in Seq(Writes) /\ k # <<>>
  BY <1>2, CoreIs DEF Next2
<1>5. k \in Cores(m, log, an)
  BY <1>2 DEF Cores
<1>6. CASE c = k
  BY <1>1, <1>2, <1>3, <1>6, Zenon
<1>7. CASE c = MakeDir \o k
  <2>1. PICK w : w = Raised("dir", Yes)
    OBVIOUS
  <2>2. w \in Writes
    BY <2>1, ValuesAre, WriteIs, Zenon
  <2>3. c = <<w>> \o k
    BY <1>1, <1>2, <1>7, <2>1, Zenon DEF MakeDir
  <2>4. c \in Seq(Writes) /\ Next2(c, w, k)
    BY <1>3, <2>2, <2>3, ConsIs DEF Next2
  <2> QED BY <1>5, <2>1, <2>4, Zenon DEF Next2
<1> QED BY <1>1, <1>2, <1>6, <1>7

LEMMA FinalizeIs ==
    ASSUME NEW d \in Directory, NEW rec \in BOOLEAN
    PROVE FinalizeWrites(d, rec) \in Cores(ManifestOf(d), Source(d), d.analysis)
<1>1. PICK m, log, an : m = ManifestOf(d) /\ log = Source(d) /\ an = d.analysis
  OBVIOUS
<1>2. m \in Manifest /\ log \in Seq(Entry) /\ an \in BOOLEAN
  BY <1>1, DirectoryIs
<1>3. PICK begin, last :
        /\ begin = [m EXCEPT !.status = "finalizing"]
        /\ last = [begin EXCEPT !.status = IF rec THEN "recovered" ELSE "completed"]
  OBVIOUS
<1>0. PICK end \in Final : end = IF rec THEN "recovered" ELSE "completed"
  BY DEF Final
<1>4. begin = Begun(m) /\ last = Ending(m, end)
  <2>1. begin = Begun(m)
    BY <1>3 DEF Begun
  <2>2. last = Ending(Begun(m), end)
    BY <1>0, <1>3, <2>1 DEF Ending
  <2> QED BY <1>2, <2>1, <2>2, BegunIs
<1>5. DocumentOf(d, begin) = Doc(begin, log, an) /\ DocumentOf(d, last) = Doc(last, log, an)
  BY <1>1, Zenon DEF DocumentOf, Doc
<1>6. PICK x : x = IF d.dir THEN <<>> ELSE MakeDir
  OBVIOUS
<1>7. PICK t : t = IF Undecodable(log) THEN <<Failed(begin)>>
                   ELSE Publication(DocumentOf(d, begin)) \o
                        <<Caught("manifest", last),
                          Caught("session", DocumentOf(d, last))>>
  OBVIOUS
<1>8. t = IF Undecodable(log) THEN <<Failed(Begun(m))>> ELSE Pub(m, log, an, end)
  BY <1>4, <1>5, <1>7, Zenon DEF Pub
<1>9. FinalizeWrites(d, rec) = (x \o <<Raised("manifest", begin)>>) \o t
  BY <1>1, <1>3, <1>6, <1>7, Zenon DEF FinalizeWrites, MakeDir, Caught, Raised, Yes
<1>10. PICK w, k : w = Raised("manifest", begin) /\ k = Core(m, log, an, end)
  OBVIOUS
<1>11. k = <<w>> \o t
  BY <1>4, <1>8, <1>10, Zenon DEF Core
<1>12. x \in Seq(Writes) /\ <<w>> \in Seq(Writes) /\ t \in Seq(Writes)
  <2>1. begin \in Manifest
    BY <1>2, <1>4, BegunIs
  <2>2. w \in Writes
    BY <1>10, <2>1, ManifestWriteIs
  <2>3. <<w>> \in Seq(Writes)
    BY <2>2
  <2>4. t \in Seq(Writes)
    <3>1. k \in Seq(Writes) /\ (k # <<>> => Tail(k) \in Seq(Writes))
      BY <1>2, <1>10, CoreIs, HeadTailProperties
    <3>2. k # <<>> /\ Tail(k) = t
      <4>1. CASE Undecodable(log)
        <5>1. Next2(k, Raised("manifest", Begun(m)), <<Failed(Begun(m))>>)
          BY <1>2, <1>10, <4>1, CoreIs
        <5>2. t = <<Failed(Begun(m))>>
          BY <1>8, <4>1
        <5> QED BY <5>1, <5>2, Zenon DEF Next2
      <4>2. CASE ~Undecodable(log)
        <5>1. Next2(k, Raised("manifest", Begun(m)), Pub(m, log, an, end))
          BY <1>2, <1>10, <4>2, CoreIs
        <5>2. t = Pub(m, log, an, end)
          BY <1>8, <4>2
        <5> QED BY <5>1, <5>2, Zenon DEF Next2
      <4> QED BY <4>1, <4>2
    <3> QED BY <3>1, <3>2
  <2>5. PICK v : v = Raised("dir", Yes)
    OBVIOUS
  <2>6. v \in Writes
    BY <2>5, ValuesAre, WriteIs, Zenon
  <2>7. <<v>> \in Seq(Writes) /\ <<>> \in Seq(Writes)
    BY <2>6
  <2> QED BY <1>6, <2>3, <2>4, <2>5, <2>7, Zenon DEF MakeDir
<1>13. FinalizeWrites(d, rec) = x \o k
  <2>1. (x \o <<w>>) \o t = x \o (<<w>> \o t)
    BY <1>12, ConcatAssociative
  <2>2. FinalizeWrites(d, rec) = (x \o <<w>>) \o t
    BY <1>9, <1>10, Zenon
  <2> QED BY <1>11, <2>1, <2>2, Zenon
<1>14. k \in Cores(m, log, an) /\ MakeDir \o k \in Cores(m, log, an)
  BY <1>0, <1>10 DEF Cores
<1>15. <<>> \o k = k
  <2>1. k \in Seq(Writes)
    BY <1>2, <1>10, CoreIs
  <2> QED BY <2>1, ConcatEmptySeq
<1> QED BY <1>1, <1>6, <1>13, <1>14, <1>15, Zenon

-----------------------------------------------------------------------------
(* What a write does to the directory *)

\* The value v suits the file f.
Suits(f, v) ==
    /\ f \in Files
    /\ f \in {"dir", "analysis"} => v = Yes
    /\ f = "manifest" => v \in Manifest
    /\ f \in {"events", "mirror"} => v \in Seq(Entry)
    /\ f = "session" => v \in Document
    /\ f \in Exports => v \in Rendering

\* The directory e is d but for the file f.
Changed(d, e, f, v) ==
    /\ e \in Directory
    /\ e.dir = (d.dir \/ f # "mirror")
    /\ f = "manifest" => e.manifest = v
    /\ f # "manifest" => e.manifest = d.manifest
    /\ f = "events" => e.events = v
    /\ f # "events" => e.events = d.events
    /\ f = "mirror" => e.mirror = v
    /\ f # "mirror" => e.mirror = d.mirror
    /\ f = "session" => e.session = v
    /\ f # "session" => e.session = d.session
    /\ f = "analysis" => e.analysis = v
    /\ f # "analysis" => e.analysis = d.analysis
    /\ \A kind \in Exports : e[kind] = IF f = kind THEN v ELSE d[kind]

LEMMA StoredIs ==
    ASSUME NEW d \in Directory, NEW w, NEW f, w.file = f, NEW v, Suits(f, v),
           NEW e, e = Stored(d, w, v)
    PROVE Changed(d, e, f, v)
<1>1. e = [d EXCEPT ![f] = v, !.dir = @ \/ f # "mirror"]
  BY DEF Stored
<1>2. PICK b : b = (d.dir \/ f # "mirror")
  OBVIOUS
<1>3. b \in BOOLEAN
  BY <1>2
<1>4. d = [dir |-> d.dir, manifest |-> d.manifest, events |-> d.events,
           mirror |-> d.mirror, session |-> d.session, analysis |-> d.analysis,
           transcript_original |-> d.transcript_original,
           transcript_korean |-> d.transcript_korean,
           meeting_report |-> d.meeting_report]
  BY DEF Directory
<1>5. CASE f = "mirror"
  <2>1. e = [d EXCEPT !.mirror = v, !.dir = b]
    BY <1>1, <1>2, <1>5
  <2>2. v \in Seq(Entry)
    BY <1>5 DEF Suits
  <2>3. e \in Directory
    BY <1>3, <2>1, <2>2 DEF Directory
  <2> QED BY <1>2, <1>4, <1>5, <2>1, <2>3 DEF Changed, Exports
<1>6. CASE f = "events"
  <2>1. e = [d EXCEPT !.events = v, !.dir = b]
    BY <1>1, <1>2, <1>6
  <2>2. v \in Seq(Entry)
    BY <1>6 DEF Suits
  <2>3. e \in Directory
    BY <1>3, <2>1, <2>2 DEF Directory
  <2> QED BY <1>2, <1>4, <1>6, <2>1, <2>3 DEF Changed, Exports
<1>7. CASE f = "manifest"
  <2>1. e = [d EXCEPT !.manifest = v, !.dir = b]
    BY <1>1, <1>2, <1>7
  <2>2. v \in Manifest
    BY <1>7 DEF Suits
  <2>3. e \in Directory
    BY <1>3, <2>1, <2>2 DEF Directory
  <2> QED BY <1>2, <1>4, <1>7, <2>1, <2>3 DEF Changed, Exports
<1>8. CASE f = "session"
  <2>1. e = [d EXCEPT !.session = v, !.dir = b]
    BY <1>1, <1>2, <1>8
  <2>2. v \in Document
    BY <1>8 DEF Suits
  <2>3. e \in Directory
    BY <1>3, <2>1, <2>2 DEF Directory
  <2> QED BY <1>2, <1>4, <1>8, <2>1, <2>3 DEF Changed, Exports
<1>9. CASE f = "transcript_original"
  <2>1. e = [d EXCEPT !.transcript_original = v, !.dir = b]
    BY <1>1, <1>2, <1>9
  <2>2. v \in Rendering
    BY <1>9 DEF Suits, Exports
  <2>3. e \in Directory
    BY <1>3, <2>1, <2>2 DEF Directory
  <2> QED BY <1>2, <1>4, <1>9, <2>1, <2>3 DEF Changed, Exports
<1>10. CASE f = "transcript_korean"
  <2>1. e = [d EXCEPT !.transcript_korean = v, !.dir = b]
    BY <1>1, <1>2, <1>10
  <2>2. v \in Rendering
    BY <1>10 DEF Suits, Exports
  <2>3. e \in Directory
    BY <1>3, <2>1, <2>2 DEF Directory
  <2> QED BY <1>2, <1>4, <1>10, <2>1, <2>3 DEF Changed, Exports
<1>11. CASE f = "meeting_report"
  <2>1. e = [d EXCEPT !.meeting_report = v, !.dir = b]
    BY <1>1, <1>2, <1>11
  <2>2. v \in Rendering
    BY <1>11 DEF Suits, Exports
  <2>3. e \in Directory
    BY <1>3, <2>1, <2>2 DEF Directory
  <2> QED BY <1>2, <1>4, <1>11, <2>1, <2>3 DEF Changed, Exports
<1>12. CASE f = "analysis"
  <2>1. v \in BOOLEAN
    BY <1>12, ValuesAre DEF Suits
  <2>2. e = [d EXCEPT !.analysis = v, !.dir = b]
    BY <1>1, <1>2, <1>12
  <2>3. e \in Directory
    BY <1>3, <2>1, <2>2 DEF Directory
  <2> QED BY <1>2, <1>4, <1>12, <2>2, <2>3 DEF Changed, Exports
<1>13. CASE f = "dir"
  <2>1. v \in BOOLEAN
    BY <1>13, ValuesAre DEF Suits
  <2>2. v
    BY <1>13, Zenon DEF Suits, Yes
  <2>3. b = v
    BY <1>2, <1>13, <2>1, <2>2
  <2>4. e = [d EXCEPT !.dir = v]
    BY <1>1, <1>2, <1>13, <2>3
  <2>5. e \in Directory
    BY <2>1, <2>4 DEF Directory
  <2>6. e.dir = b
    BY <1>4, <2>3, <2>4
  <2> QED BY <1>2, <1>4, <1>13, <2>4, <2>5, <2>6 DEF Changed, Exports
<1> QED BY <1>5, <1>6, <1>7, <1>8, <1>9, <1>10, <1>11, <1>12, <1>13 DEF Suits, Files

\* What a step does to the log and the document of a session.
Steps(d, e) ==
    \/ /\ Source(e) = Source(d)
       /\ d.session = NoFile <=> e.session = NoFile
       /\ d.session # NoFile => e.session.segments = d.session.segments
    \/ /\ \E row \in Entry : Source(e) = Appended(Source(d), row)
       /\ e.session = d.session
    \/ /\ Source(e) = Source(d) /\ ~Undecodable(Source(d))
       /\ e.session # NoFile /\ e.session.segments = Assembled(Source(d))

LEMMA NoFileIs ==
    /\ \A m \in Manifest : m # NoFile
    /\ \A doc \in Document : doc # NoFile
    /\ \A row \in Entry : row # NoFile
BY NoFileAssumption

LEMMA DirKeeps ==
    ASSUME NEW d, NEW e, Sound(d), Changed(d, e, "dir", Yes)
    PROVE /\ Sound(e) /\ Steps(d, e) /\ Source(e) = Source(d)
          /\ ManifestOf(e) = ManifestOf(d) /\ e.manifest = d.manifest
          /\ e.events = d.events /\ e.mirror = d.mirror /\ e.analysis = d.analysis
<1>1. /\ e \in Directory /\ e.dir /\ e.manifest = d.manifest /\ e.events = d.events
      /\ e.mirror = d.mirror /\ e.session = d.session /\ e.analysis = d.analysis
      /\ \A kind \in Exports : e[kind] = d[kind]
  BY DEF Changed, Exports
<1>2. Source(e) = Source(d) /\ ManifestOf(e) = ManifestOf(d)
  BY <1>1 DEF Source, ManifestOf
<1>3. Built(e)
  BY <1>1 DEF Sound, Built
<1>4. Granted(e)
  BY <1>1, <1>2 DEF Sound, Granted
<1>5. Showing(e)
  BY <1>1, <1>2 DEF Sound, Showing
<1>6. Agreed(e)
  BY <1>1 DEF Sound, Agreed
<1> QED BY <1>1, <1>2, <1>3, <1>4, <1>5, <1>6 DEF Sound, Steps

LEMMA ManifestKeeps ==
    ASSUME NEW d, NEW e, NEW m \in Manifest, Sound(d), Changed(d, e, "manifest", m),
           \/ m.policy = ManifestOf(d).policy
           \/ d.events = <<>> /\ d.mirror = <<>> /\ ~d.analysis,
           Backs(m, d.analysis),
           m.status \in Final /\ d.session # NoFile =>
               \A kind \in Exports : d[kind] = Rendered(kind, d.session)
    PROVE /\ Sound(e) /\ Steps(d, e) /\ Source(e) = Source(d)
          /\ ManifestOf(e) = m /\ e.manifest = m
<1>1. /\ e \in Directory /\ e.dir /\ e.manifest = m /\ e.events = d.events
      /\ e.mirror = d.mirror /\ e.session = d.session /\ e.analysis = d.analysis
      /\ \A kind \in Exports : e[kind] = d[kind]
  BY DEF Changed, Exports
<1>2. m # NoFile
  BY NoFileIs
<1>3. Source(e) = Source(d) /\ ManifestOf(e) = m
  BY <1>1, <1>2 DEF Source, ManifestOf
<1>4. Built(e)
  BY <1>1, <1>2 DEF Sound, Built
<1>5. Granted(e)
  <2>1. CASE m.policy = ManifestOf(d).policy
    BY <1>1, <1>3, <2>1 DEF Sound, Granted
  <2>2. CASE d.events = <<>> /\ d.mirror = <<>> /\ ~d.analysis
    <3>1. AllFit(<<>>, m.policy)
      <4>1. \A i : i \notin 1 .. Len(<<>>)
        OBVIOUS
      <4> QED BY <4>1 DEF AllFit
    <3> QED BY <1>1, <1>3, <2>2, <3>1 DEF Granted
  <2> QED BY <2>1, <2>2
<1>6. Showing(e)
  BY <1>1, <1>3 DEF Sound, Showing
<1>7. Agreed(e)
  BY <1>1, <1>2 DEF Sound, Agreed
<1>8. Steps(d, e)
  BY <1>1, <1>3 DEF Steps
<1> QED BY <1>1, <1>3, <1>4, <1>5, <1>6, <1>7, <1>8 DEF Sound

LEMMA AnalysisKeeps ==
    ASSUME NEW d, NEW e, Sound(d), Changed(d, e, "analysis", Yes),
           ManifestOf(d).policy.save_analysis
    PROVE /\ Sound(e) /\ Steps(d, e) /\ Source(e) = Source(d)
          /\ ManifestOf(e) = ManifestOf(d) /\ e.manifest = d.manifest
          /\ e.events = d.events /\ e.mirror = d.mirror /\ e.analysis
<1>1. /\ e \in Directory /\ e.dir /\ e.manifest = d.manifest /\ e.events = d.events
      /\ e.mirror = d.mirror /\ e.session = d.session /\ e.analysis
      /\ \A kind \in Exports : e[kind] = d[kind]
  <2>1. e.analysis = Yes
    BY DEF Changed
  <2>2. e.analysis
    BY <2>1, Zenon DEF Yes
  <2> QED BY <2>2 DEF Changed, Exports
<1>2. Source(e) = Source(d) /\ ManifestOf(e) = ManifestOf(d)
  BY <1>1 DEF Source, ManifestOf
<1>3. Built(e)
  BY <1>1 DEF Sound, Built
<1>4. Granted(e)
  BY <1>1, <1>2 DEF Sound, Granted
<1>5. Showing(e)
  BY <1>1, <1>2 DEF Sound, Showing, Backs
<1>6. Agreed(e)
  BY <1>1 DEF Sound, Agreed
<1> QED BY <1>1, <1>2, <1>3, <1>4, <1>5, <1>6 DEF Sound, Steps

LEMMA ExportKeeps ==
    ASSUME NEW d, NEW e, NEW f \in Exports, NEW v, Sound(d), Changed(d, e, f, v),
           d.manifest # NoFile, d.manifest.status \notin Final
    PROVE /\ Sound(e) /\ Steps(d, e) /\ Source(e) = Source(d)
          /\ e.manifest = d.manifest /\ e.session = d.session /\ e.analysis = d.analysis
<1>1. f \notin {"dir", "manifest", "events", "mirror", "session", "analysis"}
  BY DEF Exports
<1>2. /\ e \in Directory /\ e.dir /\ e.manifest = d.manifest /\ e.events = d.events
      /\ e.mirror = d.mirror /\ e.session = d.session /\ e.analysis = d.analysis
  BY <1>1 DEF Changed
<1>3. Source(e) = Source(d) /\ ManifestOf(e) = ManifestOf(d)
  BY <1>2 DEF Source, ManifestOf
<1>4. Built(e)
  BY <1>2 DEF Sound, Built
<1>5. Granted(e)
  BY <1>2, <1>3 DEF Sound, Granted
<1>6. Showing(e)
  BY <1>2, <1>3 DEF Sound, Showing
<1>7. Agreed(e)
  BY <1>2 DEF Agreed
<1> QED BY <1>2, <1>3, <1>4, <1>5, <1>6, <1>7 DEF Sound, Steps

LEMMA SessionKeeps ==
    ASSUME NEW d, NEW e, NEW doc \in Document, Sound(d), Changed(d, e, "session", doc),
           d.manifest # NoFile, doc.analysis => d.analysis,
           d.manifest.status \in Final =>
               \A kind \in Exports : d[kind] = Rendered(kind, doc),
           \/ ~Undecodable(Source(d)) /\ doc.segments = Assembled(Source(d))
           \/ d.session # NoFile /\ doc.segments = d.session.segments
    PROVE /\ Sound(e) /\ Steps(d, e) /\ Source(e) = Source(d)
          /\ e.manifest = d.manifest /\ e.session = doc /\ e.analysis = d.analysis
          /\ \A kind \in Exports : e[kind] = d[kind]
<1>1. /\ e \in Directory /\ e.dir /\ e.manifest = d.manifest /\ e.events = d.events
      /\ e.mirror = d.mirror /\ e.session = doc /\ e.analysis = d.analysis
      /\ \A kind \in Exports : e[kind] = d[kind]
  BY DEF Changed, Exports
<1>2. doc # NoFile
  BY NoFileIs
<1>3. Source(e) = Source(d) /\ ManifestOf(e) = ManifestOf(d)
  BY <1>1 DEF Source, ManifestOf
<1>4. Built(e)
  BY <1>1 DEF Sound, Built
<1>5. Granted(e)
  BY <1>1, <1>3 DEF Sound, Granted
<1>6. /\ Originals(doc) \subseteq Spoken(Source(d))
      /\ Translations(doc) \subseteq Shared(Source(d))
  <2>1. CASE doc.segments = Assembled(Source(d))
    <3>1. Source(d) \in Seq(Entry) /\ Single(Source(d))
      BY DirectoryIs DEF Sound, Built, Showing
    <3> QED BY <2>1, <3>1, AssembledShows
  <2>2. CASE d.session # NoFile /\ doc.segments = d.session.segments
    <3>1. Originals(doc) = Originals(d.session) /\ Translations(doc) = Translations(d.session)
      BY <2>2 DEF Originals, Translations
    <3> QED BY <2>2, <3>1 DEF Sound, Showing
  <2> QED BY <2>1, <2>2
<1>7. Showing(e)
  BY <1>1, <1>3, <1>6 DEF Sound, Showing
<1>8. Agreed(e)
  BY <1>1 DEF Agreed
<1>9. Steps(d, e)
  BY <1>1, <1>2, <1>3 DEF Steps
<1> QED BY <1>1, <1>3, <1>4, <1>5, <1>7, <1>8, <1>9 DEF Sound

LEMMA EventsKeep ==
    ASSUME NEW d, NEW e, NEW row \in Entry, NEW v, v = Appended(d.events, row),
           Sound(d), Changed(d, e, "events", v),
           d.manifest # NoFile, d.events = <<>> => d.mirror = <<>>,
           Fit(row, d.manifest.policy),
           row.type \in FinalTypes => ~Has(d.events, FinalTypes, row.segment)
    PROVE /\ Sound(e) /\ Steps(d, e) /\ Source(e) = v /\ e.events = v /\ e.events # <<>>
          /\ Source(d) = d.events /\ Longer(d.events, v, row)
          /\ e.manifest = d.manifest /\ e.mirror = d.mirror
          /\ e.session = d.session /\ e.analysis = d.analysis
<1>1. /\ e \in Directory /\ e.dir /\ e.manifest = d.manifest /\ e.events = v
      /\ e.mirror = d.mirror /\ e.session = d.session /\ e.analysis = d.analysis
      /\ \A kind \in Exports : e[kind] = d[kind]
  BY DEF Changed, Exports
<1>2. d \in Directory /\ d.events \in Seq(Entry) /\ ManifestOf(d) = d.manifest
  BY DirectoryIs DEF Sound, Built, ManifestOf
<1>3. Longer(d.events, v, row)
  BY <1>2, AppendedIs
<1>4. v # <<>>
  BY <1>3 DEF Longer
<1>5. Source(e) = v /\ Source(d) = d.events /\ ManifestOf(e) = d.manifest
  BY <1>1, <1>2, <1>4 DEF Source, ManifestOf
<1>6. Built(e)
  BY <1>1 DEF Sound, Built
<1>7. Granted(e)
  <2>1. AllFit(v, d.manifest.policy)
    BY <1>2, <1>3, FitGrows DEF Sound, Granted
  <2> QED BY <1>1, <1>2, <1>5, <2>1 DEF Sound, Granted
<1>8. Showing(e)
  <2>1. Single(v)
    BY <1>2, <1>3, <1>5, SingleGrows DEF Sound, Showing
  <2>2. Spoken(d.events) \subseteq Spoken(v) /\ Shared(d.events) \subseteq Shared(v)
    BY <1>2, <1>3, ShownGrows
  <2> QED BY <1>1, <1>5, <2>1, <2>2 DEF Sound, Showing
<1>9. Agreed(e)
  BY <1>1 DEF Sound, Agreed
<1>10. Steps(d, e)
  BY <1>1, <1>5 DEF Steps
<1> QED BY <1>1, <1>3, <1>4, <1>5, <1>6, <1>7, <1>8, <1>9, <1>10 DEF Sound

LEMMA MirrorKeeps ==
    ASSUME NEW d, NEW e, NEW row \in Entry, NEW v, v = Appended(d.mirror, row),
           Sound(d), Changed(d, e, "mirror", v),
           d.manifest # NoFile, d.events # <<>>, Fit(row, d.manifest.policy)
    PROVE /\ Sound(e) /\ Steps(d, e) /\ Source(e) = Source(d) /\ e.events = d.events
          /\ e.manifest = d.manifest /\ e.session = d.session /\ e.analysis = d.analysis
<1>1. /\ e \in Directory /\ e.dir = d.dir /\ e.manifest = d.manifest /\ e.events = d.events
      /\ e.mirror = v /\ e.session = d.session /\ e.analysis = d.analysis
      /\ \A kind \in Exports : e[kind] = d[kind]
  <2>1. d.dir \in BOOLEAN
    BY DirectoryIs DEF Sound, Built
  <2> QED BY <2>1 DEF Changed, Exports
<1>2. d \in Directory /\ d.mirror \in Seq(Entry) /\ ManifestOf(d) = d.manifest
  BY DirectoryIs DEF Sound, Built, ManifestOf
<1>3. Longer(d.mirror, v, row)
  BY <1>2, AppendedIs
<1>4. Source(e) = Source(d) /\ ManifestOf(e) = d.manifest
  BY <1>1 DEF Source, ManifestOf
<1>5. Built(e)
  BY <1>1 DEF Sound, Built
<1>6. Granted(e)
  <2>1. AllFit(v, d.manifest.policy)
    BY <1>2, <1>3, FitGrows DEF Sound, Granted
  <2> QED BY <1>1, <1>2, <1>4, <2>1 DEF Sound, Granted
<1>7. Showing(e)
  BY <1>1, <1>4 DEF Sound, Showing
<1>8. Agreed(e)
  BY <1>1 DEF Sound, Agreed
<1> QED BY <1>1, <1>4, <1>5, <1>6, <1>7, <1>8 DEF Sound, Steps

-----------------------------------------------------------------------------
(* Each write moves one list to the next *)

Left(d, ws, row, u, o) ==
    IF ws = <<>> THEN Leaves(d, u, o) ELSE Todo(d, ws, row, u, o)

\* A row is about to go to the log, or to the root log.
Recording(d, w, row) ==
    /\ d.manifest # NoFile /\ row \in Entry /\ Fit(row, d.manifest.policy)
    /\ w.file = "events" =>
           /\ w.value = Appended(d.events, row) /\ (d.events = <<>> => d.mirror = <<>>)
           /\ row.type \in FinalTypes => ~Has(d.events, FinalTypes, row.segment)
    /\ w.file = "mirror" => w.value = Appended(d.mirror, row) /\ d.events # <<>>

\* The first write of ws is made: the directory d becomes e.
Moves(d, e, ws, row, u, o) ==
    /\ ws # <<>> /\ Sound(e) /\ Steps(d, e) /\ Left(e, Tail(ws), row, u, o)
    /\ e.manifest # NoFile \/ (d.manifest = NoFile /\ Tail(ws) # <<>>)
    /\ Head(ws).file \in {"events", "mirror"} => Recording(d, Head(ws), row)
    /\ Head(ws).file = "events" => Longer(d.events, e.events, row) /\ e.events # <<>>
    /\ Head(ws).file = "events" \/ (e.events = d.events
                                    /\ (e.mirror = d.mirror \/ d.events # <<>>))
    /\ Head(ws).guarded => d.manifest # NoFile /\ Head(ws).file \notin {"events", "mirror"}

Writing(d, e, ws) ==
    /\ d \in Directory /\ Sound(d)
    /\ e = Stored(d, Head(ws), Head(ws).value)

LEMMA WritingIs ==
    ASSUME NEW d, NEW e, NEW ws, Writing(d, e, ws), NEW w, NEW rest, Next2(ws, w, rest)
    PROVE /\ \A f \in Files, v \in Values :
                 (w = Caught(f, v) \/ w = Raised(f, v)) /\ Suits(f, v)
                 => Changed(d, e, f, v) /\ Head(ws).file = f /\ ws # <<>> /\ Head(ws).value = v
          /\ \A f \in Files, v \in Values : w = Raised(f, v) => ~Head(ws).guarded
          /\ Tail(ws) = rest
<1>1. Head(ws) = w /\ Tail(ws) = rest /\ ws # <<>> /\ Head(ws) = w
  BY DEF Next2
<1>2. e = Stored(d, w, w.value) /\ d \in Directory
  BY <1>1, Zenon DEF Writing
<1>3. ASSUME NEW f \in Files, NEW v \in Values, w = Caught(f, v) \/ w = Raised(f, v),
             Suits(f, v)
      PROVE Changed(d, e, f, v) /\ Head(ws).file = f /\ ws # <<>> /\ Head(ws).value = v
  <2>1. w.file = f /\ w.value = v
    BY <1>3, WriteIs
  <2> QED BY <1>1, <1>2, <1>3, <2>1, StoredIs
<1>4. ASSUME NEW f \in Files, NEW v \in Values, w = Raised(f, v)
      PROVE ~Head(ws).guarded
  BY <1>1, <1>4, WriteIs
<1> QED BY <1>1, <1>3, <1>4

LEMMA SuitsIs ==
    /\ Suits("dir", Yes) /\ Suits("analysis", Yes)
    /\ \A m \in Manifest : Suits("manifest", m)
    /\ \A log \in Seq(Entry) : Suits("events", log) /\ Suits("mirror", log)
    /\ \A doc \in Document : Suits("session", doc)
    /\ \A v \in Rendering, kind \in Exports : Suits(kind, v)
BY DEF Suits, Files, Exports

LEMMA RaisedIs ==
    ASSUME NEW d, NEW e, NEW ws, NEW rest, NEW f \in Files, NEW v \in Values,
           Writing(d, e, ws), Suits(f, v), Next2(ws, Raised(f, v), rest)
    PROVE /\ Changed(d, e, f, v) /\ Head(ws).file = f /\ Head(ws).value = v
          /\ ~Head(ws).guarded /\ ws # <<>> /\ Tail(ws) = rest
<1>1. PICK w : w = Raised(f, v)
  OBVIOUS
<1>2. Next2(ws, w, rest)
  BY <1>1
<1>3. Changed(d, e, f, v) /\ Head(ws).file = f /\ Head(ws).value = v
  BY <1>1, <1>2, WritingIs
<1>4. ~Head(ws).guarded
  BY <1>1, <1>2, WritingIs
<1> QED BY <1>2, <1>3, <1>4 DEF Next2

LEMMA PubSuffix ==
    ASSUME NEW P \in Seq(Writes), Len(P) = 6, NEW k \in 1 .. 6,
           NEW ws, ws = SubSeq(P, k, 6)
    PROVE /\ Next2(ws, P[k], SubSeq(P, k + 1, 6))
          /\ k = 6 => SubSeq(P, k + 1, 6) = <<>>
          /\ k # 6 => SubSeq(P, k + 1, 6) # <<>>
<1>1. k \in 1 .. Len(P) /\ 6 \in k .. Len(P) /\ k \in Int
  OBVIOUS
<1>2. Head(ws) = P[k] /\ Tail(ws) = SubSeq(P, k + 1, 6)
  BY <1>1, HeadTailOfSubSeq
<1>3. \A i \in 1 .. 6 : P[i] \in Writes
  BY ElementOfSeq
<1>4. ASSUME NEW j \in 1 .. 6
      PROVE SubSeq(P, j, 6) \in Seq(Writes) /\ SubSeq(P, j, 6) # <<>>
  <2>1. j \in Int /\ 6 \in Int /\ \A i \in j .. 6 : P[i] \in Writes
    BY <1>3
  <2>2. SubSeq(P, j, 6) \in Seq(Writes) /\ Len(SubSeq(P, j, 6)) = 6 - j + 1
    BY <2>1, SubSeqProperties
  <2>3. Len(SubSeq(P, j, 6)) # 0
    BY <2>2
  <2> QED BY <2>2, <2>3, EmptySeq
<1>5. ws # <<>> /\ ws \in Seq(Writes)
  BY <1>4
<1>7. k = 6 => SubSeq(P, k + 1, 6) = <<>>
  BY SubSeqEmpty
<1>8. k # 6 => SubSeq(P, k + 1, 6) # <<>>
  BY <1>4
<1> QED BY <1>2, <1>5, <1>7, <1>8 DEF Next2

LEMMA TodoIs ==
    ASSUME NEW d, NEW ws, NEW row, NEW u, NEW o, ws # <<>>,
           \/ Starting(d, ws, o) \/ Mirrors(d, ws, row, u, o) \/ Retelling(d, ws, u, o)
           \/ Renewing(d, ws) \/ Finalizing(d, ws) \/ Publishing(d, ws) \/ Losing(d, ws)
    PROVE Left(d, ws, row, u, o)
BY DEF Left, Todo

\* A publication under way: what is known of its k-th write and of those before.
Underway(d, ws, end, k, m, log, an, P, doc) ==
    /\ m \in Manifest /\ m = d.manifest /\ ManifestOf(d) = m /\ m # NoFile
    /\ log \in Seq(Entry) /\ log = Source(d) /\ ~Undecodable(log)
    /\ an \in BOOLEAN /\ an = d.analysis
    /\ m = IF k = 6 THEN Ending(m, end) ELSE Begun(m)
    /\ P = Pub(m, log, an, end) /\ doc = Doc(Begun(m), log, an)
    /\ ws = SubSeq(P, k, 6)
    /\ k > 1 => d.session = doc
    /\ k > 2 => d.transcript_original = Rendered("transcript_original", doc)
    /\ k > 3 => d.transcript_korean = Rendered("transcript_korean", doc)
    /\ k > 4 => d.meeting_report = Rendered("meeting_report", doc)

LEMMA UnderwayIs ==
    ASSUME NEW d \in Directory, NEW ws, Publishing(d, ws)
    PROVE \E end \in Final, k \in 1 .. 6 :
              \E m, log, an, P, doc : Underway(d, ws, end, k, m, log, an, P, doc)
<1>1. PICK end \in Final, k \in 1 .. 6 :
        /\ Published(d, end, k)
        /\ ws = SubSeq(Pub(d.manifest, Source(d), d.analysis, end), k, 6)
  BY DEF Publishing
<1>2. /\ d.manifest \in Manifest /\ ManifestOf(d) = d.manifest /\ d.manifest # NoFile
      /\ Source(d) \in Seq(Entry) /\ ~Undecodable(Source(d)) /\ d.analysis \in BOOLEAN
      /\ d.manifest = IF k = 6 THEN Ending(d.manifest, end) ELSE Begun(d.manifest)
  BY <1>1, DirectoryIs DEF Published, ManifestOf
<1>3. PICK doc : doc = Doc(Begun(d.manifest), Source(d), d.analysis)
  OBVIOUS
<1>4. /\ k > 1 => d.session = doc
      /\ k > 2 => d.transcript_original = Rendered("transcript_original", doc)
      /\ k > 3 => d.transcript_korean = Rendered("transcript_korean", doc)
      /\ k > 4 => d.meeting_report = Rendered("meeting_report", doc)
  BY <1>1, <1>3 DEF Published
<1>5. Underway(d, ws, end, k, d.manifest, Source(d), d.analysis,
               Pub(d.manifest, Source(d), d.analysis, end), doc)
  BY <1>1, <1>2, <1>3, <1>4, Zenon DEF Underway
<1> QED BY <1>5

LEMMA UnderwayWrites ==
    ASSUME NEW d, NEW ws, NEW end \in Final, NEW k \in 1 .. 6,
           NEW m, NEW log, NEW an, NEW P, NEW doc,
           Underway(d, ws, end, k, m, log, an, P, doc)
    PROVE /\ P \in Seq(Writes) /\ Len(P) = 6
          /\ P[1] = Caught("session", doc)
          /\ P[2] = Caught("transcript_original", Rendered("transcript_original", doc))
          /\ P[3] = Caught("transcript_korean", Rendered("transcript_korean", doc))
          /\ P[4] = Caught("meeting_report", Rendered("meeting_report", doc))
          /\ P[5] = Caught("manifest", Ending(m, end))
          /\ P[6] = Caught("session", Doc(Ending(m, end), log, an))
<1>1. m \in Manifest /\ log \in Seq(Entry) /\ an \in BOOLEAN
  BY DEF Underway
<1>2. P = Pub(m, log, an, end) /\ doc = Doc(Begun(m), log, an)
  BY DEF Underway
<1> QED BY <1>1, <1>2, PubIs

LEMMA UnderwayNext ==
    ASSUME NEW d, NEW ws, NEW end \in Final, NEW k \in 1 .. 6,
           NEW m, NEW log, NEW an, NEW P, NEW doc,
           Underway(d, ws, end, k, m, log, an, P, doc)
    PROVE /\ Next2(ws, P[k], SubSeq(P, k + 1, 6))
          /\ k = 6 => SubSeq(P, k + 1, 6) = <<>>
          /\ k # 6 => SubSeq(P, k + 1, 6) # <<>>
<1>1. P \in Seq(Writes) /\ Len(P) = 6
  BY UnderwayWrites
<1>2. ws = SubSeq(P, k, 6)
  BY DEF Underway
<1> QED BY <1>1, <1>2, PubSuffix

LEMMA UnderwayDoc ==
    ASSUME NEW d, NEW ws, NEW end \in Final, NEW k \in 1 .. 6,
           NEW m, NEW log, NEW an, NEW P, NEW doc,
           Underway(d, ws, end, k, m, log, an, P, doc)
    PROVE doc \in Document /\ doc.segments = Assembled(log) /\ (doc.analysis => an)
<1>1. m \in Manifest /\ log \in Seq(Entry) /\ an \in BOOLEAN /\ doc = Doc(Begun(m), log, an)
  BY DEF Underway
<1>2. doc.analysis = (Begun(m).policy.save_analysis /\ an)
  BY <1>1, BegunIs, DocIs
<1> QED BY <1>1, <1>2, BegunIs, DocIs

\* What is left is a publication as well.
LEMMA UnderwayStill ==
    ASSUME NEW d, NEW e, NEW ws, NEW row, NEW u, NEW o, NEW end \in Final,
           NEW k \in 1 .. 5, NEW m, NEW log, NEW an, NEW P, NEW doc,
           Underway(d, ws, end, k, m, log, an, P, doc),
           Source(e) = log, e.analysis = an,
           e.manifest = (IF k = 5 THEN Ending(m, end) ELSE m), e.session = doc,
           k > 1 => e.transcript_original = Rendered("transcript_original", doc),
           k > 2 => e.transcript_korean = Rendered("transcript_korean", doc),
           k > 3 => e.meeting_report = Rendered("meeting_report", doc)
    PROVE Left(e, Tail(ws), row, u, o) /\ e.manifest # NoFile
<1>1. m \in Manifest /\ m = Begun(m) /\ P = Pub(m, log, an, end)
  BY DEF Underway
<1>2. doc = Doc(Begun(m), log, an) /\ ~Undecodable(log)
  BY DEF Underway
<1>3. e.manifest \in Manifest /\ e.manifest # NoFile
  BY <1>1, BegunIs, NoFileIs
<1>4. Begun(e.manifest) = Begun(m) /\ Ending(e.manifest, end) = Ending(m, end)
  BY <1>1, BegunIs
<1>5. Tail(ws) = SubSeq(P, k + 1, 6) /\ Tail(ws) # <<>> /\ k + 1 \in 1 .. 6
  <2>1. k \in 1 .. 6 /\ k # 6 /\ k + 1 \in 1 .. 6
    OBVIOUS
  <2>2. Next2(ws, P[k], SubSeq(P, k + 1, 6)) /\ SubSeq(P, k + 1, 6) # <<>>
    BY <2>1, UnderwayNext
  <2> QED BY <2>1, <2>2 DEF Next2
<1>6. Pub(e.manifest, Source(e), e.analysis, end) = P
  BY <1>1, <1>4, Zenon DEF Pub
<1>7. Doc(Begun(e.manifest), Source(e), e.analysis) = doc
  BY <1>2, <1>4, Zenon
<1>8. e.manifest = IF k + 1 = 6 THEN Ending(e.manifest, end) ELSE Begun(e.manifest)
  BY <1>1, <1>4
<1>9. Published(e, end, k + 1)
  BY <1>2, <1>3, <1>7, <1>8 DEF Published
<1>10. Publishing(e, Tail(ws))
  BY <1>5, <1>6, <1>9 DEF Publishing
<1> QED BY <1>3, <1>5, <1>10, TodoIs

LEMMA PublishingDocument ==
    ASSUME NEW d, NEW e, NEW ws, NEW row, NEW u, NEW o, NEW end \in Final,
           NEW k \in 1 .. 6, NEW m, NEW log, NEW an, NEW P, NEW doc, Writing(d, e, ws),
           Underway(d, ws, end, k, m, log, an, P, doc), k = 1
    PROVE Moves(d, e, ws, row, u, o)
<1>1. /\ P[1] = Caught("session", doc) /\ Next2(ws, P[k], SubSeq(P, k + 1, 6))
      /\ doc \in Document /\ doc.segments = Assembled(log) /\ (doc.analysis => an)
  BY UnderwayWrites, UnderwayNext, UnderwayDoc
<1>2. /\ m \in Manifest /\ m = d.manifest /\ m # NoFile /\ m = Begun(m)
      /\ log = Source(d) /\ ~Undecodable(log) /\ an = d.analysis
  BY DEF Underway
<1>3. "session" \in Files /\ doc \in Values /\ Suits("session", doc)
  BY <1>1, ValuesAre, SuitsIs
<1>4. Changed(d, e, "session", doc) /\ Head(ws).file = "session" /\ ws # <<>>
  <2>1. Next2(ws, Caught("session", doc), SubSeq(P, k + 1, 6))
    BY <1>1
  <2> QED BY <1>3, <2>1, WritingIs
<1>5. m.status \notin Final /\ Sound(d)
  <2>1. Begun(m).status = "finalizing"
    BY <1>2, BegunIs
  <2> QED BY <1>2, <2>1 DEF Final, Writing
<1>6. /\ Sound(e) /\ Steps(d, e) /\ Source(e) = Source(d)
      /\ e.manifest = d.manifest /\ e.session = doc /\ e.analysis = d.analysis
  BY <1>1, <1>2, <1>4, <1>5, SessionKeeps
<1>7. Left(e, Tail(ws), row, u, o)
  <2>1. /\ k \in 1 .. 5 /\ ~(k > 1) /\ ~(k > 2) /\ ~(k > 3)
        /\ e.manifest = IF k = 5 THEN Ending(m, end) ELSE m
    BY <1>2, <1>6
  <2> QED BY <1>2, <1>6, <2>1, UnderwayStill
<1>8. e.events = d.events /\ e.mirror = d.mirror
  BY <1>4 DEF Changed
<1> QED BY <1>2, <1>4, <1>6, <1>7, <1>8 DEF Moves

LEMMA PublishingExport ==
    ASSUME NEW d, NEW e, NEW ws, NEW row, NEW u, NEW o, NEW end \in Final,
           NEW k \in 1 .. 6, NEW m, NEW log, NEW an, NEW P, NEW doc, Writing(d, e, ws),
           Underway(d, ws, end, k, m, log, an, P, doc), k \in 2 .. 4
    PROVE Moves(d, e, ws, row, u, o)
<1>1. PICK f : f = (IF k = 2 THEN "transcript_original"
                    ELSE IF k = 3 THEN "transcript_korean" ELSE "meeting_report")
  OBVIOUS
<1>2. PICK v : v = Rendered(f, doc)
  OBVIOUS
<1>3. Next2(ws, Caught(f, v), SubSeq(P, k + 1, 6))
  <2>1. /\ P[2] = Caught("transcript_original", Rendered("transcript_original", doc))
        /\ P[3] = Caught("transcript_korean", Rendered("transcript_korean", doc))
        /\ P[4] = Caught("meeting_report", Rendered("meeting_report", doc))
    BY UnderwayWrites
  <2>2. P[k] = Caught(f, v)
    <3>1. k = 2 \/ k = 3 \/ k = 4
      OBVIOUS
    <3> QED BY <1>1, <1>2, <2>1, <3>1
  <2>3. Next2(ws, P[k], SubSeq(P, k + 1, 6))
    BY UnderwayNext
  <2> QED BY <2>2, <2>3
<1>4. /\ m \in Manifest /\ m = d.manifest /\ m # NoFile /\ m = Begun(m)
      /\ log = Source(d) /\ an = d.analysis /\ d.session = doc
      /\ k > 2 => d.transcript_original = Rendered("transcript_original", doc)
      /\ k > 3 => d.transcript_korean = Rendered("transcript_korean", doc)
  BY DEF Underway
<1>5. doc \in Document
  BY UnderwayDoc
<1>6. f \in Files /\ f \in Exports /\ v \in Rendering /\ v \in Values /\ Suits(f, v)
  BY <1>1, <1>2, <1>5, RenderedIs, ValuesAre, SuitsIs DEF Exports
<1>7. Changed(d, e, f, v) /\ Head(ws).file = f /\ ws # <<>>
  BY <1>3, <1>6, WritingIs
<1>8. m.status \notin Final /\ Sound(d)
  <2>1. Begun(m).status = "finalizing"
    BY <1>4, BegunIs
  <2> QED BY <1>4, <2>1 DEF Final, Writing
<1>9. /\ Sound(e) /\ Steps(d, e) /\ Source(e) = Source(d)
      /\ e.manifest = d.manifest /\ e.session = d.session /\ e.analysis = d.analysis
  BY <1>4, <1>6, <1>7, <1>8, ExportKeeps
<1>10. /\ e.transcript_original =
              IF f = "transcript_original" THEN v ELSE d.transcript_original
       /\ e.transcript_korean =
              IF f = "transcript_korean" THEN v ELSE d.transcript_korean
       /\ e.meeting_report =
              IF f = "meeting_report" THEN v ELSE d.meeting_report
  BY <1>7 DEF Changed, Exports
<1>11. /\ e.transcript_original = Rendered("transcript_original", doc)
       /\ k > 2 => e.transcript_korean = Rendered("transcript_korean", doc)
       /\ k > 3 => e.meeting_report = Rendered("meeting_report", doc)
  BY <1>1, <1>2, <1>4, <1>10
<1>12. Left(e, Tail(ws), row, u, o)
  <2>1. /\ k \in 1 .. 5
        /\ e.manifest = IF k = 5 THEN Ending(m, end) ELSE m
    BY <1>4, <1>9
  <2> QED BY <1>4, <1>9, <1>11, <2>1, UnderwayStill
<1>13. e.events = d.events /\ e.mirror = d.mirror
  BY <1>6, <1>7 DEF Changed, Exports
<1>14. Head(ws).file \notin {"events", "mirror"} /\ ws # <<>>
  BY <1>6, <1>7 DEF Exports
<1> QED BY <1>4, <1>9, <1>12, <1>13, <1>14 DEF Moves

LEMMA PublishingStatus ==
    ASSUME NEW d, NEW e, NEW ws, NEW row, NEW u, NEW o, NEW end \in Final,
           NEW k \in 1 .. 6, NEW m, NEW log, NEW an, NEW P, NEW doc, Writing(d, e, ws),
           Underway(d, ws, end, k, m, log, an, P, doc), k = 5
    PROVE Moves(d, e, ws, row, u, o)
<1>1. PICK v : v = Ending(m, end)
  OBVIOUS
<1>2. Next2(ws, Caught("manifest", v), SubSeq(P, k + 1, 6))
  <2>1. P[5] = Caught("manifest", Ending(m, end)) /\ P \in Seq(Writes)
    BY UnderwayWrites
  <2>2. Next2(ws, P[k], SubSeq(P, k + 1, 6))
    BY UnderwayNext
  <2> QED BY <1>1, <2>1, <2>2
<1>3. /\ m \in Manifest /\ m = d.manifest /\ m # NoFile /\ ManifestOf(d) = m
      /\ log = Source(d) /\ an = d.analysis /\ d.session = doc
      /\ d.transcript_original = Rendered("transcript_original", doc)
      /\ d.transcript_korean = Rendered("transcript_korean", doc)
      /\ d.meeting_report = Rendered("meeting_report", doc)
  BY DEF Underway
<1>4. /\ v \in Manifest /\ v # NoFile /\ v.policy = m.policy
      /\ v.analysis_status = m.analysis_status
  BY <1>1, <1>3, BegunIs, NoFileIs
<1>5. "manifest" \in Files /\ v \in Values /\ Suits("manifest", v)
  BY <1>4, ValuesAre, SuitsIs
<1>6. Changed(d, e, "manifest", v) /\ Head(ws).file = "manifest" /\ ws # <<>>
  BY <1>2, <1>5, WritingIs
<1>7. /\ Sound(e) /\ Steps(d, e) /\ Source(e) = Source(d) /\ e.manifest = v
  <2>1. Sound(d)
    BY DEF Writing
  <2>2. Backs(v, d.analysis)
    BY <1>3, <1>4, <2>1 DEF Sound, Showing, Backs
  <2>3. \A kind \in Exports : d[kind] = Rendered(kind, d.session)
    BY <1>3 DEF Exports
  <2> QED BY <1>3, <1>4, <1>6, <2>1, <2>2, <2>3, ManifestKeeps
<1>8. /\ e.session = doc /\ e.analysis = an /\ e.events = d.events /\ e.mirror = d.mirror
      /\ e.transcript_original = Rendered("transcript_original", doc)
      /\ e.transcript_korean = Rendered("transcript_korean", doc)
      /\ e.meeting_report = Rendered("meeting_report", doc)
  BY <1>3, <1>6 DEF Changed, Exports
<1>9. Left(e, Tail(ws), row, u, o)
  <2>1. /\ k \in 1 .. 5
        /\ e.manifest = IF k = 5 THEN Ending(m, end) ELSE m
    BY <1>1, <1>7
  <2> QED BY <1>3, <1>7, <1>8, <2>1, UnderwayStill
<1> QED BY <1>3, <1>4, <1>6, <1>7, <1>8, <1>9 DEF Moves

\* The last write: the document tells the final status.
LEMMA PublishingEnd ==
    ASSUME NEW d, NEW e, NEW ws, NEW row, NEW u, NEW o, NEW end \in Final,
           NEW k \in 1 .. 6, NEW m, NEW log, NEW an, NEW P, NEW doc, Writing(d, e, ws),
           Underway(d, ws, end, k, m, log, an, P, doc), k = 6
    PROVE Moves(d, e, ws, row, u, o)
<1>1. PICK last : last = Doc(Ending(m, end), log, an)
  OBVIOUS
<1>2. Next2(ws, Caught("session", last), <<>>)
  <2>1. P[6] = Caught("session", Doc(Ending(m, end), log, an))
    BY UnderwayWrites
  <2>2. Next2(ws, P[k], SubSeq(P, k + 1, 6)) /\ SubSeq(P, k + 1, 6) = <<>>
    BY UnderwayNext
  <2> QED BY <1>1, <2>1, <2>2
<1>3. /\ m \in Manifest /\ m = d.manifest /\ m # NoFile /\ m = Ending(m, end)
      /\ log \in Seq(Entry) /\ log = Source(d) /\ ~Undecodable(log)
      /\ an \in BOOLEAN /\ an = d.analysis /\ d.session = doc
      /\ doc = Doc(Begun(m), log, an)
      /\ d.transcript_original = Rendered("transcript_original", doc)
      /\ d.transcript_korean = Rendered("transcript_korean", doc)
      /\ d.meeting_report = Rendered("meeting_report", doc)
  BY DEF Underway
<1>4. /\ last \in Document /\ last.segments = Assembled(log) /\ last.status = m.status
      /\ last.analysis_status = m.analysis_status
      /\ last.analysis = (m.policy.save_analysis /\ an)
  <2>1. last = Doc(m, log, an)
    BY <1>1, <1>3
  <2> QED BY <1>3, <2>1, DocIs
<1>5. doc.segments = Assembled(log) /\ doc.analysis = (m.policy.save_analysis /\ an)
  BY <1>3, BegunIs, DocIs
<1>6. doc.analysis = last.analysis /\ (last.analysis => d.analysis)
  BY <1>3, <1>4, <1>5
<1>7. "session" \in Files /\ last \in Values /\ Suits("session", last)
  BY <1>4, ValuesAre, SuitsIs
<1>8. Changed(d, e, "session", last) /\ Head(ws).file = "session" /\ ws # <<>> /\ Tail(ws) = <<>>
  BY <1>2, <1>7, WritingIs
<1>9. \A kind \in Exports : d[kind] = Rendered(kind, last)
  <2>1. \A kind : Rendered(kind, doc) = Rendered(kind, last)
    BY <1>4, <1>5, <1>6, SameRendering
  <2> QED BY <1>3, <2>1 DEF Exports
<1>10. /\ Sound(e) /\ Steps(d, e) /\ Source(e) = Source(d)
       /\ e.manifest = d.manifest /\ e.session = last /\ e.analysis = d.analysis
  BY <1>3, <1>4, <1>6, <1>8, <1>9, SessionKeeps DEF Writing
<1>11. e.events = d.events /\ e.mirror = d.mirror
  BY <1>8 DEF Changed
<1>12. Told(e)
  <2>1. /\ DOMAIN last.segments = Logged(log, FinalTypes)
        /\ \A g \in DOMAIN last.segments : last.segments[g] = Segment(log, g)
    BY <1>3, <1>4, AssembledIs
  <2>2. Nearly(e)
    BY <1>3, <1>4, <1>10, <2>1 DEF Nearly
  <2> QED BY <1>3, <1>4, <1>10, <2>2 DEF Told
<1>13. Over(e)
  <2>1. m.status \in Final
    BY <1>3, BegunIs
  <2> QED BY <1>3, <1>10, <2>1 DEF Over
<1>14. Left(e, Tail(ws), row, u, o)
  BY <1>8, <1>12, <1>13 DEF Left, Leaves
<1> QED BY <1>3, <1>8, <1>10, <1>11, <1>14 DEF Moves

LEMMA PublishingMoves ==
    ASSUME NEW d, NEW e, NEW ws, NEW row, NEW u, NEW o,
           Writing(d, e, ws), Publishing(d, ws)
    PROVE Moves(d, e, ws, row, u, o)
<1>1. d \in Directory
  BY DEF Writing
<1>2. PICK end \in Final, k \in 1 .. 6 :
          \E m, log, an, P, doc : Underway(d, ws, end, k, m, log, an, P, doc)
  BY <1>1, UnderwayIs
<1>3. PICK m, log, an, P, doc : Underway(d, ws, end, k, m, log, an, P, doc)
  BY <1>2
<1>4. k = 1 \/ k \in 2 .. 4 \/ k = 5 \/ k = 6
  OBVIOUS
<1> QED BY <1>3, <1>4, PublishingDocument, PublishingExport, PublishingStatus, PublishingEnd

-----------------------------------------------------------------------------
(* The other operations *)

LEMMA ConsNext ==
    ASSUME NEW w \in Writes, NEW rest \in Seq(Writes), NEW ws, ws = <<w>> \o rest
    PROVE Next2(ws, w, rest)
BY ConsIs DEF Next2

LEMMA FinalizingMoves ==
    ASSUME NEW d, NEW e, NEW ws, NEW row, NEW u, NEW o,
           Writing(d, e, ws), Finalizing(d, ws)
    PROVE Moves(d, e, ws, row, u, o)
<1>1. PICK m, log, an : m = ManifestOf(d) /\ log = Source(d) /\ an = d.analysis
  OBVIOUS
<1>2. /\ m \in Manifest /\ log \in Seq(Entry) /\ an \in BOOLEAN /\ ws \in Cores(m, log, an)
      /\ d \in Directory /\ Sound(d)
  BY <1>1, DirectoryIs DEF Writing, Finalizing
<1>3. \/ \E end \in Final : ws = Core(m, log, an, end)
      \/ \E rest \in Cores(m, log, an) : Next2(ws, Raised("dir", Yes), rest)
  BY <1>2, CoresAre
<1>4. ASSUME NEW end \in Final, ws = Core(m, log, an, end)
      PROVE Moves(d, e, ws, row, u, o)
  <2>1. PICK b : b = Begun(m)
    OBVIOUS
  <2>2. /\ b \in Manifest /\ b # NoFile /\ b.status = "finalizing" /\ b.policy = m.policy
        /\ b.analysis_status = m.analysis_status /\ Begun(b) = b
        /\ Ending(b, end) = Ending(m, end)
    BY <1>2, <2>1, BegunIs, NoFileIs
  <2>3. PICK rest : rest = IF Undecodable(log) THEN <<Failed(b)>> ELSE Pub(m, log, an, end)
    OBVIOUS
  <2>4. Next2(ws, Raised("manifest", b), rest)
    <3>1. /\ Undecodable(log) => Next2(ws, Raised("manifest", Begun(m)), <<Failed(Begun(m))>>)
          /\ ~Undecodable(log) => Next2(ws, Raised("manifest", Begun(m)), Pub(m, log, an, end))
      BY <1>2, <1>4, CoreIs
    <3> QED BY <2>1, <2>3, <3>1
  <2>5. "manifest" \in Files /\ b \in Values /\ Suits("manifest", b)
    BY <2>2, ValuesAre, SuitsIs
  <2>6. Changed(d, e, "manifest", b) /\ Head(ws).file = "manifest" /\ ws # <<>> /\ Tail(ws) = rest
        /\ ~Head(ws).guarded
    BY <2>4, <2>5, WritingIs
  <2>7. Backs(b, d.analysis)
    BY <1>1, <1>2, <2>2 DEF Sound, Showing, Backs, ManifestOf, LegacyManifest
  <2>8. b.status \notin Final
    BY <2>2 DEF Final
  <2>9. /\ Sound(e) /\ Steps(d, e) /\ Source(e) = Source(d) /\ e.manifest = b
    BY <1>1, <1>2, <2>2, <2>6, <2>7, <2>8, ManifestKeeps
  <2>10. e.events = d.events /\ e.mirror = d.mirror /\ e.analysis = d.analysis
    BY <2>6 DEF Changed
  <2>11. Left(e, Tail(ws), row, u, o)
    <3>1. CASE Undecodable(log)
      <4>1. Losing(e, rest) /\ rest # <<>>
        BY <2>2, <2>3, <2>9, <3>1 DEF Losing
      <4> QED BY <2>6, <4>1, TodoIs
    <3>2. CASE ~Undecodable(log)
      <4>1. PICK P : P = Pub(m, log, an, end)
        OBVIOUS
      <4>2. P \in Seq(Writes) /\ Len(P) = 6
        <5>1. PICK doc : doc = Doc(Begun(m), log, an)
          OBVIOUS
        <5> QED BY <1>2, <4>1, <5>1, PubIs
      <4>3. SubSeq(P, 1, 6) = P /\ P # <<>>
        <5>1. SubSeq(P, 1, Len(P)) = P
          BY <4>2, SubSeqFull
        <5> QED BY <4>2, <5>1
      <4>4. Pub(e.manifest, Source(e), e.analysis, end) = P
        BY <1>1, <2>1, <2>2, <2>9, <2>10, <4>1, Zenon DEF Pub
      <4>5. Published(e, end, 1)
        BY <1>1, <2>2, <2>9, <3>2 DEF Published
      <4>6. Publishing(e, P)
        <5>1. 1 \in 1 .. 6
          OBVIOUS
        <5> QED BY <4>3, <4>4, <4>5, <5>1, Zenon DEF Publishing
      <4> QED BY <2>3, <2>6, <3>2, <4>1, <4>3, <4>6, TodoIs
    <3> QED BY <3>1, <3>2
  <2> QED BY <2>2, <2>6, <2>9, <2>10, <2>11 DEF Moves
<1>5. ASSUME NEW rest \in Cores(m, log, an), Next2(ws, Raised("dir", Yes), rest)
      PROVE Moves(d, e, ws, row, u, o)
  <2>1. "dir" \in Files /\ Yes \in Values /\ Suits("dir", Yes)
    BY ValuesAre, SuitsIs
  <2>2. Changed(d, e, "dir", Yes) /\ Head(ws).file = "dir" /\ ws # <<>> /\ Tail(ws) = rest /\ ~Head(ws).guarded
    BY <1>5, <2>1, WritingIs
  <2>3. /\ Sound(e) /\ Steps(d, e) /\ Source(e) = Source(d) /\ ManifestOf(e) = ManifestOf(d)
        /\ e.manifest = d.manifest /\ e.events = d.events /\ e.mirror = d.mirror
        /\ e.analysis = d.analysis
    BY <1>2, <2>2, DirKeeps
  <2>4. Finalizing(e, rest) /\ rest # <<>>
    BY <1>1, <1>2, <2>3, CoresAre DEF Finalizing
  <2>5. Left(e, Tail(ws), row, u, o)
    BY <2>2, <2>4, TodoIs
  <2> QED BY <2>2, <2>3, <2>4, <2>5 DEF Moves
<1> QED BY <1>3, <1>4, <1>5

LEMMA RenewKeeps ==
    ASSUME NEW d, NEW e, NEW m, Sound(d), Renews(d, m), Backs(m, d.analysis),
           Changed(d, e, "manifest", m)
    PROVE /\ Sound(e) /\ Steps(d, e) /\ Source(e) = Source(d)
          /\ ManifestOf(e) = m /\ e.manifest = m /\ m # NoFile /\ e.analysis = d.analysis
          /\ e.events = d.events /\ e.mirror = d.mirror /\ e.session = d.session
<1>1. m \in Manifest /\ m # NoFile /\ m.policy = ManifestOf(d).policy
  BY NoFileIs DEF Renews
<1>2. m.status \in Final /\ d.session # NoFile =>
          \A kind \in Exports : d[kind] = Rendered(kind, d.session)
  BY DEF Renews, Sound, Built, Agreed, ManifestOf
<1>3. /\ Sound(e) /\ Steps(d, e) /\ Source(e) = Source(d)
      /\ ManifestOf(e) = m /\ e.manifest = m
  BY <1>1, <1>2, ManifestKeeps
<1>4. /\ e.analysis = d.analysis /\ e.events = d.events /\ e.mirror = d.mirror
      /\ e.session = d.session
  BY DEF Changed
<1> QED BY <1>1, <1>3, <1>4

\* The first write is that of a manifest.
LEMMA RenewWrites ==
    ASSUME NEW d, NEW e, NEW ws, NEW m, NEW rest \in Seq(Writes), Writing(d, e, ws),
           m \in Manifest, ws = ManifestWrite(m) \o rest
    PROVE /\ Changed(d, e, "manifest", m) /\ Head(ws).file = "manifest" /\ Head(ws).value = m
          /\ ws # <<>>
          /\ Tail(ws) = rest /\ ~Head(ws).guarded
<1>1. PICK w : w = Raised("manifest", m)
  OBVIOUS
<1>2. w \in Writes
  BY <1>1, ManifestWriteIs
<1>3. ws = <<w>> \o rest
  BY <1>1, Zenon DEF ManifestWrite
<1>4. Next2(ws, w, rest)
  BY <1>2, <1>3, ConsNext
<1>5. "manifest" \in Files /\ m \in Values /\ Suits("manifest", m)
  BY ValuesAre, SuitsIs
<1>6. Next2(ws, Raised("manifest", m), rest)
  BY <1>1, <1>4
<1> QED BY <1>5, <1>6, RaisedIs

LEMMA RenewAlone ==
    ASSUME NEW d, NEW e, NEW ws, NEW m, Writing(d, e, ws),
           m \in Manifest, ws = ManifestWrite(m)
    PROVE /\ Changed(d, e, "manifest", m) /\ Head(ws).file = "manifest" /\ Head(ws).value = m
          /\ ws # <<>>
          /\ Tail(ws) = <<>> /\ ~Head(ws).guarded
<1>1. ManifestWrite(m) \in Seq(Writes)
  BY ManifestWriteIs
<1>2. ws = ManifestWrite(m) \o <<>>
  BY <1>1, ConcatEmptySeq
<1>3. <<>> \in Seq(Writes)
  OBVIOUS
<1> QED BY <1>2, <1>3, RenewWrites

LEMMA RenewingMoves ==
    ASSUME NEW d, NEW e, NEW ws, NEW row, NEW u, NEW o,
           Writing(d, e, ws), Renewing(d, ws)
    PROVE Moves(d, e, ws, row, u, o)
<1>1. PICK m \in Manifest :
        /\ Renews(d, m) /\ Backs(m, d.analysis)
        /\ \E rest \in Cores(m, Source(d), d.analysis) : ws = ManifestWrite(m) \o rest
  BY DEF Renewing
<1>2. PICK rest \in Cores(m, Source(d), d.analysis) : ws = ManifestWrite(m) \o rest
  BY <1>1
<1>3. d \in Directory /\ Sound(d) /\ Source(d) \in Seq(Entry) /\ d.analysis \in BOOLEAN
  BY DirectoryIs DEF Writing
<1>4. rest \in Seq(Writes) /\ rest # <<>>
  BY <1>3, CoresAre
<1>5. /\ Changed(d, e, "manifest", m) /\ Head(ws).file = "manifest" /\ ws # <<>>
      /\ Tail(ws) = rest /\ ~Head(ws).guarded
  BY <1>2, <1>4, RenewWrites
<1>6. /\ Sound(e) /\ Steps(d, e) /\ Source(e) = Source(d)
      /\ ManifestOf(e) = m /\ e.manifest = m /\ m # NoFile /\ e.analysis = d.analysis
      /\ e.events = d.events /\ e.mirror = d.mirror
  BY <1>1, <1>3, <1>5, RenewKeeps
<1>7. Finalizing(e, rest)
  BY <1>6 DEF Finalizing
<1>8. Left(e, Tail(ws), row, u, o)
  BY <1>4, <1>5, <1>7, TodoIs
<1> QED BY <1>5, <1>6, <1>8 DEF Moves

LEMMA KeepingMoves ==
    ASSUME NEW d, NEW e, NEW ws, NEW row, NEW u, NEW o,
           Writing(d, e, ws), Keeping(d, ws)
    PROVE Moves(d, e, ws, row, u, o)
<1>1. PICK m \in Manifest :
        /\ Renews(d, m) /\ m.policy.save_analysis
        /\ \E rest \in Cores(m, Source(d), Yes) :
               ws = <<Raised("analysis", Yes)>> \o (ManifestWrite(m) \o rest)
  BY DEF Keeping
<1>2. PICK rest \in Cores(m, Source(d), Yes) :
               ws = <<Raised("analysis", Yes)>> \o (ManifestWrite(m) \o rest)
  BY <1>1
<1>3. d \in Directory /\ Sound(d) /\ Source(d) \in Seq(Entry)
  BY DirectoryIs DEF Writing
<1>4. PICK w, tail : w = Raised("analysis", Yes) /\ tail = ManifestWrite(m) \o rest
  OBVIOUS
<1>5. tail \in Seq(Writes) /\ tail # <<>>
  <2>1. rest \in Seq(Writes)
    <3>1. PICK y : y = Yes
      OBVIOUS
    <3>2. y \in BOOLEAN
      BY <3>1, ValuesAre
    <3>3. rest \in Cores(m, Source(d), y)
      BY <3>1
    <3> QED BY <1>3, <3>2, <3>3, CoresAre
  <2>2. PICK v : v = Raised("manifest", m)
    OBVIOUS
  <2>3. v \in Writes
    BY <2>2, ManifestWriteIs
  <2>4. tail = <<v>> \o rest
    BY <1>4, <2>2, Zenon DEF ManifestWrite
  <2> QED BY <2>1, <2>3, <2>4, ConsIs
<1>6. "analysis" \in Files /\ Yes \in Values /\ Suits("analysis", Yes)
  BY ValuesAre, SuitsIs
<1>7. w \in Writes
  BY <1>4, <1>6, WriteIs
<1>8. ws = <<w>> \o tail
  BY <1>2, <1>4
<1>9. Next2(ws, w, tail)
  BY <1>5, <1>7, <1>8, ConsNext
<1>10. Changed(d, e, "analysis", Yes) /\ Head(ws).file = "analysis" /\ ws # <<>> /\ Tail(ws) = tail
       /\ ~Head(ws).guarded
  BY <1>4, <1>6, <1>9, WritingIs
<1>11. m.policy = ManifestOf(d).policy
  BY <1>1 DEF Renews
<1>12. /\ Sound(e) /\ Steps(d, e) /\ Source(e) = Source(d) /\ ManifestOf(e) = ManifestOf(d)
       /\ e.manifest = d.manifest /\ e.events = d.events /\ e.mirror = d.mirror /\ e.analysis
  BY <1>1, <1>3, <1>10, <1>11, AnalysisKeeps
<1>13. e.analysis = Yes
  BY <1>10 DEF Changed
<1>14. Renewing(e, tail)
  <2>1. Renews(e, m)
    BY <1>1, <1>12 DEF Renews
  <2>2. Backs(m, e.analysis)
    BY <1>12 DEF Backs
  <2>3. rest \in Cores(m, Source(e), e.analysis)
    BY <1>12, <1>13
  <2> QED BY <1>4, <2>1, <2>2, <2>3 DEF Renewing
<1>15. Left(e, Tail(ws), row, u, o)
  BY <1>5, <1>10, <1>14, TodoIs
<1> QED BY <1>5, <1>10, <1>12, <1>15 DEF Moves

LEMMA LosingMoves ==
    ASSUME NEW d, NEW e, NEW ws, NEW row, NEW u, NEW o,
           Writing(d, e, ws), Losing(d, ws)
    PROVE Moves(d, e, ws, row, u, o)
<1>1. PICK m : m = [d.manifest EXCEPT !.status = "error"]
  OBVIOUS
<1>2. d \in Directory /\ Sound(d) /\ d.manifest \in Manifest /\ ManifestOf(d) = d.manifest
  BY DirectoryIs DEF Writing, Losing, ManifestOf
<1>3. /\ m \in Manifest /\ m.status = "error" /\ m.policy = d.manifest.policy
      /\ m.analysis_status = d.manifest.analysis_status
  BY <1>1, <1>2 DEF Manifest, Status
<1>4. m.status \notin Final
  BY <1>3 DEF Final
<1>5. ws = ManifestWrite(m)
  BY <1>1, Zenon DEF Losing, Failed, ManifestWrite, Raised
<1>6. /\ Changed(d, e, "manifest", m) /\ Head(ws).file = "manifest" /\ ws # <<>>
      /\ Tail(ws) = <<>> /\ ~Head(ws).guarded
  BY <1>3, <1>5, RenewAlone
<1>7. Renews(d, m)
  BY <1>2, <1>3, <1>4 DEF Renews
<1>8. Backs(m, d.analysis)
  BY <1>2, <1>3 DEF Sound, Showing, Backs, Losing
<1>9. /\ Sound(e) /\ Steps(d, e) /\ e.manifest = m /\ m # NoFile
      /\ e.events = d.events /\ e.mirror = d.mirror
  BY <1>2, <1>6, <1>7, <1>8, RenewKeeps
<1>10. Told(e) /\ Over(e)
  BY <1>3, <1>4, <1>9 DEF Told, Nearly, Over
<1>11. Left(e, Tail(ws), row, u, o)
  BY <1>6, <1>10 DEF Left, Leaves
<1> QED BY <1>6, <1>9, <1>11 DEF Moves

LEMMA RetellingMoves ==
    ASSUME NEW d, NEW e, NEW ws, NEW row, NEW u, NEW o,
           Writing(d, e, ws), Retelling(d, ws, u, o)
    PROVE Moves(d, e, ws, row, u, o)
<1>1. PICK doc : doc = [d.session EXCEPT !.analysis_status = d.manifest.analysis_status]
  OBVIOUS
<1>2. /\ d \in Directory /\ Sound(d) /\ d.manifest # NoFile /\ d.session # NoFile
      /\ d.manifest \in Manifest /\ d.session \in Document
  BY DirectoryIs DEF Writing, Retelling
<1>3. /\ doc \in Document /\ doc.status = d.session.status
      /\ doc.segments = d.session.segments /\ doc.analysis = d.session.analysis
      /\ doc.analysis_status = d.manifest.analysis_status
  BY <1>1, <1>2, ManifestIs DEF Document
<1>4. PICK w : w = Raised("session", doc)
  OBVIOUS
<1>5. "session" \in Files /\ doc \in Values /\ Suits("session", doc)
  BY <1>3, ValuesAre, SuitsIs
<1>6. w \in Writes
  BY <1>4, <1>5, WriteIs
<1>7. ws = <<w>>
  BY <1>1, <1>2, <1>4, Zenon DEF Retelling, Retold
<1>8. Next2(ws, w, <<>>)
  BY <1>6, <1>7 DEF Next2
<1>9. Changed(d, e, "session", doc) /\ Head(ws).file = "session" /\ ws # <<>> /\ Tail(ws) = <<>>
      /\ ~Head(ws).guarded
  BY <1>4, <1>5, <1>8, WritingIs
<1>10. doc.analysis => d.analysis
  BY <1>2, <1>3 DEF Sound, Showing
<1>11. d.manifest.status \in Final => \A kind \in Exports : d[kind] = Rendered(kind, doc)
  <2>1. \A kind : Rendered(kind, d.session) = Rendered(kind, doc)
    BY <1>3, SameRendering
  <2> QED BY <1>2, <2>1 DEF Sound, Agreed
<1>12. /\ Sound(e) /\ Steps(d, e) /\ Source(e) = Source(d)
       /\ e.manifest = d.manifest /\ e.session = doc
  BY <1>2, <1>3, <1>9, <1>10, <1>11, SessionKeeps
<1>13. e.events = d.events /\ e.mirror = d.mirror
  BY <1>9 DEF Changed
<1>14. u => Told(e)
  <2>1. u => Nearly(e)
    BY <1>2, <1>3, <1>12 DEF Retelling, Nearly
  <2> QED BY <1>3, <1>12, <2>1 DEF Told
<1>15. o => Over(e)
  BY <1>12 DEF Retelling, Over
<1>16. Left(e, Tail(ws), row, u, o)
  BY <1>9, <1>14, <1>15 DEF Left, Leaves
<1> QED BY <1>2, <1>9, <1>12, <1>13, <1>16 DEF Moves

LEMMA AnalysingMoves ==
    ASSUME NEW d, NEW e, NEW ws, NEW row, NEW u, NEW o,
           Writing(d, e, ws), Analysing(d, ws, u, o)
    PROVE Moves(d, e, ws, row, u, o)
<1>1. PICK m \in Manifest :
        /\ Renews(d, m) /\ Backs(m, d.analysis)
        /\ m.status = ManifestOf(d).status
        /\ ws = ManifestWrite(m) \o Retold(d, m)
  BY DEF Analysing
<1>2. d \in Directory /\ Sound(d) /\ (u => Told(d)) /\ (o => Over(d))
  BY DEF Writing, Analysing, Leaves
<1>3. PICK rest : rest = Retold(d, m)
  OBVIOUS
<1>4. rest \in Seq(Writes) /\ (rest = <<>> <=> d.session = NoFile)
  <2>1. CASE d.session = NoFile
    <3>1. rest = <<>>
      BY <1>3, <2>1 DEF Retold
    <3>2. <<>> \in Seq(Writes)
      OBVIOUS
    <3> QED BY <2>1, <3>1, <3>2
  <2>2. CASE d.session # NoFile
    <3>1. PICK doc : doc = [d.session EXCEPT !.analysis_status = m.analysis_status]
      OBVIOUS
    <3>2. d.session \in Document
      BY <1>2, <2>2, DirectoryIs
    <3>3. doc \in Document
      BY <3>1, <3>2, ManifestIs DEF Document
    <3>4. PICK w : w = Raised("session", doc)
      OBVIOUS
    <3>5. "session" \in Files /\ doc \in Values
      BY <3>3, ValuesAre
    <3>6. w \in Writes
      BY <3>4, <3>5, WriteIs
    <3>7. rest = <<w>>
      BY <1>3, <2>2, <3>1, <3>4, Zenon DEF Retold
    <3> QED BY <2>2, <3>6, <3>7
  <2> QED BY <2>1, <2>2
<1>5. /\ Changed(d, e, "manifest", m) /\ Head(ws).file = "manifest" /\ ws # <<>>
      /\ Tail(ws) = rest /\ ~Head(ws).guarded
  BY <1>1, <1>3, <1>4, RenewWrites
<1>6. /\ Sound(e) /\ Steps(d, e) /\ Source(e) = Source(d)
      /\ e.manifest = m /\ m # NoFile /\ e.session = d.session
      /\ e.events = d.events /\ e.mirror = d.mirror
  BY <1>1, <1>2, <1>5, RenewKeeps
<1>7. o => Over(e)
  BY <1>1, <1>2, <1>6, LegacyIs DEF Over, ManifestOf
<1>8. CASE d.session = NoFile
  <2>1. Told(e)
    BY <1>6, <1>8 DEF Told, Nearly
  <2>2. Left(e, Tail(ws), row, u, o)
    BY <1>4, <1>5, <1>7, <1>8, <2>1 DEF Left, Leaves
  <2> QED BY <1>5, <1>6, <2>2 DEF Moves
<1>9. CASE d.session # NoFile
  <2>1. d.manifest # NoFile /\ ManifestOf(d) = d.manifest
    BY <1>2, <1>9 DEF Sound, Built, ManifestOf
  <2>2. u => Nearly(e)
    BY <1>1, <1>2, <1>6, <1>9, <2>1 DEF Told, Nearly
  <2>3. rest = Retold(e, e.manifest)
    BY <1>3, <1>6 DEF Retold
  <2>4. Retelling(e, rest, u, o)
    BY <1>6, <1>7, <1>9, <2>2, <2>3 DEF Retelling
  <2>5. Left(e, Tail(ws), row, u, o)
    BY <1>4, <1>5, <1>9, <2>4, TodoIs
  <2> QED BY <1>5, <1>6, <2>5 DEF Moves
<1> QED BY <1>8, <1>9

LEMMA MarkingMoves ==
    ASSUME NEW d, NEW e, NEW ws, NEW row, NEW u, NEW o,
           Writing(d, e, ws), Marking(d, ws, o)
    PROVE Moves(d, e, ws, row, u, o)
<1>1. PICK m \in Manifest :
        /\ Renews(d, m) /\ Backs(m, d.analysis) /\ m.status \notin Final
        /\ ws = ManifestWrite(m)
  BY DEF Marking
<1>2. Sound(d) /\ ~o
  BY DEF Writing, Marking
<1>3. /\ Changed(d, e, "manifest", m) /\ Head(ws).file = "manifest" /\ ws # <<>>
      /\ Tail(ws) = <<>> /\ ~Head(ws).guarded
  BY <1>1, RenewAlone
<1>4. /\ Sound(e) /\ Steps(d, e) /\ e.manifest = m /\ m # NoFile
      /\ e.events = d.events /\ e.mirror = d.mirror
  BY <1>1, <1>2, <1>3, RenewKeeps
<1>5. Told(e)
  BY <1>1, <1>4 DEF Told, Nearly
<1>6. Left(e, Tail(ws), row, u, o)
  BY <1>2, <1>3, <1>5 DEF Left, Leaves
<1> QED BY <1>3, <1>4, <1>6 DEF Moves

LEMMA StartingMoves ==
    ASSUME NEW d, NEW e, NEW ws, NEW row, NEW u, NEW o,
           Writing(d, e, ws), Starting(d, ws, o)
    PROVE /\ Moves(d, e, ws, row, u, o) /\ ~Head(ws).guarded /\ ~Failing(Head(ws))
          /\ Head(ws).file # "events" /\ (Tail(ws) # <<>> => Starting(e, Tail(ws), o))
<1>1. PICK m \in Manifest :
        /\ m.status = "running" /\ m.analysis_status # "completed"
        /\ ws \in {MakeDir \o ManifestWrite(m), ManifestWrite(m)}
  BY DEF Starting
<1>2. /\ d \in Directory /\ Sound(d) /\ ~o /\ d.manifest = NoFile /\ d.mirror = <<>>
      /\ ~d.analysis /\ d.session = NoFile /\ d.events = <<>> /\ m # NoFile
  BY NoFileIs DEF Writing, Starting, Sound, Built
<1>3. CASE ws = ManifestWrite(m)
  <2>1. /\ Changed(d, e, "manifest", m) /\ Head(ws).file = "manifest" /\ ws # <<>> /\ Head(ws).value = m
        /\ Tail(ws) = <<>> /\ ~Head(ws).guarded
    BY <1>3, RenewAlone
  <2>2. Backs(m, d.analysis) /\ m.status \notin Final
    BY <1>1 DEF Backs, Final
  <2>3. Sound(e) /\ Steps(d, e) /\ e.manifest = m
    BY <1>1, <1>2, <2>1, <2>2, ManifestKeeps
  <2>4. e.events = d.events /\ e.mirror = d.mirror /\ e.session = d.session
    BY <2>1 DEF Changed
  <2>5. Told(e)
    BY <1>2, <2>4 DEF Told, Nearly
  <2>6. Left(e, Tail(ws), row, u, o)
    BY <1>2, <2>1, <2>5 DEF Left, Leaves
  <2>7. ~Failing(Head(ws))
    BY <1>1, <2>1 DEF Failing
  <2> QED BY <1>2, <2>1, <2>3, <2>4, <2>6, <2>7 DEF Moves
<1>4. CASE ws = MakeDir \o ManifestWrite(m)
  <2>1. PICK w, rest : w = Raised("dir", Yes) /\ rest = ManifestWrite(m)
    OBVIOUS
  <2>2. "dir" \in Files /\ Yes \in Values /\ Suits("dir", Yes)
    BY ValuesAre, SuitsIs
  <2>3. w \in Writes /\ rest \in Seq(Writes)
    BY <2>1, <2>2, WriteIs, ManifestWriteIs
  <2>4. rest # <<>>
    <3>1. PICK v : v = Raised("manifest", m)
      OBVIOUS
    <3>2. rest = <<v>>
      BY <2>1, <3>1, Zenon DEF ManifestWrite
    <3> QED BY <3>2
  <2>5. ws = <<w>> \o rest
    BY <1>4, <2>1, Zenon DEF MakeDir
  <2>6. Next2(ws, w, rest)
    BY <2>3, <2>5, ConsNext
  <2>7. Changed(d, e, "dir", Yes) /\ Head(ws).file = "dir" /\ ws # <<>> /\ Tail(ws) = rest /\ ~Head(ws).guarded
    BY <2>1, <2>2, <2>6, WritingIs
  <2>8. /\ Sound(e) /\ Steps(d, e) /\ e.manifest = d.manifest
        /\ e.events = d.events /\ e.mirror = d.mirror /\ e.analysis = d.analysis
    BY <1>2, <2>7, DirKeeps
  <2>9. Starting(e, rest, o)
    BY <1>1, <1>2, <2>1, <2>8 DEF Starting
  <2>10. Left(e, Tail(ws), row, u, o)
    BY <2>4, <2>7, <2>9, TodoIs
  <2> QED BY <1>2, <2>4, <2>7, <2>8, <2>9, <2>10 DEF Moves, Failing
<1> QED BY <1>1, <1>3, <1>4

-----------------------------------------------------------------------------
(* Appends *)

\* A row appended to a log of the session is the first write.
LEMMA RowWrites ==
    ASSUME NEW d, NEW e, NEW ws, NEW f \in {"events", "mirror"}, NEW row \in Entry,
           NEW log \in Seq(Entry), NEW rest \in Seq(Writes), NEW v,
           Writing(d, e, ws), v = Appended(log, row), ws = <<Raised(f, v)>> \o rest
    PROVE /\ v \in Seq(Entry) /\ Changed(d, e, f, v) /\ Head(ws).file = f /\ ws # <<>>
          /\ Head(ws).value = v /\ Tail(ws) = rest /\ ~Head(ws).guarded
<1>1. v \in Seq(Entry)
  BY AppendedIs DEF Longer
<1>2. f \in Files /\ v \in Values /\ Suits(f, v)
  BY <1>1, ValuesAre, SuitsIs
<1>3. PICK w : w = Raised(f, v)
  OBVIOUS
<1>4. w \in Writes
  BY <1>2, <1>3, WriteIs
<1>5. Next2(ws, w, rest)
  BY <1>3, <1>4, ConsNext
<1>6. Next2(ws, Raised(f, v), rest)
  BY <1>3, <1>5
<1> QED BY <1>1, <1>2, <1>6, RaisedIs

\* The rest of an operation may be empty or a finalization.
LEMMA RestIs ==
    ASSUME NEW m \in Manifest, NEW log \in Seq(Entry), NEW an, an \in BOOLEAN,
           NEW rest, rest = <<>> \/ rest \in Cores(m, log, an)
    PROVE rest \in Seq(Writes) /\ (rest # <<>> => rest \in Cores(m, log, an))
<1>1. <<>> \in Seq(Writes)
  OBVIOUS
<1>2. CASE rest = <<>>
  BY <1>1, <1>2
<1>3. CASE rest \in Cores(m, log, an)
  BY <1>3, CoresAre
<1> QED BY <1>2, <1>3

LEMMA MirrorsMoves ==
    ASSUME NEW d, NEW e, NEW ws, NEW row, NEW u, NEW o,
           Writing(d, e, ws), Mirrors(d, ws, row, u, o)
    PROVE Moves(d, e, ws, row, u, o)
<1>1. /\ d.manifest # NoFile /\ d.events # <<>> /\ row \in Entry
      /\ Fit(row, d.manifest.policy)
  BY DEF Mirrors
<1>2. PICK rest \in {<<>>} \cup Cores(d.manifest, Source(d), d.analysis) :
           /\ rest = <<>> => Leaves(d, u, o)
           /\ ws = <<Raised("mirror", Appended(d.mirror, row))>> \o rest
  BY DEF Mirrors
<1>3. /\ d \in Directory /\ Sound(d) /\ d.manifest \in Manifest /\ Source(d) \in Seq(Entry)
      /\ d.analysis \in BOOLEAN /\ d.mirror \in Seq(Entry)
  BY <1>1, DirectoryIs DEF Writing
<1>4. /\ rest \in Seq(Writes)
      /\ rest # <<>> => rest \in Cores(d.manifest, Source(d), d.analysis)
  BY <1>2, <1>3, RestIs
<1>5. PICK v : v = Appended(d.mirror, row)
  OBVIOUS
<1>6. /\ v \in Seq(Entry) /\ Changed(d, e, "mirror", v) /\ Head(ws).file = "mirror" /\ ws # <<>>
      /\ Head(ws).value = v /\ Tail(ws) = rest /\ ~Head(ws).guarded
  BY <1>1, <1>2, <1>3, <1>4, <1>5, RowWrites
<1>7. /\ Sound(e) /\ Steps(d, e) /\ Source(e) = Source(d) /\ e.events = d.events
      /\ e.manifest = d.manifest /\ e.session = d.session /\ e.analysis = d.analysis
  BY <1>1, <1>3, <1>5, <1>6, MirrorKeeps
<1>8. Left(e, Tail(ws), row, u, o)
  <2>1. CASE rest = <<>>
    <3>1. Leaves(e, u, o)
      BY <1>2, <1>7, <2>1 DEF Leaves, Told, Nearly, Over
    <3> QED BY <1>6, <2>1, <3>1 DEF Left
  <2>2. CASE rest # <<>>
    <3>1. Finalizing(e, rest)
      BY <1>1, <1>4, <1>7, <2>2 DEF Finalizing, ManifestOf
    <3> QED BY <1>6, <2>2, <3>1, TodoIs
  <2> QED BY <2>1, <2>2
<1>9. Recording(d, Head(ws), row)
  BY <1>1, <1>5, <1>6 DEF Recording
<1> QED BY <1>1, <1>6, <1>7, <1>8, <1>9 DEF Moves

LEMMA AppendsMoves ==
    ASSUME NEW d, NEW e, NEW ws, NEW row, NEW u, NEW o,
           Writing(d, e, ws), Appends(d, ws, row, u, o)
    PROVE Moves(d, e, ws, row, u, o)
<1>1. PICK log : log = Appended(d.events, row)
  OBVIOUS
<1>2. PICK again : again = IF d.manifest.status \in Final
                           THEN Cores(d.manifest, log, d.analysis) ELSE {<<>>}
  OBVIOUS
<1>3. /\ d.manifest # NoFile /\ (d.events = <<>> => d.mirror = <<>>)
      /\ row \in Entry /\ Fit(row, d.manifest.policy)
      /\ row.type \in FinalTypes => ~Has(d.events, FinalTypes, row.segment)
      /\ (u => Told(d)) /\ (o => Over(d))
  BY DEF Appends, Leaves
<1>4. PICK x \in {<<>>, <<Raised("mirror", Appended(d.mirror, row))>>},
           rest \in {<<>>} \cup again :
        /\ row.type \in Outcomes => rest \in again
        /\ ws = <<Raised("events", log)>> \o (x \o rest)
  BY <1>1, <1>2, Zenon DEF Appends
<1>5. /\ d \in Directory /\ Sound(d) /\ d.manifest \in Manifest /\ d.events \in Seq(Entry)
      /\ d.analysis \in BOOLEAN /\ d.mirror \in Seq(Entry) /\ ManifestOf(d) = d.manifest
  BY <1>3, DirectoryIs DEF Writing, ManifestOf
<1>6. log \in Seq(Entry) /\ Longer(d.events, log, row)
  <2>1. Longer(d.events, log, row)
    BY <1>1, <1>3, <1>5, AppendedIs
  <2> QED BY <2>1 DEF Longer
<1>7. /\ rest \in Seq(Writes)
      /\ rest # <<>> => rest \in Cores(d.manifest, log, d.analysis)
  <2>1. rest = <<>> \/ rest \in Cores(d.manifest, log, d.analysis)
    BY <1>2, <1>4
  <2> QED BY <1>5, <1>6, <2>1, RestIs
<1>8. PICK mirrored : mirrored = Raised("mirror", Appended(d.mirror, row))
  OBVIOUS
<1>9. mirrored \in Writes
  <2>1. PICK v : v = Appended(d.mirror, row)
    OBVIOUS
  <2>2. v \in Seq(Entry)
    BY <1>3, <1>5, <2>1, AppendedIs DEF Longer
  <2>3. "mirror" \in Files /\ v \in Values
    BY <2>2, ValuesAre
  <2> QED BY <1>8, <2>1, <2>3, WriteIs
<1>10. PICK tail : tail = x \o rest
  OBVIOUS
<1>11. /\ tail \in Seq(Writes)
       /\ \/ x = <<>> /\ tail = rest
          \/ x = <<mirrored>> /\ tail = <<mirrored>> \o rest /\ tail # <<>>
  <2>1. CASE x = <<>>
    BY <1>7, <1>10, <2>1, ConcatEmptySeq
  <2>2. CASE x = <<mirrored>>
    BY <1>7, <1>9, <1>10, <2>2, ConsIs
  <2> QED BY <1>4, <1>8, <2>1, <2>2
<1>12. /\ Changed(d, e, "events", log) /\ Head(ws).file = "events" /\ ws # <<>>
       /\ Head(ws).value = log /\ Tail(ws) = tail /\ ~Head(ws).guarded
  <2>1. ws = <<Raised("events", log)>> \o tail
    BY <1>4, <1>10
  <2>2. PICK f \in {"events", "mirror"} : f = "events"
    OBVIOUS
  <2>3. ws = <<Raised(f, log)>> \o tail
    BY <2>1, <2>2
  <2>4. row \in Entry /\ d.events \in Seq(Entry) /\ tail \in Seq(Writes)
    BY <1>3, <1>5, <1>11
  <2>5. /\ Changed(d, e, f, log) /\ Head(ws).file = f /\ ws # <<>>
        /\ Head(ws).value = log /\ Tail(ws) = tail /\ ~Head(ws).guarded
    BY <1>1, <2>3, <2>4, RowWrites
  <2> QED BY <2>2, <2>5
<1>13. /\ Sound(e) /\ Steps(d, e) /\ Source(e) = log /\ e.events = log /\ e.events # <<>>
       /\ Source(d) = d.events /\ e.manifest = d.manifest /\ e.mirror = d.mirror
       /\ e.session = d.session /\ e.analysis = d.analysis
  <2>1. Sound(d) /\ Changed(d, e, "events", log)
    BY <1>5, <1>12
  <2>2. /\ row \in Entry /\ d.manifest # NoFile /\ (d.events = <<>> => d.mirror = <<>>)
        /\ Fit(row, d.manifest.policy)
        /\ row.type \in FinalTypes => ~Has(d.events, FinalTypes, row.segment)
    BY <1>3
  <2> QED BY <1>1, <2>1, <2>2, EventsKeep
\* The row is not an outcome, or the session is not finished.
<1>14. rest = <<>> => Leaves(e, u, o)
  <2>1. ASSUME rest = <<>>, d.manifest.status \in Final, u
        PROVE \A g : Segment(log, g).translation_status =
                         Segment(d.events, g).translation_status
    <3>1. row.type \notin Outcomes
      <4>1. again = Cores(d.manifest, log, d.analysis)
        BY <1>2, <2>1
      <4>2. \A c \in Cores(d.manifest, log, d.analysis) : c # <<>>
        BY <1>5, <1>6, CoresAre
      <4> QED BY <1>4, <2>1, <4>1, <4>2
    <3> QED BY <1>5, <1>6, <3>1, OutcomeStays
  <2>2. ASSUME rest = <<>>, u
        PROVE Told(e)
    <3>1. Told(d)
      BY <1>3, <2>2
    <3>2. Nearly(e)
      BY <1>13, <2>1, <2>2, <3>1 DEF Told, Nearly
    <3> QED BY <1>13, <3>1, <3>2 DEF Told
  <2>3. o => Over(e)
    BY <1>3, <1>13 DEF Over
  <2> QED BY <2>2, <2>3 DEF Leaves
<1>15. Left(e, tail, row, u, o)
  <2>1. CASE x = <<>> /\ tail = rest
    <3>1. CASE rest = <<>>
      BY <1>14, <2>1, <3>1 DEF Left
    <3>2. CASE rest # <<>>
      <4>1. Finalizing(e, rest)
        BY <1>3, <1>7, <1>13, <3>2 DEF Finalizing, ManifestOf
      <4> QED BY <2>1, <3>2, <4>1, TodoIs
    <3> QED BY <3>1, <3>2
  <2>2. CASE tail = <<mirrored>> \o rest /\ tail # <<>>
    <3>1. rest \in {<<>>} \cup Cores(e.manifest, Source(e), e.analysis)
      BY <1>7, <1>13
    <3>2. tail = <<Raised("mirror", Appended(e.mirror, row))>> \o rest
      BY <1>8, <1>13, <2>2
    <3>3. Mirrors(e, tail, row, u, o)
      BY <1>3, <1>13, <1>14, <3>1, <3>2 DEF Mirrors
    <3> QED BY <2>2, <3>3, TodoIs
  <2> QED BY <1>11, <2>1, <2>2
<1>16. Recording(d, Head(ws), row)
  BY <1>1, <1>3, <1>12 DEF Recording
<1> QED BY <1>3, <1>6, <1>12, <1>13, <1>15, <1>16 DEF Moves

\* Every write of an operation leaves the directory sound and what follows it
\* in order.
LEMMA TodoMoves ==
    ASSUME NEW d, NEW e, NEW ws, NEW row, NEW u, NEW o,
           Writing(d, e, ws), Todo(d, ws, row, u, o)
    PROVE Moves(d, e, ws, row, u, o)
BY StartingMoves, MarkingMoves, AppendsMoves, MirrorsMoves, AnalysingMoves, RetellingMoves,
   KeepingMoves, RenewingMoves, FinalizingMoves, PublishingMoves, LosingMoves DEF Todo

-----------------------------------------------------------------------------
(* A write that does not complete *)

\* The directory e is what an interrupted write leaves of d.
Interrupted(d, e) ==
    /\ Sound(e) /\ Steps(d, e) /\ e.manifest = d.manifest
    /\ \/ e.events = d.events
       \/ \E r \in Entry : r.type \in TornTypes /\ e.events = Appended(d.events, r)
    /\ e.events = <<>> /\ (d.events = <<>> => d.mirror = <<>>) => e.mirror = <<>>
    /\ \A g : Has(e.events, FinalTypes, g) => Has(d.events, FinalTypes, g)

LEMMA TornFits ==
    ASSUME NEW r, r.type \in TornTypes
    PROVE r.type \notin FinalTypes /\ \A p : Fit(r, p)
BY DEF TornTypes, FinalTypes, Fit

LEMMA InterruptedIs ==
    ASSUME NEW d \in Directory, NEW ws, NEW row, NEW u, NEW o, Sound(d),
           Todo(d, ws, row, u, o), NEW e \in Leftovers(d, Head(ws))
    PROVE /\ Interrupted(d, e)
          /\ Head(ws).guarded => d.manifest # NoFile /\ e = d
<1>1. PICK w : w = Head(ws)
  OBVIOUS
<1>2. PICK f : f = Stored(d, w, w.value)
  OBVIOUS
<1>3. Moves(d, f, ws, row, u, o)
  BY <1>1, <1>2, TodoMoves, Zenon DEF Writing
<1>4. /\ w.file \in {"events", "mirror"} => Recording(d, w, row)
      /\ w.guarded => d.manifest # NoFile /\ w.file \notin {"events", "mirror"}
  BY <1>1, <1>3 DEF Moves
<1>5. d.events \in Seq(Entry) /\ d.mirror \in Seq(Entry)
  BY DirectoryIs
<1>6. CASE e = d
  <2>1. Steps(d, e)
    BY <1>6 DEF Steps
  <2>2. Interrupted(d, e)
    BY <1>6, <2>1 DEF Interrupted
  <2> QED BY <1>1, <1>4, <1>6, <2>2
<1>7. CASE e # d
  <2>1. /\ w.file \in {"events", "mirror"} /\ Len(w.value) > Len(d[w.file])
        /\ \E c \in Cut(w.value) : e = Stored(d, w, c)
    BY <1>1, <1>7 DEF Leftovers
  <2>2. PICK c \in Cut(w.value) : e = Stored(d, w, c)
    BY <2>1
  <2>3. Recording(d, w, row) /\ ~w.guarded
    BY <1>4, <2>1
  <2>4. row \in Entry /\ d.manifest # NoFile
    BY <2>3 DEF Recording
  <2>5. CASE w.file = "events"
    <3>1. w.value = Appended(d.events, row) /\ (d.events = <<>> => d.mirror = <<>>)
      BY <2>3, <2>5 DEF Recording
    <3>2. Len(w.value) > Len(d.events)
      <4>1. d["events"] = d.events
        OBVIOUS
      <4> QED BY <2>1, <2>5, <4>1
    <3>3. PICK r \in Entry : r.type \in TornTypes /\ c = Appended(d.events, r)
      BY <1>5, <2>2, <2>4, <3>1, <3>2, CutIs
    <3>4. c \in Seq(Entry)
      <4>1. Longer(d.events, c, r)
        BY <1>5, <3>3, AppendedIs
      <4> QED BY <4>1 DEF Longer
    <3>5. Changed(d, e, "events", c)
      <4>1. Suits("events", c)
        BY <3>4, SuitsIs
      <4> QED BY <2>2, <2>5, <4>1, StoredIs
    <3>6. r.type \notin FinalTypes /\ Fit(r, d.manifest.policy)
      BY <3>3, TornFits
    <3>7. /\ Sound(e) /\ Steps(d, e) /\ e.events = c /\ e.events # <<>>
          /\ Longer(d.events, c, r) /\ e.manifest = d.manifest
      BY <2>4, <3>1, <3>3, <3>5, <3>6, EventsKeep
    <3>8. \A g : Has(c, FinalTypes, g) => Has(d.events, FinalTypes, g)
      BY <1>5, <3>6, <3>7, HasGrows, GoodTypes
    <3>9. Interrupted(d, e)
      BY <3>3, <3>7, <3>8 DEF Interrupted
    <3> QED BY <1>1, <2>3, <3>9
  <2>6. CASE w.file = "mirror"
    <3>1. w.value = Appended(d.mirror, row) /\ d.events # <<>>
      BY <2>3, <2>6 DEF Recording
    <3>2. Len(w.value) > Len(d.mirror)
      <4>1. d["mirror"] = d.mirror
        OBVIOUS
      <4> QED BY <2>1, <2>6, <4>1
    <3>3. PICK r \in Entry : r.type \in TornTypes /\ c = Appended(d.mirror, r)
      BY <1>5, <2>2, <2>4, <3>1, <3>2, CutIs
    <3>4. c \in Seq(Entry)
      <4>1. Longer(d.mirror, c, r)
        BY <1>5, <3>3, AppendedIs
      <4> QED BY <4>1 DEF Longer
    <3>5. Changed(d, e, "mirror", c)
      <4>1. Suits("mirror", c)
        BY <3>4, SuitsIs
      <4> QED BY <2>2, <2>6, <4>1, StoredIs
    <3>6. Fit(r, d.manifest.policy)
      BY <3>3, TornFits
    <3>7. Sound(e) /\ Steps(d, e) /\ e.events = d.events /\ e.manifest = d.manifest
      BY <2>4, <3>1, <3>3, <3>5, <3>6, MirrorKeeps
    <3>8. Interrupted(d, e)
      BY <3>1, <3>7 DEF Interrupted
    <3> QED BY <1>1, <2>3, <3>8
  <2> QED BY <2>1, <2>5, <2>6
<1> QED BY <1>6, <1>7

-----------------------------------------------------------------------------
(* The operations take the lock *)

\* What is known of a session at which no operation is at work.
LEMMA Resting ==
    ASSUME IInv, LockFree, NEW s \in Sessions
    PROVE /\ disk[s] \in Directory /\ Sound(disk[s])
          /\ Undisturbed => Told(disk[s])
          /\ faults = 0 /\ ~Live(s) /\ Serving => Over(disk[s])
<1>1. job.session # s
  BY SessionAssumption DEF LockFree, NoJob
<1> QED BY <1>1 DEF IInv, Directories, AtRest, Working, Serving

LEMMA BeginKeeps ==
    ASSUME IInv, LockFree, NEW kind \in Kinds, NEW s \in Sessions, NEW ws, NEW row,
           NEW u \in BOOLEAN, NEW o \in BOOLEAN,
           Begin(kind, s, ws, row), UNCHANGED <<disk, crashes, faults>>,
           \A t \in Sessions : Live(t)' <=> Live(t),
           capture # "down", scan \ {s} \subseteq scan',
           Undisturbed => u,
           faults = 0 /\ ~Live(s) /\ kind # "start" => o,
           Todo(disk[s], ws, row, u, o)
    PROVE Directories' /\ AtWork' /\ AtRest' /\ ~LockFree' /\ job'.kind # "none"
<1>1. /\ job'.kind = kind /\ job'.session = s /\ job'.writes = ws /\ job'.row = row
      /\ job'.ok = TRUE
  BY DEF Begin
<1>2. /\ disk \in [Sessions -> Directory] /\ disk[s] \in Directory /\ Sound(disk[s])
      /\ \A t \in Sessions : Sound(disk[t])
  BY DEF IInv, Directories
<1>3. ws # <<>>
  <2>1. PICK e : e = Stored(disk[s], Head(ws), Head(ws).value)
    OBVIOUS
  <2>2. Writing(disk[s], e, ws)
    BY <1>2, <2>1, Zenon DEF Writing
  <2>3. Moves(disk[s], e, ws, row, u, o)
    BY <2>2, TodoMoves
  <2> QED BY <2>3 DEF Moves
<1>4. Directories'
  BY <1>2 DEF Directories
<1>5. job'.kind # "none" /\ job' # NoJob
  BY <1>1 DEF Kinds, NoJob
<1>6. AtWork'
  <2>1. Undisturbed' <=> Undisturbed
    BY DEF Undisturbed
  <2>2. Old(s)' => o
    BY <1>1 DEF Old
  <2>3. Todo(disk'[s], ws, row, u, o)
    OBVIOUS
  <2> QED BY <1>1, <1>3, <2>1, <2>2, <2>3 DEF AtWork
<1>7. AtRest'
  <2>1. \A t \in Sessions : job.session # t
    BY SessionAssumption DEF LockFree, NoJob
  <2>2. Undisturbed' <=> Undisturbed
    BY DEF Undisturbed
  <2> QED BY <1>1, <2>1, <2>2 DEF AtRest, IInv
<1> QED BY <1>4, <1>5, <1>6, <1>7 DEF LockFree

-----------------------------------------------------------------------------
(* The steps of an operation *)

LEMMA AtWorkIs ==
    ASSUME IInv, ~LockFree
    PROVE /\ job.session \in Sessions /\ disk[job.session] \in Directory
          /\ Sound(disk[job.session]) /\ capture # "down" /\ job.writes # <<>>
          /\ job.kind \in Kinds
          /\ \E u, o \in BOOLEAN :
                 /\ Undisturbed => u
                 /\ Old(job.session) => o
                 /\ Todo(disk[job.session], job.writes, job.row, u, o)
BY DEF IInv, Working, Directories, AtWork

\* What a write does to the captions of the session that are still unheard.
LEMMA StreamKeeps ==
    ASSUME IInv, ~LockFree, NEW s \in Sessions, s = job.session, NEW e,
           disk' = [disk EXCEPT ![s] = e],
           \A t \in Sessions : t # s => stage'[t] = stage[t],
           Live(s)' =>
               /\ e.manifest # NoFile /\ (e.events = <<>> => e.mirror = <<>>)
               /\ \A g \in Segments :
                      stage'[s][g] = "unheard" => ~Has(e.events, FinalTypes, g)
    PROVE Streaming'
<1>1. disk'[s] = e /\ \A t \in Sessions : t # s => disk'[t] = disk[t]
  BY DEF IInv, Directories
<1>2. ASSUME NEW t \in Sessions, t # s, Live(t)'
      PROVE Live(t)
  BY <1>2 DEF Live
<1>3. Streaming
  BY DEF IInv
<1> QED BY <1>1, <1>2, <1>3 DEF Streaming

LEMMA DirectoriesKeep ==
    ASSUME IInv, NEW s \in Sessions, NEW e, Sound(e), disk' = [disk EXCEPT ![s] = e]
    PROVE Directories' /\ disk'[s] = e /\ \A t \in Sessions : t # s => disk'[t] = disk[t]
<1>1. e \in Directory
  BY DEF Sound, Built
<1> QED BY <1>1 DEF IInv, Directories

\* The fields of an operation.
LEMMA ProceedIs ==
    ASSUME IInv, NEW ws, ws # <<>>, NEW ok, Proceed(ws, ok)
    PROVE /\ DOMAIN job' = DOMAIN NoJob
          /\ job'.kind = job.kind /\ job'.session = job.session /\ job'.row = job.row
          /\ job'.writes = ws /\ job'.ok = ok
          /\ UNCHANGED <<active, capture, stage, acked, analysing>>
<1>1. DOMAIN job = {"kind", "session", "writes", "row", "ok"}
  BY DEF IInv, Working, NoJob
<1>2. job' = [job EXCEPT !.writes = ws, !.ok = ok]
  BY DEF Proceed
<1>3. DOMAIN job' = DOMAIN job
  BY <1>2
<1>4. /\ job'.kind = job.kind /\ job'.session = job.session /\ job'.row = job.row
      /\ job'.writes = ws /\ job'.ok = ok
  BY <1>1, <1>2
<1> QED BY <1>3, <1>4 DEF Proceed, IInv, Working

\* The directory e is fit for a session that is being recorded.
Records(e, s) ==
    /\ e.manifest # NoFile /\ (e.events = <<>> => e.mirror = <<>>)
    /\ \A g \in Segments : stage[s][g] = "unheard" => ~Has(e.events, FinalTypes, g)

\* A step after which the operation has writes left.
LEMMA GoesOn ==
    ASSUME IInv, ~LockFree, NEW s \in Sessions, s = job.session,
           NEW e, Sound(e), disk' = [disk EXCEPT ![s] = e],
           NEW ws, ws # <<>>, NEW ok \in BOOLEAN, Proceed(ws, ok),
           UNCHANGED <<policy, scan, crashes>>,
           faults' \in 0 .. MaxFaults, faults <= faults',
           NEW u \in BOOLEAN, NEW o \in BOOLEAN, Undisturbed' => u,
           faults' = 0 /\ Old(s) => o,
           Todo(e, ws, job.row, u, o),
           job.kind = "start" =>
               ok /\ e.mirror = <<>> /\ e.events = <<>> /\ Starting(e, ws, No),
           Live(s) => Records(e, s)
    PROVE IInv'
<1>1. /\ DOMAIN job' = DOMAIN NoJob
      /\ job'.kind = job.kind /\ job'.session = job.session /\ job'.row = job.row
      /\ job'.writes = ws /\ job'.ok = ok
      /\ UNCHANGED <<active, capture, stage, acked, analysing>>
  BY ProceedIs
<1>2. Directories' /\ disk'[s] = e /\ \A t \in Sessions : t # s => disk'[t] = disk[t]
  BY DirectoriesKeep
<1>3. faults \in Nat /\ faults' \in Nat /\ (faults' = 0 => faults = 0)
  BY SessionAssumption DEF IInv, Typed
<1>4. \A t \in Sessions : Live(t)' <=> Live(t)
  BY <1>1 DEF Live
<1>5. Typed'
  BY <1>1 DEF IInv, Typed
<1>6. job.kind # "none" /\ job.kind \in Kinds
  BY DEF IInv, Working, LockFree
<1>7. job' # NoJob /\ ~LockFree'
  BY <1>1, <1>6 DEF NoJob, LockFree
<1>8. Working'
  <2>1. Working
    BY DEF IInv
  <2>2. (active # NoSession => Live(active))'
    BY <1>1, <2>1 DEF Working, Live
  <2>3. capture' = "down" => ~(\E t \in Sessions : Live(t)')
    BY <1>1, <1>4, <2>1 DEF Working
  <2>4. (StartIsOn)'
    <3>1. StartIsOn
      BY <2>1 DEF Working
    <3> QED BY <1>1, <1>2, <3>1 DEF StartIsOn, Live
  <2>5. (AppendIsOn)'
    <3>1. AppendIsOn
      BY <2>1 DEF Working
    <3> QED BY <1>1, <3>1 DEF AppendIsOn, Live
  <2> QED BY <1>1, <1>6, <1>7, <2>1, <2>2, <2>3, <2>4, <2>5 DEF Working
<1>9. AtWork'
  <2>1. Old(s)' => o
    BY <1>1, <1>3, <1>4 DEF Old
  <2>2. Todo(disk'[s], ws, job'.row, u, o)
    BY <1>1, <1>2
  <2> QED BY <1>1, <2>1, <2>2 DEF AtWork
<1>10. AtRest'
  <2>1. Undisturbed' => Undisturbed
    BY <1>3 DEF Undisturbed
  <2> QED BY <1>1, <1>2, <1>3, <1>4, <2>1 DEF AtRest, IInv
<1>11. Streaming'
  BY <1>1, <1>4, StreamKeeps DEF Records
<1> QED BY <1>5, <1>8, <1>2, <1>9, <1>10, <1>11 DEF IInv

\* What Finish does to the variables.
LEMMA FinishIs ==
    ASSUME IInv, ~LockFree, NEW s \in Sessions, s = job.session,
           NEW ok \in BOOLEAN, Finish(ok)
    PROVE /\ Live(s)' <=> (Live(s) \/ (job.kind = "start" /\ ok))
          /\ \A t \in Sessions : t # s => stage'[t] = stage[t] /\ (Live(t)' <=> Live(t))
          /\ stage' \in [Sessions -> [Segments ->
               {"gone", "unheard", "final", "quality", "normalized", "settled"}]]
          /\ (job.kind = "start" /\ ok) \/ stage' = stage
<1>1. /\ stage \in [Sessions -> [Segments ->
           {"gone", "unheard", "final", "quality", "normalized", "settled"}]]
      /\ Segments # {}
  BY SessionAssumption DEF IInv, Typed
<1>2. CASE job.kind = "start" /\ ok
  <2>1. stage' = [stage EXCEPT ![s] = [g \in Segments |-> "unheard"]]
    BY <1>2 DEF Finish
  <2>2. stage'[s] = [g \in Segments |-> "unheard"] /\ \A t \in Sessions : t # s => stage'[t] = stage[t]
    BY <1>1, <2>1
  <2>3. Live(s)'
    BY <1>1, <2>2 DEF Live
  <2>4. \A t \in Sessions : t # s => (Live(t)' <=> Live(t))
    BY <2>2 DEF Live
  <2>5. stage' \in [Sessions -> [Segments ->
           {"gone", "unheard", "final", "quality", "normalized", "settled"}]]
    BY <1>1, <2>1
  <2> QED BY <1>2, <2>2, <2>3, <2>4, <2>5
<1>3. CASE ~(job.kind = "start" /\ ok)
  <2>1. stage' = stage
    BY <1>3 DEF Finish
  <2> QED BY <1>1, <1>3, <2>1 DEF Live
<1> QED BY <1>2, <1>3

\* A step after which the operation is at its end.
LEMMA Ends ==
    ASSUME IInv, ~LockFree, NEW s \in Sessions, s = job.session,
           NEW e, Sound(e), disk' = [disk EXCEPT ![s] = e],
           NEW ok \in BOOLEAN, Finish(ok),
           UNCHANGED <<policy, crashes>>,
           scan' \subseteq scan, faults' = 0 => scan' = scan,
           faults' \in 0 .. MaxFaults, faults <= faults',
           Undisturbed' => Told(e), faults' = 0 /\ ~Live(s)' => Over(e),
           Live(s)' => Records(e, s)'
    PROVE IInv'
<1>1. /\ Live(s)' <=> (Live(s) \/ (job.kind = "start" /\ ok))
      /\ \A t \in Sessions : t # s => stage'[t] = stage[t] /\ (Live(t)' <=> Live(t))
      /\ stage' \in [Sessions -> [Segments ->
               {"gone", "unheard", "final", "quality", "normalized", "settled"}]]
  BY FinishIs
<1>2. Directories' /\ disk'[s] = e /\ \A t \in Sessions : t # s => disk'[t] = disk[t]
  BY DirectoriesKeep
<1>3. faults \in Nat /\ faults' \in Nat /\ (faults' = 0 => faults = 0)
  BY SessionAssumption DEF IInv, Typed
<1>4. job' = NoJob /\ NoSession \notin Sessions
  BY SessionAssumption DEF Finish
<1>5. Typed /\ Working
  BY DEF IInv
<1>6. /\ active' = IF job.kind = "start" /\ ok THEN s ELSE active
      /\ capture' = CASE job.kind = "start" ->
                           IF ok THEN "running"
                           ELSE IF active = NoSession THEN "idle" ELSE "cleanup"
                    [] job.kind = "stopping" -> IF ok THEN capture ELSE "idle"
                    [] job.kind = "stop" -> "idle"
                    [] OTHER -> capture
  BY DEF Finish
<1>7. Typed'
  <2>1. acked' \in [Sessions -> SUBSET Entry]
    <3>1. job.kind = "append" => job.row \in Entry
      BY <1>5 DEF Working, AppendIsOn
    <3> QED BY <1>5, <3>1 DEF Finish, Typed
  <2>2. analysing' \in [session : Sessions \cup {NoSession},
                        outcome : {"working", "failed"}]
    BY <1>5 DEF Finish, Typed, NoAnalysis
  <2>3. scan' \subseteq Sessions /\ crashes' \in 0 .. MaxCrashes /\ policy' \in Policies
    BY <1>5 DEF Typed
  <2>4. active' \in Sessions \cup {NoSession}
    BY <1>5, <1>6 DEF Typed
  <2>5. capture' \in {"idle", "starting", "running", "paused", "stopping",
                    "cleanup", "down", "recovering"}
    BY <1>5, <1>6 DEF Typed
  <2> QED BY <1>1, <2>1, <2>2, <2>3, <2>4, <2>5 DEF Typed
<1>8. Working'
  <2>1. /\ DOMAIN job' = DOMAIN NoJob /\ job'.kind = "none" /\ job'.ok \in BOOLEAN /\ LockFree'
        /\ job'.row = NoFile
    BY <1>4 DEF NoJob, LockFree
  <2>2. ~(capture' = "starting")
    BY <1>5, <1>6 DEF Working
  <2>3. capture' \in {"running", "paused", "stopping", "cleanup"} => active' # NoSession
    BY <1>4, <1>5, <1>6 DEF Working
  <2>4. (active # NoSession => Live(active))'
    <3>1. CASE active' = s /\ job.kind = "start" /\ ok
      <4>1. Live(s)'
        BY <1>1, <3>1
      <4> QED BY <3>1, <4>1 DEF Live
    <3>2. CASE active' = active
      <4>1. active # NoSession => active \in Sessions /\ Live(active)
        BY <1>5 DEF Working, Typed
      <4>2. ASSUME NEW t \in Sessions, Live(t) PROVE Live(t)'
        BY <1>1, <4>2
      <4>3. ASSUME active # NoSession PROVE \E t \in Sessions : t = active' /\ Live(t)'
        BY <3>2, <4>1, <4>2, <4>3
      <4> QED BY <3>2, <4>3 DEF Live
    <3> QED BY <1>6, <3>1, <3>2
  <2>5. capture' # "down"
    BY <1>5, <1>6 DEF Working
  <2>6. capture' # "recovering" => scan' = {}
    BY <1>5, <1>6 DEF Working
  <2>7. StartIsOn' /\ AppendIsOn'
    BY <2>1 DEF StartIsOn, AppendIsOn
  <2> QED BY <2>1, <2>2, <2>3, <2>4, <2>5, <2>6, <2>7 DEF Working
<1>9. AtWork'
  BY <1>4 DEF AtWork, LockFree
<1>10. AtRest'
  <2>1. Undisturbed' => Undisturbed
    BY <1>3 DEF Undisturbed
  <2>2. capture # "down"
    BY <1>5 DEF Working
  <2>3. ASSUME NEW t \in Sessions, t # s
        PROVE /\ Undisturbed' => Told(disk'[t])
              /\ faults' = 0 /\ ~Live(t)' /\ t \notin scan' => Over(disk'[t])
    BY <1>1, <1>2, <1>3, <2>1, <2>2, <2>3 DEF AtRest, IInv
  <2> QED BY <1>2, <2>3 DEF AtRest
<1>11. Streaming'
  BY <1>1, StreamKeeps DEF Records
<1> QED BY <1>7, <1>8, <1>2, <1>9, <1>10, <1>11 DEF IInv

\* What a write does to the directory of a session that is being recorded.
LEMMA MovesRecord ==
    ASSUME IInv, ~LockFree, NEW s \in Sessions, s = job.session, NEW e, NEW u, NEW o,
           Moves(disk[s], e, job.writes, job.row, u, o), Records(disk[s], s)
    PROVE Records(e, s)
<1>1. PICK d, ws, row : d = disk[s] /\ ws = job.writes /\ row = job.row
  OBVIOUS
<1>2. /\ d.manifest # NoFile /\ (d.events = <<>> => d.mirror = <<>>)
      /\ \A g \in Segments : stage[s][g] = "unheard" => ~Has(d.events, FinalTypes, g)
  BY <1>1 DEF Records
<1>3. Moves(d, e, ws, row, u, o)
  BY <1>1
<1>4. e.manifest # NoFile
  BY <1>2, <1>3 DEF Moves
<1>5. CASE Head(ws).file = "events"
  <2>1. Recording(d, Head(ws), row) /\ Longer(d.events, e.events, row) /\ e.events # <<>>
    BY <1>3, <1>5 DEF Moves
  <2>2. row \in Entry /\ row # NoFile
    BY <2>1, NoFileIs DEF Recording
  <2>3. row.type \in FinalTypes => stage[s][row.segment] # "unheard"
    BY <1>1, <2>2 DEF IInv, Working, AppendIsOn
  <2>4. d.events \in Seq(Entry)
    BY <1>1, DirectoryIs DEF IInv, Directories
  <2>5. \A g : Has(e.events, FinalTypes, g) =>
                  Has(d.events, FinalTypes, g) \/ (row.type \in FinalTypes /\ row.segment = g)
    BY <2>1, <2>4, HasGrows, GoodTypes
  <2> QED BY <1>2, <1>4, <2>1, <2>3, <2>5 DEF Records
<1>6. CASE Head(ws).file # "events"
  <2>1. e.events = d.events /\ (e.mirror = d.mirror \/ d.events # <<>>)
    BY <1>3, <1>6 DEF Moves
  <2> QED BY <1>2, <1>4, <2>1 DEF Records
<1> QED BY <1>5, <1>6

LEMMA EmptyHas ==
    ASSUME NEW log, log = <<>>, NEW types, NEW g
    PROVE ~Has(log, types, g)
<1>1. Len(log) = 0
  OBVIOUS
<1> QED BY <1>1 DEF Has

LEMMA WriteFileKeeps ==
    ASSUME IInv, WriteFile
    PROVE IInv'
<1>1. ~LockFree /\ UNCHANGED <<policy, scan, crashes, faults>>
  BY DEF WriteFile
<1>2. PICK s \in Sessions : s = job.session
  BY <1>1, AtWorkIs
<1>3. PICK d, ws, row : d = disk[s] /\ ws = job.writes /\ row = job.row
  OBVIOUS
<1>4. d \in Directory /\ Sound(d) /\ ws # <<>>
  BY <1>1, <1>2, <1>3, AtWorkIs
<1>5. PICK u \in BOOLEAN, o \in BOOLEAN :
        (Undisturbed => u) /\ (Old(s) => o) /\ Todo(d, ws, row, u, o)
  BY <1>1, <1>2, <1>3, AtWorkIs
<1>6. PICK e : e = Stored(d, Head(ws), Head(ws).value)
  OBVIOUS
<1>7. Writing(d, e, ws)
  BY <1>4, <1>6, Zenon DEF Writing
<1>8. Moves(d, e, ws, row, u, o)
  BY <1>5, <1>7, TodoMoves
<1>9. PICK ok \in BOOLEAN : ok = (job.ok /\ ~Failing(Head(ws)))
  OBVIOUS
<1>10. disk' = [disk EXCEPT ![s] = e] /\ Proceed(Tail(ws), ok)
  BY <1>2, <1>3, <1>6, <1>9 DEF WriteFile
<1>11. Sound(e) /\ Left(e, Tail(ws), row, u, o)
  BY <1>8 DEF Moves
<1>12. faults' \in 0 .. MaxFaults /\ faults <= faults'
  BY <1>1, SessionAssumption DEF IInv, Typed
<1>13. Live(s) => Records(e, s)
  <2>1. Live(s) => Records(d, s)
    BY <1>3 DEF IInv, Streaming, Records
  <2> QED BY <1>1, <1>2, <1>3, <1>8, <2>1, MovesRecord
<1>14. ASSUME job.kind = "start"
       PROVE /\ ok /\ ~Live(s) /\ d.events = <<>> /\ d.mirror = <<>>
             /\ e.mirror = <<>> /\ e.events = <<>>
             /\ Tail(ws) # <<>> => Starting(e, Tail(ws), No)
  <2>1. /\ job.ok /\ ~Live(s) /\ d.events = <<>> /\ d.mirror = <<>>
        /\ Starting(d, ws, No)
    BY <1>2, <1>3, <1>14 DEF IInv, Working, StartIsOn
  <2>2. /\ ~Failing(Head(ws)) /\ Head(ws).file # "events"
        /\ Tail(ws) # <<>> => Starting(e, Tail(ws), No)
    BY <1>7, <2>1, StartingMoves
  <2>3. e.events = d.events /\ (e.mirror = d.mirror \/ d.events # <<>>)
    BY <1>8, <2>2 DEF Moves
  <2> QED BY <1>9, <2>1, <2>2, <2>3
<1>15. CASE Tail(ws) # <<>>
  <2>1. Todo(e, Tail(ws), row, u, o)
    BY <1>11, <1>15 DEF Left
  <2>2. Undisturbed' => u
    BY <1>1, <1>5 DEF Undisturbed
  <2>3. PICK rest : rest = Tail(ws)
    OBVIOUS
  <2>4. rest # <<>> /\ Proceed(rest, ok) /\ Todo(e, rest, job.row, u, o)
    BY <1>3, <1>10, <1>15, <2>1, <2>3
  <2>5. job.kind = "start" =>
            ok /\ e.mirror = <<>> /\ e.events = <<>> /\ Starting(e, rest, No)
    BY <1>14, <1>15, <2>3
  <2>6. faults' = 0 /\ Old(s) => o
    BY <1>5
  <2>7. UNCHANGED <<policy, scan, crashes>>
    BY <1>1
  <2> QED BY <1>1, <1>2, <1>10, <1>11, <1>12, <1>13, <2>2, <2>4, <2>5, <2>6, <2>7, GoesOn
<1>16. CASE Tail(ws) = <<>>
  <2>1. Leaves(e, u, o) /\ e.manifest # NoFile
    BY <1>8, <1>11, <1>16 DEF Left, Moves
  <2>2. Finish(ok)
    BY <1>10, <1>16 DEF Proceed
  <2>3. /\ Live(s)' <=> (Live(s) \/ (job.kind = "start" /\ ok))
        /\ (job.kind = "start" /\ ok) \/ stage' = stage
    BY <1>1, <1>2, <2>2, FinishIs
  <2>4. Undisturbed' => Told(e)
    BY <1>1, <1>5, <2>1 DEF Undisturbed, Leaves
  <2>5. faults' = 0 /\ ~Live(s)' => Over(e)
    BY <1>1, <1>5, <1>14, <2>1, <2>3 DEF Old, Leaves
  <2>6. Live(s)' => Records(e, s)'
    <3>1. CASE job.kind = "start" /\ ok
      BY <1>14, <2>1, <3>1, EmptyHas DEF Records
    <3>2. CASE ~(job.kind = "start" /\ ok)
      <4>1. stage' = stage /\ (Live(s)' => Live(s))
        BY <2>3, <3>2
      <4> QED BY <1>13, <4>1 DEF Records
    <3> QED BY <3>1, <3>2
  <2>7. UNCHANGED <<policy, crashes>> /\ scan' \subseteq scan /\ (faults' = 0 => scan' = scan)
    BY <1>1
  <2> QED BY <1>1, <1>2, <1>10, <1>11, <1>12, <2>2, <2>4, <2>5, <2>6, <2>7, Ends
<1> QED BY <1>15, <1>16

\* What an interrupted write leaves of a session that is being recorded.
LEMMA InterruptedRecords ==
    ASSUME NEW d \in Directory, NEW e, Interrupted(d, e), NEW s, Records(d, s)
    PROVE Records(e, s)
<1>1. /\ d.manifest # NoFile /\ (d.events = <<>> => d.mirror = <<>>)
      /\ \A g \in Segments : stage[s][g] = "unheard" => ~Has(d.events, FinalTypes, g)
  BY DEF Records
<1>2. /\ e.manifest = d.manifest /\ (e.events = <<>> => e.mirror = <<>>)
      /\ \A g : Has(e.events, FinalTypes, g) => Has(d.events, FinalTypes, g)
  BY <1>1 DEF Interrupted
<1> QED BY <1>1, <1>2 DEF Records

\* What the session's directory is after a write that did not complete.
LEMMA LeftoversAre ==
    ASSUME IInv, ~LockFree, NEW s \in Sessions, s = job.session,
           NEW e \in Leftovers(disk[s], Head(job.writes))
    PROVE /\ Sound(e) /\ (Live(s) => Records(e, s))
          /\ Head(job.writes).guarded => disk[s].manifest # NoFile /\ e = disk[s]
          /\ Interrupted(disk[s], e)
<1>1. PICK d, ws, row : d = disk[s] /\ ws = job.writes /\ row = job.row
  OBVIOUS
<1>2. PICK u \in BOOLEAN, o \in BOOLEAN : Todo(d, ws, row, u, o)
  BY <1>1, AtWorkIs
<1>3. d \in Directory /\ Sound(d) /\ e \in Leftovers(d, Head(ws))
  BY <1>1, AtWorkIs
<1>4. Interrupted(d, e) /\ (Head(ws).guarded => d.manifest # NoFile /\ e = d)
  BY <1>2, <1>3, InterruptedIs
<1>5. Sound(e)
  BY <1>4 DEF Interrupted
<1>6. ASSUME Live(s) PROVE Records(e, s)
  <2>1. Records(d, s)
    BY <1>1, <1>6 DEF IInv, Streaming, Records
  <2> QED BY <1>3, <1>4, <2>1, InterruptedRecords
<1> QED BY <1>1, <1>4, <1>5, <1>6

LEMMA WriteFailsKeeps ==
    ASSUME IInv, WriteFails
    PROVE IInv'
<1>1. /\ ~LockFree /\ faults < MaxFaults /\ faults' = faults + 1
      /\ UNCHANGED <<policy, crashes>>
  BY DEF WriteFails
<1>2. PICK s \in Sessions : s = job.session
  BY <1>1, AtWorkIs
<1>3. PICK e \in Leftovers(disk[s], Head(job.writes)) : disk' = [disk EXCEPT ![s] = e]
  <2>1. disk[s] \in Leftovers(disk[s], Head(job.writes))
    BY DEF Leftovers
  <2> QED BY <1>2, <2>1 DEF WriteFails
<1>4. /\ Sound(e) /\ (Live(s) => Records(e, s))
      /\ Head(job.writes).guarded => disk[s].manifest # NoFile /\ e = disk[s]
  BY <1>1, <1>2, LeftoversAre
<1>5. faults' \in 0 .. MaxFaults /\ faults <= faults' /\ faults' # 0 /\ ~Undisturbed'
  BY <1>1, SessionAssumption DEF IInv, Typed, Undisturbed
<1>6. No \in BOOLEAN /\ ~No
  BY DEF No
<1>7. job.kind = "start" =>
          ~Live(s) /\ ~Head(job.writes).guarded
  <2>1. ASSUME job.kind = "start" PROVE ~Head(job.writes).guarded
    <3>1. Starting(disk[s], job.writes, No)
      BY <1>2, <2>1 DEF IInv, Working, StartIsOn
    <3>2. PICK f : f = Stored(disk[s], Head(job.writes), Head(job.writes).value)
      OBVIOUS
    <3>3. disk[s] \in Directory /\ Sound(disk[s])
      BY <1>1, <1>2, AtWorkIs
    <3>4. Writing(disk[s], f, job.writes)
      BY <3>2, <3>3, Zenon DEF Writing
    <3> QED BY <3>1, <3>4, StartingMoves
  <2> QED BY <1>2, <2>1 DEF IInv, Working, StartIsOn
<1>8. CASE Head(job.writes).guarded
  <2>1. e = disk[s] /\ disk[s].manifest # NoFile
    BY <1>4, <1>8
  <2>2. PICK ws : ws = <<Failed(e.manifest)>>
    OBVIOUS
  <2>3. Proceed(ws, No) /\ UNCHANGED scan
    BY <1>2, <1>8, <2>1, <2>2 DEF WriteFails, No
  <2>4. Todo(e, ws, job.row, No, No)
    BY <2>1, <2>2 DEF Todo, Losing
  <2>5. ws # <<>>
    BY <2>2
  <2> QED BY <1>1, <1>2, <1>3, <1>4, <1>5, <1>6, <1>7, <1>8, <2>3, <2>4, <2>5, GoesOn
<1>9. CASE ~Head(job.writes).guarded
  <2>1. Finish(No) /\ scan' \subseteq scan
    BY <1>9 DEF WriteFails, Raise, No
  <2>2. /\ Live(s)' <=> (Live(s) \/ (job.kind = "start" /\ No))
        /\ (job.kind = "start" /\ No) \/ stage' = stage
    BY <1>1, <1>2, <1>6, <2>1, FinishIs
  <2>3. Live(s)' => Records(e, s)'
    <3>1. stage' = stage /\ (Live(s)' => Live(s))
      BY <1>6, <2>2
    <3> QED BY <1>4, <3>1 DEF Records
  <2> QED BY <1>1, <1>2, <1>3, <1>4, <1>5, <1>6, <2>1, <2>3, Ends
<1> QED BY <1>8, <1>9

LEMMA CrashKeeps ==
    ASSUME IInv, Crash
    PROVE IInv'
<1>1. /\ crashes < MaxCrashes /\ crashes' = crashes + 1 /\ job' = NoJob
      /\ active' = NoSession /\ policy' = FirstPolicy /\ capture' = "down"
      /\ stage' = Gone /\ analysing' = NoAnalysis /\ scan' = {}
      /\ UNCHANGED <<acked, faults>>
  BY DEF Crash
<1>2. \A s \in Sessions : ~Live(s)'
  BY <1>1 DEF Live, Gone
<1>3. Directories'
  <2>1. CASE LockFree
    BY <2>1 DEF Crash, IInv, Directories
  <2>2. CASE ~LockFree
    <3>1. PICK s \in Sessions : s = job.session
      BY <2>2, AtWorkIs
    <3>2. PICK e \in Leftovers(disk[s], Head(job.writes)) : disk' = [disk EXCEPT ![s] = e]
      BY <2>2, <3>1 DEF Crash
    <3>3. Sound(e)
      BY <2>2, <3>1, LeftoversAre
    <3> QED BY <3>2, <3>3, DirectoriesKeep
  <2> QED BY <2>1, <2>2
<1>4. Typed'
  <2>1. stage' \in [Sessions -> [Segments ->
           {"gone", "unheard", "final", "quality", "normalized", "settled"}]]
    BY <1>1 DEF Gone
  <2>2. crashes' \in 0 .. MaxCrashes
    BY <1>1, SessionAssumption DEF IInv, Typed
  <2> QED BY <1>1, <2>1, <2>2, SessionAssumption DEF IInv, Typed, NoAnalysis
<1>5. LockFree' /\ job'.kind = "none" /\ job'.row = NoFile /\ job'.ok = TRUE
  BY <1>1 DEF LockFree, NoJob
<1>6. Working'
  BY <1>1, <1>2, <1>5 DEF Working, StartIsOn, AppendIsOn
<1>7. AtWork' /\ Streaming'
  BY <1>2, <1>5 DEF AtWork, Streaming
<1>8. AtRest'
  <2>1. ~Undisturbed'
    BY <1>1, SessionAssumption DEF IInv, Typed, Undisturbed
  <2> QED BY <1>1, <2>1 DEF AtRest
<1> QED BY <1>3, <1>4, <1>6, <1>7, <1>8 DEF IInv

-----------------------------------------------------------------------------
(* What each operation does when it takes the lock *)

Stages == {"gone", "unheard", "final", "quality", "normalized", "settled"}

LEMMA Begins ==
    ASSUME IInv, LockFree, NEW kind \in Kinds, NEW s \in Sessions, NEW ws, NEW row,
           NEW u \in BOOLEAN, NEW o \in BOOLEAN,
           Begin(kind, s, ws, row), UNCHANGED <<disk, policy, acked, crashes, faults>>,
           \A t \in Sessions : Live(t)' <=> Live(t),
           stage' \in [Sessions -> [Segments -> Stages]],
           \A t \in Sessions, g \in Segments :
               stage'[t][g] = "unheard" => stage[t][g] = "unheard",
           analysing' \in [session : Sessions \cup {NoSession},
                           outcome : {"working", "failed"}],
           scan \ {s} \subseteq scan', scan' \subseteq scan,
           capture # "down", capture' # "recovering" => scan' = {},
           capture' \in {"idle", "starting", "running", "paused", "stopping",
                         "cleanup", "recovering"},
           capture' = "starting" <=> kind = "start",
           kind = "stop" => capture' = "stopping" /\ active' = NoSession,
           kind = "stopping" => capture' = "stopping",
           capture' \in {"running", "paused", "stopping", "cleanup"} =>
               active' # NoSession \/ kind = "stop",
           active' \in {active, NoSession},
           kind = "start" => ~Live(s) /\ disk[s].mirror = <<>> /\ disk[s].events = <<>>
                             /\ Starting(disk[s], ws, No),
           kind # "append" => row = NoFile,
           kind = "append" => Live(s) /\ row \in Entry,
           kind = "append" /\ row.type \in FinalTypes => stage'[s][row.segment] # "unheard",
           Undisturbed => u,
           faults = 0 /\ ~Live(s) /\ kind # "start" => o,
           Todo(disk[s], ws, row, u, o)
    PROVE IInv'
<1>1. Directories' /\ AtWork' /\ AtRest' /\ ~LockFree' /\ job'.kind # "none"
  BY BeginKeeps
<1>2. /\ job'.kind = kind /\ job'.session = s /\ job'.writes = ws /\ job'.row = row
      /\ job'.ok = TRUE /\ DOMAIN job' = DOMAIN NoJob
  BY DEF Begin, NoJob
<1>3. Typed'
  BY DEF IInv, Typed, Stages
<1>4. Streaming'
  BY DEF IInv, Streaming
<1>5. Working'
  <2>1. (active # NoSession => Live(active))'
    <3>1. ASSUME active' # NoSession PROVE \E t \in Sessions : t = active' /\ Live(t)'
      BY <3>1 DEF IInv, Working, Typed
    <3> QED BY <3>1 DEF Live
  <2>2. StartIsOn'
    <3>1. kind = "start" => /\ ~Live(s)' /\ disk'[s].mirror = <<>> /\ disk'[s].events = <<>>
                            /\ Starting(disk'[s], ws, No)
      OBVIOUS
    <3> QED BY <1>2, <3>1 DEF StartIsOn, Live
  <2>3. AppendIsOn'
    <3>1. kind = "append" => Live(s)'
      OBVIOUS
    <3> QED BY <1>2, <3>1 DEF AppendIsOn, Live
  <2> QED BY <1>1, <1>2, <2>1, <2>2, <2>3 DEF Working
<1> QED BY <1>1, <1>3, <1>4, <1>5 DEF IInv

\* An operation about a stored session changes nothing else yet.
LEMMA Asks ==
    ASSUME IInv, LockFree, NEW s \in Sessions, NEW ws,
           NEW kind \in {"finalize", "recover", "analysis_status", "save_analysis"},
           Begin(kind, s, ws, NoFile), capture # "down",
           UNCHANGED <<disk, active, policy, capture, stage, acked, crashes, faults>>,
           analysing' \in [session : Sessions \cup {NoSession},
                           outcome : {"working", "failed"}],
           scan \ {s} \subseteq scan', scan' \subseteq scan,
           NEW u \in BOOLEAN, NEW o \in BOOLEAN,
           Undisturbed => u, faults = 0 /\ ~Live(s) => o,
           Todo(disk[s], ws, NoFile, u, o)
    PROVE IInv'
<1>1. /\ kind \in Kinds /\ kind # "start" /\ kind # "stop" /\ kind # "stopping"
      /\ kind # "append"
  BY DEF Kinds
<1>2. \A t \in Sessions : Live(t)' <=> Live(t)
  BY DEF Live
<1>3. Working /\ Typed /\ job.kind = "none"
  BY DEF IInv, Working
<1>4. stage' \in [Sessions -> [Segments -> Stages]]
  BY <1>3 DEF Typed, Stages
<1>5. /\ capture' # "recovering" => scan' = {}
      /\ capture' \in {"idle", "starting", "running", "paused", "stopping",
                       "cleanup", "recovering"}
      /\ capture' # "starting"
      /\ capture' \in {"running", "paused", "stopping", "cleanup"} => active' # NoSession
      /\ active' \in {active, NoSession}
  BY <1>3 DEF Working, Typed
<1>6. \A t \in Sessions, g \in Segments :
          stage'[t][g] = "unheard" => stage[t][g] = "unheard"
  OBVIOUS
<1>7. PICK row : row = NoFile
  OBVIOUS
<1>8. Begin(kind, s, ws, row) /\ Todo(disk[s], ws, row, u, o)
  BY <1>7
<1> QED BY <1>1, <1>2, <1>4, <1>5, <1>6, <1>7, <1>8, Begins

\* A finalization of the session as it is, or with another manifest or with an
\* analysis.
LEMMA FinalizesAs ==
    ASSUME NEW d \in Directory, NEW e \in Directory, NEW rec \in BOOLEAN,
           e.manifest # NoFile \/ e.manifest = d.manifest,
           e.events = d.events, e.mirror = d.mirror
    PROVE FinalizeWrites(e, rec) \in Cores(ManifestOf(e), Source(d), e.analysis)
<1>1. Source(e) = Source(d)
  BY DEF Source
<1> QED BY <1>1, FinalizeIs

LEMMA FinalizesKeep ==
    ASSUME IInv, LockFree, NEW s \in Sessions, NEW rec, rec \in BOOLEAN,
           NEW kind \in {"finalize", "recover"},
           Begin(kind, s, FinalizeWrites(disk[s], rec), NoFile), capture # "down",
           UNCHANGED <<disk, active, policy, capture, stage, acked, crashes, faults, analysing>>,
           scan \ {s} \subseteq scan', scan' \subseteq scan
    PROVE IInv'
<1>1. disk[s] \in Directory
  BY Resting
<1>2. PICK ws : ws = FinalizeWrites(disk[s], rec)
  OBVIOUS
<1>3. Finalizing(disk[s], ws)
  BY <1>1, <1>2, FinalizeIs DEF Finalizing
<1>4. PICK o \in BOOLEAN : o
  OBVIOUS
<1>5. Todo(disk[s], ws, NoFile, o, o)
  BY <1>3 DEF Todo
<1>6. Begin(kind, s, ws, NoFile)
  BY <1>2
<1>7. analysing' \in [session : Sessions \cup {NoSession}, outcome : {"working", "failed"}]
  BY DEF IInv, Typed
<1>8. kind \in {"finalize", "recover", "analysis_status", "save_analysis"}
  OBVIOUS
<1> QED BY <1>4, <1>5, <1>6, <1>7, <1>8, Asks

LEMMA RequestIs ==
    ASSUME NEW kind, NEW s, Request(kind, s)
    PROVE /\ capture # "down" /\ capture # "recovering" /\ LockFree
          /\ UNCHANGED <<disk, active, policy, capture, stage, scan, acked, crashes, faults>>
          /\ scan \ {s} \subseteq scan' /\ scan' \subseteq scan
BY DEF Request, Serving

LEMMA FinalizeRequestKeeps ==
    ASSUME IInv, NEW s \in Sessions, FinalizeRequest(s)
    PROVE IInv'
<1>1. Request("finalize", s) /\ UNCHANGED analysing
  BY DEF FinalizeRequest
<1>2. Begin("finalize", s, FinalizeWrites(disk[s], No), NoFile) /\ No \in BOOLEAN
  BY DEF FinalizeRequest, No
<1> QED BY <1>1, <1>2, RequestIs, FinalizesKeep

LEMMA RecoverRequestKeeps ==
    ASSUME IInv, NEW s \in Sessions, RecoverRequest(s)
    PROVE IInv'
<1>1. Request("recover", s) /\ UNCHANGED analysing
  BY DEF RecoverRequest
<1>2. Begin("finalize", s, FinalizeWrites(disk[s], Yes), NoFile) /\ Yes \in BOOLEAN
  BY DEF RecoverRequest, Yes
<1> QED BY <1>1, <1>2, RequestIs, FinalizesKeep

LEMMA ExportRequestKeeps ==
    ASSUME IInv, NEW s \in Sessions, NEW kind \in Exports, ExportRequest(s, kind)
    PROVE IInv'
<1>1. Request("export", s) /\ UNCHANGED analysing
  BY DEF ExportRequest
<1>2. PICK rec : rec = (disk[s].mirror # <<>>)
  OBVIOUS
<1>3. Begin("finalize", s, FinalizeWrites(disk[s], rec), NoFile) /\ rec \in BOOLEAN
  BY <1>2 DEF ExportRequest
<1> QED BY <1>1, <1>3, RequestIs, FinalizesKeep

LEMMA RecoverNextKeeps ==
    ASSUME IInv, NEW s \in Sessions, RecoverNext(s)
    PROVE IInv'
<1>1. /\ capture = "recovering" /\ LockFree /\ s \in scan /\ scan' = scan \ {s}
      /\ UNCHANGED <<disk, active, policy, capture, stage, analysing, acked, crashes, faults>>
  BY DEF RecoverNext
<1>2. CASE Loadable(disk[s]) /\ NeedsRecovery(disk[s])
  <2>1. Begin("recover", s, FinalizeWrites(disk[s], Yes), NoFile) /\ Yes \in BOOLEAN
    BY <1>2 DEF RecoverNext, Yes
  <2>2. /\ scan \ {s} \subseteq scan' /\ scan' \subseteq scan /\ capture # "down"
        /\ UNCHANGED <<disk, active, policy, capture, stage, acked, crashes, faults, analysing>>
    BY <1>1
  <2> QED BY <1>1, <2>1, <2>2, FinalizesKeep
<1>3. CASE ~(Loadable(disk[s]) /\ NeedsRecovery(disk[s]))
  <2>1. UNCHANGED job
    BY <1>3 DEF RecoverNext
  <2>2. Over(disk[s])
    <3>1. disk[s].manifest \in Manifest \cup {NoFile}
      BY DirectoryIs DEF IInv, Directories
    <3>2. disk[s].manifest # NoFile => disk[s].manifest.status \in Status \ Unfinished
      BY <1>3, <3>1, ManifestIs DEF Loadable, NeedsRecovery, ManifestOf
    <3> QED BY <3>2 DEF Over, Status
  <2>3. AtRest'
    <3>1. \A t \in Sessions : Live(t)' <=> Live(t)
      BY <1>1 DEF Live
    <3> QED BY <1>1, <2>1, <2>2, <3>1 DEF IInv, AtRest, Undisturbed
  <2>4. Working'
    BY <1>1, <2>1 DEF IInv, Working, LockFree, Live, StartIsOn, AppendIsOn
  <2>5. Typed' /\ Directories' /\ Streaming'
    BY <1>1 DEF IInv, Typed, Directories, Streaming, Live
  <2>6. AtWork'
    BY <1>1, <2>1 DEF AtWork, LockFree
  <2> QED BY <2>3, <2>4, <2>5, <2>6 DEF IInv
<1> QED BY <1>2, <1>3

\* The writes of a change of the status of the analysis.
LEMMA AnalysingIs ==
    ASSUME IInv, LockFree, NEW s \in Sessions, Serving,
           NEW m \in Manifest, m.policy = ManifestOf(disk[s]).policy,
           m.status = ManifestOf(disk[s]).status, Backs(m, disk[s].analysis),
           NEW ws, ws = ManifestWrite(m) \o MetadataWrites(disk[s], m),
           NEW kind \in {"analysis_status", "save_analysis"},
           Begin(kind, s, ws, NoFile),
           UNCHANGED <<disk, active, policy, capture, stage, acked, crashes, faults, scan>>,
           analysing' \in [session : Sessions \cup {NoSession},
                           outcome : {"working", "failed"}]
    PROVE IInv'
<1>1. PICK u \in BOOLEAN : u = Undisturbed
  BY DEF Undisturbed
<1>2. PICK o \in BOOLEAN : o = (faults = 0 /\ ~Live(s))
  OBVIOUS
<1>3. Leaves(disk[s], u, o)
  BY <1>1, <1>2, Resting DEF Leaves
<1>4. MetadataWrites(disk[s], m) = Retold(disk[s], m)
  BY Zenon DEF MetadataWrites, Retold, Raised
<1>5. Analysing(disk[s], ws, u, o)
  BY <1>3, <1>4 DEF Analysing, Renews
<1>6. Todo(disk[s], ws, NoFile, u, o)
  BY <1>5 DEF Todo
<1>7. /\ capture # "down" /\ scan \ {s} \subseteq scan' /\ scan' \subseteq scan
      /\ kind \in {"finalize", "recover", "analysis_status", "save_analysis"}
  BY DEF Serving
<1> QED BY <1>1, <1>2, <1>6, <1>7, Asks

LEMMA SetAnalysisKeeps ==
    ASSUME IInv, NEW s \in Sessions, Request("analysis", s),
           NEW status \in {"running", "failed"}, SetAnalysisStatus(s, status),
           analysing' \in [session : Sessions \cup {NoSession},
                           outcome : {"working", "failed"}]
    PROVE IInv'
<1>1. LockFree /\ Serving
  BY DEF Request
<1>2. PICK m : m = [ManifestOf(disk[s]) EXCEPT !.analysis_status = status]
  OBVIOUS
<1>3. ManifestOf(disk[s]) \in Manifest
  BY <1>1, Resting, DirectoryIs
<1>4. /\ m \in Manifest /\ m.policy = ManifestOf(disk[s]).policy
      /\ m.status = ManifestOf(disk[s]).status /\ m.analysis_status # "completed"
  BY <1>2, <1>3 DEF Manifest, AnalysisStatus
<1>5. PICK ws : ws = ManifestWrite(m) \o MetadataWrites(disk[s], m)
  OBVIOUS
<1>6. Begin("analysis_status", s, ws, NoFile)
  BY <1>2, <1>5, Zenon DEF SetAnalysisStatus, ManifestWrite, Raised
<1>7. UNCHANGED <<disk, active, policy, capture, stage, acked, crashes, faults, scan>>
  BY RequestIs
<1>8. Backs(m, disk[s].analysis)
  BY <1>4 DEF Backs
<1> QED BY <1>1, <1>4, <1>5, <1>6, <1>7, <1>8, AnalysingIs

LEMMA PairIs ==
    ASSUME NEW S, NEW a \in S, NEW b \in S
    PROVE /\ <<a>> \in Seq(S) /\ <<b>> \in Seq(S) /\ <<a, b>> = <<a>> \o <<b>>
<1>1. /\ <<a>> \in Seq(S) /\ <<b>> \in Seq(S)
      /\ Len(<<a>>) = 1 /\ Len(<<b>>) = 1 /\ <<a>>[1] = a /\ <<b>>[1] = b
  OBVIOUS
<1>2. PICK q : q = <<a>> \o <<b>>
  OBVIOUS
<1>3. /\ q \in Seq(S) /\ Len(q) = 2
      /\ \A i \in 1 .. 2 : q[i] = IF i <= 1 THEN <<a>>[i] ELSE <<b>>[i - 1]
  BY <1>1, <1>2, ConcatProperties
<1>4. q[1] = a /\ q[2] = b
  BY <1>1, <1>3
<1>5. PICK r : r = <<a, b>>
  OBVIOUS
<1>6. r \in Seq(S) /\ Len(r) = 2 /\ r[1] = a /\ r[2] = b
  BY <1>5
<1>7. \A i \in 1 .. 2 : r[i] = q[i]
  BY <1>4, <1>6
<1>8. r = q
  BY <1>3, <1>6, <1>7, SeqEqual
<1> QED BY <1>1, <1>2, <1>5, <1>8

LEMMA AnalysisBeginsKeeps ==
    ASSUME IInv, NEW s \in Sessions, AnalysisBegins(s)
    PROVE IInv'
<1>1. /\ Request("analysis", s) /\ SetAnalysisStatus(s, "running")
      /\ analysing' = [session |-> s, outcome |-> "working"]
  BY DEF AnalysisBegins
<1>2. PICK status \in {"running", "failed"} : status = "running"
  OBVIOUS
<1> QED BY <1>1, <1>2, SetAnalysisKeeps

LEMMA AnalysisFailsKeeps ==
    ASSUME IInv, NEW s \in Sessions, AnalysisFails(s)
    PROVE IInv'
<1>1. /\ Request("analysis", s) /\ SetAnalysisStatus(s, "failed")
      /\ analysing' = NoAnalysis
  BY DEF AnalysisFails
<1>2. PICK status \in {"running", "failed"} : status = "failed"
  OBVIOUS
<1>3. analysing' \in [session : Sessions \cup {NoSession}, outcome : {"working", "failed"}]
  BY <1>1 DEF NoAnalysis
<1> QED BY <1>1, <1>2, <1>3, SetAnalysisKeeps

LEMMA SaveAnalysisKeeps ==
    ASSUME IInv, NEW s \in Sessions, SaveAnalysis(s)
    PROVE IInv'
<1>1. Request("analysis", s) /\ UNCHANGED analysing
  BY DEF SaveAnalysis
<1>2. LockFree /\ Serving
  BY <1>1 DEF Request
<1>3. PICK d : d = disk[s]
  OBVIOUS
<1>4. d \in Directory /\ Sound(d) /\ ManifestOf(d) \in Manifest
  BY <1>2, <1>3, Resting, DirectoryIs
<1>5. PICK m : m = [ManifestOf(d) EXCEPT !.analysis_status = "completed"]
  OBVIOUS
<1>6. m \in Manifest /\ m.policy = ManifestOf(d).policy /\ m.status = ManifestOf(d).status
  BY <1>4, <1>5 DEF Manifest, AnalysisStatus
<1>7. m # NoFile
  BY <1>6, NoFileIs
<1>8. analysing' \in [session : Sessions \cup {NoSession}, outcome : {"working", "failed"}]
  BY <1>1 DEF IInv, Typed
<1>9. UNCHANGED <<disk, active, policy, capture, stage, acked, crashes, faults, scan>>
  BY <1>1, RequestIs
<1>10. CASE m.policy.save_analysis
  <2>1. PICK e : e = [d EXCEPT !.manifest = m, !.analysis = Yes]
    OBVIOUS
  <2>2. /\ e \in Directory /\ e.manifest = m /\ e.analysis = Yes
        /\ e.events = d.events /\ e.mirror = d.mirror
    BY <1>4, <1>6, <2>1 DEF Directory, Yes
  <2>3. PICK rec \in BOOLEAN : rec = (d.mirror # <<>>)
    OBVIOUS
  <2>4. PICK rest : rest = FinalizeWrites(e, rec)
    OBVIOUS
  <2>5. ManifestOf(e) = m
    BY <1>7, <2>2 DEF ManifestOf
  <2>6. rest \in Cores(m, Source(d), Yes)
    <3>1. rest \in Cores(ManifestOf(e), Source(d), e.analysis)
      BY <1>4, <1>7, <2>2, <2>4, FinalizesAs
    <3> QED BY <2>2, <2>5, <3>1
  <2>7. rest \in Seq(Writes)
    <3>1. Source(d) \in Seq(Entry) /\ Yes \in BOOLEAN
      BY <1>4, DirectoryIs DEF Yes
    <3> QED BY <1>6, <2>6, <3>1, CoresAre
  <2>8. PICK ws : ws = AnalysisKept(d, m) \o rest
    OBVIOUS
  <2>9. Begin("save_analysis", s, ws, NoFile)
    BY <1>3, <1>5, <1>10, <2>1, <2>3, <2>4, <2>8 DEF SaveAnalysis, Yes
  <2>10. ws = <<Raised("analysis", Yes)>> \o (ManifestWrite(m) \o rest)
    <3>1. PICK a, b : a = Raised("analysis", Yes) /\ b = Raised("manifest", m)
      OBVIOUS
    <3>2. a \in Writes /\ b \in Writes
      BY <1>6, <3>1, ManifestWriteIs, WriteIs, ValuesAre
    <3>3. AnalysisKept(d, m) = <<a, b>>
      BY <3>1, Zenon DEF AnalysisKept, Raised, Yes
    <3>4. <<a, b>> = <<a>> \o <<b>> /\ <<a>> \in Seq(Writes) /\ <<b>> \in Seq(Writes)
      BY <3>2, PairIs
    <3>5. (<<a>> \o <<b>>) \o rest = <<a>> \o (<<b>> \o rest)
      BY <2>7, <3>4, ConcatAssociative
    <3> QED BY <2>8, <3>1, <3>3, <3>4, <3>5 DEF ManifestWrite
  <2>11. Renews(d, m)
    BY <1>6 DEF Renews
  <2>12. Keeping(d, ws)
    BY <1>6, <1>10, <2>6, <2>10, <2>11 DEF Keeping
  <2>13. PICK o \in BOOLEAN : o
    OBVIOUS
  <2>14. Todo(disk[s], ws, NoFile, o, o)
    BY <1>3, <2>12 DEF Todo
  <2>15. /\ capture # "down" /\ scan \ {s} \subseteq scan' /\ scan' \subseteq scan
    BY <1>1, RequestIs
  <2>16. PICK kind \in {"finalize", "recover", "analysis_status", "save_analysis"} :
             kind = "save_analysis"
    OBVIOUS
  <2> QED BY <1>2, <1>8, <1>9, <2>9, <2>13, <2>14, <2>15, <2>16, Asks
<1>11. CASE ~m.policy.save_analysis
  <2>1. PICK ws : ws = ManifestWrite(m) \o MetadataWrites(d, m)
    OBVIOUS
  <2>2. Begin("save_analysis", s, ws, NoFile)
    BY <1>3, <1>5, <1>11, <2>1, Zenon DEF SaveAnalysis, ManifestWrite, Raised
  <2>3. PICK kind \in {"analysis_status", "save_analysis"} : kind = "save_analysis"
    OBVIOUS
  <2>4. Backs(m, d.analysis)
    BY <1>11 DEF Backs
  <2> QED BY <1>2, <1>3, <1>6, <1>8, <1>9, <2>1, <2>2, <2>3, <2>4, AnalysingIs
<1> QED BY <1>10, <1>11

-----------------------------------------------------------------------------
(* The steps that no operation takes part in *)

LEMMA ConfigureKeeps ==
    ASSUME IInv, NEW p \in Policies, Configure(p)
    PROVE IInv'
<1>1. /\ policy' = p
      /\ UNCHANGED <<disk, job, active, capture, stage, analysing, scan, acked,
                     crashes, faults>>
  BY DEF Configure
<1>2. Typed'
  BY <1>1 DEF IInv, Typed
<1>3. Working' /\ AtRest'
  BY <1>1 DEF IInv, Working, AtRest, LockFree, Live, StartIsOn, AppendIsOn, Undisturbed
<1>4. Directories' /\ AtWork' /\ Streaming'
  BY <1>1 DEF IInv, Directories, AtWork, Streaming, LockFree, Live, Old, Undisturbed
<1> QED BY <1>2, <1>3, <1>4 DEF IInv

LEMMA IdleKeeps ==
    ASSUME IInv, LockFree,
           UNCHANGED <<disk, job, active, policy, stage, analysing, acked, crashes, faults>>,
           \/ capture' = "idle" /\ scan' = scan /\ scan = {}
           \/ capture' = "recovering" /\ scan' = {s \in Sessions : disk[s].dir},
           capture # "down" \/ capture' = "recovering"
    PROVE IInv'
<1>1. Typed'
  BY DEF IInv, Typed
<1>2. Working'
  BY DEF IInv, Working, LockFree, Live, StartIsOn, AppendIsOn
<1>3. Directories' /\ AtWork' /\ Streaming'
  BY DEF IInv, Directories, AtWork, Streaming, LockFree, Live
<1>4. AtRest'
  <2>1. ASSUME NEW s \in Sessions, ~disk[s].dir PROVE Over(disk[s])
    BY <2>1 DEF IInv, Directories, Sound, Built, Over
  <2> QED BY <2>1 DEF IInv, AtRest, Live, Undisturbed
<1> QED BY <1>1, <1>2, <1>3, <1>4 DEF IInv

LEMMA StartupKeeps ==
    ASSUME IInv, Startup
    PROVE IInv'
<1>1. LockFree
  BY DEF IInv, Working, Startup
<1> QED BY <1>1, IdleKeeps DEF Startup

LEMMA RecoveryEndsKeeps ==
    ASSUME IInv, RecoveryEnds
    PROVE IInv'
BY IdleKeeps DEF RecoveryEnds

-----------------------------------------------------------------------------
(* The life of a session *)

LEMMA StartSessionKeeps ==
    ASSUME IInv, NEW s \in Sessions, StartSession(s)
    PROVE IInv'
<1>1. /\ capture = "idle" /\ LockFree /\ ~Exists(disk[s]) /\ capture' = "starting"
      /\ UNCHANGED <<disk, active, policy, stage, analysing, scan, acked, crashes, faults>>
  BY DEF StartSession
<1>2. PICK d : d = disk[s]
  OBVIOUS
<1>3. Typed /\ Working /\ Streaming /\ Sound(d)
  BY <1>1, <1>2, Resting DEF IInv
<1>4. /\ ~d.dir /\ d.mirror = <<>> /\ d.manifest = NoFile /\ d.events = <<>> /\ ~d.analysis
  BY <1>1, <1>2, <1>3 DEF Exists, Sound, Built
<1>5. ~Live(s)
  BY <1>2, <1>3, <1>4 DEF Streaming
<1>6. PICK m : m = [status |-> "running", policy |-> policy,
                    analysis_status |-> "not_started"]
  OBVIOUS
<1>7. m \in Manifest /\ m.status = "running" /\ m.analysis_status # "completed"
  BY <1>3, <1>6 DEF Typed, Manifest, Status, Unfinished, AnalysisStatus
<1>8. PICK ws : ws = MakeDir \o ManifestWrite(m)
  OBVIOUS
<1>9. Begin("start", s, ws, NoFile)
  <2>1. PICK a, b : a = Raised("dir", Yes) /\ b = Raised("manifest", m)
    OBVIOUS
  <2>2. a \in Writes /\ b \in Writes
    BY <1>7, <2>1, ManifestWriteIs, WriteIs, ValuesAre
  <2>3. ws = <<a, b>>
    BY <1>8, <2>1, <2>2, PairIs DEF MakeDir, ManifestWrite
  <2>4. Begin("start", s, <<a, b>>, NoFile)
    BY <1>6, <2>1, Zenon DEF StartSession, Raised, Yes
  <2> QED BY <2>3, <2>4
<1>10. Starting(d, ws, No) /\ \A o : ~o => Starting(d, ws, o)
  BY <1>4, <1>7, <1>8 DEF Starting, No
<1>11. PICK u \in BOOLEAN, o \in BOOLEAN : u /\ ~o
  OBVIOUS
<1>12. \A t \in Sessions : Live(t)' <=> Live(t)
  BY <1>1 DEF Live
<1>13. PICK kind \in Kinds : kind = "start"
  BY DEF Kinds
<1>14. PICK row : row = NoFile
  OBVIOUS
<1>15. Begin(kind, s, ws, row) /\ Todo(disk[s], ws, row, u, o)
  BY <1>2, <1>9, <1>10, <1>11, <1>13, <1>14 DEF Todo
<1>16. /\ stage' \in [Sessions -> [Segments -> Stages]]
       /\ analysing' \in [session : Sessions \cup {NoSession},
                          outcome : {"working", "failed"}]
       /\ \A t \in Sessions, g \in Segments :
               stage'[t][g] = "unheard" => stage[t][g] = "unheard"
  BY <1>1, <1>3 DEF Typed, Stages
<1>17. /\ scan \ {s} \subseteq scan' /\ scan' \subseteq scan /\ scan' = {}
  BY <1>1, <1>3 DEF Working
<1>18. /\ disk[s].mirror = <<>> /\ disk[s].events = <<>> /\ Starting(disk[s], ws, No)
  BY <1>2, <1>4, <1>10
<1>19. /\ capture # "down" /\ active' \in {active, NoSession}
       /\ kind # "stop" /\ kind # "stopping" /\ kind # "append"
       /\ capture' \notin {"running", "paused", "stopping", "cleanup"}
       /\ capture' \in {"idle", "starting", "running", "paused", "stopping",
                         "cleanup", "recovering"}
  BY <1>1, <1>13
<1>20. UNCHANGED <<disk, policy, acked, crashes, faults>>
  BY <1>1
<1>21. /\ capture' # "recovering" => scan' = {}
       /\ capture' = "starting" <=> kind = "start"
       /\ kind = "stop" => capture' = "stopping" /\ active' = NoSession
       /\ kind = "stopping" => capture' = "stopping"
       /\ capture' \in {"running", "paused", "stopping", "cleanup"} =>
               active' # NoSession \/ kind = "stop"
  BY <1>1, <1>13, <1>17
<1>22. /\ kind = "start" => ~Live(s) /\ disk[s].mirror = <<>> /\ disk[s].events = <<>>
                             /\ Starting(disk[s], ws, No)
       /\ kind # "append" => row = NoFile
       /\ kind = "append" => Live(s) /\ row \in Entry
       /\ kind = "append" /\ row.type \in FinalTypes => stage'[s][row.segment] # "unheard"
  BY <1>5, <1>13, <1>14, <1>18
<1>23. /\ Undisturbed => u
       /\ faults = 0 /\ ~Live(s) /\ kind # "start" => o
  BY <1>11, <1>13
<1> QED BY <1>1, <1>12, <1>15, <1>16, <1>17, <1>19, <1>20, <1>21, <1>22, <1>23, Begins

\* A status that update_status writes.
LEMMA MarksKeep ==
    ASSUME IInv, LockFree, capture \in {"running", "paused", "cleanup"},
           NEW kind \in {"status", "stopping"},
           NEW status \in {"running", "paused", "stopping"}, SetStatus(kind, status),
           capture' = status, kind = "stopping" => status = "stopping",
           UNCHANGED <<disk, active, policy, stage, analysing, scan, acked, crashes, faults>>
    PROVE IInv'
<1>1. Typed /\ Working /\ Streaming /\ job.kind = "none"
  BY DEF IInv, Working
<1>2. PICK s \in Sessions : s = active /\ Live(s)
  BY <1>1 DEF Working, Typed
<1>3. PICK d : d = disk[s]
  OBVIOUS
<1>4. d \in Directory /\ Sound(d) /\ d.manifest # NoFile /\ d.manifest \in Manifest
  BY <1>1, <1>2, <1>3, Resting, DirectoryIs DEF Streaming
<1>5. PICK m : m = [d.manifest EXCEPT !.status = status]
  OBVIOUS
<1>6. /\ m \in Manifest /\ m.policy = d.manifest.policy /\ m.status = status
      /\ m.analysis_status = d.manifest.analysis_status /\ m.status \notin Final
  BY <1>4, <1>5 DEF Manifest, Status, Unfinished, Final
<1>7. Backs(m, d.analysis)
  BY <1>4, <1>6 DEF Sound, Showing, Backs
<1>8. Renews(d, m)
  BY <1>4, <1>6 DEF Renews, ManifestOf
<1>9. PICK ws : ws = ManifestWrite(m)
  OBVIOUS
<1>10. Begin(kind, s, ws, NoFile)
  BY <1>2, <1>3, <1>5, <1>9, Zenon DEF SetStatus, ManifestWrite, Raised
<1>11. PICK u \in BOOLEAN, o \in BOOLEAN : u /\ ~o
  OBVIOUS
<1>12. Marking(d, ws, o)
  BY <1>4, <1>6, <1>7, <1>8, <1>9, <1>11 DEF Marking
<1>13. \A t \in Sessions : Live(t)' <=> Live(t)
  BY DEF Live
<1>14. PICK row : row = NoFile
  OBVIOUS
<1>15. Begin(kind, s, ws, row) /\ Todo(disk[s], ws, row, u, o)
  BY <1>3, <1>10, <1>12, <1>14 DEF Todo
<1>16. /\ stage' \in [Sessions -> [Segments -> Stages]]
       /\ analysing' \in [session : Sessions \cup {NoSession},
                          outcome : {"working", "failed"}]
       /\ \A t \in Sessions, g \in Segments :
               stage'[t][g] = "unheard" => stage[t][g] = "unheard"
  BY <1>1 DEF Typed, Stages
<1>17. /\ scan \ {s} \subseteq scan' /\ scan' \subseteq scan /\ scan' = {}
  BY <1>1 DEF Working
<1>18. kind \in Kinds /\ kind # "start" /\ kind # "append" /\ kind # "stop"
  BY DEF Kinds
<1>19. /\ capture # "down" /\ active' \in {active, NoSession} /\ active' # NoSession
       /\ capture' # "starting" /\ (kind = "stopping" => capture' = "stopping")
       /\ capture' \in {"idle", "starting", "running", "paused", "stopping",
                         "cleanup", "recovering"}
  BY <1>2, SessionAssumption
<1>20. UNCHANGED <<disk, policy, acked, crashes, faults>>
  OBVIOUS
<1>21. /\ capture' # "recovering" => scan' = {}
       /\ capture' = "starting" <=> kind = "start"
       /\ kind = "stop" => capture' = "stopping" /\ active' = NoSession
       /\ kind = "stopping" => capture' = "stopping"
       /\ capture' \in {"running", "paused", "stopping", "cleanup"} =>
               active' # NoSession \/ kind = "stop"
  BY <1>17, <1>18, <1>19
<1>22. /\ kind = "start" => ~Live(s) /\ disk[s].mirror = <<>> /\ disk[s].events = <<>>
                             /\ Starting(disk[s], ws, No)
       /\ kind # "append" => row = NoFile
       /\ kind = "append" => Live(s) /\ row \in Entry
       /\ kind = "append" /\ row.type \in FinalTypes => stage'[s][row.segment] # "unheard"
  BY <1>14, <1>18
<1>23. /\ Undisturbed => u
       /\ faults = 0 /\ ~Live(s) /\ kind # "start" => o
  BY <1>2, <1>11
<1>24. Todo(disk[s], ws, row, u, o) /\ Begin(kind, s, ws, row)
  BY <1>15
<1> QED BY <1>13, <1>16, <1>17, <1>18, <1>19, <1>20, <1>21, <1>22, <1>23, <1>24, Begins

LEMMA PauseKeeps ==
    ASSUME IInv, Pause
    PROVE IInv'
<1>1. PICK status \in {"running", "paused", "stopping"} :
        capture' = status /\ SetStatus("status", status)
  BY DEF Pause
<1>2. PICK kind \in {"status", "stopping"} : kind = "status"
  OBVIOUS
<1> QED BY <1>1, <1>2, MarksKeep DEF Pause

LEMMA StopBeginsKeeps ==
    ASSUME IInv, StopBegins
    PROVE IInv'
<1>1. PICK status \in {"running", "paused", "stopping"} : status = "stopping"
  OBVIOUS
<1>2. PICK kind \in {"status", "stopping"} : kind = "stopping"
  OBVIOUS
<1> QED BY <1>1, <1>2, MarksKeep DEF StopBegins

LEMMA StopSessionKeeps ==
    ASSUME IInv, StopSession
    PROVE IInv'
<1>1. /\ capture = "stopping" /\ LockFree /\ active' = NoSession
      /\ UNCHANGED <<disk, policy, capture, stage, analysing, scan, acked, crashes, faults>>
  BY DEF StopSession
<1>2. Typed /\ Working /\ Streaming /\ job.kind = "none"
  BY <1>1 DEF IInv, Working
<1>3. PICK s \in Sessions : s = active /\ Live(s)
  BY <1>1, <1>2 DEF Working, Typed
<1>4. PICK d : d = disk[s]
  OBVIOUS
<1>5. d \in Directory /\ Sound(d) /\ d.manifest # NoFile /\ d.manifest \in Manifest
  BY <1>1, <1>2, <1>3, <1>4, Resting, DirectoryIs DEF Streaming
<1>6. PICK m : m = [d.manifest EXCEPT !.status = "stopping"]
  OBVIOUS
<1>7. /\ m \in Manifest /\ m.policy = d.manifest.policy /\ m.status \notin Final
      /\ m.analysis_status = d.manifest.analysis_status
  BY <1>5, <1>6 DEF Manifest, Status, Unfinished, Final
<1>8. Backs(m, d.analysis) /\ m # NoFile
  BY <1>5, <1>7, NoFileIs DEF Sound, Showing, Backs
<1>9. Renews(d, m)
  BY <1>5, <1>7 DEF Renews, ManifestOf
<1>10. PICK e : e = [d EXCEPT !.manifest = m]
  OBVIOUS
<1>11. /\ e \in Directory /\ e.manifest = m /\ e.analysis = d.analysis
       /\ e.events = d.events /\ e.mirror = d.mirror /\ ManifestOf(e) = m
  BY <1>5, <1>7, <1>8, <1>10 DEF Directory, ManifestOf
<1>12. PICK rest : rest = FinalizeWrites(e, No)
  OBVIOUS
<1>13. rest \in Cores(m, Source(d), d.analysis)
  <2>1. No \in BOOLEAN
    BY DEF No
  <2>2. rest \in Cores(ManifestOf(e), Source(d), e.analysis)
    BY <1>5, <1>8, <1>11, <1>12, <2>1, FinalizesAs
  <2> QED BY <1>11, <2>2
<1>14. PICK ws : ws = ManifestWrite(m) \o rest
  OBVIOUS
<1>15. Begin("stop", s, ws, NoFile)
  BY <1>3, <1>4, <1>6, <1>10, <1>12, <1>14, Zenon DEF StopSession, ManifestWrite, Raised, No
<1>16. Renewing(d, ws)
  BY <1>7, <1>8, <1>9, <1>13, <1>14 DEF Renewing
<1>17. PICK u \in BOOLEAN, o \in BOOLEAN : u /\ ~o
  OBVIOUS
<1>18. \A t \in Sessions : Live(t)' <=> Live(t)
  BY <1>1 DEF Live
<1>19. PICK row : row = NoFile
  OBVIOUS
<1>20. PICK kind \in Kinds : kind = "stop"
  BY DEF Kinds
<1>21. Begin(kind, s, ws, row) /\ Todo(disk[s], ws, row, u, o)
  BY <1>4, <1>15, <1>16, <1>19, <1>20 DEF Todo
<1>22. /\ stage' \in [Sessions -> [Segments -> Stages]]
       /\ analysing' \in [session : Sessions \cup {NoSession},
                          outcome : {"working", "failed"}]
       /\ \A t \in Sessions, g \in Segments :
               stage'[t][g] = "unheard" => stage[t][g] = "unheard"
  BY <1>1, <1>2 DEF Typed, Stages
<1>23. /\ scan \ {s} \subseteq scan' /\ scan' \subseteq scan /\ scan' = {}
  BY <1>1, <1>2 DEF Working
<1>24. /\ capture # "down" /\ active' \in {active, NoSession}
       /\ capture' = "stopping" /\ kind # "start" /\ kind # "append"
  BY <1>1, <1>20
<1>25. UNCHANGED <<disk, policy, acked, crashes, faults>>
  BY <1>1
<1>26. /\ capture' # "recovering" => scan' = {}
       /\ capture' = "starting" <=> kind = "start"
       /\ kind = "stop" => capture' = "stopping" /\ active' = NoSession
       /\ kind = "stopping" => capture' = "stopping"
       /\ capture' \in {"running", "paused", "stopping", "cleanup"} =>
               active' # NoSession \/ kind = "stop"
       /\ capture' \in {"idle", "starting", "running", "paused", "stopping",
                         "cleanup", "recovering"}
  BY <1>1, <1>20, <1>23, <1>24
<1>27. /\ kind = "start" => ~Live(s) /\ disk[s].mirror = <<>> /\ disk[s].events = <<>>
                             /\ Starting(disk[s], ws, No)
       /\ kind # "append" => row = NoFile
       /\ kind = "append" => Live(s) /\ row \in Entry
       /\ kind = "append" /\ row.type \in FinalTypes => stage'[s][row.segment] # "unheard"
  BY <1>19, <1>20
<1>28. /\ Undisturbed => u
       /\ faults = 0 /\ ~Live(s) /\ kind # "start" => o
  BY <1>3, <1>17
<1>29. capture # "down" /\ active' \in {active, NoSession} /\ LockFree
  BY <1>1, <1>24
<1> QED BY <1>18, <1>21, <1>22, <1>23, <1>25, <1>26, <1>27, <1>28, <1>29, Begins

-----------------------------------------------------------------------------
(* Appends *)

LEMMA EmptyEnds ==
    ASSUME NEW S, NEW q \in Seq(S)
    PROVE <<>> \in Seq(S) /\ q \o <<>> = q /\ <<>> \o q = q
BY ConcatEmptySeq

LEMMA ThreeParts ==
    \A a, b, c \in Seq(Writes) : (a \o b) \o c = a \o (b \o c)
<1> TAKE a, b, c \in Seq(Writes)
<1> QED BY ConcatAssociative

RowThen(d, row, log, rest, ws) ==
    \E x \in {<<>>, <<Raised("mirror", Appended(d.mirror, row))>>} :
        ws = <<Raised("events", log)>> \o (x \o rest)

\* The writes of an append, and what comes after them.
LEMMA AppendsIs ==
    ASSUME NEW d \in Directory, NEW row \in Entry, NEW log, log = Appended(d.events, row),
           NEW mirrored, mirrored \in BOOLEAN, NEW rest \in Seq(Writes),
           NEW ws, ws = AppendWrites(d, row, mirrored) \o rest
    PROVE /\ RowThen(d, row, log, rest, ws) /\ Head(ws).file = "events"
          /\ AppendWrites(d, row, mirrored) \in Seq(Writes)
<1>1. PICK ev : ev = <<Raised("events", log)>>
  OBVIOUS
<1>2. PICK mi : mi = <<Raised("mirror", Appended(d.mirror, row))>>
  OBVIOUS
<1>3. d.events \in Seq(Entry) /\ d.mirror \in Seq(Entry)
  BY DirectoryIs
<1>4. log \in Seq(Entry) /\ Appended(d.mirror, row) \in Seq(Entry)
  <2>1. PICK v : v = Appended(d.mirror, row)
    OBVIOUS
  <2>2. Longer(d.events, log, row) /\ Longer(d.mirror, v, row)
    BY <1>3, <2>1, AppendedIs
  <2> QED BY <2>1, <2>2 DEF Longer
<1>5. Raised("events", log) \in Writes /\ Raised("mirror", Appended(d.mirror, row)) \in Writes
  <2>1. PICK f \in Files, g \in Files : f = "events" /\ g = "mirror"
    BY ValuesAre
  <2>2. log \in Values /\ Appended(d.mirror, row) \in Values
    BY <1>4, ValuesAre
  <2>3. PICK v \in Values : v = Appended(d.mirror, row)
    BY <2>2
  <2>4. Raised(f, log) \in Writes /\ Raised(g, v) \in Writes
    BY <2>2, WriteIs
  <2> QED BY <2>1, <2>3, <2>4
<1>6. ev \in Seq(Writes) /\ mi \in Seq(Writes)
  BY <1>1, <1>2, <1>5
<1>7. AppendWrites(d, row, mirrored) = ev \o (IF mirrored THEN mi ELSE <<>>)
  BY <1>1, <1>2, Zenon DEF AppendWrites, Raised
<1>8. PICK x : x = IF mirrored THEN mi ELSE <<>>
  OBVIOUS
<1>9. x \in Seq(Writes)
  BY <1>6, <1>8
<1>10. ws = (ev \o x) \o rest
  BY <1>7, <1>8
<1>11. ws = ev \o (x \o rest)
  <2>1. (ev \o x) \o rest = ev \o (x \o rest)
    BY <1>6, <1>9, ThreeParts, Zenon
  <2> QED BY <1>10, <2>1
<1>12. RowThen(d, row, log, rest, ws)
  BY <1>1, <1>2, <1>8, <1>11 DEF RowThen
<1>13. ev \o x \in Seq(Writes)
  BY <1>6, <1>9, ConcatProperties
<1>14. Head(ws).file = "events"
  <2>1. PICK w : w = Raised("events", log)
    OBVIOUS
  <2>2. w \in Writes
    BY <1>5, <2>1
  <2>3. w.file = "events"
    BY <2>1 DEF Raised, Write
  <2>4. x \o rest \in Seq(Writes)
    BY <1>9, ConcatProperties
  <2>5. PICK more \in Seq(Writes) : more = x \o rest
    BY <2>4
  <2>6. ws = <<w>> \o more
    BY <1>1, <1>11, <2>1, <2>5
  <2>7. Head(ws) = w
    BY <2>2, <2>6, ConsIs
  <2> QED BY <2>3, <2>7
<1> QED BY <1>7, <1>8, <1>12, <1>13, <1>14

\* An append begins with the log.
RowFirst == job'.row.type \notin TornTypes /\ Head(job'.writes).file = "events"

\* A row is appended to the log of a session that is being recorded.
LEMMA AppendKeeps ==
    ASSUME IInv, NEW s \in Sessions, NEW g \in Segments, NEW row \in Entry,
           stage[s][g] # "gone", disk[s].manifest # NoFile => Fit(row, disk[s].manifest.policy),
           row.segment = g, row.type \in FinalTypes => stage[s][g] = "unheard",
           NEW next \in {"final", "quality", "normalized", "settled"},
           NEW mirrored, mirrored \in BOOLEAN, NEW rest \in Seq(Writes),
           rest # <<>> =>
               /\ disk[s].manifest.status \in Final
               /\ rest \in Cores(disk[s].manifest, Appended(disk[s].events, row), disk[s].analysis),
           row.type \in Outcomes /\ disk[s].manifest.status \in Final => rest # <<>>,
           NEW ws, ws = AppendWrites(disk[s], row, mirrored) \o rest,
           row.type \notin TornTypes, Appending(s, g, row, ws, next)
    PROVE IInv' /\ RowFirst
<1>1. /\ LockFree /\ Serving /\ Begin("append", s, ws, row)
      /\ stage' = [stage EXCEPT ![s][g] = next]
      /\ UNCHANGED <<disk, active, policy, capture, analysing, scan, acked, crashes, faults>>
  BY DEF Appending
<1>2. Typed /\ Working /\ Streaming /\ job.kind = "none"
  BY <1>1 DEF IInv, Working
<1>3. Live(s)
  BY DEF Live
<1>4. PICK d : d = disk[s]
  OBVIOUS
<1>5. /\ d \in Directory /\ Sound(d) /\ d.manifest # NoFile /\ d.manifest \in Manifest
      /\ d.events = <<>> => d.mirror = <<>>
      /\ row.type \in FinalTypes => ~Has(d.events, FinalTypes, row.segment)
  BY <1>1, <1>2, <1>3, <1>4, Resting, DirectoryIs DEF Streaming
<1>6. PICK u \in BOOLEAN, o \in BOOLEAN : (u <=> Undisturbed) /\ ~o
  BY DEF Undisturbed
<1>7. Leaves(d, u, o)
  BY <1>1, <1>4, <1>6, Resting DEF Leaves
<1>8. PICK log : log = Appended(d.events, row)
  OBVIOUS
<1>9. RowThen(d, row, log, rest, ws)
  <2>1. ws = AppendWrites(d, row, mirrored) \o rest /\ d \in Directory
    BY <1>4, <1>5
  <2> QED BY <1>8, <2>1, AppendsIs
<1>10. PICK again : again = IF d.manifest.status \in Final
                            THEN Cores(d.manifest, log, d.analysis) ELSE {<<>>}
  OBVIOUS
<1>11. rest \in {<<>>} \cup again /\ (row.type \in Outcomes => rest \in again)
  BY <1>4, <1>8, <1>10
<1>12. Appends(d, ws, row, u, o)
  <2>1. Fit(row, d.manifest.policy)
    BY <1>4, <1>5
  <2> QED BY <1>5, <1>7, <1>8, <1>9, <1>10, <1>11, <2>1 DEF Appends, RowThen
<1>13. Todo(disk[s], ws, row, u, o)
  BY <1>4, <1>12 DEF Todo
<1>14. /\ stage' \in [Sessions -> [Segments -> Stages]]
       /\ stage'[s][g] = next
       /\ \A t \in Sessions, h \in Segments :
               (t = s /\ h = g) \/ stage'[t][h] = stage[t][h]
  BY <1>1, <1>2 DEF Typed, Stages
<1>15. \A t \in Sessions, h \in Segments :
           /\ stage'[t][h] = "unheard" => stage[t][h] = "unheard"
           /\ stage'[t][h] # "gone" <=> stage[t][h] # "gone"
  BY <1>14
<1>16. \A t \in Sessions : Live(t)' <=> Live(t)
  BY <1>15 DEF Live
<1>17. PICK kind \in Kinds : kind = "append"
  BY DEF Kinds
<1>18. Begin(kind, s, ws, row)
  BY <1>1, <1>17
<1>19. /\ scan \ {s} \subseteq scan' /\ scan' \subseteq scan
       /\ capture' # "recovering" => scan' = {}
       /\ capture # "down"
       /\ analysing' \in [session : Sessions \cup {NoSession},
                          outcome : {"working", "failed"}]
       /\ UNCHANGED <<disk, policy, acked, crashes, faults>>
  BY <1>1, <1>2 DEF Working, Typed, Serving
<1>20. /\ capture' = "starting" <=> kind = "start"
       /\ kind = "stop" => capture' = "stopping" /\ active' = NoSession
       /\ kind = "stopping" => capture' = "stopping"
       /\ capture' \in {"running", "paused", "stopping", "cleanup"} =>
               active' # NoSession \/ kind = "stop"
       /\ capture' \in {"idle", "starting", "running", "paused", "stopping",
                         "cleanup", "recovering"}
       /\ active' \in {active, NoSession}
  BY <1>1, <1>2, <1>17 DEF Working, Typed, Serving
<1>21. /\ kind = "start" => ~Live(s) /\ disk[s].mirror = <<>> /\ disk[s].events = <<>>
                             /\ Starting(disk[s], ws, No)
       /\ kind # "append" => row = NoFile
       /\ kind = "append" => Live(s) /\ row \in Entry
       /\ kind = "append" /\ row.type \in FinalTypes => stage'[s][row.segment] # "unheard"
  BY <1>3, <1>14, <1>17
<1>22. /\ Undisturbed => u
       /\ faults = 0 /\ ~Live(s) /\ kind # "start" => o
  BY <1>3, <1>6
<1>23. \A t \in Sessions, h \in Segments : stage'[t][h] = "unheard" => stage[t][h] = "unheard"
  BY <1>15
<1>24. stage' \in [Sessions -> [Segments -> Stages]] /\ LockFree
  BY <1>1, <1>14
<1>25. IInv'
  BY <1>13, <1>16, <1>18, <1>19, <1>20, <1>21, <1>22, <1>23, <1>24, Begins
<1>26. RowFirst
  <2>1. ws = AppendWrites(d, row, mirrored) \o rest /\ d \in Directory
    BY <1>4, <1>5
  <2>2. Head(ws).file = "events"
    BY <1>8, <2>1, AppendsIs
  <2> QED BY <1>1, <2>2 DEF RowFirst, Begin
<1> QED BY <1>25, <1>26

LEMMA AppendAlone ==
    ASSUME IInv, NEW s \in Sessions, NEW g \in Segments, NEW row \in Entry,
           stage[s][g] # "gone", disk[s].manifest # NoFile => Fit(row, disk[s].manifest.policy),
           row.segment = g, row.type \in FinalTypes => stage[s][g] = "unheard",
           row.type \notin Outcomes,
           NEW next \in {"final", "quality", "normalized", "settled"},
           NEW mirrored, mirrored \in BOOLEAN,
           NEW ws, ws = AppendWrites(disk[s], row, mirrored),
           row.type \notin TornTypes, Appending(s, g, row, ws, next)
    PROVE IInv' /\ RowFirst
<1>1. disk[s] \in Directory
  BY DEF IInv, Directories
<1>2. PICK log, rest : log = Appended(disk[s].events, row) /\ rest = <<>>
  OBVIOUS
<1>3. rest \in Seq(Writes)
  BY <1>2
<1>4. PICK all : all = ws \o rest
  OBVIOUS
<1>5. ws \in Seq(Writes)
  BY <1>1, <1>2, <1>3, <1>4, AppendsIs
<1>6. ws = all
  BY <1>2, <1>4, <1>5, ConcatEmptySeq
<1>7. ws = AppendWrites(disk[s], row, mirrored) \o rest
  BY <1>4, <1>6
<1> QED BY <1>2, <1>3, <1>7, AppendKeeps

\* The policy of a session that is being recorded.
LEMMA PolicyIs ==
    ASSUME IInv, NEW s \in Sessions, NEW g \in Segments, stage[s][g] # "gone"
    PROVE /\ disk[s].manifest \in Manifest /\ disk[s].manifest # NoFile
          /\ disk[s] \in Directory /\ Live(s)
          /\ SavesOriginal(s) \in BOOLEAN
          /\ SavesOriginal(s) = disk[s].manifest.policy.save_original
<1>1. Live(s)
  BY DEF Live
<1>2. disk[s] \in Directory /\ disk[s].manifest # NoFile /\ disk[s].manifest \in Manifest
  BY <1>1, DirectoryIs DEF IInv, Directories, Streaming
<1> QED BY <1>1, <1>2, ManifestIs DEF SavesOriginal

LEMMA AppendFinalKeeps ==
    ASSUME IInv, NEW s \in Sessions, NEW g \in Segments, AppendFinal(s, g)
    PROVE IInv' /\ RowFirst
<1>1. stage[s][g] = "unheard" /\ stage[s][g] # "gone"
  BY DEF AppendFinal
<1>2. PICK saved : saved = SavesOriginal(s)
  OBVIOUS
<1>3. saved \in BOOLEAN /\ saved = disk[s].manifest.policy.save_original
  BY <1>1, <1>2, PolicyIs
<1>4. PICK row : row = Row(IF saved THEN "final_transcript" ELSE "segment_marker", g, saved)
  OBVIOUS
<1>5. row \in Entry /\ row.segment = g /\ row.type \in FinalTypes /\ row.type \notin TornTypes
  BY <1>3, <1>4 DEF Row, Entry, RowTypes, FinalTypes, TornTypes
<1>6. row.type \notin Outcomes /\ Fit(row, disk[s].manifest.policy)
  BY <1>3, <1>4 DEF Row, Outcomes, Fit
<1>7. PICK ws : ws = AppendWrites(disk[s], row, saved)
  OBVIOUS
<1>8. Appending(s, g, row, ws, "final")
  BY <1>2, <1>4, <1>7 DEF AppendFinal
<1>9. PICK next \in {"final", "quality", "normalized", "settled"} : next = "final"
  OBVIOUS
<1> QED BY <1>1, <1>3, <1>5, <1>6, <1>7, <1>8, <1>9, AppendAlone

LEMMA AppendQualityKeeps ==
    ASSUME IInv, NEW s \in Sessions, NEW g \in Segments, AppendQuality(s, g)
    PROVE IInv' /\ RowFirst
<1>1. stage[s][g] # "gone"
  BY DEF AppendQuality
<1>2. PICK saved : saved = SavesOriginal(s) /\ saved \in BOOLEAN
  BY <1>1, PolicyIs
<1>3. PICK row : row = Row("transcription_quality", g, saved)
  OBVIOUS
<1>4. /\ row \in Entry /\ row.segment = g /\ row.type \notin FinalTypes
      /\ row.type \notin Outcomes /\ row.type \notin TornTypes /\ \A p : Fit(row, p)
  BY <1>2, <1>3 DEF Row, Entry, RowTypes, FinalTypes, Outcomes, Fit, TornTypes
<1>5. PICK no : no = FALSE
  OBVIOUS
<1>6. PICK ws : ws = AppendWrites(disk[s], row, no)
  OBVIOUS
<1>7. Appending(s, g, row, ws, "quality")
  BY <1>2, <1>3, <1>5, <1>6, Zenon DEF AppendQuality
<1>8. PICK next \in {"final", "quality", "normalized", "settled"} : next = "quality"
  OBVIOUS
<1>9. no \in BOOLEAN
  BY <1>5
<1> QED BY <1>1, <1>4, <1>6, <1>7, <1>8, <1>9, AppendAlone

LEMMA AppendNormalizationKeeps ==
    ASSUME IInv, NEW s \in Sessions, NEW g \in Segments, AppendNormalization(s, g)
    PROVE IInv' /\ RowFirst
<1>1. stage[s][g] # "gone"
  BY DEF AppendNormalization
<1>2. PICK row : row = Row("context_normalization", g, TRUE)
  OBVIOUS
<1>3. /\ row \in Entry /\ row.segment = g /\ row.type \notin FinalTypes
      /\ row.type \notin Outcomes /\ row.type \notin TornTypes /\ \A p : Fit(row, p)
  BY <1>2 DEF Row, Entry, RowTypes, FinalTypes, Outcomes, Fit, TornTypes
<1>4. PICK no : no = FALSE
  OBVIOUS
<1>5. PICK ws : ws = AppendWrites(disk[s], row, no)
  OBVIOUS
<1>6. Appending(s, g, row, ws, "normalized")
  BY <1>2, <1>4, <1>5, Zenon DEF AppendNormalization
<1>7. PICK next \in {"final", "quality", "normalized", "settled"} : next = "normalized"
  OBVIOUS
<1>8. no \in BOOLEAN
  BY <1>4
<1> QED BY <1>1, <1>3, <1>5, <1>6, <1>7, <1>8, AppendAlone

\* A finished session is finalized again, from its log with the new row.
LEMMA RefinalizedIs ==
    ASSUME NEW d \in Directory, d.manifest # NoFile, NEW row \in Entry, NEW log,
           log = Appended(d.events, row), NEW e, e = [d EXCEPT !.events = log]
    PROVE IF d.manifest.status \in Final
          THEN Refinalized(e) \in Cores(d.manifest, log, d.analysis)
          ELSE Refinalized(e) = <<>>
<1>1. d.events \in Seq(Entry) /\ d.manifest \in Manifest
  BY DirectoryIs
<1>2. log \in Seq(Entry) /\ log # <<>>
  BY <1>1, AppendedIs DEF Longer
<1>3. /\ e \in Directory /\ e.manifest = d.manifest /\ e.events = log
      /\ e.analysis = d.analysis
  BY <1>2 DEF Directory
<1>4. Source(e) = log /\ ManifestOf(e) = d.manifest
  BY <1>2, <1>3 DEF Source, ManifestOf
<1>5. PICK rec : rec = (e.manifest.status = "recovered")
  OBVIOUS
<1>6. rec \in BOOLEAN
  BY <1>5
<1>7. FinalizeWrites(e, rec) \in Cores(d.manifest, log, d.analysis)
  <2>1. FinalizeWrites(e, rec) \in Cores(ManifestOf(e), Source(e), e.analysis)
    BY <1>3, <1>6, FinalizeIs
  <2> QED BY <1>3, <1>4, <2>1
<1> QED BY <1>3, <1>5, <1>7 DEF Refinalized

LEMMA AppendOutcomeKeeps ==
    ASSUME IInv, NEW s \in Sessions, NEW g \in Segments, NEW type \in Outcomes,
           AppendOutcome(s, g, type)
    PROVE IInv' /\ RowFirst
<1>1. stage[s][g] # "gone" /\ disk[s].manifest.policy.save_translation
  BY DEF AppendOutcome, Translatable, SavesTranslation
<1>2. PICK d : d = disk[s]
  OBVIOUS
<1>3. d \in Directory /\ d.manifest \in Manifest /\ d.manifest # NoFile
  BY <1>1, <1>2, PolicyIs
<1>4. PICK row : row = Row(type, g, FALSE)
  OBVIOUS
<1>5. /\ row \in Entry /\ row.segment = g /\ row.type \notin FinalTypes
      /\ Fit(row, d.manifest.policy) /\ row.type \notin TornTypes
  BY <1>1, <1>2, <1>4 DEF Row, Entry, RowTypes, FinalTypes, Outcomes, Fit, TornTypes
<1>6. PICK log : log = Appended(d.events, row)
  OBVIOUS
<1>7. PICK e : e = [d EXCEPT !.events = log]
  OBVIOUS
<1>8. PICK rest : rest = Refinalized(e)
  OBVIOUS
<1>9. IF d.manifest.status \in Final
      THEN rest \in Cores(d.manifest, log, d.analysis) ELSE rest = <<>>
  BY <1>3, <1>5, <1>6, <1>7, <1>8, RefinalizedIs
<1>10. rest \in Seq(Writes) /\ (rest # <<>> <=> d.manifest.status \in Final)
  <2>1. log \in Seq(Entry) /\ d.analysis \in BOOLEAN
    <3>1. d.events \in Seq(Entry) /\ d.analysis \in BOOLEAN
      BY <1>3, DirectoryIs
    <3> QED BY <1>5, <1>6, <3>1, AppendedIs DEF Longer
  <2>2. CASE d.manifest.status \in Final
    <3>1. rest \in Cores(d.manifest, log, d.analysis)
      BY <1>9, <2>2
    <3> QED BY <1>3, <2>1, <2>2, <3>1, CoresAre
  <2>3. CASE d.manifest.status \notin Final
    <3>1. rest = <<>>
      BY <1>9, <2>3
    <3> QED BY <2>3, <3>1
  <2> QED BY <2>2, <2>3
<1>11. PICK mirrored : mirrored = (row.type = "translation")
  OBVIOUS
<1>12. mirrored \in BOOLEAN
  BY <1>11
<1>13. PICK ws : ws = AppendWrites(d, row, mirrored) \o rest
  OBVIOUS
<1>14. Appending(s, g, row, ws, "settled")
  <2>1. Appending(s, g, row, OutcomeWrites(d, row), "settled")
    BY <1>2, <1>4, Zenon DEF AppendOutcome
  <2>2. OutcomeWrites(d, row) = ws
    BY <1>6, <1>7, <1>8, <1>11, <1>13 DEF OutcomeWrites
  <2> QED BY <2>1, <2>2
<1>15. PICK next \in {"final", "quality", "normalized", "settled"} : next = "settled"
  OBVIOUS
<1>16. rest # <<>> =>
               /\ disk[s].manifest.status \in Final
               /\ rest \in Cores(disk[s].manifest, Appended(disk[s].events, row), disk[s].analysis)
  BY <1>2, <1>6, <1>9, <1>10
<1>17. disk[s].manifest.status \in Final => rest # <<>>
  BY <1>2, <1>10
<1>18. ws = AppendWrites(disk[s], row, mirrored) \o rest /\ Fit(row, disk[s].manifest.policy)
  BY <1>2, <1>5, <1>13
<1> QED BY <1>1, <1>5, <1>10, <1>12, <1>14, <1>15, <1>16, <1>17, <1>18, AppendKeeps

-----------------------------------------------------------------------------
(* The invariant *)

LEMMA LegacyLogIs ==
    /\ LegacyLog \in Seq(Entry) /\ LegacyLog # <<>> /\ Single(LegacyLog)
    /\ AllFit(LegacyLog, Everything)
<1>1. PICK g \in Segments : g = CHOOSE h \in Segments : TRUE
  <2>1. \E h \in Segments : TRUE
    BY SessionAssumption
  <2> QED BY <2>1
<1>2. PICK a, b : a = Row("final_transcript", g, TRUE) /\ b = Row("translation", g, FALSE)
  OBVIOUS
<1>3. /\ a \in Entry /\ b \in Entry /\ a.type = "final_transcript" /\ b.type = "translation"
  BY <1>2 DEF Row, Entry, RowTypes, FinalTypes
<1>4. PICK log : log = <<a, b>>
  OBVIOUS
<1>5. LegacyLog = log
  BY <1>1, <1>2, <1>4, Zenon DEF LegacyLog
<1>6. log \in Seq(Entry) /\ Len(log) = 2 /\ log[1] = a /\ log[2] = b /\ log # <<>>
  BY <1>3, <1>4
<1>7. \A i \in 1 .. Len(log) : i = 1 \/ i = 2
  BY <1>6
<1>8. Single(log)
  BY <1>3, <1>6, <1>7 DEF Single, FinalTypes
<1>9. AllFit(log, Everything)
  BY <1>3, <1>6, <1>7 DEF AllFit, Fit, Everything
<1> QED BY <1>5, <1>6, <1>8, <1>9

LEMMA FirstSound ==
    ASSUME NEW d, d = Empty \/ d = [Empty EXCEPT !.mirror = LegacyLog]
    PROVE d \in Directory /\ Sound(d) /\ d.manifest = NoFile
<1>1. PICK none : none = <<>>
  OBVIOUS
<1>2. /\ none \in Seq(Entry) /\ Empty \in Directory
      /\ ~Empty.dir /\ Empty.manifest = NoFile /\ Empty.events = none /\ Empty.mirror = none
      /\ Empty.session = NoFile /\ ~Empty.analysis
  <2>1. none \in Seq(Entry)
    BY <1>1
  <2>2. Empty = [dir |-> FALSE, manifest |-> NoFile, events |-> none,
          mirror |-> none, session |-> NoFile, analysis |-> FALSE,
          transcript_original |-> NoFile, transcript_korean |-> NoFile,
          meeting_report |-> NoFile]
    BY <1>1, Zenon DEF Empty
  <2> QED BY <2>1, <2>2 DEF Directory
<1>3. PICK log \in Seq(Entry) :
        /\ d \in Directory /\ ~d.dir /\ d.manifest = NoFile /\ d.events = none
        /\ d.mirror = log /\ d.session = NoFile /\ ~d.analysis
        /\ log = none \/ log = LegacyLog
  <2>1. CASE d = Empty
    BY <1>2, <2>1
  <2>2. CASE d = [Empty EXCEPT !.mirror = LegacyLog]
    <3>1. PICK log \in Seq(Entry) : log = LegacyLog
      BY LegacyLogIs
    <3>2. d = [Empty EXCEPT !.mirror = log]
      BY <2>2, <3>1
    <3> QED BY <1>2, <3>1, <3>2 DEF Directory
  <2> QED BY <2>1, <2>2
<1>4. Len(none) = 0
  BY <1>1
<1>5. Single(log) /\ AllFit(log, Everything) /\ AllFit(none, Everything)
  <2>1. CASE log = none
    BY <1>4, <2>1 DEF Single, AllFit
  <2>2. CASE log = LegacyLog
    BY <1>4, <2>2, LegacyLogIs DEF AllFit
  <2> QED BY <1>3, <2>1, <2>2
<1>6. ManifestOf(d).policy = Everything /\ Everything.save_analysis
  BY <1>3 DEF ManifestOf, LegacyManifest, Everything
<1>7. Source(d) = log
  BY <1>1, <1>3 DEF Source
<1>8. Granted(d)
  BY <1>3, <1>5, <1>6 DEF Granted
<1>9. Built(d) /\ Showing(d) /\ Agreed(d)
  BY <1>1, <1>3, <1>5, <1>7 DEF Built, Showing, Agreed
<1> QED BY <1>3, <1>8, <1>9 DEF Sound

LEMMA InitHolds == Init => IInv
<1> SUFFICES ASSUME Init PROVE IInv
  OBVIOUS
<1>1. /\ job = NoJob /\ active = NoSession /\ policy = FirstPolicy /\ capture = "idle"
      /\ stage = Gone /\ analysing = NoAnalysis /\ scan = {} /\ crashes = 0 /\ faults = 0
      /\ acked = [s \in Sessions |-> {}]
  BY DEF Init
<1>2. \A s \in Sessions : disk[s] = Empty \/ disk[s] = [Empty EXCEPT !.mirror = LegacyLog]
  BY DEF Init
<1>3. \A s \in Sessions : disk[s] \in Directory /\ Sound(disk[s]) /\ disk[s].manifest = NoFile
  BY <1>2, FirstSound
<1>4. Directories
  <2>1. disk = [s \in Sessions |-> disk[s]]
    BY DEF Init
  <2> QED BY <1>3, <2>1 DEF Directories
<1>5. \A s \in Sessions : ~Live(s)
  BY <1>1 DEF Live, Gone
<1>6. Typed
  <2>1. stage \in [Sessions -> [Segments ->
           {"gone", "unheard", "final", "quality", "normalized", "settled"}]]
    BY <1>1 DEF Gone
  <2> QED BY <1>1, <2>1, SessionAssumption DEF Typed, NoAnalysis
<1>7. LockFree /\ job.kind = "none" /\ job.row = NoFile /\ job.ok = TRUE
  BY <1>1 DEF LockFree, NoJob
<1>8. Working
  BY <1>1, <1>5, <1>7 DEF Working, StartIsOn, AppendIsOn
<1>9. AtWork /\ Streaming /\ AtRest
  BY <1>3, <1>5, <1>7 DEF AtWork, Streaming, AtRest, Told, Nearly, Over
<1> QED BY <1>4, <1>6, <1>8, <1>9 DEF IInv

LEMMA StutterKeeps ==
    ASSUME IInv, UNCHANGED vars
    PROVE IInv'
<1>1. UNCHANGED <<disk, job, active, policy, capture, stage, analysing, scan, acked,
                  crashes, faults>>
  BY DEF vars
<1>2. Typed' /\ Directories' /\ Streaming'
  BY <1>1 DEF IInv, Typed, Directories, Streaming, Live
<1>3. Working'
  BY <1>1 DEF IInv, Working, LockFree, Live, StartIsOn, AppendIsOn
<1>4. AtWork' /\ AtRest'
  BY <1>1 DEF IInv, AtWork, AtRest, LockFree, Live, Old, Undisturbed
<1> QED BY <1>2, <1>3, <1>4 DEF IInv

LEMMA NextKeeps == IInv /\ [Next]_vars => IInv'
<1> SUFFICES ASSUME IInv, [Next]_vars PROVE IInv'
  OBVIOUS
<1>1. ASSUME NEW p \in Policies, Configure(p) PROVE IInv'
  BY <1>1, ConfigureKeeps
<1>2. ASSUME NEW s \in Sessions, Control(s) PROVE IInv'
  BY <1>2, StartSessionKeeps, RecoverNextKeeps DEF Control
<1>3. ASSUME NEW s \in Sessions, API(s) PROVE IInv'
  BY <1>3, FinalizeRequestKeeps, RecoverRequestKeeps, ExportRequestKeeps,
     AnalysisBeginsKeeps, AnalysisFailsKeeps, SaveAnalysisKeeps DEF API
<1>4. ASSUME NEW s \in Sessions, NEW g \in Segments, Pipeline(s, g) PROVE IInv'
  <2>1. PICK a \in Outcomes, b \in Outcomes : a = "translation" /\ b = "translation_error"
    BY DEF Outcomes
  <2>2. CASE AppendOutcome(s, g, a) \/ AppendOutcome(s, g, b)
    BY <2>2, AppendOutcomeKeeps
  <2>3. CASE AppendFinal(s, g) \/ AppendQuality(s, g) \/ AppendNormalization(s, g)
    BY <2>3, AppendFinalKeeps, AppendQualityKeeps, AppendNormalizationKeeps
  <2> QED BY <1>4, <2>1, <2>2, <2>3 DEF Pipeline
<1>5. CASE Pause \/ StopBegins \/ StopSession
  BY <1>5, PauseKeeps, StopBeginsKeeps, StopSessionKeeps
<1>6. CASE WriteFile \/ WriteFails \/ Crash
  BY <1>6, WriteFileKeeps, WriteFailsKeeps, CrashKeeps
<1>7. CASE Startup \/ RecoveryEnds
  BY <1>7, StartupKeeps, RecoveryEndsKeeps
<1>8. CASE UNCHANGED vars
  BY <1>8, StutterKeeps
<1> QED BY <1>1, <1>2, <1>3, <1>4, <1>5, <1>6, <1>7, <1>8 DEF Next

\* Whatever is interrupted, the directory of a session is sound, and the writes
\* that an operation has left bring it to a directory that is finished.
THEOREM StoreInvariance == Spec => []IInv
<1>1. Init => IInv
  BY InitHolds
<1>2. IInv /\ [Next]_vars => IInv'
  BY NextKeeps
<1> QED BY <1>1, <1>2, PTL DEF Spec

-----------------------------------------------------------------------------
(* What it says of the files *)

LEMMA StatusIs ==
    ASSUME IInv, NEW s \in Sessions
    PROVE /\ disk[s] \in Directory /\ Sound(disk[s])
          /\ Finished(s) => /\ job.session # s /\ disk[s].manifest # NoFile
                            /\ disk[s].manifest.status \in Final
BY DEF IInv, Directories, Finished

LEMMA TypesHold == IInv /\ Remembered => TypeOK
<1> SUFFICES ASSUME IInv, Remembered PROVE TypeOK
  OBVIOUS
<1>1. job.session \in Sessions \cup {NoSession}
  BY DEF IInv, Working, LockFree, NoJob
<1>2. job.ok \in BOOLEAN /\ (LockFree \/ job.writes # <<>>)
  BY DEF IInv, Working, AtWork
<1>3. glued \in [Sessions -> SUBSET Entry]
  BY DEF Remembered
<1> QED BY <1>1, <1>2, <1>3 DEF TypeOK, IInv, Typed, Working, Directories

LEMMA FilesHold == IInv /\ Remembered => FilesAgree
<1> SUFFICES ASSUME IInv, Remembered PROVE FilesAgree
  OBVIOUS
<1>1. ExportsAgree
  BY StatusIs DEF ExportsAgree, Sound, Agreed
<1>2. MetadataAgrees
  <2>1. ASSUME NEW s \in Sessions, Undisturbed, Finished(s) PROVE Told(disk[s])
    BY <2>1, StatusIs DEF IInv, AtRest
  <2> QED BY <2>1, StatusIs DEF MetadataAgrees, Told, Nearly
<1>3. AnalysisBacked
  BY StatusIs DEF AnalysisBacked, Sound, Showing, Backs
<1> QED BY <1>1, <1>2, <1>3, TypesHold DEF FilesAgree

LEMMA RowsFit ==
    ASSUME NEW d \in Directory, Sound(d), d.manifest # NoFile, NEW p, p = d.manifest.policy,
           NEW row \in {d.events[i] : i \in DOMAIN d.events} \cup
                       {d.mirror[i] : i \in DOMAIN d.mirror}
    PROVE Fit(row, p)
<1>1. AllFit(d.events, p) /\ AllFit(d.mirror, p)
  BY DEF Sound, Granted, ManifestOf
<1>2. d.events \in Seq(Entry) /\ d.mirror \in Seq(Entry)
  BY DirectoryIs
<1>3. DOMAIN d.events = 1 .. Len(d.events) /\ DOMAIN d.mirror = 1 .. Len(d.mirror)
  BY <1>2, LenProperties
<1> QED BY <1>1, <1>3 DEF AllFit

LEMMA SourceFits ==
    ASSUME NEW d \in Directory, Sound(d), d.manifest # NoFile
    PROVE /\ d.manifest.policy.save_original \/ Spoken(Source(d)) = {}
          /\ d.manifest.policy.save_translation \/ Shared(Source(d)) = {}
<1>1. AllFit(Source(d), d.manifest.policy)
  BY DEF Sound, Granted, ManifestOf, Source
<1>2. ASSUME ~d.manifest.policy.save_original PROVE Spoken(Source(d)) = {}
  BY <1>1, <1>2 DEF AllFit, Fit, Spoken, Has
<1>3. ASSUME ~d.manifest.policy.save_translation PROVE Shared(Source(d)) = {}
  BY <1>1, <1>3 DEF AllFit, Fit, Shared, Has
<1> QED BY <1>2, <1>3

LEMMA ConsentHolds == IInv => ResultsConsented
<1> SUFFICES ASSUME IInv, NEW s \in Sessions, disk[s].manifest # NoFile
             PROVE LET d == disk[s]
                       kept == d.manifest.policy
                       rows == {d.events[i] : i \in DOMAIN d.events} \cup
                               {d.mirror[i] : i \in DOMAIN d.mirror}
                   IN  /\ kept.save_translation \/
                              /\ \A row \in rows : row.type # "translation"
                              /\ d.session # NoFile => Translations(d.session) = {}
                       /\ kept.save_analysis \/
                              /\ ~d.analysis
                              /\ d.session # NoFile => ~d.session.analysis
  BY DEF ResultsConsented
<1>1. PICK d, kept, rows :
        /\ d = disk[s] /\ kept = d.manifest.policy
        /\ rows = {d.events[i] : i \in DOMAIN d.events} \cup
                  {d.mirror[i] : i \in DOMAIN d.mirror}
  OBVIOUS
<1>2. d \in Directory /\ Sound(d) /\ d.manifest # NoFile
  BY <1>1, StatusIs
<1>3. \A row \in rows : Fit(row, kept)
  BY <1>1, <1>2, RowsFit
<1>4. d.session # NoFile => /\ Translations(d.session) \subseteq Shared(Source(d))
                            /\ d.session.analysis => d.analysis
  BY <1>2 DEF Sound, Showing
<1>5. kept.save_translation \/ Shared(Source(d)) = {}
  BY <1>1, <1>2, SourceFits
<1>6. ASSUME ~kept.save_translation
      PROVE /\ \A row \in rows : row.type # "translation"
            /\ d.session # NoFile => Translations(d.session) = {}
  <2>1. \A row \in rows : row.type # "translation"
    BY <1>3, <1>6 DEF Fit
  <2> QED BY <1>4, <1>5, <1>6, <2>1
<1>7. kept.save_analysis \/ ~d.analysis
  BY <1>1, <1>2 DEF Sound, Granted, ManifestOf
<1> QED BY <1>1, <1>4, <1>6, <1>7

\* The policy a session was started with decides which results its files hold,
\* whatever the settings became, however late the result came (start_session,
\* append_translation, save_analysis).
THEOREM ResultsConsentedAlways == Spec => []ResultsConsented
<1>1. IInv => ResultsConsented
  BY ConsentHolds
<1> QED BY <1>1, StoreInvariance, PTL

-----------------------------------------------------------------------------
(* What it says of the steps *)

\* A step leaves the directories alone, or takes one of them a step further.
DiskSteps ==
    \/ disk' = disk
    \/ \E s \in Sessions, e \in Directory :
           disk' = [disk EXCEPT ![s] = e] /\ Steps(disk[s], e)

LEMMA WritesStep ==
    ASSUME IInv, WriteFile \/ WriteFails \/ Crash
    PROVE DiskSteps
<1>1. CASE LockFree
  BY <1>1 DEF WriteFile, WriteFails, Crash, DiskSteps
<1>2. CASE ~LockFree
  <2>1. PICK s \in Sessions : s = job.session
    BY <1>2, AtWorkIs
  <2>2. CASE WriteFile
    <3>1. PICK e : e = Stored(disk[s], Head(job.writes), Head(job.writes).value)
      OBVIOUS
    <3>2. disk' = [disk EXCEPT ![s] = e]
      BY <2>1, <2>2, <3>1 DEF WriteFile
    <3>3. disk[s] \in Directory /\ Sound(disk[s])
      BY StatusIs
    <3>4. Writing(disk[s], e, job.writes)
      BY <3>1, <3>3, Zenon DEF Writing
    <3>5. PICK u \in BOOLEAN, o \in BOOLEAN : Todo(disk[s], job.writes, job.row, u, o)
      BY <1>2, <2>1, AtWorkIs
    <3>6. Moves(disk[s], e, job.writes, job.row, u, o)
      BY <3>4, <3>5, TodoMoves
    <3> QED BY <3>2, <3>6 DEF Moves, Sound, Built, DiskSteps
  <2>3. CASE WriteFails \/ Crash
    <3>1. PICK e \in Leftovers(disk[s], Head(job.writes)) : disk' = [disk EXCEPT ![s] = e]
      <4>1. disk[s] \in Leftovers(disk[s], Head(job.writes))
        BY DEF Leftovers
      <4> QED BY <1>2, <2>1, <2>3, <4>1 DEF WriteFails, Crash
    <3>2. Interrupted(disk[s], e) /\ Sound(e)
      BY <1>2, <2>1, LeftoversAre
    <3> QED BY <3>1, <3>2 DEF Interrupted, Sound, Built, DiskSteps
  <2> QED BY <2>2, <2>3
<1> QED BY <1>1, <1>2

LEMMA NextSteps == IInv /\ [Next]_vars => DiskSteps
<1> SUFFICES ASSUME IInv, [Next]_vars, ~(WriteFile \/ WriteFails \/ Crash)
             PROVE disk' = disk
  BY WritesStep DEF DiskSteps
<1>1. CASE \E p \in Policies : Configure(p)
  BY <1>1 DEF Configure
<1>2. ASSUME NEW s \in Sessions, Control(s) PROVE disk' = disk
  BY <1>2 DEF Control, StartSession, RecoverNext
<1>3. ASSUME NEW s \in Sessions, API(s) PROVE disk' = disk
  BY <1>3 DEF API, FinalizeRequest, RecoverRequest, ExportRequest, AnalysisBegins,
     AnalysisFails, SaveAnalysis, Request
<1>4. ASSUME NEW s \in Sessions, NEW g \in Segments, Pipeline(s, g) PROVE disk' = disk
  BY <1>4 DEF Pipeline, AppendFinal, AppendQuality, AppendNormalization, AppendOutcome,
     Appending
<1>5. CASE Pause \/ StopBegins \/ StopSession
  BY <1>5 DEF Pause, StopBegins, StopSession
<1>6. CASE Startup \/ RecoveryEnds \/ UNCHANGED vars
  BY <1>6 DEF Startup, RecoveryEnds, vars
<1> QED BY <1>1, <1>2, <1>3, <1>4, <1>5, <1>6 DEF Next

\* What a step of a directory keeps of its document.
LEMMA ShownStays ==
    ASSUME NEW d \in Directory, Sound(d), NEW e, Steps(d, e), d.session # NoFile
    PROVE /\ e.session # NoFile
          /\ Originals(d.session) \subseteq Originals(e.session)
          /\ Translations(d.session) \subseteq Translations(e.session)
<1>1. PICK log : log = Source(d)
  OBVIOUS
<1>2. /\ log \in Seq(Entry) /\ Single(log)
      /\ Originals(d.session) \subseteq Spoken(log)
      /\ Translations(d.session) \subseteq Shared(log)
  BY <1>1, DirectoryIs DEF Sound, Showing
<1>3. CASE e.session # NoFile /\ e.session.segments = d.session.segments
  BY <1>3 DEF Originals, Translations
<1>4. CASE e.session # NoFile /\ e.session.segments = Assembled(log)
  <2>1. PICK doc : doc = e.session
    OBVIOUS
  <2>2. Originals(doc) = Spoken(log) /\ Translations(doc) = Shared(log)
    BY <1>2, <1>4, <2>1, AssembledShows
  <2> QED BY <1>2, <1>4, <2>1, <2>2
<1> QED BY <1>1, <1>3, <1>4 DEF Steps

LEMMA ShownKeeps ==
    ASSUME IInv, [Next]_vars, NEW s \in Sessions, disk[s].session # NoFile
    PROVE /\ disk'[s].session # NoFile
          /\ Originals(disk[s].session) \subseteq Originals(disk'[s].session)
          /\ Translations(disk[s].session) \subseteq Translations(disk'[s].session)
<1>1. disk \in [Sessions -> Directory] /\ disk[s] \in Directory /\ Sound(disk[s])
  BY StatusIs DEF IInv, Directories
<1>2. disk'[s] = disk[s] \/ Steps(disk[s], disk'[s])
  BY <1>1, NextSteps DEF DiskSteps
<1> QED BY <1>1, <1>2, ShownStays

\* session.json never loses a caption it showed nor a translation it showed,
\* through retries, repeated finalizations, crashes and recoveries
\* (assemble_session, _source_path).
THEOREM NothingShownIsLostAlways == Spec => NothingShownIsLost
<1>1. IInv /\ [Next]_vars =>
        [\A s \in Sessions :
           disk[s].session # NoFile =>
               /\ disk'[s].session # NoFile
               /\ Originals(disk[s].session) \subseteq Originals(disk'[s].session)
               /\ Translations(disk[s].session) \subseteq Translations(disk'[s].session)]_vars
  BY ShownKeeps
<1> QED BY <1>1, StoreInvariance, PTL DEF Spec, NothingShownIsLost

\* The log of the archive is the log of this module.
LEMMA SameLog ==
    /\ Archive!Entry = Entry
    /\ \A log, row : Archive!Appended(log, row) = Appended(log, row)
    /\ \A log : Archive!Undecodable(log) <=> Undecodable(log)
<1>1. Archive!Entry = Entry
  BY Zenon DEF Archive!Entry, Entry, Archive!RowTypes, RowTypes, Archive!FinalTypes, FinalTypes,
     Archive!TornTypes, TornTypes
<1>2. \A log, row : Archive!Appended(log, row) = Appended(log, row)
  BY Zenon DEF Archive!Appended, Appended, Archive!Whole, Whole, Archive!TornTypes, TornTypes,
     Archive!Damaged, Damaged
<1>3. \A log : Archive!Undecodable(log) <=> Undecodable(log)
  BY Zenon DEF Archive!Undecodable, Undecodable
<1> QED BY <1>1, <1>2, <1>3

LEMMA SameAssembly == \A log : Archive!Assembled(log) = Assembled(log)
BY Zenon DEF Archive!Assembled, Assembled, Archive!Segment, Segment, Archive!LastPosition,
   LastPosition, Archive!Positions, Positions, Archive!Outcome, Outcome, Archive!FinalTypes,
   FinalTypes, Archive!Logged, Logged

\* Every document is the assembly of the whole log at the moment it is written,
\* under the lock (finalize_session, _append_jsonl).
THEOREM ArchiveRefined == Spec => ImplementsArchive
<1> DEFINE log == [s \in Sessions |-> Source(disk[s])]
           shown == [s \in Sessions |->
                        IF disk[s].session = NoFile THEN NoFile
                        ELSE disk[s].session.segments]
<1>1. Init => Archive!Init
  <2> SUFFICES ASSUME Init PROVE Archive!Init
    OBVIOUS
  <2>1. \A s \in Sessions : disk[s] \in Directory /\ disk[s].session = NoFile
    <3>1. \A s \in Sessions : disk[s] \in Directory /\ Sound(disk[s]) /\ disk[s].manifest = NoFile
      BY FirstSound DEF Init
    <3> QED BY <3>1 DEF Sound, Built
  <2>2. \A s \in Sessions : Source(disk[s]) \in Seq(Entry)
    BY <2>1, DirectoryIs
  <2> QED BY <2>1, <2>2, SameLog DEF Archive!Init
<1>2. IInv /\ [Next]_vars => [Archive!Next]_<<log, shown>>
  <2> SUFFICES ASSUME IInv, [Next]_vars PROVE [Archive!Next]_<<log, shown>>
    OBVIOUS
  <2>1. CASE disk' = disk
    BY <2>1
  <2>2. ASSUME NEW s \in Sessions, NEW e \in Directory,
               disk' = [disk EXCEPT ![s] = e], Steps(disk[s], e)
        PROVE [Archive!Next]_<<log, shown>>
    <3>1. disk'[s] = e /\ \A t \in Sessions : t # s => disk'[t] = disk[t]
      BY <2>2 DEF IInv, Directories
    <3>2. log' = [log EXCEPT ![s] = Source(e)]
      BY <3>1
    <3>3. shown' = [shown EXCEPT ![s] =
                       IF e.session = NoFile THEN NoFile ELSE e.session.segments]
      BY <3>1
    <3>4. log[s] = Source(disk[s])
      OBVIOUS
    <3>5. shown[s] = IF disk[s].session = NoFile THEN NoFile ELSE disk[s].session.segments
      OBVIOUS
    <3>6. CASE /\ Source(e) = Source(disk[s])
               /\ disk[s].session = NoFile <=> e.session = NoFile
               /\ disk[s].session # NoFile => e.session.segments = disk[s].session.segments
      BY <3>2, <3>3, <3>4, <3>5, <3>6
    <3>7. CASE /\ \E row \in Entry : Source(e) = Appended(Source(disk[s]), row)
               /\ e.session = disk[s].session
      <4>1. shown' = shown
        BY <3>3, <3>5, <3>7
      <4>2. Archive!Record(s)
        BY <3>2, <3>4, <3>7, <4>1, SameLog DEF Archive!Record
      <4> QED BY <4>2 DEF Archive!Next
    <3>8. CASE /\ Source(e) = Source(disk[s]) /\ ~Undecodable(Source(disk[s]))
               /\ e.session # NoFile /\ e.session.segments = Assembled(Source(disk[s]))
      <4>1. log' = log
        BY <3>2, <3>4, <3>8
      <4>2. Archive!Publish(s)
        BY <3>3, <3>4, <3>8, <4>1, SameLog, SameAssembly DEF Archive!Publish
      <4> QED BY <4>2 DEF Archive!Next
    <3> QED BY <2>2, <3>6, <3>7, <3>8 DEF Steps
  <2> QED BY <2>1, <2>2, NextSteps DEF DiskSteps
<1> QED BY <1>1, <1>2, StoreInvariance, PTL DEF Spec, ImplementsArchive, Archive!Spec

-----------------------------------------------------------------------------
(* What it says of the rows *)

\* A row that is not cut stays in the log.
LEMMA InLogGrows ==
    ASSUME NEW d, NEW e, NEW row, Longer(d.events, e.events, row), NEW r,
           InLog(d, r), r.type \notin TornTypes
    PROVE InLog(e, r)
<1>1. PICK v, log, n : v = e.events /\ log = d.events /\ n = Len(log)
  OBVIOUS
<1>2. PICK i \in 1 .. n : log[i] = r
  BY <1>1 DEF InLog
<1>3. n \in Nat /\ (Len(v) = n + 1 \/ Len(v) = n) /\ (v[i] = log[i] \/ log[i].type \in TornTypes)
  BY <1>1 DEF Longer
<1>4. i \in 1 .. Len(v)
  BY <1>3
<1> QED BY <1>1, <1>2, <1>3, <1>4 DEF InLog

\* A row appended to a log whose last line is whole is in the log.
LEMMA InLogNow ==
    ASSUME NEW d, NEW e, NEW row, Longer(d.events, e.events, row), Whole(d.events),
           row.type \notin TornTypes
    PROVE InLog(e, row) /\ Whole(e.events)
<1>1. PICK v, n : v = e.events /\ n = Len(d.events)
  OBVIOUS
<1>2. n \in Nat /\ Len(v) = n + 1 /\ v[Len(v)] = row
  BY <1>1 DEF Longer
<1>3. Len(v) \in 1 .. Len(v)
  BY <1>2
<1> QED BY <1>1, <1>2, <1>3 DEF InLog, Whole

\* Taking the lock loses nothing.
LEMMA RememberedRests ==
    ASSUME Remembered, UNCHANGED <<disk, acked, glued, faults>>,
           \A s \in Sessions : Live(s)' => Live(s),
           \/ job'.kind # "append"
           \/ job'.row.type \notin TornTypes /\ Head(job'.writes).file = "events"
           \/ job' = job
    PROVE Remembered'
<1>1. CASE job' = job
  BY <1>1 DEF Remembered
<1>2. CASE job' # job
  BY <1>2 DEF Remembered
<1> QED BY <1>1, <1>2

LEMMA AppendBegins ==
    ASSUME IInv, Remembered, NEW s \in Sessions, NEW g \in Segments, Pipeline(s, g)
    PROVE Remembered'
<1>1. RowFirst
  <2>1. PICK a \in Outcomes, b \in Outcomes : a = "translation" /\ b = "translation_error"
    BY DEF Outcomes
  <2>2. CASE AppendOutcome(s, g, a) \/ AppendOutcome(s, g, b)
    BY <2>2, AppendOutcomeKeeps
  <2>3. CASE AppendFinal(s, g) \/ AppendQuality(s, g) \/ AppendNormalization(s, g)
    BY <2>3, AppendFinalKeeps, AppendQualityKeeps, AppendNormalizationKeeps
  <2> QED BY <2>1, <2>2, <2>3 DEF Pipeline
<1>2. PICK next \in Stages \ {"gone"} :
        /\ stage[s][g] # "gone" /\ stage' = [stage EXCEPT ![s][g] = next]
        /\ UNCHANGED <<disk, acked, glued, faults>>
  BY DEF Pipeline, AppendFinal, AppendQuality, AppendNormalization, AppendOutcome,
     Translatable, Appending, Stages
<1>3. stage \in [Sessions -> [Segments -> Stages]]
  BY DEF IInv, Typed, Stages
<1>4. \A t \in Sessions : Live(t)' => Live(t)
  <2>1. \A t \in Sessions, h \in Segments : stage'[t][h] # "gone" => stage[t][h] # "gone"
    BY <1>2, <1>3
  <2> QED BY <2>1 DEF Live
<1> QED BY <1>1, <1>2, <1>4, RememberedRests DEF RowFirst

LEMMA BeginKind ==
    ASSUME NEW kind, NEW s, NEW ws, NEW row, Begin(kind, s, ws, row)
    PROVE job'.kind = kind
BY DEF Begin

LEMMA OthersBegin ==
    ASSUME IInv, Remembered, NEW s \in Sessions, Control(s) \/ API(s)
    PROVE Remembered'
<1>1. UNCHANGED <<disk, stage, acked, glued, faults>> /\ (job'.kind # "append" \/ job' = job)
  <2>1. CASE Control(s)
    BY <2>1, BeginKind DEF Control, StartSession, RecoverNext
  <2>2. CASE API(s)
    BY <2>2, BeginKind DEF API, FinalizeRequest, RecoverRequest, ExportRequest, AnalysisBegins,
       AnalysisFails, SaveAnalysis, Request, SetAnalysisStatus
  <2> QED BY <2>1, <2>2
<1>2. \A t \in Sessions : Live(t)' => Live(t)
  BY <1>1 DEF Live
<1> QED BY <1>1, <1>2, RememberedRests

LEMMA ControlRemembers ==
    ASSUME Remembered,
           \/ Pause \/ StopBegins \/ StopSession \/ Startup \/ RecoveryEnds
           \/ UNCHANGED vars \/ \E p \in Policies : Configure(p)
    PROVE Remembered'
<1>1. UNCHANGED <<disk, stage, acked, glued, faults>> /\ (job'.kind # "append" \/ job' = job)
  BY BeginKind DEF Pause, StopBegins, StopSession, Startup, RecoveryEnds, vars, Configure,
     SetStatus
<1>2. \A t \in Sessions : Live(t)' => Live(t)
  BY <1>1 DEF Live
<1> QED BY <1>1, <1>2, RememberedRests

\* The rows that continue a cut line, after the write under way.
GluedBy(s) ==
    IF Head(job.writes).file = "events" /\ ~Whole(disk[s].events)
    THEN glued[s] \cup {job.row} ELSE glued[s]

\* What a write does to the rows of the session it is about.
LEMMA WriteRemembers ==
    ASSUME IInv, Remembered, ~LockFree, NEW s \in Sessions, s = job.session, NEW e, NEW u, NEW o,
           Moves(disk[s], e, job.writes, job.row, u, o), NEW G, G = GluedBy(s)
    PROVE /\ G \subseteq Entry
          /\ faults = 0 => G = {}
          /\ faults = 0 /\ Live(s) => Whole(e.events)
          /\ \A row \in acked[s] : Kept(G, e, row)
          /\ job.kind = "append" => Kept(G, e, job.row)
          /\ faults = 0 /\ job.kind = "start" => Whole(e.events)
<1>1. PICK d, ws, row, was : d = disk[s] /\ ws = job.writes /\ row = job.row /\ was = glued[s]
  OBVIOUS
<1>2. Moves(d, e, ws, row, u, o)
  BY <1>1
<1>3. /\ faults = 0 /\ Live(s) => Whole(d.events)
      /\ faults = 0 => was = {}
      /\ was \subseteq Entry
      /\ \A r \in acked[s] : Kept(was, d, r) /\ r.type \notin TornTypes
      /\ job.kind = "append" =>
             row.type \notin TornTypes /\ (Kept(was, d, row) \/ Head(ws).file = "events")
  BY <1>1 DEF Remembered
<1>4. CASE Head(ws).file = "events"
  <2>1. Recording(d, Head(ws), row) /\ Longer(d.events, e.events, row)
    BY <1>2, <1>4 DEF Moves
  <2>2. row \in Entry /\ row # NoFile
    BY <2>1, NoFileIs DEF Recording
  <2>3. job.kind = "append" /\ Live(s)
    BY <1>1, <2>2 DEF IInv, Working, AppendIsOn
  <2>4. \A r \in acked[s] : Kept(was, e, r)
    BY <1>3, <2>1, InLogGrows DEF Kept
  <2>5. CASE Whole(d.events)
    <3>1. InLog(e, row) /\ Whole(e.events)
      BY <1>3, <2>1, <2>3, <2>5, InLogNow
    <3>2. G = was
      BY <1>1, <2>5 DEF GluedBy
    <3> QED BY <1>1, <1>3, <2>3, <2>4, <3>1, <3>2 DEF Kept
  <2>6. CASE ~Whole(d.events)
    <3>1. faults # 0
      BY <1>3, <2>3, <2>6
    <3>2. G = was \cup {row}
      BY <1>1, <1>4, <2>6 DEF GluedBy
    <3>3. Kept(G, e, row) /\ \A r \in acked[s] : Kept(G, e, r)
      BY <2>4, <3>2 DEF Kept
    <3> QED BY <1>1, <1>3, <2>2, <3>1, <3>2, <3>3
  <2> QED BY <2>5, <2>6
<1>5. CASE Head(ws).file # "events"
  <2>1. e.events = d.events
    BY <1>2, <1>5 DEF Moves
  <2>2. job.kind = "start" => d.events = <<>>
    BY <1>1 DEF IInv, Working, StartIsOn
  <2>3. G = was
    BY <1>1, <1>5 DEF GluedBy
  <2>4. \A r : Kept(was, d, r) => Kept(G, e, r)
    BY <2>1, <2>3 DEF Kept, InLog
  <2>5. job.kind = "start" => Whole(e.events)
    BY <2>1, <2>2 DEF Whole
  <2> QED BY <1>1, <1>3, <1>5, <2>1, <2>3, <2>4, <2>5
<1> QED BY <1>4, <1>5

LEMMA ProceedRemembers ==
    ASSUME IInv, Remembered, ~LockFree, NEW s \in Sessions, s = job.session, NEW e,
           disk' = [disk EXCEPT ![s] = e], NEW ws, NEW ok \in BOOLEAN, Proceed(ws, ok),
           NEW G, glued' = [glued EXCEPT ![s] = G], G \subseteq Entry,
           faults' = 0 => faults = 0 /\ G = {},
           faults' = 0 /\ Live(s) => Whole(e.events),
           \A row \in acked[s] : Kept(G, e, row),
           job.kind = "append" /\ (ok \/ ws # <<>>) => Kept(G, e, job.row),
           faults' = 0 /\ job.kind = "start" => Whole(e.events)
    PROVE Remembered'
<1>1. disk'[s] = e /\ \A t \in Sessions : t # s => disk'[t] = disk[t]
  BY DEF IInv, Directories
<1>2. /\ \A t \in Sessions :
             /\ faults = 0 => glued[t] = {}
             /\ faults = 0 /\ Live(t) => Whole(disk[t].events)
             /\ \A row \in acked[t] : Kept(glued[t], disk[t], row) /\ row.type \notin TornTypes
      /\ job.kind = "append" => job.row.type \notin TornTypes
  BY DEF Remembered
<1>3. /\ glued' \in [Sessions -> SUBSET Entry]
      /\ glued'[s] = G /\ \A t \in Sessions : t # s => glued'[t] = glued[t]
  BY DEF Remembered
<1>4. \A t \in Sessions : faults' = 0 => glued'[t] = {}
  BY <1>2, <1>3
<1>5. CASE ws # <<>>
  <2>1. /\ job'.kind = job.kind /\ job'.session = s /\ job'.row = job.row
        /\ UNCHANGED <<stage, acked>>
    BY <1>5, ProceedIs
  <2>2. \A t \in Sessions : Live(t)' <=> Live(t)
    BY <2>1 DEF Live
  <2>3. \A t \in Sessions : faults' = 0 /\ Live(t)' => Whole(disk'[t].events)
    BY <1>1, <1>2, <2>2
  <2>4. \A t \in Sessions : \A row \in acked'[t] :
            Kept(glued'[t], disk'[t], row) /\ row.type \notin TornTypes
    BY <1>1, <1>2, <1>3, <2>1
  <2>5. job'.kind = "append" => Kept(glued'[s], disk'[s], job'.row) /\ job'.row.type \notin TornTypes
    BY <1>1, <1>2, <1>3, <1>5, <2>1
  <2> QED BY <1>3, <1>4, <2>1, <2>3, <2>4, <2>5 DEF Remembered
<1>6. CASE ws = <<>>
  <2>1. Finish(ok)
    BY <1>6 DEF Proceed
  <2>2. /\ Live(s)' <=> (Live(s) \/ (job.kind = "start" /\ ok))
        /\ \A t \in Sessions : t # s => (Live(t)' <=> Live(t))
    BY <2>1, FinishIs
  <2>3. job'.kind # "append"
    BY <2>1 DEF Finish, NoJob
  <2>4. \A t \in Sessions : faults' = 0 /\ Live(t)' => Whole(disk'[t].events)
    BY <1>1, <1>2, <2>2
  <2>5. /\ \A t \in Sessions : t # s => acked'[t] = acked[t]
        /\ acked'[s] = IF job.kind = "append" /\ ok THEN acked[s] \cup {job.row} ELSE acked[s]
    BY <2>1 DEF Finish, IInv, Typed
  <2>6. \A t \in Sessions : \A row \in acked'[t] :
            Kept(glued'[t], disk'[t], row) /\ row.type \notin TornTypes
    <3>1. \A row \in acked'[s] : Kept(G, e, row) /\ row.type \notin TornTypes
      BY <1>2, <2>5
    <3> QED BY <1>1, <1>2, <1>3, <2>5, <3>1
  <2> QED BY <1>3, <1>4, <2>3, <2>4, <2>6 DEF Remembered
<1> QED BY <1>5, <1>6

\* What an interrupted write leaves still has the rows of the log.
LEMMA InterruptedKeeps ==
    ASSUME NEW d \in Directory, NEW e, Interrupted(d, e), NEW G, NEW row,
           Kept(G, d, row), row.type \notin TornTypes
    PROVE Kept(G, e, row)
<1>1. CASE e.events = d.events
  BY <1>1 DEF Kept, InLog
<1>2. CASE \E r \in Entry : e.events = Appended(d.events, r)
  <2>1. PICK r \in Entry : e.events = Appended(d.events, r)
    BY <1>2
  <2>2. Longer(d.events, e.events, r)
    BY <2>1, DirectoryIs, AppendedIs
  <2> QED BY <2>2, InLogGrows DEF Kept
<1> QED BY <1>1, <1>2 DEF Interrupted

LEMMA WritesRemember ==
    ASSUME IInv, Remembered, WriteFile \/ WriteFails
    PROVE Remembered'
<1>1. ~LockFree
  BY DEF WriteFile, WriteFails
<1>2. PICK s \in Sessions : s = job.session
  BY <1>1, AtWorkIs
<1>3. PICK d, ws : d = disk[s] /\ ws = job.writes
  OBVIOUS
<1>4. PICK u \in BOOLEAN, o \in BOOLEAN : Todo(d, ws, job.row, u, o)
  BY <1>1, <1>2, <1>3, AtWorkIs
<1>5. PICK e : e = Stored(d, Head(ws), Head(ws).value)
  OBVIOUS
<1>6. d \in Directory /\ Sound(d)
  BY <1>3, StatusIs
<1>7. Writing(d, e, ws)
  BY <1>5, <1>6, Zenon DEF Writing
<1>8. Moves(d, e, ws, job.row, u, o)
  BY <1>4, <1>7, TodoMoves
<1>9. CASE WriteFile
  <2>1. PICK ok \in BOOLEAN : ok = (job.ok /\ ~Failing(Head(ws)))
    OBVIOUS
  <2>2. PICK rest : rest = Tail(ws)
    OBVIOUS
  <2>3. disk' = [disk EXCEPT ![s] = e] /\ Proceed(rest, ok) /\ UNCHANGED faults
    BY <1>2, <1>3, <1>5, <1>9, <2>1, <2>2 DEF WriteFile
  <2>4. Moves(disk[s], e, job.writes, job.row, u, o)
    BY <1>3, <1>8
  <2>5. PICK G : G = GluedBy(s)
    OBVIOUS
  <2>6. glued' = [glued EXCEPT ![s] = G]
    BY <1>2, <1>9, <2>5 DEF WriteFile, GluedBy, Remembered
  <2>7. /\ G \subseteq Entry
        /\ faults = 0 => G = {}
        /\ faults = 0 /\ Live(s) => Whole(e.events)
        /\ \A row \in acked[s] : Kept(G, e, row)
        /\ job.kind = "append" => Kept(G, e, job.row)
        /\ faults = 0 /\ job.kind = "start" => Whole(e.events)
    BY <1>1, <1>2, <2>4, <2>5, WriteRemembers
  <2> QED BY <1>1, <1>2, <2>3, <2>6, <2>7, ProceedRemembers
<1>10. CASE WriteFails
  <2>1. PICK f \in Leftovers(disk[s], Head(job.writes)) : disk' = [disk EXCEPT ![s] = f]
    BY <1>2, <1>10 DEF WriteFails
  <2>2. Interrupted(d, f)
    BY <1>1, <1>2, <1>3, <2>1, LeftoversAre
  <2>3. PICK G : G = glued[s]
    OBVIOUS
  <2>4. glued' = [glued EXCEPT ![s] = G] /\ G \subseteq Entry
    BY <1>10, <2>3 DEF WriteFails, Remembered
  <2>5. faults' # 0
    BY <1>10 DEF WriteFails, IInv, Typed
  <2>6. \A row \in acked[s] : Kept(G, f, row)
    BY <1>3, <1>6, <2>2, <2>3, InterruptedKeeps DEF Remembered
  <2>7. job.kind = "append" /\ Head(ws).file # "events" => Kept(G, f, job.row)
    BY <1>2, <1>3, <1>6, <2>2, <2>3, InterruptedKeeps DEF Remembered
  <2>8. PICK no \in BOOLEAN : no = FALSE
    OBVIOUS
  <2>9. CASE Head(ws).guarded
    <3>1. PICK rest : rest = <<Failed(d.manifest)>>
      OBVIOUS
    <3>2. Proceed(rest, no)
      BY <1>2, <1>3, <1>10, <2>8, <2>9, <3>1 DEF WriteFails
    <3>3. Head(ws).file # "events"
      BY <1>8, <2>9 DEF Moves
    <3> QED BY <1>1, <1>2, <2>1, <2>4, <2>5, <2>6, <2>7, <3>2, <3>3, ProceedRemembers
  <2>10. CASE ~Head(ws).guarded
    <3>1. PICK rest : rest = <<>>
      OBVIOUS
    <3>2. Proceed(rest, no)
      <4>1. Finish(no)
        BY <1>3, <1>10, <2>8, <2>10 DEF WriteFails, Raise
      <4> QED BY <3>1, <4>1 DEF Proceed
    <3>3. ~no
      BY <2>8
    <3> QED BY <1>1, <1>2, <2>1, <2>4, <2>5, <2>6, <3>1, <3>2, <3>3, ProceedRemembers
  <2> QED BY <2>9, <2>10
<1> QED BY <1>9, <1>10

LEMMA CrashRemembers ==
    ASSUME IInv, Remembered, Crash
    PROVE Remembered'
<1>1. /\ job'.kind # "append" /\ UNCHANGED <<acked, glued, faults>>
      /\ \A s \in Sessions : ~Live(s)'
  BY DEF Crash, NoJob, Live, Gone
<1>2. /\ glued \in [Sessions -> SUBSET Entry]
      /\ \A s \in Sessions :
             /\ faults = 0 => glued[s] = {}
             /\ \A row \in acked[s] : Kept(glued[s], disk[s], row) /\ row.type \notin TornTypes
  BY DEF Remembered
<1>3. CASE LockFree
  <2>1. disk' = disk
    BY <1>3 DEF Crash
  <2> QED BY <1>1, <1>2, <2>1 DEF Remembered
<1>4. CASE ~LockFree
  <2>1. PICK s \in Sessions : s = job.session
    BY <1>4, AtWorkIs
  <2>2. PICK e \in Leftovers(disk[s], Head(job.writes)) : disk' = [disk EXCEPT ![s] = e]
    BY <1>4, <2>1 DEF Crash
  <2>3. disk'[s] = e /\ \A t \in Sessions : t # s => disk'[t] = disk[t]
    BY <2>2 DEF IInv, Directories
  <2>4. Interrupted(disk[s], e) /\ disk[s] \in Directory
    BY <1>4, <2>1, LeftoversAre, StatusIs
  <2>5. \A row \in acked[s] : Kept(glued[s], e, row)
    BY <1>2, <2>4, InterruptedKeeps
  <2> QED BY <1>1, <1>2, <2>3, <2>5 DEF Remembered
<1> QED BY <1>3, <1>4

LEMMA NextRemembers ==
    ASSUME IInv, Remembered, [Next]_vars
    PROVE Remembered'
<1>1. CASE \/ Pause \/ StopBegins \/ StopSession \/ Startup \/ RecoveryEnds
           \/ UNCHANGED vars \/ \E p \in Policies : Configure(p)
  BY <1>1, ControlRemembers
<1>2. CASE \E s \in Sessions : Control(s) \/ API(s)
  BY <1>2, OthersBegin
<1>3. CASE \E s \in Sessions, g \in Segments : Pipeline(s, g)
  BY <1>3, AppendBegins
<1>4. CASE WriteFile \/ WriteFails
  BY <1>4, WritesRemember
<1>5. CASE Crash
  BY <1>5, CrashRemembers
<1> QED BY <1>1, <1>2, <1>3, <1>4, <1>5 DEF Next

LEMMA InitRemembers == Init => Remembered
<1> SUFFICES ASSUME Init PROVE Remembered
  OBVIOUS
<1>1. /\ \A s \in Sessions : ~Live(s) /\ acked[s] = {} /\ glued[s] = {}
      /\ glued \in [Sessions -> SUBSET Entry]
  BY DEF Init, Live, Gone
<1>2. job.kind # "append"
  BY DEF Init, NoJob
<1> QED BY <1>1, <1>2 DEF Remembered

LEMMA MissingHolds == IInv /\ Remembered => NothingMissing
<1> SUFFICES ASSUME IInv, Remembered PROVE NothingMissing
  OBVIOUS
<1>1. AcknowledgedIsLogged
  <2>1. ASSUME NEW s \in Sessions, NEW row \in acked[s] \ glued[s]
        PROVE row \in {disk[s].events[i] : i \in DOMAIN disk[s].events}
    <3>1. InLog(disk[s], row) /\ disk[s].events \in Seq(Entry)
      BY StatusIs, DirectoryIs DEF Remembered, Kept
    <3>2. DOMAIN disk[s].events = 1 .. Len(disk[s].events)
      BY <3>1, LenProperties
    <3> QED BY <3>1, <3>2 DEF InLog
  <2>2. \A s \in Sessions : faults = 0 => glued[s] = {}
    BY DEF Remembered
  <2> QED BY <2>1, <2>2 DEF AcknowledgedIsLogged
<1>2. OutcomesShown
  <2>1. ASSUME NEW s \in Sessions, Undisturbed, Finished(s) PROVE Told(disk[s])
    BY <2>1, StatusIs DEF IInv, AtRest
  <2> QED BY <2>1, StatusIs DEF OutcomesShown, Told, Nearly
<1>3. RecoveryComplete
  <2>1. ASSUME NEW s \in Sessions, faults = 0, Serving, ~Live(s), job.session # s
        PROVE Over(disk[s])
    <3>1. capture # "down" /\ scan = {}
      BY <2>1 DEF Serving, IInv, Working
    <3> QED BY <2>1, <3>1 DEF IInv, AtRest
  <2> QED BY <2>1 DEF RecoveryComplete, Over
<1> QED BY <1>1, <1>2, <1>3 DEF NothingMissing

LEMMA RowsInvariance == Spec => [](IInv /\ Remembered)
<1>1. Init => IInv /\ Remembered
  BY InitHolds, InitRemembers
<1>2. IInv /\ Remembered /\ [Next]_vars => (IInv /\ Remembered)'
  BY NextKeeps, NextRemembers
<1> QED BY <1>1, <1>2, PTL DEF Spec

\* What was acknowledged is in the log, unless it was written behind the part of
\* a line that a failed append had left; what the log holds is in the document,
\* and no session is left unfinished by a recovery, for any number of crashes
\* and failed writes, each of which may cut a line (_append_jsonl,
\* append_translation, recover_incomplete).
THEOREM NothingMissingAlways == Spec => []NothingMissing
<1>1. IInv /\ Remembered => NothingMissing
  BY MissingHolds
<1> QED BY <1>1, RowsInvariance, PTL

\* At any instant a session's files tell one story: the exports, the document,
\* the manifest and the analysis agree, as far as each is finished
\* (finalize_session, recover_incomplete, save_analysis).
THEOREM FilesAgreeAlways == Spec => []FilesAgree
<1>1. IInv /\ Remembered => FilesAgree
  BY FilesHold
<1> QED BY <1>1, RowsInvariance, PTL
=============================================================================
