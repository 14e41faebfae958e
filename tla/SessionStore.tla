---------------------------- MODULE SessionStore ----------------------------
(***************************************************************************)
(* The session store of backend/app/sessions: the repository               *)
(* (repository.py), which keeps each meeting in a directory of files, its  *)
(* asynchronous facade (manager.py), and the callers that drive them: the  *)
(* capture controller, the translation sink, the analysis manager, the     *)
(* HTTP API and the recovery at startup.                                   *)
(*                                                                         *)
(* Every repository operation holds one lock, so operations never overlap; *)
(* each is a list of file writes, any of which may fail, and the process   *)
(* may die between two of them.  A file written through a temporary file   *)
(* and os.replace is replaced in one step; a row appended to a log may be  *)
(* cut.  `job' is the operation that holds the lock, with the writes it    *)
(* has left: what they write is known when the lock is taken.              *)
(***************************************************************************)
EXTENDS SessionLog, FiniteSets

CONSTANTS
    Sessions,        \* session identifiers
    LegacySessions,  \* those that are a Phase 1 log when the model starts
    Policies,        \* the storage policies the settings may hold
    FirstPolicy,     \* the one of the configuration
    Requests,        \* the kinds of request clients make
    MaxLog,          \* bound: rows of a log when a translation is repeated
    MaxCrashes,      \* bound: crashes of the process
    MaxFaults,       \* bound: writes that fail
    NoSession,
    NoFile

RequestKinds == {"finalize", "recover", "export", "analysis", "configure",
                 "pause"}

ASSUME SessionAssumption ==
    /\ LegacySessions \subseteq Sessions
    /\ Policies \subseteq [save_original : BOOLEAN,
                           save_translation : BOOLEAN,
                           save_analysis : BOOLEAN]
    /\ FirstPolicy \in Policies
    /\ Requests \subseteq RequestKinds
    /\ MaxLog \in Nat /\ MaxCrashes \in Nat /\ MaxFaults \in Nat
    /\ NoSession \notin Sessions
    /\ Segments # {}

VARIABLES
    disk,       \* the files of each session
    job,        \* the operation that holds the repository lock
    active,     \* the session the repository and the manager have open
    policy,     \* the storage policy of the settings
    capture,    \* the life cycle the controller drives
    stage,      \* how far the pipeline is with each caption of a session
    analysing,  \* the session the analysis task works on, and its outcome
    scan,       \* the directories the recovery has still to look at
    acked,      \* history: the rows whose append returned
    glued,      \* history: the rows that continue a line cut before its end
    crashes,
    faults

vars == <<disk, job, active, policy, capture, stage, analysing, scan, acked,
          glued, crashes, faults>>

-----------------------------------------------------------------------------
(* Files *)

Unfinished == {"created", "running", "paused", "stopping", "finalizing"}
Final == {"completed", "recovered"}
Status == Unfinished \cup Final \cup {"error"}

AnalysisStatus == {"not_started", "running", "completed", "failed"}

Manifest == [status : Status, policy : Policies \cup {[save_original |-> TRUE,
                 save_translation |-> TRUE, save_analysis |-> TRUE]},
             analysis_status : AnalysisStatus]

\* session.json
Document == [status : Status, segments : Assemblies, analysis : BOOLEAN,
             analysis_status : AnalysisStatus]

ASSUME NoFileAssumption == NoFile \notin Manifest \cup Document \cup Entry

\* What a reader finds in the exports: the captions that show their original,
\* those that show a translation, and whether there is an analysis.
Exports == {"transcript_original", "transcript_korean", "meeting_report"}

Originals(doc) == {g \in DOMAIN doc.segments : doc.segments[g].original}
Translations(doc) == {g \in DOMAIN doc.segments :
                          doc.segments[g].translation_status = "success"}

Rendered(kind, doc) ==
    [originals |-> IF kind = "transcript_korean" THEN {} ELSE Originals(doc),
     translations |->
         IF kind = "transcript_original" THEN {} ELSE Translations(doc),
     analysis |-> kind = "meeting_report" /\ doc.analysis]

Rendering == [originals : SUBSET Segments, translations : SUBSET Segments,
              analysis : BOOLEAN]

Directory == [dir : BOOLEAN,
              manifest : Manifest \cup {NoFile},
              events : Seq(Entry),
              mirror : Seq(Entry),   \* the root-level log of Phases 1 and 2
              session : Document \cup {NoFile},
              analysis : BOOLEAN,
              transcript_original : Rendering \cup {NoFile},
              transcript_korean : Rendering \cup {NoFile},
              meeting_report : Rendering \cup {NoFile}]

Empty == [dir |-> FALSE, manifest |-> NoFile, events |-> <<>>,
          mirror |-> <<>>, session |-> NoFile, analysis |-> FALSE,
          transcript_original |-> NoFile, transcript_korean |-> NoFile,
          meeting_report |-> NoFile]

Everything == [save_original |-> TRUE, save_translation |-> TRUE,
               save_analysis |-> TRUE]

\* A log of Phase 1: one caption with its translation.
LegacyLog ==
    LET g == CHOOSE g \in Segments : TRUE
    IN  <<Row("final_transcript", g, TRUE), Row("translation", g, FALSE)>>

LegacyManifest == [status |-> "recovered", policy |-> Everything,
                   analysis_status |-> "not_started"]

ManifestOf(d) == IF d.manifest = NoFile THEN LegacyManifest ELSE d.manifest

\* events.jsonl if there is one, the root log otherwise
Source(d) == IF d.events # <<>> THEN d.events ELSE d.mirror

Exists(d) == d.dir \/ d.mirror # <<>>
Loadable(d) == d.manifest # NoFile \/ d.mirror # <<>>

-----------------------------------------------------------------------------
(* Operations as lists of writes *)

\* guarded: a failure of the write is caught and makes the session an error
Write(file, value, guarded) ==
    [file |-> file, value |-> value, guarded |-> guarded]

NoJob == [kind |-> "none", session |-> NoSession, writes |-> <<>>,
          row |-> NoFile, ok |-> TRUE]

Failed(manifest) ==
    Write("manifest", [manifest EXCEPT !.status = "error"], FALSE)

DocumentOf(d, manifest) ==
    [status |-> manifest.status,
     segments |-> Assembled(Source(d)),
     analysis |-> manifest.policy.save_analysis /\ d.analysis,
     analysis_status |-> manifest.analysis_status]

Publication(doc) ==
    <<Write("session", doc, TRUE)>> \o
    [i \in 1 .. 3 |->
        LET kind == <<"transcript_original", "transcript_korean",
                      "meeting_report">>[i]
        IN  Write(kind, Rendered(kind, doc), TRUE)]

FinalizeEarly(d, recovered) ==  \* mutant: the last status comes first
    LET end == [ManifestOf(d) EXCEPT
                    !.status = IF recovered THEN "recovered" ELSE "completed"]
    IN  <<Write("manifest", end, FALSE)>> \o Publication(DocumentOf(d, end))

\* finalize_session: the status tells first that the files are being replaced,
\* and last that they are complete.
FinalizeWrites(d, recovered) ==
    LET begin == [ManifestOf(d) EXCEPT !.status = "finalizing"]
        end == [begin EXCEPT
                    !.status = IF recovered THEN "recovered" ELSE "completed"]
    IN  (IF d.dir THEN <<>> ELSE <<Write("dir", TRUE, FALSE)>>) \o
        <<Write("manifest", begin, FALSE)>> \o
        IF Undecodable(Source(d)) THEN <<Failed(begin)>>
        ELSE Publication(DocumentOf(d, begin)) \o
             <<Write("manifest", end, TRUE),
               Write("session", DocumentOf(d, end), TRUE)>>

Refinalized(d) ==
    IF d.manifest.status \in Final
    THEN FinalizeWrites(d, d.manifest.status = "recovered")
    ELSE <<>>

\* _update_completed_analysis_metadata
MetadataWrites(d, manifest) ==
    IF d.session = NoFile THEN <<>>
    ELSE <<Write("session", [d.session EXCEPT
                     !.analysis_status = manifest.analysis_status], FALSE)>>

Serving == capture \notin {"down", "recovering"}
LockFree == job = NoJob

Begin(kind, s, writes, row) ==
    job' = [kind |-> kind, session |-> s, writes |-> writes, row |-> row,
            ok |-> TRUE]

-----------------------------------------------------------------------------
(* The life of a session: manager.py, driven by the controller *)

Configure(p) ==
    /\ "configure" \in Requests /\ Serving /\ LockFree
    /\ policy' = p
    /\ UNCHANGED <<disk, job, active, capture, stage, analysing, scan, acked,
                   glued, crashes, faults>>

\* start_session: a new directory, then its manifest
StartSession(s) ==
    /\ capture = "idle" /\ LockFree
    /\ ~Exists(disk[s])
    /\ capture' = "starting"
    /\ Begin("start", s,
             <<Write("dir", TRUE, FALSE),
               Write("manifest", [status |-> "running", policy |-> policy,
                                  analysis_status |-> "not_started"], FALSE)>>,
             NoFile)
    /\ UNCHANGED <<disk, active, policy, stage, analysing, scan, acked,
                   glued, crashes, faults>>

\* update_status writes the status it is given, whatever the present one is.
SetStatus(kind, status) ==
    Begin(kind, active,
          <<Write("manifest", [disk[active].manifest EXCEPT !.status = status],
                  FALSE)>>, NoFile)

Pause ==
    /\ "pause" \in Requests /\ LockFree
    /\ capture \in {"running", "paused"}
    /\ capture' = IF capture = "running" THEN "paused" ELSE "running"
    /\ SetStatus("status", capture')
    /\ UNCHANGED <<disk, active, policy, stage, analysing, scan, acked,
                   glued, crashes, faults>>

\* stop_and_finalize: first the status, then stop_session; the lock is free
\* in between.
StopBegins ==
    /\ capture \in {"running", "paused", "cleanup"} /\ LockFree
    /\ capture' = "stopping"
    /\ SetStatus("stopping", "stopping")
    /\ UNCHANGED <<disk, active, policy, stage, analysing, scan, acked,
                   glued, crashes, faults>>

StopSession ==
    /\ capture = "stopping" /\ LockFree
    /\ active' = NoSession
    /\ LET d == disk[active]
           m == [d.manifest EXCEPT !.status = "stopping"]
       IN  Begin("stop", active,
                 <<Write("manifest", m, FALSE)>> \o
                 FinalizeWrites([d EXCEPT !.manifest = m], FALSE), NoFile)
    /\ UNCHANGED <<disk, policy, capture, stage, analysing, scan, acked,
                   glued, crashes, faults>>

-----------------------------------------------------------------------------
(* Appends: the capture pipeline and the translation sink *)

\* The writes of an append; the root log only mirrors some rows.
AppendWrites(d, row, mirrored) ==
    <<Write("events", Appended(d.events, row), FALSE)>> \o
    IF mirrored THEN <<Write("mirror", Appended(d.mirror, row), FALSE)>>
    ELSE <<>>

Appending(s, g, row, writes, next) ==
    /\ Serving /\ LockFree
    /\ Begin("append", s, writes, row)
    /\ stage' = [stage EXCEPT ![s][g] = next]
    /\ UNCHANGED <<disk, active, policy, capture, analysing, scan, acked,
                   glued, crashes, faults>>

SavesOriginal(s) == disk[s].manifest.policy.save_original
SavesTranslationNow(s) ==  \* mutant: the present settings
    policy.save_translation
SavesTranslation(s) == disk[s].manifest.policy.save_translation

AppendFinal(s, g) ==
    /\ stage[s][g] = "unheard"
    /\ LET saved == SavesOriginal(s)
           row == Row(IF saved THEN "final_transcript" ELSE "segment_marker",
                      g, saved)
       IN  Appending(s, g, row, AppendWrites(disk[s], row, saved), "final")

AppendQuality(s, g) ==
    /\ stage[s][g] = "final"
    /\ LET row == Row("transcription_quality", g, SavesOriginal(s))
       IN  Appending(s, g, row, AppendWrites(disk[s], row, FALSE), "quality")

\* The normalized text is the final's, corrected by the glossary.
AppendNormalization(s, g) ==
    /\ stage[s][g] \in {"final", "quality"}
    /\ LET row == Row("context_normalization", g, TRUE)
       IN  Appending(s, g, row, AppendWrites(disk[s], row, FALSE), "normalized")

Translatable(s, g) ==
    \/ stage[s][g] = "normalized"
    \/ stage[s][g] = "settled" /\ Len(disk[s].events) < MaxLog

OutcomeWritesStale(d, row) ==  \* mutant: from the log read before the append
    AppendWrites(d, row, row.type = "translation") \o Refinalized(d)

\* append_translation, append_translation_error: a finished session is
\* finalized again.
OutcomeWrites(d, row) ==
    AppendWrites(d, row, row.type = "translation") \o
    Refinalized([d EXCEPT !.events = Appended(@, row)])

AppendOutcome(s, g, type) ==
    /\ Translatable(s, g)
    /\ SavesTranslation(s)
    /\ LET row == Row(type, g, FALSE)
       IN  Appending(s, g, row, OutcomeWrites(disk[s], row), "settled")

-----------------------------------------------------------------------------
(* Requests about a stored session *)

Request(kind, s) ==
    /\ kind \in Requests /\ Serving /\ LockFree
    /\ Exists(disk[s])
    /\ UNCHANGED <<disk, active, policy, capture, stage, scan, acked,
                   glued, crashes, faults>>

FinalizeRequest(s) ==
    /\ Request("finalize", s)
    /\ Begin("finalize", s, FinalizeWrites(disk[s], FALSE), NoFile)
    /\ UNCHANGED analysing

RecoverRequest(s) ==
    /\ Request("recover", s)
    /\ Begin("finalize", s, FinalizeWrites(disk[s], TRUE), NoFile)
    /\ UNCHANGED analysing

\* get_export_path: a missing file is made by a finalization
ExportRequest(s, kind) ==
    /\ Request("export", s)
    /\ disk[s][kind] = NoFile
    /\ Begin("finalize", s,
             FinalizeWrites(disk[s], disk[s].mirror # <<>>), NoFile)
    /\ UNCHANGED analysing

NoAnalysis == [session |-> NoSession, outcome |-> "working"]

SetAnalysisStatus(s, status) ==
    LET m == [ManifestOf(disk[s]) EXCEPT !.analysis_status = status]
    IN  Begin("analysis_status", s,
              <<Write("manifest", m, FALSE)>> \o MetadataWrites(disk[s], m),
              NoFile)

AnalysisBegins(s) ==
    /\ Request("analysis", s)
    /\ analysing = NoAnalysis
    /\ Loadable(disk[s])
    /\ disk[s].session # NoFile \/ ~Undecodable(Source(disk[s]))
    /\ analysing' = [session |-> s, outcome |-> "working"]
    /\ SetAnalysisStatus(s, "running")

AnalysisFails(s) ==
    /\ Request("analysis", s)
    /\ analysing.session = s
    /\ analysing' = NoAnalysis
    /\ SetAnalysisStatus(s, "failed")

\* save_analysis: the analysis, then the status that tells of it, then the
\* files that show it
AnalysisKept(d, m) ==
    <<Write("analysis", TRUE, FALSE), Write("manifest", m, FALSE)>>

SaveAnalysis(s) ==
    /\ Request("analysis", s)
    /\ analysing = [session |-> s, outcome |-> "working"]
    /\ LET d == disk[s]
           m == [ManifestOf(d) EXCEPT !.analysis_status = "completed"]
       IN  Begin("save_analysis", s,
                 IF m.policy.save_analysis
                 THEN AnalysisKept(d, m) \o
                      FinalizeWrites([d EXCEPT !.manifest = m,
                                               !.analysis = TRUE],
                                     d.mirror # <<>>)
                 ELSE <<Write("manifest", m, FALSE)>> \o MetadataWrites(d, m),
                 NoFile)
    /\ UNCHANGED analysing

-----------------------------------------------------------------------------
(* The steps of an operation *)

\* The operation returns or raises: the lock is released and its caller goes on.
Finish(ok) ==
    /\ job' = NoJob
    /\ active' = IF job.kind = "start" /\ ok THEN job.session ELSE active
    /\ capture' = CASE job.kind = "start" ->
                           IF ok THEN "running"
                           ELSE IF active = NoSession THEN "idle" ELSE "cleanup"
                    [] job.kind = "stopping" -> IF ok THEN capture ELSE "idle"
                    [] job.kind = "stop" -> "idle"
                    [] OTHER -> capture
    /\ stage' = IF job.kind = "start" /\ ok
                THEN [stage EXCEPT ![job.session] =
                          [g \in Segments |-> "unheard"]]
                ELSE stage
    /\ acked' = IF job.kind = "append" /\ ok
                THEN [acked EXCEPT ![job.session] = @ \cup {job.row}]
                ELSE acked
    /\ analysing' = IF job.kind # "save_analysis" THEN analysing
                    ELSE IF ok THEN NoAnalysis
                    ELSE [analysing EXCEPT !.outcome = "failed"]

Proceed(writes, ok) ==
    IF writes = <<>> THEN Finish(ok)
    ELSE /\ job' = [job EXCEPT !.writes = writes, !.ok = ok]
         /\ UNCHANGED <<active, capture, stage, acked, analysing>>

\* Writing a file of the directory makes the directory.
Stored(d, write, value) ==
    [d EXCEPT ![write.file] = value,
              !.dir = @ \/ write.file # "mirror"]

\* The last write of a finalization that failed is the status `error'.
Failing(write) == write.file = "manifest" /\ write.value.status = "error"

WriteFile ==
    /\ ~LockFree
    /\ LET write == Head(job.writes)
       IN  /\ disk' = [disk EXCEPT
                           ![job.session] = Stored(@, write, write.value)]
           /\ Proceed(Tail(job.writes), job.ok /\ ~Failing(write))
           /\ glued' = IF write.file = "events" /\ ~Whole(disk[job.session].events)
                       THEN [glued EXCEPT ![job.session] = @ \cup {job.row}]
                       ELSE glued
    /\ UNCHANGED <<policy, scan, crashes, faults>>

\* What an interrupted append leaves of the last row of the log.  Only a row
\* with text can be cut inside a character.
Cut(log) ==
    LET n == Len(log)
        types == IF log[n].text \/ log[n].type = "translation"
                 THEN TornTypes ELSE {"torn"}
    IN  {[log EXCEPT ![n].type = type] : type \in types}

\* What a write that does not complete may leave: the file as it was, or a
\* part of the appended row.  A row that continues a torn one is left out.
Leftovers(d, write) ==
    {d} \cup
    IF /\ write.file \in {"events", "mirror"}
       /\ Len(write.value) > Len(d[write.file])
    THEN {Stored(d, write, log) : log \in Cut(write.value)}
    ELSE {}

RaiseNothing ==  \* mutant: a failed append is reported as done
    Finish(job.kind = "append") /\ UNCHANGED scan

\* A failure inside finalize_session is recorded as the status `error', any
\* other is raised to the caller; the recovery goes on after the former only.
Raise ==
    /\ Finish(FALSE)
    /\ scan' = IF job.kind = "recover" /\ job.ok /\ ~Failing(Head(job.writes))
             THEN {} ELSE scan

WriteFails ==
    /\ faults < MaxFaults
    /\ ~LockFree
    /\ faults' = faults + 1
    /\ LET write == Head(job.writes)
           left == Leftovers(disk[job.session], write)
       IN  /\ \E d \in left : disk' = [disk EXCEPT ![job.session] = d]
           /\ IF write.guarded
              THEN /\ Proceed(<<Failed(disk[job.session].manifest)>>, FALSE)
                   /\ UNCHANGED scan
              ELSE Raise
    /\ UNCHANGED <<policy, glued, crashes>>

-----------------------------------------------------------------------------
(* Crashes and the recovery at startup *)

Gone == [s \in Sessions |-> [g \in Segments |-> "gone"]]

Crash ==
    /\ crashes < MaxCrashes
    /\ capture # "down"
    /\ crashes' = crashes + 1
    /\ IF LockFree THEN UNCHANGED disk
       ELSE \E d \in Leftovers(disk[job.session], Head(job.writes)) :
                disk' = [disk EXCEPT ![job.session] = d]
    /\ job' = NoJob
    /\ active' = NoSession
    /\ policy' = FirstPolicy
    /\ capture' = "down"
    /\ stage' = Gone
    /\ analysing' = NoAnalysis
    /\ scan' = {}
    /\ UNCHANGED <<acked, glued, faults>>

\* recover_incomplete goes through the directories in any order.
Startup ==
    /\ capture = "down"
    /\ capture' = "recovering"
    /\ scan' = {s \in Sessions : disk[s].dir}
    /\ UNCHANGED <<disk, job, active, policy, stage, analysing, acked,
                   glued, crashes, faults>>

NeedsRecovery(d) ==
    \/ ManifestOf(d).status \in Unfinished
    \/ d.session = NoFile

RecoverNext(s) ==
    /\ capture = "recovering" /\ LockFree
    /\ s \in scan
    /\ scan' = scan \ {s}
    /\ IF Loadable(disk[s]) /\ NeedsRecovery(disk[s])
       THEN Begin("recover", s, FinalizeWrites(disk[s], TRUE), NoFile)
       ELSE UNCHANGED job
    /\ UNCHANGED <<disk, active, policy, capture, stage, analysing, acked,
                   glued, crashes, faults>>

RecoveryEnds ==
    /\ capture = "recovering" /\ LockFree
    /\ scan = {}
    /\ capture' = "idle"
    /\ UNCHANGED <<disk, job, active, policy, stage, analysing, scan, acked,
                   glued, crashes, faults>>

-----------------------------------------------------------------------------
Init ==
    /\ disk = [s \in Sessions |->
                  IF s \in LegacySessions
                  THEN [Empty EXCEPT !.mirror = LegacyLog] ELSE Empty]
    /\ job = NoJob
    /\ active = NoSession
    /\ policy = FirstPolicy
    /\ capture = "idle"
    /\ stage = Gone
    /\ analysing = NoAnalysis
    /\ scan = {}
    /\ acked = [s \in Sessions |-> {}]
    /\ glued = [s \in Sessions |-> {}]
    /\ crashes = 0
    /\ faults = 0

Control(s) ==
    \/ StartSession(s)
    \/ RecoverNext(s)

Pipeline(s, g) ==
    \/ AppendFinal(s, g)
    \/ AppendQuality(s, g)
    \/ AppendNormalization(s, g)
    \/ AppendOutcome(s, g, "translation")
    \/ AppendOutcome(s, g, "translation_error")

API(s) ==
    \/ FinalizeRequest(s)
    \/ RecoverRequest(s)
    \/ \E kind \in Exports : ExportRequest(s, kind)
    \/ AnalysisBegins(s)
    \/ AnalysisFails(s)
    \/ SaveAnalysis(s)

Next ==
    \/ \E p \in Policies : Configure(p)
    \/ \E s \in Sessions : Control(s) \/ API(s)
    \/ \E s \in Sessions, g \in Segments : Pipeline(s, g)
    \/ Pause
    \/ StopBegins
    \/ StopSession
    \/ WriteFile
    \/ WriteFails
    \/ Crash
    \/ Startup
    \/ RecoveryEnds

Spec == Init /\ [][Next]_vars

-----------------------------------------------------------------------------
(* Properties *)

\* Every variable keeps its type (the files of models.py and their contents).
TypeOK ==
    /\ disk \in [Sessions -> Directory]
    /\ job.session \in Sessions \cup {NoSession}
    /\ job.ok \in BOOLEAN /\ (LockFree \/ job.writes # <<>>)
    /\ active \in Sessions \cup {NoSession}
    /\ policy \in Policies
    /\ capture \in {"idle", "starting", "running", "paused", "stopping",
                    "cleanup", "down", "recovering"}
    /\ capture \in {"running", "paused", "stopping", "cleanup"} =>
           active # NoSession \/ job.kind = "stop"
    /\ stage \in [Sessions -> [Segments ->
           {"gone", "unheard", "final", "quality", "normalized", "settled"}]]
    /\ analysing \in [session : Sessions \cup {NoSession},
                      outcome : {"working", "failed"}]
    /\ scan \subseteq Sessions
    /\ acked \in [Sessions -> SUBSET Entry]
    /\ glued \in [Sessions -> SUBSET Entry]
    /\ crashes \in 0 .. MaxCrashes /\ faults \in 0 .. MaxFaults

Live(s) == \E g \in Segments : stage[s][g] # "gone"

\* No operation is at work on the session and its status says it is finished.
Finished(s) ==
    /\ job.session # s
    /\ disk[s].manifest # NoFile
    /\ disk[s].manifest.status \in Final

Undisturbed == crashes = 0 /\ faults = 0

\* The files of a finished session come from one finalization: whatever crash
\* or failed write came in between, the exports show what session.json shows
\* (finalize_session, recover_incomplete).
ExportsAgree ==
    \A s \in Sessions :
        Finished(s) /\ disk[s].session # NoFile /\ capture # "down" =>
            \A kind \in Exports :
                disk[s][kind] = Rendered(kind, disk[s].session)

\* After a recovery in which no write failed, no session of an earlier run is
\* left in the middle of its life: it is finished, or marked as an error
\* (recover_incomplete).
RecoveryComplete ==
    \A s \in Sessions :
        faults = 0 /\ Serving /\ ~Live(s) /\ job.session # s /\ disk[s].manifest # NoFile =>
            disk[s].manifest.status \in Final \cup {"error"}

\* session.json never loses a caption it showed nor a translation it showed,
\* through retries, repeated finalizations, crashes and recoveries
\* (assemble_session, _source_path).
NothingShownIsLost ==
    [][\A s \in Sessions :
           disk[s].session # NoFile =>
               /\ disk'[s].session # NoFile
               /\ Originals(disk[s].session) \subseteq
                      Originals(disk'[s].session)
               /\ Translations(disk[s].session) \subseteq
                      Translations(disk'[s].session)]_vars

\* A row whose append returned is in the log, after any crash, unless it was
\* written behind the part of a line that a failed append had left; without a
\* failed write there is no such row (_append_jsonl flushes before it returns).
AcknowledgedIsLogged ==
    \A s \in Sessions :
        /\ acked[s] \ glued[s] \subseteq
               {disk[s].events[i] : i \in DOMAIN disk[s].events}
        /\ faults = 0 => glued[s] = {}

\* Without crashes and failed writes, session.json of a finished session shows
\* the outcome of every translation logged for its captions, however late it
\* came (append_translation, append_translation_error).
OutcomesShown ==
    \A s \in Sessions :
        Undisturbed /\ Finished(s) /\ disk[s].session # NoFile =>
            \A g \in DOMAIN disk[s].session.segments :
                disk[s].session.segments[g].translation_status =
                    Segment(Source(disk[s]), g).translation_status

\* Without them, the status and the analysis status shown by session.json are
\* those of the manifest (finalize_session, set_analysis_status).
MetadataAgrees ==
    \A s \in Sessions :
        Undisturbed /\ Finished(s) /\ disk[s].session # NoFile =>
            /\ disk[s].session.status = disk[s].manifest.status
            /\ disk[s].session.analysis_status =
                   disk[s].manifest.analysis_status

\* A manifest or a session.json that tells of a kept analysis is never ahead
\* of analysis.json, at any instant (save_analysis).
AnalysisBacked ==
    \A s \in Sessions :
        LET d == disk[s]
        IN  /\ d.session # NoFile /\ d.session.analysis => d.analysis
            /\ d.manifest # NoFile /\ d.manifest.policy.save_analysis
               /\ d.manifest.analysis_status = "completed" => d.analysis

\* The policy a session was started with decides which results its files may
\* hold, whatever the settings became, however late the result came: no
\* translation in its logs, its or its document, no analysis in its
\* directory or its document (start_session, append_translation, save_analysis).
\* Of the original text OriginalNeverStored below says what the code does not.
ResultsConsented ==
    \A s \in Sessions :
        disk[s].manifest # NoFile =>
            LET d == disk[s]
                kept == d.manifest.policy
                rows == {d.events[i] : i \in DOMAIN d.events} \cup
                        {d.mirror[i] : i \in DOMAIN d.mirror}
            IN  /\ kept.save_translation \/
                       /\ \A row \in rows : row.type # "translation"
                       /\ d.session # NoFile => Translations(d.session) = {}
                /\ kept.save_analysis \/
                       /\ ~d.analysis
                       /\ d.session # NoFile => ~d.session.analysis

\* At any instant a session's files tell one story: the exports, the document,
\* the manifest and the analysis agree, as far as each is finished.
FilesAgree == TypeOK /\ ExportsAgree /\ MetadataAgrees /\ AnalysisBacked

\* Nothing is missing: what was acknowledged is in the log, what the log holds
\* is in the document, and no session is left unfinished by a recovery.
NothingMissing == AcknowledgedIsLogged /\ OutcomesShown /\ RecoveryComplete

Archive == INSTANCE SessionArchive WITH
    log <- [s \in Sessions |-> Source(disk[s])],
    shown <- [s \in Sessions |->
                 IF disk[s].session = NoFile THEN NoFile
                 ELSE disk[s].session.segments]

\* Every document is the assembly of the whole log at the moment it is
\* written, under the lock (finalize_session, _append_jsonl).
ImplementsArchive == Archive!Spec

-----------------------------------------------------------------------------
(* What the documents and the user guide say, and the code does not do *)

\* docs/phase3_session_schema.md:324: without save_original the original text
\* is in no row and no document.
OriginalNeverStored ==
    \A s \in Sessions :
        LET d == disk[s]
        IN  d.manifest # NoFile /\ ~d.manifest.policy.save_original =>
                /\ \A i \in DOMAIN d.events : ~d.events[i].text
                /\ d.session # NoFile =>
                       \A g \in DOMAIN d.session.segments :
                           ~d.session.segments[g].normalized

\* README_KO.md:383: a damaged row does not keep the other rows from being
\* recovered.
DamagedRowTolerated ==
    \A s \in Sessions :
        Serving /\ ~Live(s) /\ LockFree /\ disk[s].manifest # NoFile =>
            disk[s].session # NoFile
=============================================================================
