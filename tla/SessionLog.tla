----------------------------- MODULE SessionLog -----------------------------
(***************************************************************************)
(* The append-only log of a session (events.jsonl) and what               *)
(* backend/app/sessions/assembler.py makes of it.  Texts are abstracted to *)
(* whether a row carries text of the speaker.                              *)
(***************************************************************************)
EXTENDS Integers, Sequences

CONSTANT Segments  \* the finalized captions (segment_id)

FinalTypes == {"final_transcript", "segment_marker"}
RowTypes == FinalTypes \cup {"translation", "translation_error",
                             "context_normalization", "transcription_quality"}

\* A line cut before its end, its last bytes a whole character or part of one,
\* and such a line once the next row was appended to it.
TornTypes == {"torn", "torn_character"}
Damaged(type) == IF type = "torn" THEN "malformed" ELSE "undecodable"

Entry == [type : RowTypes \cup TornTypes \cup {"malformed", "undecodable"},
          segment : Segments,
          text : BOOLEAN]

Row(type, g, text) == [type |-> type, segment |-> g, text |-> text]

Whole(log) == log = <<>> \/ log[Len(log)].type \notin TornTypes

\* A row goes to the end of the file: on a line of its own, unless the last
\* line has no newline.
Appended(log, row) ==
    IF Whole(log) THEN Append(log, row)
    ELSE [log EXCEPT ![Len(log)].type = Damaged(@)]

\* Reading decodes the file as UTF-8 outside the handler of damaged lines.
Undecodable(log) ==
    \E i \in DOMAIN log : log[i].type \in {"torn_character", "undecodable"}

Positions(log, types, g) ==
    {i \in DOMAIN log : log[i].type \in types /\ log[i].segment = g}

LastPosition(log, types, g) ==
    LET at == Positions(log, types, g)
    IN  IF at = {} THEN 0 ELSE CHOOSE i \in at : \A j \in at : j <= i

Logged(log, types) ==
    {log[i].segment : i \in {j \in DOMAIN log : log[j].type \in types}}

OutcomeNewest(success, failure) ==  \* mutant: an error replaces it
    IF failure > success THEN "failed"
    ELSE IF success > 0 THEN "success" ELSE "missing"

\* The last success of a caption is its translation, whatever came after it.
Outcome(success, failure) ==
    IF success > 0 THEN "success"
    ELSE IF failure > 0 THEN "failed" ELSE "missing"

Segment(log, g) ==
    LET final == LastPosition(log, FinalTypes, g)
        success == LastPosition(log, {"translation"}, g)
        failure == LastPosition(log, {"translation_error"}, g)
        original == log[final].type = "final_transcript"
    IN  [original |-> original,
         normalized |-> original \/
                        Positions(log, {"context_normalization"}, g) # {},
         translation_status |-> Outcome(success, failure),
         error |-> failure > success]

Assembled(log) == [g \in Logged(log, FinalTypes) |-> Segment(log, g)]

AssembledSegment == [original : BOOLEAN, normalized : BOOLEAN,
                     translation_status : {"success", "failed", "missing"},
                     error : BOOLEAN]

Assemblies == UNION {[G -> AssembledSegment] : G \in SUBSET Segments}
=============================================================================
