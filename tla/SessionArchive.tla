--------------------------- MODULE SessionArchive ---------------------------
(***************************************************************************)
(* What the session store promises, whatever fails: each session has a log *)
(* that only grows, and the document shown to its readers is the assembly  *)
(* of the whole log at the moment it was published.                        *)
(***************************************************************************)
EXTENDS SessionLog

CONSTANTS Sessions, NoFile

VARIABLES
    log,    \* per session, its rows
    shown   \* per session, the segments of its document, or NoFile

Init ==
    /\ log \in [Sessions -> Seq(Entry)]
    /\ shown = [s \in Sessions |-> NoFile]

Record(s) ==
    /\ \E row \in Entry : log' = [log EXCEPT ![s] = Appended(@, row)]
    /\ UNCHANGED shown

Publish(s) ==
    /\ ~Undecodable(log[s])
    /\ shown' = [shown EXCEPT ![s] = Assembled(log[s])]
    /\ UNCHANGED log

Next == \E s \in Sessions : Record(s) \/ Publish(s)

Spec == Init /\ [][Next]_<<log, shown>>
=============================================================================
