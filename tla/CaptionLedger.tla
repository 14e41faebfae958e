---------------------------- MODULE CaptionLedger ----------------------------
(***************************************************************************)
(* What the translation manager promises about each caption, whatever its  *)
(* workers, switches and shutdown do: submissions are numbered, one at a   *)
(* time is open, it is translated once, and it is settled by a translation *)
(* or an error.  An error may be replaced by another one (a cancellation   *)
(* that meets a failure), a translation is never replaced by an error of   *)
(* its own submission, and a caption is only reopened by a new submission. *)
(***************************************************************************)
EXTENDS Naturals

CONSTANT Segments

VARIABLE ledger

LedgerInit == ledger = [s \in Segments |-> [sub |-> 0, status |-> "absent", result |-> 0]]

Open == {"pending", "translating"}
Errors == {"failed", "cancelled"}

\* A new submission keeps the previous translation, unless translation is not
\* wanted for it.
Admit(s) ==
    /\ ledger[s].status \notin Open
    /\ \E status \in {"pending", "failed", "skipped", "disabled"} :
        ledger' = [ledger EXCEPT ![s] =
            [sub |-> @.sub + 1, status |-> status,
             result |-> IF status \in {"pending", "failed"} THEN @.result ELSE 0]]

Begin(s) ==
    /\ ledger[s].status = "pending"
    /\ ledger' = [ledger EXCEPT ![s].status = "translating"]

Complete(s) ==
    /\ ledger[s].status = "translating"
    /\ ledger' = [ledger EXCEPT ![s] =
            [sub |-> @.sub, status |-> "completed", result |-> @.sub]]

Settle(s) ==
    /\ ledger[s].status \in Open \cup Errors
    /\ \E status \in Errors : ledger' = [ledger EXCEPT ![s].status = status]

LedgerNext == \E s \in Segments : Admit(s) \/ Begin(s) \/ Complete(s) \/ Settle(s)

LedgerSpec == LedgerInit /\ [][LedgerNext]_ledger
=============================================================================
