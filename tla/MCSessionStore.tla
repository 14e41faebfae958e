--------------------------- MODULE MCSessionStore ---------------------------
(* Small instances of SessionStore for TLC. *)
EXTENDS SessionStoreProofs, TLC

SaveAll == Everything
SaveNone == [save_original |-> FALSE, save_translation |-> FALSE,
             save_analysis |-> FALSE]
SaveTranslation == [SaveNone EXCEPT !.save_translation = TRUE]

OnlyAll == {SaveAll}
AllOrTranslation == {SaveAll, SaveTranslation}
AllOrNone == {SaveAll, SaveNone}

Symmetry == Permutations(Segments)
=============================================================================
