------------------------ MODULE MCTranslationManager ------------------------
(* TLC instances of TranslationManager.  The captions whose language is known *)
(* are interchangeable, and so are the workers.                               *)
EXTENDS TranslationManager, TLC

Symmetry == Permutations(Segments \ UnknownSegments) \cup Permutations(Workers)
=============================================================================
