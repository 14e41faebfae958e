--------------------------- MODULE MCEventFanout ---------------------------
(* TLC instances of EventFanout: connections are interchangeable, and so are *)
(* the tasks that broadcast.                                                 *)
EXTENDS EventFanout, TLC

Symmetry == Permutations(Clients) \cup Permutations(Tasks)
=============================================================================
