-------------------------- MODULE MCDecisionRadar --------------------------
(* TLC instances of DecisionRadar: segments of one session, which are        *)
(* interchangeable, or of two.                                               *)
EXTENDS DecisionRadar

CONSTANTS s1, s2,
    Others    \* the segments of s2

MCSessionOf == [k \in Segments |-> IF k \in Others THEN s2 ELSE s1]
Symmetry == Permutations(Segments)
=============================================================================
