------------------------- MODULE MCAnalysisManager -------------------------
(* A session that takes a full chunk and an open one, and an empty session. *)
EXTENDS AnalysisManagerProofs, SequencesExt

CONSTANTS long, empty

\* Each segment has one character.
MCEnds == long :> <<1, 2, 3>> @@ empty :> <<>>

\* Nothing, a segment of the first chunk, and two of different chunks.
MCCitations == {{}, {1}, {2, 3}}

-----------------------------------------------------------------------------
(* Chunk is what the loop of chunk_segments computes, for all short sessions. *)

EndsOf(sizes) == [j \in DOMAIN sizes |-> FoldLeft(+, 0, SubSeq(sizes, 1, j))]
Of(sizes) == INSTANCE AnalysisManager WITH Ends <- [s \in Sessions |-> EndsOf(sizes)]

\* The chunks as the loop makes them, each the set of its segments.
Loop(sizes) ==
    LET Flush(a) == IF a.open = {} THEN a
                    ELSE [done |-> a.done \cup {a.open}, open |-> {}, size |-> 0]
        Full(a, size) == Cardinality(a.open) >= MaxSegments \/ a.size + size > MaxCharacters
        Put(a, j) == [a EXCEPT !.open = @ \cup {j}, !.size = @ + sizes[j]]
        Step(a, j) ==
            LET b == Put(IF Full(a, sizes[j]) THEN Flush(a) ELSE a, j)
            IN  IF Cardinality(b.open) >= MaxSegments \/ b.size >= MaxCharacters
                THEN Flush(b) ELSE b
        Start == [done |-> {}, open |-> {}, size |-> 0]
    IN  Flush(FoldLeft(Step, Start, [j \in DOMAIN sizes |-> j])).done

\* A session as long as three chunks.
ASSUME ChunksAreThoseOfTheLoop ==
    \A n \in 1 .. 2 * MaxSegments + 1 : \A sizes \in [1 .. n -> 0 .. MaxCharacters + 1] :
        LET Begins(f) == f = 1 \/ \E c \in Loop(sizes) : f - 1 \in c /\ f \notin c
        IN  {Of(sizes)!Chunk(long, f) : f \in {j \in 1 .. n : Begins(j)}} = Loop(sizes)
=============================================================================
