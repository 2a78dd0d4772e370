------------------------------ MODULE MCGames ------------------------------
(* Games on small instances. *)
EXTENDS Games

CONSTANTS r1, r2, f1, f2

Symmetry == Permutations({r1, r2}) \cup Permutations({f1, f2})

\* A posted event takes points away, or adds one.
MCPoints == {-1, 1}

MCStarts == {[player |-> 1, mode |-> "solo"]}

\* Two solo runs of player 1, one of which equals a rival, and a duel of 2.
MCRuns == {[player |-> 1, mode |-> "solo", score |-> 0],
           [player |-> 1, mode |-> "solo", score |-> 1],
           [player |-> 2, mode |-> "1v1", score |-> 1]}
=============================================================================
