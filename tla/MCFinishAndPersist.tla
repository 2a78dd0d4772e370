------------------------- MODULE MCFinishAndPersist -------------------------
(* FinishAndPersist on small instances. *)
EXTENDS FinishAndPersist, TLC

MCPoints == {1}
MCTopics == {"bumper", "game_over"}
MCBumper == {"bumper"}
MCGameOver == {"game_over"}
MCFinalScores == {1}

Symmetry == Permutations(Requests)
=============================================================================
