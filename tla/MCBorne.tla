------------------------------ MODULE MCBorne -------------------------------
(* Borne on small instances. *)
EXTENDS Borne, TLC

\* The shop and the settings are two more places like the leaderboard.
MCActions == {"PRESS_A", "START_GAME", "OPEN_LEADERBOARD", "BACK_TO_MENU", "REPLAY"}

Symmetry == Permutations(Clients) \cup Permutations(Sessions)
=============================================================================
