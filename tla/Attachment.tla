----------------------------- MODULE Attachment -----------------------------
(***************************************************************************)
(* What the rest of the backend may assume of the borne: how a session it  *)
(* plays is attached to it.  A session enters the game once, when it is    *)
(* attached; after that it can lose the game and be detached, and a write  *)
(* that comes late can attach it again, but never as the game in progress. *)
(***************************************************************************)

CONSTANT Sessions  \* the sessions

\* unattached: never the borne's active session.  in_game: active, the borne's
\* nav being in_game.  game_over: active, in any other nav.  left: detached.
Relations == {"unattached", "in_game", "game_over", "left"}

VARIABLE rel  \* rel[s]: how session s relates to the borne

Attached(s) == rel[s] \in {"in_game", "game_over"}

Moves == {<<"unattached", "in_game">>,
          <<"in_game", "game_over">>, <<"in_game", "left">>,
          <<"game_over", "left">>, <<"left", "game_over">>}

Init == rel = [s \in Sessions |-> "unattached"]

\* One write of the borne moves at most two sessions, the one it detaches and
\* the one it attaches; one session at most is attached.
Next ==
    /\ rel' \in [Sessions -> Relations]
    /\ \A s \in Sessions : rel[s] # rel'[s] => <<rel[s], rel'[s]>> \in Moves
    /\ \A s, t \in Sessions : Attached(s)' /\ Attached(t)' => s = t

Spec == Init /\ [][Next]_rel
=============================================================================
