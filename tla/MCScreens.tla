----------------------------- MODULE MCScreens -----------------------------
(* Screens on small instances. *)
EXTENDS Screens, TLC

CONSTANTS k1, k2, k4, q1, q2

\* One front of the older kind, the rest are the screens of the borne.
MCHub == [k \in Clients |-> IF k = k4 THEN "session" ELSE "borne"]

MCMqttMessages ==
    {[topic |-> "button", id |-> b, state |-> s] : b \in {"L1", "top", "other"}, s \in 0..1}
    \cup {[topic |-> t, id |-> "none", state |-> 1] : t \in {"plunger", "sensor"}}

Symmetry == Permutations(Clients \ {k4}) \cup Permutations(Requests)
=============================================================================
