------------------------------ MODULE Session ------------------------------
(***************************************************************************)
(* The match session of domain/session.py as a value, and the pure rules   *)
(* the use cases apply to it: which statuses a command accepts, the status *)
(* it sets, and what a hardware event does to score, lives and combo.      *)
(***************************************************************************)
EXTENDS Integers

\* SessionStatus
Status == {"waiting", "ready", "playing", "paused", "over"}

CONSTANT DEFAULT_LIVES  \* the lives of a new session, 3 in the code

ASSUME LivesAssumption == DEFAULT_LIVES \in Nat

\* The fields of Session the properties tell apart; identifiers, pseudo, mode,
\* room_code and created_at never change after creation.
Session == [score: Nat, lives: 0 .. DEFAULT_LIVES, combo: Nat, status: Status]

\* What CreateSessionUseCase stores.
NewSession == [score |-> 0, lives |-> DEFAULT_LIVES, combo |-> 0, status |-> "waiting"]

\* The operations that change the status of a stored session.
Ops == {"ready", "pause", "resume", "abandon", "countdown"}

\* Mutant: the countdown no longer looks at the status it re-reads.
AcceptedBlindly(op) ==
    CASE op \in {"ready", "countdown"} -> Status
      [] op = "pause"                  -> {"playing"}
      [] op = "resume"                 -> {"paused"}
      [] op = "abandon"                -> {"playing", "paused"}

\* The statuses each operation accepts when it loads the session. ReadyUp looks
\* at no status: it overwrites whatever it finds.
Accepted(op) ==
    CASE op = "ready"     -> Status
      [] op = "pause"     -> {"playing"}
      [] op = "resume"    -> {"paused"}
      [] op = "abandon"   -> {"playing", "paused"}
      [] op = "countdown" -> {"ready"}

\* The status each operation sets.
Target(op) ==
    CASE op \in {"ready", "resume"} -> "ready"
      [] op = "pause"               -> "paused"
      [] op = "abandon"             -> "over"
      [] op = "countdown"           -> "playing"

\* The operations that start the 3-2-1-0 countdown once they have broadcast.
StartsCountdown == {"ready", "resume"}

\* The four MQTT topics HandleMqttEventUseCase knows.
Topics == {"bumper", "bonus", "ball_lost", "game_over"}

\* The points an event of this topic can carry: only bumpers and bonuses score.
Scores(topic) == topic \in {"bumper", "bonus"}

\* Mutant: the points are added once more, as on a redelivered message.
ScoreTwice(topic, points, s) ==
    IF Scores(topic) THEN s.score + 2 * points ELSE s.score

ScoreAfter(topic, points, s) ==
    IF Scores(topic) THEN s.score + points ELSE s.score

\* Mutant: without max(0, ...).
LivesUnclamped(topic, s) == IF topic = "ball_lost" THEN s.lives - 1 ELSE s.lives

LivesAfter(topic, s) ==
    IF topic = "ball_lost" /\ s.lives > 0 THEN s.lives - 1 ELSE s.lives

ComboAfter(topic, s) ==
    CASE topic = "bumper"    -> s.combo + 1
      [] topic = "ball_lost" -> 0
      [] OTHER               -> s.combo

\* HandleMqttEventUseCase._apply: the session after an event of this topic.
Apply(topic, points, s) ==
    [score  |-> ScoreAfter(topic, points, s),
     lives  |-> LivesAfter(topic, s),
     combo  |-> ComboAfter(topic, s),
     status |-> IF topic = "game_over" THEN "over" ELSE s.status]
=============================================================================
