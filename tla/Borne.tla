------------------------------- MODULE Borne --------------------------------
(***************************************************************************)
(* The borne: the state its three screens share, and everything that reads *)
(* and writes it.  ApplyBorneIntentUseCase handles a screen's messages,    *)
(* one at a time per socket; FinishBorneGameUseCase ends a game, for the   *)
(* MQTT consumer or for a game:over a screen relays.  All of them load the *)
(* whole borne, await, and write the whole borne back.                     *)
(*                                                                         *)
(* A session is its status here: a use case that loads and stores it is    *)
(* one step (MatchSync splits it), and so is a flush (FinishAndPersist).   *)
(* A message the code ignores changes nothing: it is a stuttering step.    *)
(* A handler that fails midway is one that takes no further step.          *)
(***************************************************************************)
CONSTANTS
    Clients,    \* the screens' sockets
    Consumer,   \* the MQTT consumer
    Actions,    \* the intents the screens send
    Sessions,   \* the ids PLAYERS_VALIDATED can draw
    Legacy,     \* a session of POST /sessions, that the hardware plays
    NoSession,  \* active_session_id is None
    NoBorne     \* the key of the borne is absent

ASSUME ConsumerIsNoClient == Consumer \notin Clients
ASSUME SessionsAreDistinct == Legacy \notin Sessions /\ NoSession \notin Sessions \cup {Legacy}

Actors == Clients \cup {Consumer}

\* BorneNavState
Nav == {"splash", "menu", "identification", "boutique", "settings",
        "leaderboard", "in_game", "game_over"}

Borne == [nav: Nav, active: Sessions \cup {NoSession}]
ASSUME NoBorneIsNoBorne == NoBorne \notin Borne

\* Mutant: a first nav that BorneNavState does not have.
FreshBorneHome == [nav |-> "home", active |-> NoSession]

FreshBorne == [nav |-> "splash", active |-> NoSession]

VARIABLES
    borne,     \* the hash borne:{id}, or NoBorne
    status,    \* status[s]: none, then a SessionStatus, then gone
    counting,  \* the sessions whose countdown runs
    actor,     \* what each socket and the consumer are doing
    hist       \* history, read by no guard

vars == <<borne, status, counting, actor, hist>>

SessionStates == {"none", "waiting", "ready", "playing", "paused", "over", "gone"}

\* off: not connected.  creating: found no borne.  loaded: an intent past its
\* guard.  validated, created, attached: PLAYERS_VALIDATED up to that await.
\* commanded: a cmd:* knows its session.  ended: the game of sid is over, at
\* FinishBorneGame's guard.  over: about to mark_game_over.  marking: it holds a
\* borne in game.  marked: about to flush.
\* job: what follows, where it depends on how the actor came there.
ActorType == [pc: {"off", "idle", "creating", "loaded", "validated", "created", "attached",
                   "commanded", "ended", "over", "marking", "marked"},
              job: {"none", "pause", "resume", "abandon", "mark", "finish"},
              snap: Borne \cup {NoBorne}, to: Nav,
              sid: Sessions \cup {Legacy, NoSession}]

At(pc) == [pc |-> pc, job |-> "none", snap |-> NoBorne, to |-> "splash", sid |-> NoSession]

\* attached: the sessions that have been active.  stale: some actor has
\* overwritten a borne that was not the one it had loaded.  early: the borne has
\* been marked over while its session was not finished nor about to be flushed.
HistType == [attached: SUBSET Sessions, stale: BOOLEAN, early: BOOLEAN]

Init ==
    /\ borne = NoBorne
    /\ status = [s \in Sessions \cup {Legacy} |-> IF s = Legacy THEN "playing" ELSE "none"]
    /\ counting = {}
    /\ actor = [a \in Actors |-> At(IF a = Consumer THEN "idle" ELSE "off")]
    /\ hist = [attached |-> {}, stale |-> FALSE, early |-> FALSE]

Become(a, r) == actor' = [actor EXCEPT ![a] = r]

\* The whole-hash write of a borne by an actor that has loaded another one.
Write(loaded, b, early) ==
    /\ borne' = b
    /\ hist' = [hist EXCEPT !.attached = @ \cup ({b.active} \ {NoSession}),
                            !.stale = @ \/ borne # loaded,
                            !.early = @ \/ early]

Live(s) == status[s] \in {"waiting", "ready", "playing", "paused"}
Finished(s) == status[s] \in {"over", "gone"}

-----------------------------------------------------------------------------
(* Sockets and navigation *)

\* _serve_borne: the snapshot it sends calls get_or_create.
Connect(c) ==
    /\ actor[c].pc = "off"
    /\ Become(c, At(IF borne = NoBorne THEN "creating" ELSE "idle"))
    /\ UNCHANGED <<borne, status, counting, hist>>

\* get_or_create stores a fresh borne, whatever is there by now.
CreateBorne(c) ==
    /\ actor[c].pc = "creating"
    /\ Write(NoBorne, FreshBorne, FALSE)
    /\ Become(c, At("idle"))
    /\ UNCHANGED <<status, counting>>

\* _NAV_TRANSITIONS
NavTransitions == {
    <<"splash",         "PRESS_A",          "menu">>,
    <<"menu",           "START_GAME",       "identification">>,
    <<"menu",           "OPEN_LEADERBOARD", "leaderboard">>,
    <<"menu",           "OPEN_BOUTIQUE",    "boutique">>,
    <<"menu",           "OPEN_SETTINGS",    "settings">>,
    <<"identification", "BACK_TO_MENU",     "menu">>,
    <<"boutique",       "START_GAME",       "identification">>,
    <<"boutique",       "BACK_TO_MENU",     "menu">>,
    <<"leaderboard",    "BACK_TO_MENU",     "menu">>,
    <<"settings",       "BACK_TO_MENU",     "menu">>,
    <<"game_over",      "REPLAY",           "identification">>,
    <<"game_over",      "OPEN_LEADERBOARD", "leaderboard">>,
    <<"game_over",      "BACK_TO_MENU",     "menu">>}

\* execute: the borne is loaded and the action means something in its nav.
Intent(c) ==
    /\ actor[c].pc = "idle"
    /\ \E row \in NavTransitions :
          /\ row[1] = borne.nav
          /\ row[2] \in Actions
          /\ Become(c, [At("loaded") EXCEPT !.snap = borne, !.to = row[3]])
    /\ UNCHANGED <<borne, status, counting, hist>>

\* Mutant: leaving game_over keeps the session, which then looks in game again.
NavigatedBackInGame(b, to) ==
    [nav    |-> IF b.nav = "game_over" /\ to = "identification" THEN "in_game" ELSE to,
     active |-> b.active]

\* The borne after the transition: leaving game_over for the menu or another
\* game frees the session.
Navigated(b, to) ==
    [nav    |-> to,
     active |-> IF b.nav = "game_over" /\ to \in {"menu", "identification"}
                THEN NoSession ELSE b.active]

SaveIntent(c) ==
    /\ actor[c].pc = "loaded"
    /\ Write(actor[c].snap, Navigated(actor[c].snap, actor[c].to), FALSE)
    /\ Become(c, At("idle"))
    /\ UNCHANGED <<status, counting>>

-----------------------------------------------------------------------------
(* PLAYERS_VALIDATED *)

\* Mutant: no guard on the nav.
PlayersValidatedAnywhere(c) ==
    /\ actor[c].pc = "idle"
    /\ Become(c, [At("validated") EXCEPT !.snap = borne])
    /\ UNCHANGED <<borne, status, counting, hist>>

\* _start_game, its payload holding a pseudo.
PlayersValidated(c) ==
    /\ actor[c].pc = "idle"
    /\ borne.nav = "identification"
    /\ Become(c, [At("validated") EXCEPT !.snap = borne])
    /\ UNCHANGED <<borne, status, counting, hist>>

\* CreateSessionUseCase draws a fresh id.
CreateSession(c) ==
    /\ actor[c].pc = "validated"
    /\ \E s \in Sessions :
          /\ status[s] = "none"
          /\ status' = [status EXCEPT ![s] = "waiting"]
          /\ Become(c, [actor[c] EXCEPT !.pc = "created", !.sid = s])
    /\ UNCHANGED <<borne, counting, hist>>

Attach(c) ==
    /\ actor[c].pc = "created"
    /\ Write(actor[c].snap, [nav |-> "in_game", active |-> actor[c].sid], FALSE)
    /\ Become(c, [At("attached") EXCEPT !.sid = actor[c].sid])
    /\ UNCHANGED <<status, counting>>

\* ReadyUpUseCase, which starts the countdown.  If the session is gone by then
\* it raises, and _serve_borne ends.
ReadyUp(c) ==
    LET s == actor[c].sid IN
    /\ actor[c].pc = "attached"
    /\ IF status[s] = "gone"
       THEN Become(c, At("off")) /\ UNCHANGED <<status, counting>>
       ELSE /\ Become(c, At("idle"))
            /\ status' = [status EXCEPT ![s] = "ready"]
            /\ counting' = counting \cup {s}
    /\ UNCHANGED <<borne, hist>>

\* StartCountdownUseCase, its last tick sent.
EndCountdown(s) ==
    /\ s \in counting
    /\ counting' = counting \ {s}
    /\ status' = IF status[s] = "ready" THEN [status EXCEPT ![s] = "playing"] ELSE status
    /\ UNCHANGED <<borne, actor, hist>>

-----------------------------------------------------------------------------
(* Match commands *)

\* handle_match_command: the borne's active session, whatever its nav.
Command(c) ==
    /\ actor[c].pc = "idle"
    /\ borne.active # NoSession
    /\ \E job \in {"pause", "resume", "abandon"} :
          Become(c, [At("commanded") EXCEPT !.job = job, !.sid = borne.active])
    /\ UNCHANGED <<borne, status, counting, hist>>

PauseSession(c) ==
    LET s == actor[c].sid IN
    /\ actor[c].pc = "commanded" /\ actor[c].job = "pause"
    /\ status' = IF status[s] = "playing" THEN [status EXCEPT ![s] = "paused"] ELSE status
    /\ Become(c, At("idle"))
    /\ UNCHANGED <<borne, counting, hist>>

\* ResumeSessionUseCase starts a countdown.
ResumeSession(c) ==
    LET s == actor[c].sid IN
    /\ actor[c].pc = "commanded" /\ actor[c].job = "resume"
    /\ IF status[s] = "paused"
       THEN status' = [status EXCEPT ![s] = "ready"] /\ counting' = counting \cup {s}
       ELSE UNCHANGED <<status, counting>>
    /\ Become(c, At("idle"))
    /\ UNCHANGED <<borne, hist>>

InPlay(s) == status[s] \in {"playing", "paused"}

\* Mutant: the abandon does not mark the borne over.
AbandonOnly(c) ==
    LET s == actor[c].sid IN
    /\ actor[c].pc = "commanded" /\ actor[c].job = "abandon"
    /\ status' = IF InPlay(s) THEN [status EXCEPT ![s] = "over"] ELSE status
    /\ Become(c, At("idle"))
    /\ UNCHANGED <<borne, counting, hist>>

\* The session ends only if it is in play; mark_game_over follows in any case.
AbandonSession(c) ==
    LET s == actor[c].sid IN
    /\ actor[c].pc = "commanded" /\ actor[c].job = "abandon"
    /\ status' = IF InPlay(s) THEN [status EXCEPT ![s] = "over"] ELSE status
    /\ Become(c, [At("over") EXCEPT !.job = "mark"])
    /\ UNCHANGED <<borne, counting, hist>>

-----------------------------------------------------------------------------
(* The end of a game *)

\* borne:relay game:over.  With no active session it only marks the borne over.
RelayGameOver(c) ==
    /\ actor[c].pc = "idle"
    /\ Become(c, IF borne.active = NoSession
                 THEN [At("over") EXCEPT !.job = "mark"]
                 ELSE [At("ended") EXCEPT !.sid = borne.active])
    /\ UNCHANGED <<borne, status, counting, hist>>

\* HandleMqttEventUseCase on flipper/game/over: the session is stored as over
\* and on_game_over is called.
HardwareGameOver ==
    /\ actor[Consumer].pc = "idle"
    /\ \E s \in Sessions \cup {Legacy} :
          /\ status[s] = "playing"
          /\ status' = [status EXCEPT ![s] = "over"]
          /\ Become(Consumer, [At("ended") EXCEPT !.sid = s])
    /\ UNCHANGED <<borne, counting, hist>>

\* Mutant: every game over is the borne's.
FinishAnyGame(a) ==
    /\ actor[a].pc = "ended"
    /\ Become(a, IF borne = NoBorne THEN At("creating")
                 ELSE [At("over") EXCEPT !.job = "finish", !.sid = actor[a].sid])
    /\ UNCHANGED <<borne, status, counting, hist>>

\* FinishBorneGameUseCase: only for the active session.
FinishBorneGame(a) ==
    /\ actor[a].pc = "ended"
    /\ Become(a, CASE borne = NoBorne -> At("creating")
                   [] borne # NoBorne /\ borne.active = actor[a].sid ->
                         [At("over") EXCEPT !.job = "finish", !.sid = actor[a].sid]
                   [] OTHER -> At("idle"))
    /\ UNCHANGED <<borne, status, counting, hist>>

\* mark_game_over is done.
Marked(a) == IF actor[a].job = "finish" THEN [At("marked") EXCEPT !.sid = actor[a].sid]
             ELSE At("idle")

\* mark_game_over loads the borne once more.
LoadToMark(a) ==
    /\ actor[a].pc = "over"
    /\ Become(a, IF borne.nav = "in_game"
                 THEN [actor[a] EXCEPT !.pc = "marking", !.snap = borne]
                 ELSE Marked(a))
    /\ UNCHANGED <<borne, status, counting, hist>>

\* mark_game_over ends whatever game is on, be it the caller's or not.
MarkGameOver(a) ==
    LET s == actor[a].snap.active IN
    /\ actor[a].pc = "marking"
    /\ Write(actor[a].snap, [nav |-> "game_over", active |-> s],
             Live(s) /\ ~(actor[a].job = "finish" /\ actor[a].sid = s))
    /\ Become(a, Marked(a))
    /\ UNCHANGED <<status, counting>>

\* FinishAndPersistUseCase; a session that is gone is not flushed again.
Flush(a) ==
    /\ actor[a].pc = "marked"
    /\ status' = [status EXCEPT ![actor[a].sid] = "gone"]
    /\ Become(a, At("idle"))
    /\ UNCHANGED <<borne, counting, hist>>

-----------------------------------------------------------------------------

Message(c) == Intent(c) \/ PlayersValidated(c) \/ Command(c) \/ RelayGameOver(c)

ClientRuns(c) ==
    \/ SaveIntent(c) \/ CreateSession(c) \/ Attach(c) \/ ReadyUp(c)
    \/ PauseSession(c) \/ ResumeSession(c) \/ AbandonSession(c)

Finishes(a) ==
    CreateBorne(a) \/ FinishBorneGame(a) \/ LoadToMark(a) \/ MarkGameOver(a) \/ Flush(a)

Next ==
    \/ \E c \in Clients : Connect(c) \/ Message(c) \/ ClientRuns(c)
    \/ \E a \in Actors : Finishes(a)
    \/ \E s \in Sessions : EndCountdown(s)
    \/ HardwareGameOver

Spec == Init /\ [][Next]_vars

-----------------------------------------------------------------------------
(* Properties *)

\* The stored borne has a BorneNavState and a session of its own, never Legacy.
BorneTypeOK ==
    /\ borne \in Borne \cup {NoBorne}
    /\ status \in [Sessions \cup {Legacy} -> SessionStates]
    /\ counting \subseteq Sessions
    /\ actor \in [Actors -> ActorType]
    /\ hist \in HistType

\* The borne shows a game that has ended.
ShowsEnded == borne # NoBorne /\ borne.nav = "in_game" /\ Finished(borne.active)

\* An activity that will load the borne to mark it over, or has just done so.
WillMark(a) ==
    \/ actor[a].pc = "ended" /\ actor[a].sid = borne.active
    \/ actor[a].pc \in {"over", "marking"}

\* Screens are never stuck in a finished game: whenever the session of an
\* in_game borne has ended, some handler is about to mark the borne over,
\* however messages, intents and game overs overlap (handle_match_command,
\* FinishBorneGameUseCase).
EndedIsHandled == ShowsEnded => \E a \in Actors : WillMark(a)

\* An activity that will attach this session, or flush it.
WillSettle(a, s) ==
    \/ actor[a].pc = "created" /\ actor[a].sid = s
    \/ actor[a].pc \in {"over", "marking", "marked"} /\ actor[a].job = "finish" /\ actor[a].sid = s
    \/ actor[a].pc = "marked" /\ actor[a].sid = s

\* A session the borne has created and that is not finished is the active one:
\* a game runs with no screen able to command it only if a borne was
\* overwritten or was marked over before its game had ended (_start_game,
\* execute, mark_game_over).
NoGhostGame ==
    (~hist.stale /\ ~hist.early) =>
        \A s \in Sessions : Live(s) => \/ borne.active = s
                                       \/ \E a \in Actors : WillSettle(a, s)

\* FinishBorneGameUseCase: the borne's path never persists or deletes a session
\* of POST /sessions, whose persistence is POST /scores'.
LegacyLeftAlone == status[Legacy] # "gone"

\* How a session relates to the borne.
Relation(s) ==
    CASE borne # NoBorne /\ borne.active = s /\ borne.nav = "in_game" -> "in_game"
      [] borne # NoBorne /\ borne.active = s /\ borne.nav # "in_game" -> "game_over"
      [] s \in hist.attached /\ (borne = NoBorne \/ borne.active # s) -> "left"
      [] OTHER -> "unattached"

Abstract == INSTANCE Attachment WITH rel <- [s \in Sessions |-> Relation(s)]

\* A session enters the game once, and no late write of a screen or of a
\* game over brings it back in game (Attachment).
IsAttachment == Abstract!Spec

\* ApplyBorneIntentUseCase.execute: leaving game_over frees the finished session.
FreesFinished ==
    [][(/\ borne # NoBorne /\ borne.nav = "game_over" /\ borne.active # NoSession
        /\ borne'.active = NoSession) => Finished(borne.active)]_vars
=============================================================================
