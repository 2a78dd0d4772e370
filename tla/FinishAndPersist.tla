-------------------------- MODULE FinishAndPersist --------------------------
(***************************************************************************)
(* The end of a match: FinishAndPersistUseCase moves the session and its   *)
(* buffer from Redis to PostgreSQL and then cleans Redis.  Three callers   *)
(* reach it: POST /scores, the MQTT consumer's on_game_over callback, and  *)
(* a game:over relayed by the playfield.  Nothing makes them exclude each  *)
(* other, the commands of MatchSync, or a retry.                           *)
(*                                                                         *)
(* A flush reads the session, reads the buffer, computes the previous best *)
(* (two reads that touch no state), commits one transaction, clears the    *)
(* buffer and deletes the session, with an await at each step.             *)
(***************************************************************************)
EXTENDS MatchSync

CONSTANTS
    Requests,     \* the slots for POST /scores and relayed game:over messages
    Consumer,     \* the MQTT consumer, when on_game_over runs the flush
    FinalScores,  \* the scores a playfield can relay
    MaxFlushes    \* bound: POST /scores and relays in a behaviour

ASSUME ConsumerAssumption == Consumer \notin Requests
ASSUME FinalScoresAssumption == FinalScores \subseteq Nat
ASSUME MaxFlushesAssumption == MaxFlushes \in Nat

VARIABLES
    games,      \* the finished games in PostgreSQL, in commit order
    flush,      \* what each flusher is doing
    borne,      \* how the borne relates to this session
    flushes     \* POST /scores and relays so far

Flushers == Requests \cup {Consumer}

\* How the borne relates to this session is all the flush sees of it: the
\* relations and moves are those Borne is shown to implement.
Screens == INSTANCE Attachment WITH Sessions <- {NoSession},
                                    rel <- [s \in {NoSession} |-> borne]

BorneStates == Screens!Relations
Attached == borne \in {"in_game", "game_over"}

Game == [score: Nat, events: Seq(Event)]

\* relayed: the relay knows the active session.  relaying: it holds the copy to
\* store its score in.  finishing: at FinishBorneGame's guard.  guarded: past
\* it.  marking: mark_game_over holds a borne in game.  marked: the nav is done.
\* loaded, read, committed, cleared: the flush up to that await.
FlushType == [pc: {"idle", "relayed", "relaying", "finishing", "guarded", "marking",
                   "marked", "loaded", "read", "committed", "cleared"},
              snap: Session \cup {NoSession}, final: Nat, events: Seq(Event)]
IdleFlush == [pc |-> "idle", snap |-> NoSession, final |-> 0, events |-> <<>>]

flushVars == <<games, flush, borne, flushes>>
allVars == <<vars, flushVars>>

FlushInit ==
    /\ Init
    /\ games = <<>>
    /\ flush = [f \in Flushers |-> IdleFlush]
    /\ borne \in {"unattached", "in_game"}
    /\ flushes = 0

Goto(f, pc) == flush' = [flush EXCEPT ![f].pc = pc]

\* Goto, the copies f held being needed no more.
Restart(f, pc) == flush' = [flush EXCEPT ![f] = [IdleFlush EXCEPT !.pc = pc]]

\* The flusher is done; for the consumer, on_game_over returns to the handler
\* and the handler to the gateway.
Return(f) ==
    /\ flush' = [flush EXCEPT ![f] = IdleFlush]
    /\ mqtt' = IF f = Consumer THEN IdleMqtt ELSE mqtt

CountFlush == flushes < MaxFlushes /\ flushes' = flushes + 1

-----------------------------------------------------------------------------
(* The ways into the flush *)

\* session_store.get of the flush: the session, whatever its status.
LoadSession(f) ==
    /\ session # NoSession
    /\ flush' = [flush EXCEPT ![f] = [IdleFlush EXCEPT !.pc = "loaded", !.snap = session]]

\* POST /scores.  Without a session it answers 404 and changes nothing.
PostScores(r) ==
    /\ flush[r].pc = "idle"
    /\ CountFlush
    /\ LoadSession(r)
    /\ UNCHANGED <<vars, games, borne>>

\* borne:relay game:over: the borne's active session is this one.
RelayGameOver(r) ==
    /\ flush[r].pc = "idle"
    /\ CountFlush
    /\ Attached
    /\ Goto(r, "relayed")
    /\ UNCHANGED <<vars, games, borne>>

\* The session it reads.  Only an integer finalScore, and only a session still
\* there, will be written.
RelayLoad(r) ==
    /\ flush[r].pc = "relayed"
    /\ \/ /\ session # NoSession
          /\ \E final \in FinalScores :
               flush' = [flush EXCEPT ![r] = [IdleFlush EXCEPT !.pc = "relaying",
                                                 !.snap = session, !.final = final]]
       \/ Goto(r, "finishing")
    /\ UNCHANGED <<vars, games, borne, flushes>>

\* session.score = final_score; update: a whole-hash write of the loaded copy.
RelayScore(r) ==
    /\ flush[r].pc = "relaying"
    /\ session' = [flush[r].snap EXCEPT !.score = flush[r].final]
    /\ hist' = [hist EXCEPT !.stale = @ \/ session # flush[r].snap]
    /\ Restart(r, "finishing")
    /\ UNCHANGED <<buffer, task, mqtt, announced, games, borne, flushes>>

\* Mutant: the guard wants the borne still in game.
FinishBorneGameInGame(f) ==
    /\ \/ flush[f].pc = "finishing"
       \/ f = Consumer /\ mqtt.pc = "ended" /\ flush[f].pc = "idle"
    /\ IF borne = "in_game" THEN Goto(f, "guarded") /\ mqtt' = mqtt ELSE Return(f)
    /\ UNCHANGED <<session, buffer, task, announced, hist, games, borne, flushes>>

\* FinishBorneGameUseCase: the guard on active_session_id.
FinishBorneGame(f) ==
    /\ \/ flush[f].pc = "finishing"
       \/ f = Consumer /\ mqtt.pc = "ended" /\ flush[f].pc = "idle"
    /\ IF Attached THEN Goto(f, "guarded") /\ mqtt' = mqtt ELSE Return(f)
    /\ UNCHANGED <<session, buffer, task, announced, hist, games, borne, flushes>>

\* mark_game_over reads the borne again and returns if its nav is not in_game.
LoadBorne(f) ==
    /\ flush[f].pc = "guarded"
    /\ Goto(f, IF borne = "in_game" THEN "marking" ELSE "marked")
    /\ UNCHANGED <<vars, games, borne, flushes>>

\* It then writes the whole borne it has read, its active session included.
MarkGameOver(f) ==
    /\ flush[f].pc = "marking"
    /\ borne' = "game_over"
    /\ Goto(f, "marked")
    /\ UNCHANGED <<vars, games, flushes>>

\* The flush it calls; SessionNotFoundError is swallowed.
FlushMarked(f) ==
    /\ flush[f].pc = "marked"
    /\ \/ LoadSession(f) /\ mqtt' = mqtt
       \/ session = NoSession /\ Return(f)
    /\ UNCHANGED <<session, buffer, task, announced, hist, games, borne, flushes>>

-----------------------------------------------------------------------------
(* FinishAndPersistUseCase.execute *)

\* event_buffer.read_all
ReadEvents(f) ==
    /\ flush[f].pc = "loaded"
    /\ flush' = [flush EXCEPT ![f].pc = "read", ![f].events = buffer]
    /\ UNCHANGED <<vars, games, borne, flushes>>

\* _TOPIC_TO_EVENT_TYPE, of the topics that reach the buffer.
Mapped == {"bumper", "bonus", "ball_lost", "game_over"}

\* Mutant: only the events that score are mapped.
EventRowsScoring(events) == SelectSeq(events, LAMBDA e : Scores(e.topic))

\* _build_event_rows, i events into its loop: an event whose topic has no type
\* is dropped.
EventRows(events) ==
    LET rows[i \in 0 .. Len(events)] ==
          IF i = 0 THEN <<>>
          ELSE IF events[i].topic \in Mapped THEN Append(rows[i - 1], events[i])
          ELSE rows[i - 1]
    IN  rows[Len(events)]

\* One transaction: the player, the finished game and its events, or nothing.
Persist(f) ==
    /\ flush[f].pc = "read"
    /\ games' = Append(games, [score |-> flush[f].snap.score,
                               events |-> EventRows(flush[f].events)])
    /\ Restart(f, "committed")
    /\ UNCHANGED <<vars, borne, flushes>>

ClearBuffer(f) ==
    /\ flush[f].pc = "committed"
    /\ buffer' = <<>>
    /\ Goto(f, "cleared")
    /\ UNCHANGED <<session, task, mqtt, announced, hist, games, borne, flushes>>

DeleteSession(f) ==
    /\ flush[f].pc = "cleared"
    /\ session' = NoSession
    /\ Return(f)
    /\ UNCHANGED <<buffer, task, announced, hist, games, borne, flushes>>

\* Mutant: the cleanup runs whether or not the flush has committed.
FailFlushCleaning(f) ==
    /\ flush[f].pc # "idle"
    /\ CountFault
    /\ Return(f)
    /\ session' = NoSession
    /\ UNCHANGED <<buffer, task, announced, games, borne, flushes>>

\* An await of the flush raises: the transaction rolls back, or Redis fails.
\* The caller gets an error and what was done stays done.
FailFlush(f) ==
    /\ flush[f].pc # "idle"
    /\ CountFault
    /\ Return(f)
    /\ UNCHANGED <<redis, task, announced, games, borne, flushes>>

-----------------------------------------------------------------------------
(* The rest of the system *)

\* The screens' part (Borne): the session can lose the game, be detached, and
\* be attached again by a late write.  A session of POST /sessions never is.
BorneMoves ==
    /\ borne # "unattached"
    /\ borne' \in BorneStates
    /\ <<borne, borne'>> \in Screens!Moves
    /\ UNCHANGED <<vars, games, flush, flushes>>

\* MatchSync's own steps, the consumer's callback being FinishBorneGame here.
MatchStep == Step /\ UNCHANGED flushVars

\* The handler fails before its callback; inside it, FailFlush.
MatchFails == FailMqtt /\ flush[Consumer].pc = "idle" /\ UNCHANGED flushVars

FlushCrash ==
    /\ Crash
    /\ flush' = [f \in Flushers |-> IdleFlush]
    /\ UNCHANGED <<games, borne, flushes>>

FlushRuns(f) ==
    \/ RelayLoad(f) \/ RelayScore(f)
    \/ FinishBorneGame(f) \/ LoadBorne(f) \/ MarkGameOver(f) \/ FlushMarked(f)
    \/ ReadEvents(f) \/ Persist(f) \/ ClearBuffer(f) \/ DeleteSession(f)

FlushNext ==
    \/ \E r \in Requests : PostScores(r) \/ RelayGameOver(r)
    \/ \E f \in Flushers : FlushRuns(f) \/ FailFlush(f)
    \/ BorneMoves \/ MatchStep \/ MatchFails \/ FlushCrash

FlushSpec == FlushInit /\ [][FlushNext]_allVars

\* The event loop runs every flush and handler that has started.
FlushFairness ==
    /\ \A t \in Tasks : WF_allVars(MatchStep /\ TaskRuns(t))
    /\ WF_allVars(MatchStep /\ Consume)
    /\ \A f \in Flushers : WF_allVars(FlushRuns(f))

FairFlushSpec == FlushSpec /\ FlushFairness

-----------------------------------------------------------------------------
(* Properties *)

FlushTypeOK ==
    /\ TypeOK
    /\ games \in Seq(Game)
    /\ flush \in [Flushers -> FlushType]
    /\ borne \in BorneStates
    /\ flushes \in Nat

\* A session that was created and is gone from Redis has a finished game in
\* PostgreSQL: no failed transaction, failed cleanup, crash, concurrent flush
\* or relay lets FinishAndPersistUseCase delete a run it has not saved.
NoRunLost == (hist.created /\ session = NoSession) => games # <<>>

\* The events of a saved game are accepted events, in arrival order, none
\* twice, whatever the consumer pushed and other flushes cleared meanwhile.
SavedInOrder ==
    \A g \in 1 .. Len(games) :
        LET events == games[g].events IN
        /\ \A i \in 1 .. Len(events) : events[i].id <= hist.accepted
        /\ \A i \in 1 .. Len(events) - 1 : events[i].id < events[i + 1].id

Ids(events) == {events[i].id : i \in 1 .. Len(events)}

\* As long as only the consumer flushes, every accepted event stays in the buffer or
\* reaches a saved game: the handler is serial with the flush it awaits.
EventsKept ==
    (hist.faults = 0 /\ flushes = 0) =>
        \A id \in 1 .. hist.accepted :
            \/ mqtt.pc = "saved" /\ mqtt.event.id = id
            \/ id \in Ids(buffer)
            \/ \E g \in 1 .. Len(games) : id \in Ids(games[g].events)

Worth(events) ==
    LET sum[i \in 0 .. Len(events)] == IF i = 0 THEN 0 ELSE sum[i - 1] + events[i].points
    IN  sum[Len(events)]

\* As long as only the consumer flushes and nothing stale was written, a saved game's
\* score is what its own events are worth: the buffer read after the session
\* belongs to the score read before it.
SavedGameAddsUp ==
    (hist.faults = 0 /\ flushes = 0 /\ ~hist.stale) =>
        \A g \in 1 .. Len(games) : games[g].score = Worth(games[g].events)

\* No saved game has a score out of nowhere: it is covered by the points of the
\* accepted events and at most one relayed final score, however commands,
\* events, relays and flushes overlap (FinishBorneGameFromRelayUseCase).
SavedScoreBacked ==
    \A g \in 1 .. Len(games) :
        \E final \in FinalScores \cup {0} : games[g].score <= hist.earned + final

\* FinishBorneGameUseCase: its guard avoids the double write of a run, so no
\* event is in two finished games.
SavedOnce ==
    \A g, h \in 1 .. Len(games) :
        g # h => Ids(games[g].events) \cap Ids(games[h].events) = {}

\* mark_game_over keeps to Attachment too, however late it writes the borne it
\* has read: it never attaches a session that was not, and never brings one
\* back in game.
FlushAttaches == [][Screens!Next]_borne

\* A natural game over of the borne's session ends in a saved game, unless the
\* borne has left the game before the guard was reached.
NaturalEndIsSaved == (mqtt.pc = "ended" /\ Attached) ~> (games # <<>> \/ borne = "left")
=============================================================================
