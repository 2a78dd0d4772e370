------------------------------- MODULE Games -------------------------------
(***************************************************************************)
(* The tables games, game_events and rooms: the legacy REST games, which   *)
(* are started in one transaction but scored and finished by single        *)
(* statements, the games a flush writes, already finished, and the queries *)
(* over both.  An action is one committed statement or transaction.        *)
(* A request that fails is one that takes no further step.                 *)
(***************************************************************************)
EXTENDS Integers, Sequences, FiniteSetsExt, TLC

CONSTANTS
    Players,     \* the player ids, each upserted as in PlayerUpsert
    Requests,    \* slots of POST /games/{id}/events and /finish in progress
    Flushes,     \* the flushes of a session, each made once
    Points,      \* the points a posted event may carry, below zero included
    Starts,      \* the player and mode a POST /games/start may carry
    Runs,        \* the player, mode and score a flushed session may have
    MaxGames, MaxEvents, MaxRooms  \* bounds on the rows

ASSUME RequestsAssumption == IsFiniteSet(Requests)
ASSUME PlayersAssumption == Players \subseteq Nat
ASSUME PointsAssumption == Points \subseteq Int
ASSUME StartsAssumption == Starts \subseteq [player: Players, mode: {"solo", "1v1"}]
ASSUME RunsAssumption == Runs \subseteq [player: Players, mode: {"solo", "1v1"}, score: Nat]
ASSUME GamesBounds == MaxGames \in Nat /\ MaxEvents \in Nat /\ MaxRooms \in Nat

VARIABLES
    known,   \* the players that have a row
    rooms,   \* the number of rooms; no code changes one or reads its mode
    games,   \* games[i]: the row of game i
    events,  \* the rows of game_events, in order of id
    req,     \* req[r]: a request on one game
    flush,   \* flush[f]: a flush, from its reads of the previous best
    reader,  \* a GET of several queries
    endedAt  \* history: Len(events) when game i was first finished, -1 before

vars == <<known, rooms, games, events, req, flush, reader, endedAt>>

Modes == {"solo", "1v1"}
NoRoom == 0
NoScore == -1

\* Mutant: GameStatus declared in the other order.
StatusOrderReversed == <<"finished", "playing">>

StatusOrder == <<"playing", "finished">>  \* GameStatus, in order of declaration

GameType == [player: Players, mode: Modes, room: Nat,
             status: {"playing", "finished"}, score: Nat]

NewRequest == [pc |-> "idle", game |-> 0, points |-> 0]
NewFlush == [pc |-> "new", run |-> CHOOSE run \in Runs : TRUE,
             best |-> NoScore, game |-> 0, improved |-> FALSE]
NewReader == [pc |-> "idle", from |-> 0, player |-> CHOOSE p \in Players : TRUE,
              rows |-> {}, best |-> NoScore, seen |-> [g \in {} |-> 0]]

Init ==
    /\ known = {}
    /\ rooms = 0
    /\ games = <<>>
    /\ events = <<>>
    /\ req = [r \in Requests |-> NewRequest]
    /\ flush = [f \in Flushes |-> NewFlush]
    /\ reader = NewReader
    /\ endedAt = <<>>

-----------------------------------------------------------------------------
(* Queries *)

Ids == DOMAIN games
Row(g) == [id |-> g, player |-> games[g].player, mode |-> games[g].mode,
           status |-> games[g].status, score |-> games[g].score]

GamesWith(status) == {g \in Ids : games[g].status = status}

Greatest(scores) == IF scores = {} THEN NoScore ELSE Max(scores)

\* Mutant: the score of the last finished solo game.
LastSoloScore(p) ==
    LET solo == {g \in GamesWith("finished") : games[g].player = p /\ games[g].mode = "solo"}
    IN  IF solo = {} THEN NoScore ELSE games[Max(solo)].score

\* SELECT MAX(score) over the finished solo games of the player.
BestSoloScore(p) ==
    Greatest({games[g].score : g \in {h \in GamesWith("finished") :
        games[h].player = p /\ games[h].mode = "solo"}})

\* What an event is worth: add_points is skipped unless above 0.
Worth(event) == IF event.points > 0 THEN event.points ELSE 0

EventSum(g) == SumFunctionOnSet([i \in DOMAIN events |-> Worth(events[i])],
                                {i \in DOMAIN events : events[i].game = g})

\* ORDER BY score DESC, p.id ASC
Above(a, b) == a.score > b.score \/ (a.score = b.score /\ a.player < b.player)

\* LIMIT: row i of the answer has i - 1 rows above it.
Top(rows, limit) ==
    [i \in 1..Min({limit, Cardinality(rows)}) |->
        CHOOSE row \in rows : Cardinality({other \in rows : Above(other, row)}) = i - 1]

\* Mutant: no GROUP BY.
LeaderboardByGame(modes, limit) ==
    Top({[player |-> games[g].player, score |-> games[g].score] :
            g \in {h \in GamesWith("finished") : games[h].mode \in modes}}, limit)

\* One entry per player, with MAX(score) of the finished games.
Entries(modes) ==
    LET ranked == {g \in GamesWith("finished") : games[g].mode \in modes}
        Best(p) == Max({games[g].score : g \in {h \in ranked : games[h].player = p}})
    IN  {[player |-> p, score |-> Best(p)] : p \in {games[g].player : g \in ranked}}

\* The rank is the index.
Leaderboard(modes, limit) == Top(Entries(modes), limit)

-----------------------------------------------------------------------------
(* Rooms, and games started in them *)

CreateRoom ==
    /\ rooms < MaxRooms
    /\ rooms' = rooms + 1
    /\ UNCHANGED <<known, games, events, req, flush, reader, endedAt>>

\* One unit of work.  A code that no room has raises RoomNotFoundError and
\* rolls everything back, the new player included; without a code a room is
\* created.  The mode of a room that exists is not compared with the game's.
StartGame(start, room) ==
    /\ Len(games) < MaxGames /\ Len(events) < MaxEvents
    /\ IF room = NoRoom
       THEN rooms < MaxRooms /\ rooms' = rooms + 1
       ELSE room \in 1..rooms /\ UNCHANGED rooms
    /\ known' = known \cup {start.player}
    /\ games' = Append(games,
           [player |-> start.player, mode |-> start.mode, status |-> "playing", score |-> 0,
            room |-> IF room = NoRoom THEN rooms + 1 ELSE room])
    /\ events' = Append(events, [game |-> Len(games) + 1, type |-> "game_started", points |-> 0])
    /\ endedAt' = Append(endedAt, -1)
    /\ UNCHANGED <<req, flush, reader>>

-----------------------------------------------------------------------------
(* AddGameEventUseCase and FinishGameUseCase: three autocommitted statements *)

Busy == {r \in Requests : req[r].pc \in {"event", "finish", "over"}}
Request(r, pc, g, points) == req' = [req EXCEPT ![r] = [pc |-> pc, game |-> g, points |-> points]]
Idle(r) == req' = [req EXCEPT ![r] = NewRequest]

\* Bound: every request under way may still write its event.
RoomForEvent == Len(events) + Cardinality(Busy) < MaxEvents

\* Mutant: the status of the game is not checked.
AddGameEventBlindly(r, g, points) ==
    /\ req[r].pc = "idle" /\ RoomForEvent
    /\ Request(r, "event", g, points)
    /\ UNCHANGED <<known, rooms, games, events, flush, reader, endedAt>>

AddGameEvent(r, g, points) ==
    /\ req[r].pc = "idle" /\ RoomForEvent
    /\ games[g].status = "playing"
    /\ Request(r, "event", g, points)
    /\ UNCHANGED <<known, rooms, games, events, flush, reader, endedAt>>

\* Mutant: points below zero are added too.
InsertEventAnyPoints(r) ==
    /\ req[r].pc = "event"
    /\ events' = Append(events, [game |-> req[r].game, type |-> "hit", points |-> req[r].points])
    /\ IF req[r].points # 0 THEN Request(r, "points", req[r].game, req[r].points) ELSE Idle(r)
    /\ UNCHANGED <<known, rooms, games, flush, reader, endedAt>>

InsertEvent(r) ==
    /\ req[r].pc = "event"
    /\ events' = Append(events, [game |-> req[r].game, type |-> "hit", points |-> req[r].points])
    /\ IF req[r].points > 0 THEN Request(r, "points", req[r].game, req[r].points) ELSE Idle(r)
    /\ UNCHANGED <<known, rooms, games, flush, reader, endedAt>>

\* Mutant: only a game still playing is updated.
AddPointsPlaying(r) ==
    /\ req[r].pc = "points"
    /\ games' = IF games[req[r].game].status = "playing"
                THEN [games EXCEPT ![req[r].game].score = @ + req[r].points] ELSE games
    /\ Idle(r)
    /\ UNCHANGED <<known, rooms, events, flush, reader, endedAt>>

\* UPDATE games SET score = score + $1 WHERE id = $2, whatever the status is.
AddPoints(r) ==
    /\ req[r].pc = "points"
    /\ games' = [games EXCEPT ![req[r].game].score = @ + req[r].points]
    /\ Idle(r)
    /\ UNCHANGED <<known, rooms, events, flush, reader, endedAt>>

FinishGame(r, g) ==
    /\ req[r].pc = "idle" /\ RoomForEvent
    /\ games[g].status = "playing"
    /\ Request(r, "finish", g, 0)
    /\ UNCHANGED <<known, rooms, games, events, flush, reader, endedAt>>

\* UPDATE games SET status = 'finished' WHERE id = $2, whatever the status is.
SetFinished(r) ==
    LET g == req[r].game IN
    /\ req[r].pc = "finish"
    /\ games' = [games EXCEPT ![g].status = "finished"]
    /\ endedAt' = [endedAt EXCEPT ![g] = IF @ = -1 THEN Len(events) ELSE @]
    /\ Request(r, "over", g, 0)
    /\ UNCHANGED <<known, rooms, events, flush, reader>>

InsertGameOver(r) ==
    /\ req[r].pc = "over"
    /\ events' = Append(events, [game |-> req[r].game, type |-> "game_over", points |-> 0])
    /\ Idle(r)
    /\ UNCHANGED <<known, rooms, games, flush, reader, endedAt>>

-----------------------------------------------------------------------------
(* The previous best and the flush *)

\* get_by_pseudo, in solo only: a player without a row has no best to read.
FlushBegin(f, run) ==
    /\ flush[f].pc = "new"
    /\ flush' = [flush EXCEPT ![f] = [NewFlush EXCEPT
           !.pc = IF run.mode = "solo" /\ run.player \in known THEN "best" ELSE "persist",
           !.run = run]]
    /\ UNCHANGED <<known, rooms, games, events, req, reader, endedAt>>

FlushBest(f) ==
    /\ flush[f].pc = "best"
    /\ flush' = [flush EXCEPT ![f].pc = "persist", ![f].best = BestSoloScore(flush[f].run.player)]
    /\ UNCHANGED <<known, rooms, games, events, req, reader, endedAt>>

FinishedGame(f) == [player |-> flush[f].run.player, mode |-> flush[f].run.mode, room |-> NoRoom,
                    status |-> "finished", score |-> flush[f].run.score]

\* The answer is null in 1v1.
Improved(f) == /\ flush[f].run.mode = "solo"
               /\ flush[f].best = NoScore \/ flush[f].run.score > flush[f].best

\* Mutant: the best is read once the game is in the table.
FlushPersistThenBest(f) ==
    /\ flush[f].pc = "persist" /\ Len(games) < MaxGames
    /\ known' = known \cup {flush[f].run.player}
    /\ games' = Append(games, FinishedGame(f))
    /\ endedAt' = Append(endedAt, Len(events))
    /\ flush' = [flush EXCEPT ![f].pc = "done", ![f].game = Len(games) + 1,
                              ![f].improved = FALSE]
    /\ UNCHANGED <<rooms, events, req, reader>>

\* persist_finished_session commits, then improved is computed.  The events it
\* writes are FinishAndPersist's subject.
FlushPersist(f) ==
    /\ flush[f].pc = "persist" /\ Len(games) < MaxGames
    /\ known' = known \cup {flush[f].run.player}
    /\ games' = Append(games, FinishedGame(f))
    /\ endedAt' = Append(endedAt, Len(events))
    /\ flush' = [flush EXCEPT ![f].pc = "done", ![f].game = Len(games) + 1,
                              ![f].improved = Improved(f)]
    /\ UNCHANGED <<rooms, events, req, reader>>

-----------------------------------------------------------------------------
(* Queries made of several statements; they change nothing *)

Reads == UNCHANGED <<known, rooms, games, events, req, flush, endedAt>>

\* GET /games/list without a filter: one query per status.
ListGames ==
    /\ reader.pc = "idle"
    /\ reader' = [NewReader EXCEPT !.pc = "list", !.from = Len(games),
                      !.rows = {Row(g) : g \in GamesWith(StatusOrder[1])}]
    /\ Reads

ListRest ==
    /\ reader.pc = "list"
    /\ reader' = [reader EXCEPT !.pc = "listed",
                      !.rows = @ \cup {Row(g) : g \in GamesWith(StatusOrder[2])}]
    /\ Reads

\* GET /players/{id}/games: the finished games, then the best solo score.
GetPlayerHistory(p) ==
    /\ reader.pc = "idle" /\ p \in known
    /\ reader' = [NewReader EXCEPT !.pc = "history", !.player = p,
                      !.rows = {Row(g) : g \in {h \in GamesWith("finished") : games[h].player = p}}]
    /\ Reads

HistoryBest ==
    /\ reader.pc = "history"
    /\ reader' = [reader EXCEPT !.pc = "flagged", !.best = BestSoloScore(reader.player)]
    /\ Reads

\* The items marked is_best.
Flagged == {row \in reader.rows : row.mode = "solo" /\ row.score = reader.best}

\* The games of a state are read first, then the events of each.
GetState(gs) ==
    /\ reader.pc = "idle" /\ gs # {}
    /\ reader' = [NewReader EXCEPT !.pc = "events", !.rows = {Row(g) : g \in gs}]
    /\ Reads

ActiveInRoom(room) == {g \in GamesWith("playing") : games[g].room = room}

\* GET /games/{id}
GetGameState(g) == GetState({g})

\* GET /games/rooms/{code}/state; POST /rooms/{code}/join answers its games alone.
GetRoomState(room) == GetState(ActiveInRoom(room))

\* Mutant: a limit of one event.
StateEventsLast(row) ==
    /\ reader.pc = "events" /\ row \in reader.rows /\ row.id \notin DOMAIN reader.seen
    /\ LET seen == (row.id :> Max({0} \cup {events[i].points : i \in {j \in DOMAIN events :
                        /\ events[j].game = row.id
                        /\ \A k \in DOMAIN events : events[k].game = row.id => k <= j}}))
                   @@ reader.seen
       IN  reader' = [reader EXCEPT !.seen = seen,
               !.pc = IF DOMAIN seen = {r.id : r \in reader.rows} THEN "state" ELSE "events"]
    /\ Reads

\* The limit of 10 events is above MaxEvents.
StateEvents(row) ==
    /\ reader.pc = "events" /\ row \in reader.rows /\ row.id \notin DOMAIN reader.seen
    /\ LET seen == [g \in {row.id} \cup DOMAIN reader.seen |->
                       IF g = row.id THEN EventSum(g) ELSE reader.seen[g]]
       IN  reader' = [reader EXCEPT !.seen = seen,
               !.pc = IF DOMAIN seen = {r.id : r \in reader.rows} THEN "state" ELSE "events"]
    /\ Reads

Answer ==
    /\ reader.pc \in {"listed", "flagged", "state"}
    /\ reader' = NewReader
    /\ Reads

RequestStep(r) ==
    \/ \E g \in Ids, points \in Points : AddGameEvent(r, g, points)
    \/ \E g \in Ids : FinishGame(r, g)
    \/ InsertEvent(r) \/ AddPoints(r) \/ SetFinished(r) \/ InsertGameOver(r)

FlushStep(f) ==
    \/ \E run \in Runs : FlushBegin(f, run)
    \/ FlushBest(f) \/ FlushPersist(f)

Query ==
    \/ ListGames \/ ListRest \/ HistoryBest \/ Answer
    \/ \E p \in Players : GetPlayerHistory(p)
    \/ \E g \in Ids : GetGameState(g)
    \/ \E room \in 1..rooms : GetRoomState(room)
    \/ \E row \in reader.rows : StateEvents(row)

Next ==
    \/ CreateRoom
    \/ \E start \in Starts, room \in 0..rooms : StartGame(start, room)
    \/ \E r \in Requests : RequestStep(r)
    \/ \E f \in Flushes : FlushStep(f)
    \/ Query

Spec == Init /\ [][Next]_vars

-----------------------------------------------------------------------------
(* Properties *)

RequestType == [pc: {"idle", "event", "points", "finish", "over"}, game: Nat, points: Int]

\* Rows and requests are well formed; no score is ever below zero.
GamesTypeOK ==
    /\ known \subseteq Players
    /\ rooms \in Nat
    /\ games \in Seq(GameType)
    /\ \A i \in DOMAIN events : events[i].game \in Ids
    /\ req \in [Requests -> RequestType]
    /\ reader.pc \in {"idle", "list", "listed", "history", "flagged", "events", "state"}
    /\ DOMAIN endedAt = Ids

\* The requests that have stored an event of a game and still have to add its points.
Adding(g) == {r \in Requests : req[r].pc = "points" /\ req[r].game = g}

\* The score of a started game is what its stored events are worth, less what
\* AddGameEventUseCase has stored and still has to add: no concurrent request
\* and no finish loses points (UPDATE score = score + points).
ScoreIsEventSum ==
    \A g \in Ids : games[g].room # NoRoom =>
        games[g].score + SumFunctionOnSet([r \in Requests |-> req[r].points], Adding(g))
            = EventSum(g)

\* A finished game gets at most one more event per request that had passed the
\* status check by then, for that check and the writes after it are not atomic.
FewLateEvents ==
    \A g \in Ids : endedAt[g] # -1 =>
        Cardinality({i \in DOMAIN events : events[i].game = g /\ i > endedAt[g]})
            <= Cardinality(Requests)

\* GET /games/list shows every game there was when it was called, although a
\* game may finish between its two queries.
ListMissesNone ==
    reader.pc = "listed" => 1..reader.from \subseteq {row.id : row \in reader.rows}

\* A game marked is_best is no worse than any solo game in the same answer,
\* although the best score is read after the games.
HistoryFlagsBest ==
    reader.pc = "flagged" =>
        \A a \in Flagged : \A b \in reader.rows : b.mode = "solo" => b.score <= a.score

\* A state shows no score that the events shown with it do not account for:
\* the events are stored before the points and read after the game.
StateBacked ==
    reader.pc = "state" =>
        \A row \in reader.rows : games[row.id].room # NoRoom => row.score <= reader.seen[row.id]

\* A solo run answered improved = false had a rival: another finished solo game
\* of the player with at least its score.  However flushes interleave, no
\* record goes unannounced (two may be announced at once).
RecordIsAnnounced ==
    \A f \in Flushes : flush[f].pc = "done" /\ flush[f].run.mode = "solo" /\ ~flush[f].improved =>
        \E g \in GamesWith("finished") \ {flush[f].game} :
            /\ games[g].player = flush[f].run.player /\ games[g].mode = "solo"
            /\ games[g].score >= flush[f].run.score

\* The leaderboard has one entry per player, and leaves no finished game out
\* that is better than an entry.
LeaderboardIsTop ==
    \A modes \in {{"solo"}, {"1v1"}, Modes}, limit \in 1..MaxGames :
        LET top == Leaderboard(modes, limit) IN
        /\ \A i, j \in DOMAIN top : top[i].player = top[j].player => i = j
        /\ \A g \in GamesWith("finished") : games[g].mode \in modes =>
               \/ \E i \in DOMAIN top : /\ top[i].player = games[g].player
                                        /\ top[i].score >= games[g].score
               \/ Len(top) = limit /\ \A i \in DOMAIN top : top[i].score >= games[g].score
=============================================================================
