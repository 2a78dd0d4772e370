---------------------------- MODULE FinishProofs ----------------------------
(***************************************************************************)
(* Machine-checked proofs about the end-of-game flush, for any number of   *)
(* concurrent requests and relays, any points and final scores, and any    *)
(* bound on events, flushes and failures.                                  *)
(*                                                                         *)
(* FlushInv adds to LoadedInv (MatchSyncProofs) that a flusher which still *)
(* has to use its copy of the session holds a session, and that the MQTT   *)
(* handler waits for the flush it awaits.  The other invariants build on   *)
(* it, each with a section of its own.                                     *)
(***************************************************************************)
EXTENDS FinishAndPersist, MatchSyncProofs, Induction

-----------------------------------------------------------------------------
(* The rows of the saved events *)

\* Every topic that reaches the buffer has an event type: no event is dropped.
LEMMA EventRowsKeepAll == ASSUME NEW s \in Seq(Event) PROVE EventRows(s) = s
  <1> DEFINE Row(f, i) == IF i = 0 THEN <<>>
                          ELSE IF s[i].topic \in Mapped THEN Append(f[i - 1], s[i])
                          ELSE f[i - 1]
             prefixes == [i \in 0 .. Len(s) |-> SubSeq(s, 1, i)]
             rows == CHOOSE f : f = [i \in 0 .. Len(s) |-> Row(f, i)]
  <1>1. \A i \in 1 .. Len(s) : s[i] \in Event /\ s[i].topic \in Mapped
    <2> TAKE i \in 1 .. Len(s)
    <2>1. s[i] \in Event
      OBVIOUS
    <2>2. QED
      BY <2>1 DEF Event, Topics, Mapped
  <1>2. prefixes = [i \in 0 .. Len(s) |-> Row(prefixes, i)]
    <2> SUFFICES ASSUME NEW i \in 0 .. Len(s) PROVE SubSeq(s, 1, i) = Row(prefixes, i)
      OBVIOUS
    <2>1. CASE i = 0
      BY <2>1
    <2>2. CASE i > 0
      <3>1. i \in 1 .. Len(s) /\ i - 1 \in 0 .. Len(s)
        BY <2>2
      <3>2. SubSeq(s, 1, i) = Append(SubSeq(s, 1, i - 1), s[i])
        BY <3>1
      <3>3. QED
        BY <1>1, <2>2, <3>1, <3>2
    <2>3. QED
      BY <2>1, <2>2
  <1>3. rows = [i \in 0 .. Len(s) |-> Row(rows, i)]
    <2> HIDE DEF Row, prefixes
    <2>1. \E f : f = [i \in 0 .. Len(s) |-> Row(f, i)]
      BY <1>2
    <2>2. QED
      BY <2>1
  <1>4. EventRows(s) = rows[Len(s)]
    BY DEF EventRows
  <1>5. Len(s) \in Nat /\ prefixes[0] = <<>> /\ prefixes[Len(s)] = s
    OBVIOUS
  <1>6. \A i \in 0 .. Len(s) : rows[i] = Row(rows, i) /\ prefixes[i] = Row(prefixes, i)
    <2> HIDE DEF rows, prefixes, Row
    <2>1. QED
      BY <1>2, <1>3
  <1> HIDE DEF rows, prefixes
  <1>7. rows[0] = prefixes[0]
    BY <1>5, <1>6
  <1>8. \A i \in 1 .. Len(s) : rows[i - 1] = prefixes[i - 1] => rows[i] = prefixes[i]
    BY <1>5, <1>6
  <1> HIDE DEF Row
  <1>9. \A i \in 0 .. Len(s) : rows[i] = prefixes[i]
    BY <1>5, <1>7, <1>8, SameRecursion
  <1>10. QED
    BY <1>4, <1>5, <1>9

-----------------------------------------------------------------------------
(* Types, copies and the waiting consumer *)

\* A flusher that still has to use its copy of the session holds a session.
CopiesLoaded ==
    \A f \in Flushers :
        flush[f].pc \in {"relaying", "loaded", "read"} => flush[f].snap \in Session

\* The MQTT handler awaits the flush: it handles no other event meanwhile.
ConsumerWaits == flush[Consumer].pc # "idle" => mqtt.pc = "ended"

FlushInv == LoadedInv /\ FlushTypeOK /\ CopiesLoaded /\ ConsumerWaits

LEMMA IdleFlushType == IdleFlush \in FlushType
  BY DEF IdleFlush, FlushType

\* The entry of a flusher that has loaded session s, without or with the final
\* score a relay carries.
LEMMA LoadedCopy ==
  ASSUME NEW s \in Session
  PROVE  /\ [IdleFlush EXCEPT !.pc = "loaded", !.snap = s] \in FlushType
         /\ [IdleFlush EXCEPT !.pc = "loaded", !.snap = s].pc = "loaded"
         /\ [IdleFlush EXCEPT !.pc = "loaded", !.snap = s].snap = s
  <1> DEFINE d == [IdleFlush EXCEPT !.pc = "loaded"]
  <1>1. d \in FlushType /\ d.pc = "loaded"
    BY IdleFlushType DEF FlushType
  <1>2. [d EXCEPT !.snap = s] \in FlushType
    BY <1>1 DEF FlushType
  <1>3. QED
    BY <1>1, <1>2 DEF FlushType

LEMMA RelayCopy ==
  ASSUME NEW s \in Session, NEW n \in Nat
  PROVE  /\ [IdleFlush EXCEPT !.pc = "relaying", !.snap = s, !.final = n] \in FlushType
         /\ [IdleFlush EXCEPT !.pc = "relaying", !.snap = s, !.final = n].pc = "relaying"
         /\ [IdleFlush EXCEPT !.pc = "relaying", !.snap = s, !.final = n].snap = s
         /\ [IdleFlush EXCEPT !.pc = "relaying", !.snap = s, !.final = n].final = n
  <1> DEFINE d == [IdleFlush EXCEPT !.pc = "relaying"]
             e == [d EXCEPT !.snap = s]
  <1>1. d \in FlushType /\ d.pc = "relaying"
    BY IdleFlushType DEF FlushType
  <1>2. e \in FlushType /\ e.pc = "relaying" /\ e.snap = s
    BY <1>1 DEF FlushType
  <1>3. [e EXCEPT !.final = n] \in FlushType
    BY <1>2 DEF FlushType
  <1>4. QED
    BY <1>2, <1>3 DEF FlushType

LEMMA InitFlushInv == FlushInit => FlushInv
  <1> SUFFICES ASSUME FlushInit PROVE FlushInv
    OBVIOUS
  <1>1. LoadedInv
    BY InitLoaded DEF FlushInit
  <1>2. FlushTypeOK
    BY <1>1, IdleFlushType
       DEF FlushInit, FlushTypeOK, LoadedInv, BorneStates, Screens!Relations
  <1>3. CopiesLoaded /\ ConsumerWaits
    BY DEF FlushInit, CopiesLoaded, ConsumerWaits, IdleFlush, Flushers
  <1>4. QED
    BY <1>1, <1>2, <1>3 DEF FlushInv

\* What a flusher does to the match: it leaves requests alone and the consumer
\* alone or done, and stores a session, or nothing.
LEMMA FlusherLoaded ==
  ASSUME LoadedInv, session' \in Session \cup {NoSession}, buffer' \in Seq(Event),
         mqtt' = mqtt \/ mqtt' = IdleMqtt, hist' \in HistType, UNCHANGED <<task, announced>>
  PROVE  LoadedInv'
  BY IdleTypes DEF LoadedInv, TypeOK, TasksLoaded, MqttLoaded, IdleMqtt

\* A flusher that goes from one step of the flush to the next.
LEMMA FlusherMoves ==
  ASSUME FlushInv, LoadedInv', games' \in Seq(Game), borne' \in BorneStates, flushes' \in Nat,
         NEW f \in Flushers, NEW e \in FlushType, flush' = [flush EXCEPT ![f] = e],
         e.pc \in {"relaying", "loaded", "read"} => e.snap \in Session,
         mqtt' = mqtt \/ (f = Consumer /\ e.pc = "idle"),
         f = Consumer /\ e.pc # "idle" => mqtt.pc = "ended"
  PROVE  FlushInv'
  <1>1. FlushTypeOK'
    BY DEF FlushInv, FlushTypeOK, LoadedInv
  <1>2. CopiesLoaded'
    BY DEF FlushInv, FlushTypeOK, CopiesLoaded
  <1>3. ConsumerWaits'
    BY DEF FlushInv, FlushTypeOK, ConsumerWaits, Flushers
  <1>4. QED
    BY <1>1, <1>2, <1>3 DEF FlushInv

\* A flusher that moves on with the copy it holds, and touches only its state.
LEMMA GoesOn ==
  ASSUME FlushInv, NEW f \in Flushers, NEW pc, Goto(f, pc), flush[f].pc # "idle",
         pc \in {"relayed", "finishing", "guarded", "marking", "marked", "cleared"},
         UNCHANGED <<session, task, mqtt, announced, hist, games, flushes>>,
         buffer' \in Seq(Event), borne' \in BorneStates
  PROVE  FlushInv'
  <1> DEFINE e == [flush[f] EXCEPT !.pc = pc]
  <1>1. flush[f] \in FlushType
    BY DEF FlushInv, FlushTypeOK
  <1>2. e \in FlushType /\ e.pc = pc
    BY <1>1 DEF FlushType
  <1>3. flush' = [flush EXCEPT ![f] = e]
    BY DEF Goto, FlushInv, FlushTypeOK
  <1>4. LoadedInv'
    BY FlusherLoaded DEF FlushInv, LoadedInv, TypeOK
  <1>5. f = Consumer => mqtt.pc = "ended"
    BY DEF FlushInv, ConsumerWaits
  <1> HIDE DEF e
  <1>6. QED
    BY <1>2, <1>3, <1>4, <1>5, FlusherMoves DEF FlushInv, FlushTypeOK

\* A flusher that is done, or has failed.
LEMMA ReturnInv ==
  ASSUME FlushInv, NEW f \in Flushers, Return(f),
         session' \in Session \cup {NoSession}, hist' \in HistType,
         UNCHANGED <<buffer, task, announced, games, borne, flushes>>
  PROVE  FlushInv'
  <1>1. LoadedInv'
    BY FlusherLoaded DEF Return, FlushInv, LoadedInv, TypeOK
  <1>2. IdleFlush \in FlushType /\ IdleFlush.pc = "idle"
    BY IdleFlushType DEF IdleFlush
  <1>3. QED
    BY <1>1, <1>2, FlusherMoves DEF Return, FlushInv, FlushTypeOK

\* A flusher that has read the session starts the flush proper.
LEMMA LoadSessionInv ==
  ASSUME FlushInv, NEW f \in Flushers, LoadSession(f),
         UNCHANGED <<vars, games, borne>>, flushes' \in Nat,
         f = Consumer => mqtt.pc = "ended"
  PROVE  FlushInv'
  <1> DEFINE e == [IdleFlush EXCEPT !.pc = "loaded", !.snap = session]
  <1>1. session \in Session
    BY DEF LoadSession, FlushInv, LoadedInv, TypeOK
  <1>2. e \in FlushType /\ e.pc = "loaded" /\ e.snap \in Session
    BY <1>1, LoadedCopy
  <1>3. flush' = [flush EXCEPT ![f] = e]
    BY DEF LoadSession
  <1>4. LoadedInv'
    BY FlusherLoaded DEF FlushInv, LoadedInv, TypeOK, vars
  <1> HIDE DEF e
  <1>5. QED
    BY <1>2, <1>3, <1>4, FlusherMoves DEF FlushInv, FlushTypeOK, vars

LEMMA RelayLoadInv == ASSUME FlushInv, NEW r \in Flushers, RelayLoad(r) PROVE FlushInv'
  <1>1. ASSUME session # NoSession, NEW final \in FinalScores,
               flush' = [flush EXCEPT ![r] = [IdleFlush EXCEPT !.pc = "relaying",
                                                !.snap = session, !.final = final]]
        PROVE  FlushInv'
    <2> DEFINE e == [IdleFlush EXCEPT !.pc = "relaying", !.snap = session, !.final = final]
    <2>1. session \in Session /\ final \in Nat
      BY <1>1, FinalScoresAssumption DEF FlushInv, LoadedInv, TypeOK
    <2>2. e \in FlushType /\ e.pc = "relaying" /\ e.snap \in Session
      BY <2>1, RelayCopy
    <2>3. flush' = [flush EXCEPT ![r] = e]
      BY <1>1
    <2>4. LoadedInv'
      BY FlusherLoaded DEF RelayLoad, FlushInv, LoadedInv, TypeOK, vars
    <2>5. r = Consumer => mqtt.pc = "ended"
      BY DEF RelayLoad, FlushInv, ConsumerWaits
    <2> HIDE DEF e
    <2>6. QED
      BY <2>2, <2>3, <2>4, <2>5, FlusherMoves DEF RelayLoad, FlushInv, FlushTypeOK, vars
  <1>2. CASE Goto(r, "finishing")
    BY <1>2, GoesOn DEF RelayLoad, FlushInv, FlushTypeOK, LoadedInv, TypeOK, vars
  <1>3. QED
    BY <1>1, <1>2 DEF RelayLoad

\* The relay stores its copy with the final score: a session, stale or not.
LEMMA RelayScoreFacts ==
  ASSUME FlushInv, NEW r \in Flushers, RelayScore(r)
  PROVE  /\ flush[r].snap \in Session /\ flush[r].final \in Nat
         /\ session' \in Session /\ session'.score = flush[r].final
         /\ hist' \in HistType
         /\ hist'.accepted = hist.accepted /\ hist'.earned = hist.earned
         /\ hist'.created = hist.created /\ hist'.faults = hist.faults
         /\ hist'.stale = (hist.stale \/ session # flush[r].snap)
  <1>1. flush[r].snap \in Session /\ flush[r].final \in Nat
    BY DEF RelayScore, FlushInv, FlushTypeOK, CopiesLoaded, FlushType
  <1>2. session' \in Session /\ session'.score = flush[r].final
    BY <1>1 DEF RelayScore, Session
  <1>3. QED
    BY <1>1, <1>2 DEF RelayScore, FlushInv, LoadedInv, TypeOK, HistType

LEMMA RelayScoreInv == ASSUME FlushInv, NEW r \in Flushers, RelayScore(r) PROVE FlushInv'
  <1> DEFINE e == [IdleFlush EXCEPT !.pc = "finishing"]
  <1>1. e \in FlushType /\ e.pc = "finishing"
    BY IdleFlushType DEF FlushType, IdleFlush
  <1>2. flush' = [flush EXCEPT ![r] = e]
    BY DEF RelayScore, Restart
  <1>3. LoadedInv'
    BY RelayScoreFacts, FlusherLoaded DEF RelayScore, FlushInv, LoadedInv, TypeOK
  <1>4. r = Consumer => mqtt.pc = "ended"
    BY DEF RelayScore, FlushInv, ConsumerWaits
  <1> HIDE DEF e
  <1>5. QED
    BY <1>1, <1>2, <1>3, <1>4, FlusherMoves DEF RelayScore, FlushInv, FlushTypeOK

\* The guard on the active session: past it, or back to the caller.
LEMMA FinishBorneGameInv ==
  ASSUME FlushInv, NEW f \in Flushers, FinishBorneGame(f) PROVE FlushInv'
  <1>1. ASSUME Goto(f, "guarded"), mqtt' = mqtt PROVE FlushInv'
    <2> DEFINE e == [flush[f] EXCEPT !.pc = "guarded"]
    <2>1. e \in FlushType /\ e.pc = "guarded"
      BY DEF FlushInv, FlushTypeOK, FlushType
    <2>2. flush' = [flush EXCEPT ![f] = e]
      BY <1>1 DEF Goto, FlushInv, FlushTypeOK
    <2>3. LoadedInv'
      BY <1>1, FlusherLoaded DEF FinishBorneGame, FlushInv, LoadedInv, TypeOK
    <2>4. f = Consumer => mqtt.pc = "ended"
      BY DEF FinishBorneGame, FlushInv, ConsumerWaits
    <2> HIDE DEF e
    <2>5. QED
      BY <1>1, <2>1, <2>2, <2>3, <2>4, FlusherMoves
         DEF FinishBorneGame, FlushInv, FlushTypeOK
  <1>2. ASSUME Return(f) PROVE FlushInv'
    BY <1>2, ReturnInv DEF FinishBorneGame, FlushInv, LoadedInv, TypeOK
  <1>3. QED
    BY <1>1, <1>2 DEF FinishBorneGame

LEMMA FlushMarkedInv == ASSUME FlushInv, NEW f \in Flushers, FlushMarked(f) PROVE FlushInv'
  <1>1. ASSUME LoadSession(f), mqtt' = mqtt PROVE FlushInv'
    <2>1. f = Consumer => mqtt.pc = "ended"
      BY DEF FlushMarked, FlushInv, ConsumerWaits
    <2>2. flushes' \in Nat
      BY DEF FlushMarked, FlushInv, FlushTypeOK
    <2>3. QED
      BY <1>1, <2>1, <2>2, LoadSessionInv DEF FlushMarked, vars
  <1>2. ASSUME Return(f) PROVE FlushInv'
    BY <1>2, ReturnInv DEF FlushMarked, FlushInv, LoadedInv, TypeOK
  <1>3. QED
    BY <1>1, <1>2 DEF FlushMarked

LEMMA ReadEventsInv == ASSUME FlushInv, NEW f \in Flushers, ReadEvents(f) PROVE FlushInv'
  <1> DEFINE e == [flush[f] EXCEPT !.pc = "read", !.events = buffer]
  <1>1. flush[f] \in FlushType /\ flush[f].snap \in Session /\ buffer \in Seq(Event)
    BY DEF ReadEvents, FlushInv, FlushTypeOK, CopiesLoaded, LoadedInv, TypeOK
  <1>2. e \in FlushType /\ e.pc = "read" /\ e.snap \in Session
    BY <1>1 DEF FlushType
  <1>3. flush' = [flush EXCEPT ![f] = e]
    BY DEF ReadEvents, FlushInv, FlushTypeOK, FlushType
  <1>4. LoadedInv'
    BY FlusherLoaded DEF ReadEvents, FlushInv, LoadedInv, TypeOK, vars
  <1>5. f = Consumer => mqtt.pc = "ended"
    BY DEF ReadEvents, FlushInv, ConsumerWaits
  <1> HIDE DEF e
  <1>6. QED
    BY <1>2, <1>3, <1>4, <1>5, FlusherMoves DEF ReadEvents, FlushInv, FlushTypeOK, vars

\* The game a flusher commits: the score it has read and the events it has read.
LEMMA PersistFacts ==
  ASSUME FlushInv, NEW f \in Flushers, Persist(f)
  PROVE  /\ flush[f].snap \in Session /\ flush[f].events \in Seq(Event)
         /\ games \in Seq(Game) /\ games' \in Seq(Game)
         /\ Len(games) \in Nat /\ Len(games') = Len(games) + 1
         /\ \A g \in 1 .. Len(games) : games'[g] = games[g]
         /\ games'[Len(games) + 1].score = flush[f].snap.score
         /\ games'[Len(games) + 1].events = flush[f].events
  <1>1. flush[f].snap \in Session /\ flush[f].events \in Seq(Event) /\ games \in Seq(Game)
    BY DEF Persist, FlushInv, FlushTypeOK, CopiesLoaded, FlushType
  <1> DEFINE game == [score |-> flush[f].snap.score, events |-> flush[f].events]
  <1>2. games' = Append(games, game)
    BY <1>1, EventRowsKeepAll DEF Persist
  <1>3. game \in Game /\ game.score = flush[f].snap.score /\ game.events = flush[f].events
    BY <1>1 DEF Game, Session
  <1> HIDE DEF game
  <1>4. QED
    BY <1>1, <1>2, <1>3

LEMMA PersistInv == ASSUME FlushInv, NEW f \in Flushers, Persist(f) PROVE FlushInv'
  <1> DEFINE e == [IdleFlush EXCEPT !.pc = "committed"]
  <1>1. e \in FlushType /\ e.pc = "committed"
    BY IdleFlushType DEF FlushType, IdleFlush
  <1>2. flush' = [flush EXCEPT ![f] = e]
    BY DEF Persist, Restart
  <1>3. LoadedInv'
    BY FlusherLoaded DEF Persist, FlushInv, LoadedInv, TypeOK, vars
  <1>4. f = Consumer => mqtt.pc = "ended"
    BY DEF Persist, FlushInv, ConsumerWaits
  <1> HIDE DEF e
  <1>5. QED
    BY <1>1, <1>2, <1>3, <1>4, PersistFacts, FlusherMoves
       DEF Persist, FlushInv, FlushTypeOK, vars

LEMMA FlushRunsInv == ASSUME FlushInv, NEW f \in Flushers, FlushRuns(f) PROVE FlushInv'
  <1>1. buffer \in Seq(Event) /\ <<>> \in Seq(Event)
        /\ session \in Session \cup {NoSession} /\ hist \in HistType
        /\ borne \in BorneStates /\ "game_over" \in BorneStates
    BY DEF FlushInv, FlushTypeOK, LoadedInv, TypeOK, BorneStates, Screens!Relations
  <1>2. CASE LoadBorne(f)
    BY <1>1, <1>2, GoesOn DEF LoadBorne, vars
  <1>3. CASE MarkGameOver(f)
    BY <1>1, <1>3, GoesOn DEF MarkGameOver, vars
  <1>4. CASE ClearBuffer(f)
    BY <1>1, <1>4, GoesOn DEF ClearBuffer
  <1>5. CASE DeleteSession(f)
    BY <1>1, <1>5, ReturnInv DEF DeleteSession
  <1>6. QED
    BY <1>2, <1>3, <1>4, <1>5, RelayLoadInv, RelayScoreInv, FinishBorneGameInv,
       FlushMarkedInv, ReadEventsInv, PersistInv DEF FlushRuns

\* MatchSync's own steps leave a waiting consumer alone.
LEMMA StepWaits ==
  ASSUME LoadedInv, Step, mqtt.pc = "ended" PROVE mqtt' = mqtt
  BY DEF Step, CreateSession, Request, ReadyUp, PauseSession, ResumeSession, AbandonSession,
         Load, TaskRuns, Save, Announce, Tick, EndCountdown, FailTask, Hit, HandleMqttEvent,
         Consume, MqttSave, MqttPush, MqttAnnounce

LEMMA FlushNextInv == ASSUME FlushInv, [FlushNext]_allVars PROVE FlushInv'
  <1> USE DEF FlushInv
  <1>1. ASSUME NEW r \in Requests, PostScores(r) PROVE FlushInv'
    <2>1. r \in Flushers /\ r # Consumer /\ flushes' \in Nat
      BY <1>1, ConsumerAssumption DEF Flushers, PostScores, CountFlush, FlushTypeOK
    <2>2. QED
      BY <1>1, <2>1, LoadSessionInv DEF PostScores
  <1>2. ASSUME NEW r \in Requests, RelayGameOver(r) PROVE FlushInv'
    <2> DEFINE e == [flush[r] EXCEPT !.pc = "relayed"]
    <2>1. r \in Flushers /\ r # Consumer /\ flushes' \in Nat
      BY <1>2, ConsumerAssumption DEF Flushers, RelayGameOver, CountFlush, FlushTypeOK
    <2>2. e \in FlushType /\ e.pc = "relayed"
      BY <2>1 DEF FlushTypeOK, FlushType
    <2>3. flush' = [flush EXCEPT ![r] = e]
      BY <1>2 DEF RelayGameOver, Goto, FlushTypeOK
    <2>4. LoadedInv'
      BY <1>2, FlusherLoaded DEF RelayGameOver, LoadedInv, TypeOK, vars
    <2> HIDE DEF e
    <2>5. QED
      BY <1>2, <2>1, <2>2, <2>3, <2>4, FlusherMoves DEF RelayGameOver, FlushTypeOK, vars
  <1>3. ASSUME NEW f \in Flushers, FailFlush(f) PROVE FlushInv'
    <2>1. hist' \in HistType
      BY <1>3, FaultType DEF FailFlush
    <2>2. QED
      BY <1>3, <2>1, ReturnInv DEF FailFlush, redis, LoadedInv, TypeOK
  <1>4. CASE BorneMoves
    BY <1>4, FlusherLoaded
       DEF BorneMoves, vars, LoadedInv, TypeOK, FlushTypeOK, CopiesLoaded, ConsumerWaits
  <1>5. CASE MatchStep
    <2>1. LoadedInv' /\ UNCHANGED flushVars
      BY <1>5, StepLoaded DEF MatchStep
    <2>2. ConsumerWaits'
      BY <1>5, <2>1, StepWaits DEF MatchStep, flushVars, ConsumerWaits
    <2>3. QED
      BY <2>1, <2>2 DEF flushVars, LoadedInv, FlushTypeOK, CopiesLoaded
  <1>6. CASE MatchFails
    <2>1. LoadedInv' /\ UNCHANGED flushVars /\ flush[Consumer].pc = "idle"
      BY <1>6, FaultType, IdleConsumerLoaded DEF MatchFails, FailMqtt
    <2>2. QED
      BY <2>1 DEF flushVars, LoadedInv, FlushTypeOK, CopiesLoaded, ConsumerWaits
  <1>7. CASE FlushCrash
    <2>1. LoadedInv' /\ flush' \in [Flushers -> FlushType]
      BY <1>7, CrashLoaded, IdleFlushType DEF FlushCrash
    <2>2. CopiesLoaded' /\ ConsumerWaits'
      BY <1>7 DEF FlushCrash, CopiesLoaded, ConsumerWaits, IdleFlush, Flushers
    <2>3. QED
      BY <1>7, <2>1, <2>2 DEF FlushCrash, LoadedInv, FlushTypeOK
  <1>8. CASE UNCHANGED allVars
    BY <1>8, FlusherLoaded
       DEF allVars, vars, flushVars, LoadedInv, TypeOK, FlushTypeOK, CopiesLoaded, ConsumerWaits
  <1>9. QED
    BY <1>1, <1>2, <1>3, <1>4, <1>5, <1>6, <1>7, <1>8, FlushRunsInv DEF FlushNext

LEMMA FlushInvAlways == FlushSpec => []FlushInv
  BY InitFlushInv, FlushNextInv, PTL DEF FlushSpec

\* Whatever flushes, relays, commands and failures overlap, every state has the
\* types of FlushTypeOK; a finished game is made of a score and events.
THEOREM FlushTypes == FlushSpec => []FlushTypeOK
  <1>1. FlushInv => FlushTypeOK
    BY DEF FlushInv
  <1>2. QED
    BY <1>1, FlushInvAlways, PTL

-----------------------------------------------------------------------------
(* What each step does to the flushers *)

OthersStay(f) == \A g \in Flushers : g # f => flush'[g] = flush[g]

LEMMA LoadSessionFacts ==
  ASSUME FlushInv, NEW f \in Flushers, LoadSession(f)
  PROVE  /\ session \in Session /\ OthersStay(f)
         /\ flush'[f].pc = "loaded" /\ flush'[f].snap = session
  <1>1. session \in Session
    BY DEF LoadSession, FlushInv, LoadedInv, TypeOK
  <1>2. flush'[f] = [IdleFlush EXCEPT !.pc = "loaded", !.snap = session] /\ OthersStay(f)
    BY DEF LoadSession, FlushInv, FlushTypeOK, OthersStay
  <1>3. QED
    BY <1>1, <1>2, LoadedCopy

LEMMA RelayLoadFacts ==
  ASSUME FlushInv, NEW r \in Flushers, RelayLoad(r)
  PROVE  /\ OthersStay(r) /\ flush'[r].pc \in {"relaying", "finishing"}
         /\ flush'[r].pc = "relaying" =>
              /\ session \in Session /\ flush'[r].snap = session
              /\ flush'[r].final \in FinalScores
  <1>1. ASSUME session # NoSession, NEW final \in FinalScores,
               flush' = [flush EXCEPT ![r] = [IdleFlush EXCEPT !.pc = "relaying",
                                                !.snap = session, !.final = final]]
        PROVE  /\ OthersStay(r) /\ flush'[r].pc = "relaying"
               /\ session \in Session /\ flush'[r].snap = session
               /\ flush'[r].final \in FinalScores
    <2>1. session \in Session /\ final \in Nat
      BY <1>1, FinalScoresAssumption DEF FlushInv, LoadedInv, TypeOK
    <2>2. /\ flush'[r] = [IdleFlush EXCEPT !.pc = "relaying", !.snap = session, !.final = final]
          /\ OthersStay(r)
      BY <1>1 DEF FlushInv, FlushTypeOK, OthersStay
    <2> DEFINE e == [IdleFlush EXCEPT !.pc = "relaying", !.snap = session, !.final = final]
    <2>3. e.pc = "relaying" /\ e.snap = session /\ e.final = final
      BY <2>1, RelayCopy
    <2> HIDE DEF e
    <2>4. QED
      BY <1>1, <2>1, <2>2, <2>3 DEF e
  <1>2. ASSUME Goto(r, "finishing")
        PROVE  OthersStay(r) /\ flush'[r].pc = "finishing"
    BY <1>2 DEF Goto, FlushInv, FlushTypeOK, FlushType, OthersStay
  <1>3. QED
    BY <1>1, <1>2 DEF RelayLoad

LEMMA GotoFacts ==
  ASSUME FlushInv, NEW f \in Flushers, NEW pc, Goto(f, pc)
  PROVE  /\ OthersStay(f) /\ flush'[f].pc = pc
         /\ flush'[f].snap = flush[f].snap /\ flush'[f].events = flush[f].events
  BY DEF Goto, FlushInv, FlushTypeOK, FlushType, OthersStay

LEMMA RestartFacts ==
  ASSUME FlushInv, NEW f \in Flushers, NEW pc, Restart(f, pc)
  PROVE  OthersStay(f) /\ flush'[f].pc = pc
  BY DEF Restart, IdleFlush, FlushInv, FlushTypeOK, OthersStay

LEMMA ReturnFacts ==
  ASSUME FlushInv, NEW f \in Flushers, Return(f)
  PROVE  OthersStay(f) /\ flush'[f].pc = "idle"
  BY DEF Return, IdleFlush, FlushInv, FlushTypeOK, OthersStay

LEMMA ReadEventsFacts ==
  ASSUME FlushInv, NEW f \in Flushers, ReadEvents(f)
  PROVE  /\ OthersStay(f) /\ flush'[f].pc = "read" /\ flush[f].pc = "loaded"
         /\ flush'[f].snap = flush[f].snap /\ flush'[f].events = buffer
  BY DEF ReadEvents, FlushInv, FlushTypeOK, FlushType, OthersStay

\* The steps that only move a flusher on, or end it.
Passes(f) ==
    \/ RelayLoad(f) \/ FinishBorneGame(f) \/ LoadBorne(f) \/ MarkGameOver(f)
    \/ FlushMarked(f) \/ ReadEvents(f)
    \/ f \in Requests /\ (PostScores(f) \/ RelayGameOver(f))

LEMMA PassesFacts ==
  ASSUME FlushInv, NEW f \in Flushers, Passes(f)
  PROVE  /\ OthersStay(f)
         /\ UNCHANGED <<session, buffer, task, announced, hist, games>>
         /\ mqtt' = mqtt \/ (mqtt' = IdleMqtt /\ mqtt.pc = "ended")
         /\ flush[f].pc \notin {"read", "committed", "cleared"}
         /\ flush'[f].pc \in {"idle", "relayed", "relaying", "finishing", "guarded",
                              "marking", "marked", "loaded", "read"}
         /\ flush'[f].pc \in {"relaying", "loaded"} =>
              session \in Session /\ flush'[f].snap = session
         /\ flush'[f].pc = "relaying" => flush'[f].final \in FinalScores
         /\ flush'[f].pc \in {"relayed", "relaying"} =>
              flush[f].pc = "relayed" \/ (f \in Requests /\ flushes' = flushes + 1)
         /\ flush'[f].pc = "read" => /\ flush[f].pc = "loaded"
                                     /\ flush'[f].snap = flush[f].snap
                                     /\ flush'[f].events = buffer
  <1>1. CASE RelayLoad(f)
    <2>1. flush[f].pc = "relayed" /\ UNCHANGED <<vars, games>>
      BY <1>1 DEF RelayLoad
    <2>2. QED
      BY <1>1, <2>1, RelayLoadFacts DEF vars
  <1>2. CASE FinishBorneGame(f)
    <2>1. /\ mqtt.pc = "ended" \/ f # Consumer
          /\ flush[f].pc \in {"finishing", "idle"}
      BY <1>2 DEF FinishBorneGame, FlushInv, ConsumerWaits
    <2>2. QED
      BY <1>2, <2>1, GotoFacts, ReturnFacts DEF FinishBorneGame, Return
  <1>3. CASE LoadBorne(f) \/ MarkGameOver(f)
    BY <1>3, GotoFacts DEF LoadBorne, MarkGameOver, vars
  <1>4. CASE FlushMarked(f)
    <2>1. mqtt.pc = "ended" \/ f # Consumer
      BY <1>4 DEF FlushMarked, FlushInv, ConsumerWaits
    <2>2. QED
      BY <1>4, <2>1, LoadSessionFacts, ReturnFacts DEF FlushMarked, Return
  <1>5. CASE ReadEvents(f)
    BY <1>5, ReadEventsFacts DEF ReadEvents, vars
  <1>6. CASE f \in Requests /\ (PostScores(f) \/ RelayGameOver(f))
    BY <1>6, LoadSessionFacts, GotoFacts DEF PostScores, RelayGameOver, CountFlush, vars
  <1>7. QED
    BY <1>1, <1>2, <1>3, <1>4, <1>5, <1>6 DEF Passes

\* What is left to look at in each proof below.
LEMMA FlushCases ==
  ASSUME [FlushNext]_allVars
  PROVE  \/ \E f \in Flushers : \/ Passes(f) \/ RelayScore(f) \/ Persist(f)
                                \/ ClearBuffer(f) \/ DeleteSession(f) \/ FailFlush(f)
         \/ MatchStep \/ MatchFails \/ FlushCrash
         \/ UNCHANGED <<vars, games, flush>>
  <1>1. BorneMoves => UNCHANGED <<vars, games, flush>>
    BY DEF BorneMoves
  <1>2. UNCHANGED allVars => UNCHANGED <<vars, games, flush>>
    BY DEF allVars, flushVars
  <1>3. QED
    BY <1>1, <1>2 DEF FlushNext, FlushRuns, Passes, Flushers

-----------------------------------------------------------------------------
(* No run is lost *)

\* A flusher that is past its transaction has committed a game.
CleansAfterCommit ==
    \A f \in Flushers : flush[f].pc \in {"committed", "cleared"} => games # <<>>

LEMMA StepKeepsSession ==
  ASSUME LoadedInv, Step, session' = NoSession
  PROVE  session = NoSession /\ hist'.created = hist.created
  <1>1. ~CreateSession
    BY NoSessionAssumption, LivesAssumption DEF CreateSession, NewSession, Session, Status
  <1>2. ASSUME NEW t \in Tasks PROVE ~Save(t)
    BY <1>2, SaveLoaded, NoSessionAssumption
  <1>3. ~MqttSave
    BY MqttSaveFacts, NoSessionAssumption
  <1>4. ASSUME NEW t \in Tasks, Tick(t) PROVE UNCHANGED session /\ hist'.created = hist.created
    BY <1>4 DEF Tick
  <1>5. ASSUME NEW t \in Tasks, FailTask(t) PROVE UNCHANGED session /\ hist'.created = hist.created
    BY <1>5, FaultType DEF FailTask
  <1>6. ASSUME NEW t \in Tasks, Request(t) \/ TaskRuns(t)
        PROVE  UNCHANGED session /\ hist'.created = hist.created
    BY <1>2, <1>4, <1>6 DEF Request, ReadyUp, PauseSession, ResumeSession, AbandonSession,
                            Load, TaskRuns, Announce, EndCountdown
  <1>7. ASSUME Hit \/ MqttPush \/ MqttAnnounce
        PROVE  UNCHANGED session /\ hist'.created = hist.created
    BY <1>7 DEF Hit, HandleMqttEvent, MqttPush, MqttAnnounce
  <1>8. QED
    BY <1>1, <1>3, <1>5, <1>6, <1>7 DEF Step, Consume

LEMMA NoRunLostStep ==
  ASSUME FlushInv, CleansAfterCommit, NoRunLost, [FlushNext]_allVars
  PROVE  CleansAfterCommit' /\ NoRunLost'
  \* A step that neither removes the session nor brings a flusher to the cleanup.
  <1>0. ASSUME UNCHANGED games, session' = NoSession => session = NoSession,
               hist'.created = hist.created \/ session' # NoSession,
               \A f \in Flushers : flush'[f].pc \in {"committed", "cleared"} =>
                                      flush[f].pc \in {"committed", "cleared"}
        PROVE  CleansAfterCommit' /\ NoRunLost'
    BY <1>0 DEF CleansAfterCommit, NoRunLost
  <1>1. ASSUME NEW f \in Flushers, Passes(f) PROVE CleansAfterCommit' /\ NoRunLost'
    BY <1>0, <1>1, PassesFacts DEF OthersStay
  <1>2. ASSUME NEW f \in Flushers, RelayScore(f) PROVE CleansAfterCommit' /\ NoRunLost'
    BY <1>0, <1>2, RelayScoreFacts, RestartFacts, NoSessionAssumption DEF RelayScore, OthersStay
  <1>3. ASSUME NEW f \in Flushers, Persist(f) PROVE CleansAfterCommit' /\ NoRunLost'
    <2>1. games' # <<>>
      <3>1. Len(games) \in Nat /\ Len(games') = Len(games) + 1
        BY <1>3, PersistFacts
      <3>2. QED
        BY <3>1
    <2>2. QED
      BY <2>1 DEF CleansAfterCommit, NoRunLost
  <1>4. ASSUME NEW f \in Flushers, ClearBuffer(f) PROVE CleansAfterCommit' /\ NoRunLost'
    BY <1>0, <1>4, GotoFacts DEF ClearBuffer, OthersStay
  <1>5. ASSUME NEW f \in Flushers, DeleteSession(f) PROVE CleansAfterCommit' /\ NoRunLost'
    BY <1>5 DEF DeleteSession, CleansAfterCommit, NoRunLost
  <1>6. ASSUME NEW f \in Flushers, FailFlush(f) PROVE CleansAfterCommit' /\ NoRunLost'
    BY <1>0, <1>6, FaultType, ReturnFacts DEF FailFlush, redis, OthersStay, FlushInv
  <1>7. CASE MatchStep
    BY <1>7, StepKeepsSession
       DEF MatchStep, flushVars, CleansAfterCommit, NoRunLost, FlushInv
  <1>8. CASE MatchFails \/ FlushCrash
    <2>1. hist'.created = hist.created /\ UNCHANGED session /\ UNCHANGED games
      BY <1>8, FaultType
         DEF MatchFails, FailMqtt, FlushCrash, Crash, flushVars, FlushInv
    <2>2. QED
      BY <1>0, <1>8, <2>1 DEF MatchFails, FlushCrash, flushVars, IdleFlush
  <1>9. CASE UNCHANGED <<vars, games, flush>>
    BY <1>0, <1>9 DEF vars
  <1>10. QED
    BY <1>1, <1>2, <1>3, <1>4, <1>5, <1>6, <1>7, <1>8, <1>9, FlushCases

\* A session that is gone from Redis has a finished game in PostgreSQL: the
\* cleanup of FinishAndPersistUseCase runs only after a commit, and no failed
\* transaction, crash, concurrent flush or relay changes that.
THEOREM NoRunIsLost == FlushSpec => []NoRunLost
  <1>1. FlushInit => CleansAfterCommit /\ NoRunLost
    BY DEF FlushInit, Init, CleansAfterCommit, NoRunLost, IdleFlush
  <1>2. FlushInv /\ CleansAfterCommit /\ NoRunLost /\ [FlushNext]_allVars
        => CleansAfterCommit' /\ NoRunLost'
    BY NoRunLostStep
  <1>3. QED
    BY <1>1, <1>2, FlushInvAlways, PTL DEF FlushSpec

-----------------------------------------------------------------------------
(* Saved events are in arrival order *)

\* The history only grows.
LEMMA StepGrows ==
  ASSUME LoadedInv, Step
  PROVE  /\ hist'.accepted >= hist.accepted /\ hist'.earned >= hist.earned
         /\ hist'.faults >= hist.faults
         /\ ~MqttSave => hist'.accepted = hist.accepted
  <1> DEFINE Same == /\ hist'.accepted = hist.accepted /\ hist'.earned = hist.earned
                     /\ hist'.faults = hist.faults
  <1>1. CreateSession => Same
    BY DEF CreateSession, LoadedInv, TypeOK, HistType
  <1>2. ASSUME NEW t \in Tasks, Save(t) \/ Tick(t) PROVE Same
    BY <1>2 DEF Save, Tick, LoadedInv, TypeOK, HistType
  <1>3. ASSUME NEW t \in Tasks, Request(t) \/ Announce(t) \/ EndCountdown(t) PROVE Same
    BY <1>3 DEF Request, ReadyUp, PauseSession, ResumeSession, AbandonSession, Load,
                Announce, EndCountdown
  <1>4. Hit \/ MqttPush \/ MqttAnnounce => Same
    BY DEF Hit, HandleMqttEvent, MqttPush, MqttAnnounce
  <1>5. Same => /\ hist'.accepted >= hist.accepted /\ hist'.earned >= hist.earned
                /\ hist'.faults >= hist.faults
    BY DEF LoadedInv, TypeOK, HistType
  <1>6. ASSUME NEW t \in Tasks, FailTask(t)
        PROVE  /\ hist'.accepted >= hist.accepted /\ hist'.earned >= hist.earned
               /\ hist'.faults >= hist.faults /\ hist'.accepted = hist.accepted
    BY <1>6 DEF FailTask, CountFault, LoadedInv, TypeOK, HistType
  <1>7. MqttSave => /\ hist'.accepted >= hist.accepted /\ hist'.earned >= hist.earned
                    /\ hist'.faults >= hist.faults
    BY MqttSaveFacts DEF LoadedInv, TypeOK, HistType
  <1> HIDE DEF Same
  <1>8. Same => hist'.accepted = hist.accepted
    BY DEF Same
  <1>9. QED
    BY <1>1, <1>2, <1>3, <1>4, <1>5, <1>6, <1>7, <1>8 DEF Step, Consume, TaskRuns

LEMMA FlushGrows ==
  ASSUME FlushInv, [FlushNext]_allVars
  PROVE  /\ hist \in HistType /\ hist' \in HistType
         /\ hist'.accepted >= hist.accepted /\ hist'.earned >= hist.earned
         /\ hist'.faults >= hist.faults
  <1>1. hist \in HistType /\ hist' \in HistType
    BY FlushNextInv DEF FlushInv, LoadedInv, TypeOK
  <1> DEFINE Grows == /\ hist'.accepted >= hist.accepted /\ hist'.earned >= hist.earned
                      /\ hist'.faults >= hist.faults
  <1>2. hist' = hist => Grows
    BY <1>1 DEF HistType
  <1>3. CountFault => Grows
    BY <1>1 DEF CountFault, HistType
  <1>4. ASSUME NEW f \in Flushers, RelayScore(f) PROVE Grows
    <2>1. /\ hist'.accepted = hist.accepted /\ hist'.earned = hist.earned
          /\ hist'.faults = hist.faults
      BY <1>4, RelayScoreFacts
    <2>2. QED
      BY <1>1, <2>1 DEF HistType
  <1>5. ASSUME NEW f \in Flushers, Passes(f) PROVE hist' = hist
    BY <1>5, PassesFacts
  <1>6. MatchStep => Grows
    BY StepGrows DEF MatchStep, FlushInv
  <1> HIDE DEF Grows
  <1>7. Grows
    BY <1>2, <1>3, <1>4, <1>5, <1>6, FlushCases
       DEF Persist, ClearBuffer, DeleteSession, FailFlush, MatchFails, FailMqtt,
           FlushCrash, Crash, vars
  <1>8. QED
    BY <1>1, <1>7 DEF Grows

\* The flush clears the buffer or leaves it, and ends the handling only of an
\* event that is in the buffer.
LEMMA FlushBuffer == ASSUME FlushInv, BufferInv, [FlushNext]_allVars PROVE BufferInv'
  <1> USE DEF FlushInv
  <1>1. ASSUME NEW f \in Flushers, Passes(f) PROVE BufferInv'
    BY <1>1, PassesFacts, SameBuffer DEF IdleMqtt
  <1>2. ASSUME NEW f \in Flushers, RelayScore(f) PROVE BufferInv'
    BY <1>2, RelayScoreFacts, SameBuffer DEF RelayScore
  <1>3. ASSUME NEW f \in Flushers, Persist(f) PROVE BufferInv'
    BY <1>3, SameBuffer DEF Persist, vars
  <1>4. ASSUME NEW f \in Flushers, ClearBuffer(f) PROVE BufferInv'
    BY <1>4 DEF ClearBuffer, BufferInv, BufferInOrder, MqttRank
  <1>5. ASSUME NEW f \in Flushers, Return(f), flush[f].pc # "idle"
        PROVE  mqtt' = mqtt \/ (mqtt'.pc = "idle" /\ mqtt.pc = "ended")
    BY <1>5 DEF Return, IdleMqtt, ConsumerWaits
  <1>6. ASSUME NEW f \in Flushers, DeleteSession(f) PROVE BufferInv'
    BY <1>5, <1>6, SameBuffer DEF DeleteSession
  <1>7. ASSUME NEW f \in Flushers, FailFlush(f) PROVE BufferInv'
    BY <1>5, <1>7, FaultType, SameBuffer DEF FailFlush, redis
  <1>8. CASE MatchStep
    BY <1>8, StepBuffer DEF MatchStep
  <1>9. CASE MatchFails \/ FlushCrash
    BY <1>9, FaultType, SameBuffer DEF MatchFails, FailMqtt, FlushCrash, Crash, IdleMqtt
  <1>10. CASE UNCHANGED <<vars, games, flush>>
    BY <1>10, SameBuffer DEF vars
  <1>11. QED
    BY <1>1, <1>2, <1>3, <1>4, <1>6, <1>7, <1>8, <1>9, <1>10, FlushCases

\* Events in arrival order, none twice, all among the first n accepted.
Ordered(events, n) ==
    /\ \A i \in 1 .. Len(events) : events[i].id <= n
    /\ \A i \in 1 .. Len(events) - 1 : events[i].id < events[i + 1].id

\* What a flusher has read is in order when it saves it.
ReadInOrder ==
    \A f \in Flushers : flush[f].pc = "read" => Ordered(flush[f].events, hist.accepted)

LEMMA OrderedGrows ==
  ASSUME NEW s \in Seq(Event), NEW m \in Nat, NEW n \in Nat, m <= n, Ordered(s, m)
  PROVE  Ordered(s, n)
  BY EventIds DEF Ordered

LEMMA ReadInOrderStep ==
  ASSUME FlushInv, BufferInv, ReadInOrder, [FlushNext]_allVars
  PROVE  ReadInOrder'
  <1> SUFFICES ASSUME NEW f \in Flushers, flush'[f].pc = "read"
               PROVE  Ordered(flush'[f].events, hist'.accepted)
    BY DEF ReadInOrder
  <1>1. /\ hist.accepted \in Nat /\ hist'.accepted \in Nat
        /\ hist.accepted <= hist'.accepted
    BY FlushGrows DEF HistType
  <1>2. ASSUME flush'[f] = flush[f] PROVE Ordered(flush'[f].events, hist'.accepted)
    <2>1. flush[f].events \in Seq(Event) /\ Ordered(flush[f].events, hist.accepted)
      BY <1>2 DEF FlushInv, FlushTypeOK, FlushType, ReadInOrder
    <2>2. QED
      BY <1>1, <1>2, <2>1, OrderedGrows
  <1>3. ASSUME flush'[f].events = buffer PROVE Ordered(flush'[f].events, hist'.accepted)
    <2>1. buffer \in Seq(Event) /\ Ordered(buffer, hist.accepted)
      BY DEF FlushInv, LoadedInv, TypeOK, BufferInv, BufferInOrder, Ordered
    <2>2. QED
      BY <1>1, <1>3, <2>1, OrderedGrows
  <1>4. ASSUME NEW g \in Flushers, Passes(g)
        PROVE  flush'[f] = flush[f] \/ flush'[f].events = buffer
    BY <1>4, PassesFacts DEF OthersStay
  <1>5. ASSUME NEW g \in Flushers, \/ RelayScore(g) \/ Persist(g) \/ ClearBuffer(g)
                                   \/ DeleteSession(g) \/ FailFlush(g)
        PROVE  flush'[f] = flush[f]
    BY <1>5, RestartFacts, GotoFacts, ReturnFacts
       DEF RelayScore, Persist, ClearBuffer, DeleteSession, FailFlush, OthersStay
  <1>6. ~FlushCrash
    BY DEF FlushCrash, IdleFlush
  <1>7. QED
    BY <1>2, <1>3, <1>4, <1>5, <1>6, FlushCases DEF MatchStep, MatchFails, flushVars

\* Only a commit adds a finished game, and none is ever changed.
LEMMA OnlyPersistSaves ==
  ASSUME FlushInv, [FlushNext]_allVars
  PROVE  games' = games \/ \E f \in Flushers : Persist(f)
  <1>1. ASSUME NEW f \in Flushers, Passes(f) PROVE games' = games
    BY <1>1, PassesFacts
  <1>2. QED
    BY <1>1, FlushCases DEF RelayScore, ClearBuffer, DeleteSession, FailFlush, MatchStep,
                            MatchFails, FlushCrash, flushVars

LEMMA GameFacts ==
  ASSUME FlushInv, NEW g \in 1 .. Len(games)
  PROVE  games[g].events \in Seq(Event) /\ games[g].score \in Nat
  <1>1. games[g] \in Game
    BY DEF FlushInv, FlushTypeOK
  <1>2. QED
    BY <1>1 DEF Game

LEMMA SavedInOrderStep ==
  ASSUME FlushInv, ReadInOrder, SavedInOrder, [FlushNext]_allVars
  PROVE  SavedInOrder'
  <1> SUFFICES ASSUME NEW g \in 1 .. Len(games')
               PROVE  Ordered(games'[g].events, hist'.accepted)
    BY DEF SavedInOrder, Ordered
  <1>1. /\ hist.accepted \in Nat /\ hist'.accepted \in Nat
        /\ hist.accepted <= hist'.accepted
    BY FlushGrows DEF HistType
  <1>2. ASSUME g \in 1 .. Len(games), games'[g] = games[g]
        PROVE  Ordered(games'[g].events, hist'.accepted)
    <2>1. games[g].events \in Seq(Event) /\ Ordered(games[g].events, hist.accepted)
      BY <1>2, GameFacts DEF SavedInOrder, Ordered
    <2>2. QED
      BY <1>1, <1>2, <2>1, OrderedGrows
  <1>3. ASSUME NEW f \in Flushers, Persist(f)
        PROVE  Ordered(games'[g].events, hist'.accepted)
    <2>1. /\ Len(games) \in Nat /\ Len(games') = Len(games) + 1
          /\ \A h \in 1 .. Len(games) : games'[h] = games[h]
          /\ games'[Len(games) + 1].events = flush[f].events
          /\ flush[f].events \in Seq(Event)
      BY <1>3, PersistFacts
    <2>2. CASE g \in 1 .. Len(games)
      BY <1>2, <2>1, <2>2
    <2>3. CASE g = Len(games) + 1
      <3>1. Ordered(flush[f].events, hist.accepted)
        BY <1>3 DEF Persist, ReadInOrder
      <3>2. QED
        BY <1>1, <2>1, <2>3, <3>1, OrderedGrows
    <2>4. QED
      BY <2>1, <2>2, <2>3
  <1>4. QED
    BY <1>2, <1>3, OnlyPersistSaves

\* Whatever is pushed, cleared and read meanwhile, the events of a finished
\* game are accepted events, in arrival order, none twice.
THEOREM SavedGamesInOrder == FlushSpec => []SavedInOrder
  <1>1. FlushInit => BufferInv /\ ReadInOrder /\ SavedInOrder
    BY DEF FlushInit, Init, BufferInv, BufferInOrder, MqttRank, IdleMqtt, ReadInOrder,
           IdleFlush, SavedInOrder
  <1>2. FlushInv /\ BufferInv /\ [FlushNext]_allVars => BufferInv'
    BY FlushBuffer
  <1>3. FlushInv /\ BufferInv /\ ReadInOrder /\ SavedInOrder /\ [FlushNext]_allVars
        => ReadInOrder' /\ SavedInOrder'
    BY ReadInOrderStep, SavedInOrderStep
  <1>4. QED
    BY <1>1, <1>2, <1>3, FlushInvAlways, PTL DEF FlushSpec

-----------------------------------------------------------------------------
(* As long as only the consumer flushes *)

\* Without a POST or a relay only the consumer flushes; it never relays.
OnlyConsumer ==
    /\ flush[Consumer].pc \notin {"relayed", "relaying"}
    /\ flushes = 0 => \A r \in Requests : flush[r].pc = "idle"

LEMMA OnlyConsumerStep ==
  ASSUME FlushInv, OnlyConsumer, [FlushNext]_allVars
  PROVE  OnlyConsumer'
  <1>0. Consumer \in Flushers /\ Consumer \notin Requests /\ Requests \subseteq Flushers
    BY ConsumerAssumption DEF Flushers
  <1>1. flushes \in Nat
    BY DEF FlushInv, FlushTypeOK
  <1>2. ASSUME NEW f \in Flushers, FlushRuns(f) \/ FailFlush(f)
        PROVE  flushes' = flushes /\ (f = Consumer \/ flush[f].pc # "idle")
    BY <1>2 DEF FlushRuns, FailFlush, RelayLoad, RelayScore, FinishBorneGame, LoadBorne,
                MarkGameOver, FlushMarked, ReadEvents, Persist, ClearBuffer, DeleteSession
  <1>3. ASSUME NEW f \in Flushers, FlushRuns(f) \/ FailFlush(f)
        PROVE  OthersStay(f)
    BY <1>3, PassesFacts, RestartFacts, GotoFacts, ReturnFacts
       DEF FlushRuns, Passes, RelayScore, Persist, ClearBuffer, DeleteSession, FailFlush
  <1>4. ASSUME FlushRuns(Consumer) \/ FailFlush(Consumer)
        PROVE  flush'[Consumer].pc \in {"relayed", "relaying"} => flush[Consumer].pc = "relayed"
    BY <1>0, <1>4, PassesFacts, RestartFacts, GotoFacts, ReturnFacts
       DEF FlushRuns, Passes, RelayScore, Persist, ClearBuffer, DeleteSession, FailFlush
  <1>5. ASSUME NEW f \in Flushers, FlushRuns(f) \/ FailFlush(f) PROVE OnlyConsumer'
    BY <1>0, <1>2, <1>3, <1>4, <1>5, Zenon DEF OnlyConsumer, OthersStay
  <1>6. ASSUME NEW r \in Requests, PostScores(r) \/ RelayGameOver(r) PROVE OnlyConsumer'
    <2>1. flushes' # 0
      BY <1>1, <1>6 DEF PostScores, RelayGameOver, CountFlush
    <2>2. flush'[Consumer] = flush[Consumer]
      BY <1>0, <1>6, PassesFacts DEF Passes, OthersStay
    <2>3. QED
      BY <2>1, <2>2 DEF OnlyConsumer
  <1>7. CASE FlushCrash
    BY <1>0, <1>7 DEF FlushCrash, IdleFlush, OnlyConsumer
  <1>8. QED
    BY <1>5, <1>6, <1>7
       DEF FlushNext, BorneMoves, MatchStep, MatchFails, flushVars, allVars, OnlyConsumer

LEMMA OnlyConsumerAlways == FlushSpec => []OnlyConsumer
  <1>1. FlushInit => OnlyConsumer
    BY DEF FlushInit, IdleFlush, Flushers, OnlyConsumer
  <1>2. FlushInv /\ OnlyConsumer /\ [FlushNext]_allVars => OnlyConsumer'
    BY OnlyConsumerStep
  <1>3. QED
    BY <1>1, <1>2, FlushInvAlways, PTL DEF FlushSpec

\* Nothing has failed, and only the consumer has flushed.
Quiet == hist.faults = 0 /\ flushes = 0

LEMMA QuietCases ==
  ASSUME FlushInv, OnlyConsumer, [FlushNext]_allVars, Quiet'
  PROVE  /\ Quiet
         /\ \/ Passes(Consumer) \/ Persist(Consumer) \/ ClearBuffer(Consumer)
            \/ DeleteSession(Consumer)
            \/ MatchStep
            \/ UNCHANGED <<vars, games, flush>>
  <1>1. Consumer \in Flushers /\ Consumer \notin Requests
    BY ConsumerAssumption DEF Flushers
  <1>2. hist.faults = 0
    BY FlushGrows DEF Quiet, HistType
  <1>3. ~FailMqtt /\ ~Crash /\ \A f \in Flushers : ~FailFlush(f)
    BY FaultType DEF FailMqtt, Crash, FailFlush, Quiet, FlushInv
  <1>4. \A r \in Requests : ~PostScores(r) /\ ~RelayGameOver(r)
    BY DEF PostScores, RelayGameOver, CountFlush, FlushInv, FlushTypeOK, Quiet
  <1>5. flushes = 0
    BY <1>3, <1>4 DEF FlushNext, FlushRuns, RelayLoad, RelayScore, FinishBorneGame, LoadBorne,
         MarkGameOver, FlushMarked, ReadEvents, Persist, ClearBuffer, DeleteSession,
         BorneMoves, MatchStep, MatchFails, FlushCrash, flushVars, allVars, Quiet
  <1>6. ASSUME NEW f \in Flushers, FlushRuns(f) PROVE f = Consumer /\ ~RelayScore(f)
    <2>1. \A r \in Requests : flush[r].pc = "idle"
      BY <1>5 DEF OnlyConsumer
    <2>2. f = Consumer
      BY <1>6, <2>1 DEF FlushRuns, RelayLoad, RelayScore, FinishBorneGame, LoadBorne, Flushers,
           MarkGameOver, FlushMarked, ReadEvents, Persist, ClearBuffer, DeleteSession
    <2>3. QED
      BY <2>2 DEF RelayScore, OnlyConsumer
  <1>7. BorneMoves => UNCHANGED <<vars, games, flush>>
    BY DEF BorneMoves
  <1>8. UNCHANGED allVars => UNCHANGED <<vars, games, flush>>
    BY DEF allVars, flushVars
  <1>9. QED
    BY <1>2, <1>3, <1>4, <1>5, <1>6, <1>7, <1>8
       DEF FlushNext, FlushRuns, Passes, MatchFails, FlushCrash, Quiet

Saved(id) == \E g \in 1 .. Len(games) : id \in Ids(games[g].events)

\* What the consumer has read covers the buffer it will clear.
ConsumerCovers ==
    Quiet =>
        /\ flush[Consumer].pc = "read" => Ids(buffer) \subseteq Ids(flush[Consumer].events)
        /\ flush[Consumer].pc = "committed" => \A id \in Ids(buffer) : Saved(id)

LEMMA SavedStays ==
  ASSUME FlushInv, [FlushNext]_allVars, NEW id, Saved(id)
  PROVE  Saved(id)'
  <1>1. PICK g \in 1 .. Len(games) : id \in Ids(games[g].events)
    BY DEF Saved
  <1>2. ASSUME NEW f \in Flushers, Persist(f) PROVE Saved(id)'
    <2>1. /\ Len(games) \in Nat /\ Len(games') = Len(games) + 1 /\ games'[g] = games[g]
      BY <1>2, PersistFacts
    <2>2. g \in 1 .. Len(games')
      BY <2>1
    <2>3. id \in Ids(games'[g].events)
      BY <1>1, <2>1
    <2>4. QED
      BY <2>2, <2>3 DEF Saved
  <1>3. QED
    BY <1>2, OnlyPersistSaves DEF Saved

LEMMA PersistSaves ==
  ASSUME FlushInv, NEW f \in Flushers, Persist(f), NEW id \in Ids(flush[f].events)
  PROVE  Saved(id)'
  <1>1. /\ Len(games) \in Nat /\ Len(games') = Len(games) + 1
        /\ games'[Len(games) + 1].events = flush[f].events
    BY PersistFacts
  <1>2. Len(games) + 1 \in 1 .. Len(games')
    BY <1>1
  <1>3. id \in Ids(games'[Len(games) + 1].events)
    BY <1>1
  <1>4. QED
    BY <1>2, <1>3 DEF Saved

\* A step of the match pushes the event of the consumer or leaves the buffer.
LEMMA StepBufferCases ==
  ASSUME LoadedInv, Step
  PROVE  \/ MqttPush
         \/ MqttSave
         \/ /\ UNCHANGED buffer /\ hist'.accepted = hist.accepted
            /\ mqtt.pc = "saved" => mqtt' = mqtt
  <1>1. ~MqttSave => hist'.accepted = hist.accepted
    BY StepGrows
  <1>2. ~MqttPush => UNCHANGED buffer /\ (mqtt.pc = "saved" => mqtt' = mqtt)
    BY DEF Step, CreateSession, Request, ReadyUp, PauseSession, ResumeSession, AbandonSession,
         Load, TaskRuns, Save, Announce, Tick, EndCountdown, FailTask, Hit, HandleMqttEvent,
         Consume, MqttSave, MqttAnnounce
  <1>3. QED
    BY <1>1, <1>2

LEMMA ConsumerCoversStep ==
  ASSUME FlushInv, OnlyConsumer, ConsumerCovers, [FlushNext]_allVars
  PROVE  ConsumerCovers'
  <1> SUFFICES ASSUME Quiet'
               PROVE  /\ flush'[Consumer].pc = "read" =>
                            Ids(buffer') \subseteq Ids(flush'[Consumer].events)
                      /\ flush'[Consumer].pc = "committed" =>
                            \A id \in Ids(buffer') : Saved(id)'
    BY DEF ConsumerCovers, Ids
  <1>0. Consumer \in Flushers /\ Quiet
    BY QuietCases DEF Flushers
  <1>1. CASE Passes(Consumer)
    BY <1>0, <1>1, PassesFacts
  <1>2. CASE Persist(Consumer)
    <2>1. UNCHANGED buffer /\ flush[Consumer].pc = "read" /\ flush'[Consumer].pc = "committed"
      BY <1>0, <1>2, RestartFacts DEF Persist, vars
    <2>2. QED
      BY <1>0, <1>2, <2>1, PersistSaves DEF ConsumerCovers
  <1>3. CASE ClearBuffer(Consumer) \/ DeleteSession(Consumer)
    BY <1>0, <1>3, GotoFacts, ReturnFacts DEF ClearBuffer, DeleteSession
  <1>4. CASE MatchStep
    <2>1. ASSUME flush[Consumer].pc \in {"read", "committed"} PROVE UNCHANGED buffer
      <3>1. mqtt.pc = "ended" /\ Step
        BY <1>4, <2>1 DEF FlushInv, ConsumerWaits, MatchStep
      <3>2. QED
        BY <3>1, StepBufferCases DEF FlushInv, MqttPush, MqttSave
    <2>2. QED
      BY <1>0, <1>4, <2>1, SavedStays DEF MatchStep, flushVars, ConsumerCovers
  <1>5. CASE UNCHANGED <<vars, games, flush>>
    BY <1>0, <1>5 DEF vars, ConsumerCovers, Saved
  <1>6. QED
    BY <1>1, <1>2, <1>3, <1>4, <1>5, QuietCases

LEMMA PushedIds ==
  ASSUME NEW s \in Seq(Event), NEW e \in Event
  PROVE  Ids(s) \subseteq Ids(Append(s, e)) /\ e.id \in Ids(Append(s, e))
  <1>1. /\ Len(s) \in Nat /\ Len(Append(s, e)) = Len(s) + 1
        /\ \A i \in 1 .. Len(s) : Append(s, e)[i] = s[i]
        /\ Append(s, e)[Len(s) + 1] = e
    BY AppendEvent
  <1>2. ASSUME NEW id \in Ids(s) PROVE id \in Ids(Append(s, e))
    <2>1. PICK i \in 1 .. Len(s) : id = s[i].id
      BY DEF Ids
    <2>2. i \in 1 .. Len(Append(s, e)) /\ id = Append(s, e)[i].id
      BY <1>1, <2>1
    <2>3. QED
      BY <2>2 DEF Ids
  <1>3. Len(s) + 1 \in 1 .. Len(Append(s, e)) /\ Append(s, e)[Len(s) + 1].id = e.id
    BY <1>1
  <1>4. QED
    BY <1>2, <1>3 DEF Ids

Kept(id) == (mqtt.pc = "saved" /\ mqtt.event.id = id) \/ id \in Ids(buffer) \/ Saved(id)

LEMMA EventsKeptStep ==
  ASSUME FlushInv, BufferInv, OnlyConsumer, ConsumerCovers, EventsKept, [FlushNext]_allVars
  PROVE  EventsKept'
  <1> SUFFICES ASSUME Quiet', NEW id \in 1 .. hist'.accepted
               PROVE  Kept(id)'
    BY DEF EventsKept, Quiet, Kept, Saved
  <1>0. /\ Consumer \in Flushers /\ Quiet /\ hist.accepted \in Nat /\ hist'.accepted \in Nat
        /\ id \in 1 .. hist.accepted => Kept(id)
        /\ Saved(id) => Saved(id)'
    <2>1. Consumer \in Flushers /\ Quiet
      BY QuietCases DEF Flushers
    <2>2. hist.accepted \in Nat /\ hist'.accepted \in Nat
      BY FlushGrows DEF HistType
    <2>3. id \in 1 .. hist.accepted => Kept(id)
      BY <2>1 DEF EventsKept, Quiet, Kept, Saved
    <2>4. QED
      BY <2>1, <2>2, <2>3, SavedStays
  <1>1. CASE Passes(Consumer)
    BY <1>0, <1>1, PassesFacts DEF Kept
  <1>2. CASE Persist(Consumer)
    BY <1>0, <1>2 DEF Persist, vars, Kept
  <1>3. CASE ClearBuffer(Consumer)
    BY <1>0, <1>3 DEF ClearBuffer, ConsumerCovers, Kept
  <1>4. CASE DeleteSession(Consumer)
    <2>1. mqtt.pc = "ended"
      BY <1>4 DEF DeleteSession, FlushInv, ConsumerWaits
    <2>2. QED
      BY <1>0, <1>4, <2>1 DEF DeleteSession, Kept
  <1>5. CASE MatchStep
    <2>1. CASE MqttPush
      <3>1. /\ buffer \in Seq(Event) /\ mqtt.event \in Event /\ UNCHANGED hist
            /\ buffer' = Append(buffer, mqtt.event)
        BY <2>1 DEF FlushInv, LoadedInv, TypeOK, MqttType, MqttPush
      <3>2. Ids(buffer) \subseteq Ids(buffer') /\ mqtt.event.id \in Ids(buffer')
        BY <3>1, PushedIds
      <3>3. QED
        BY <1>0, <3>1, <3>2 DEF Kept
    <2>2. CASE MqttSave
      <3>1. /\ hist'.accepted = hist.accepted + 1 /\ UNCHANGED buffer
            /\ mqtt.pc = "loaded" /\ mqtt'.pc = "saved" /\ mqtt'.event = mqtt.event
        BY <2>2, MqttSaveFacts DEF FlushInv, MqttSave
      <3>2. mqtt.event.id = hist.accepted + 1
        BY <3>1 DEF BufferInv, MqttRank
      <3>3. QED
        BY <1>0, <3>1, <3>2 DEF Kept
    <2>3. CASE UNCHANGED buffer /\ hist'.accepted = hist.accepted
               /\ (mqtt.pc = "saved" => mqtt' = mqtt)
      BY <1>0, <2>3 DEF Kept
    <2>4. QED
      BY <1>5, <2>1, <2>2, <2>3, StepBufferCases DEF MatchStep, FlushInv
  <1>6. CASE UNCHANGED <<vars, games, flush>>
    BY <1>0, <1>6 DEF vars, Kept
  <1>7. QED
    BY <1>1, <1>2, <1>3, <1>4, <1>5, <1>6, QuietCases

\* As long as only the consumer flushes and nothing fails, no accepted event is
\* lost: the handler pushes nothing between the flush's read and its cleanup.
THEOREM ConsumerKeepsEvents == FlushSpec => []EventsKept
  <1>1. FlushInit => BufferInv /\ ConsumerCovers /\ EventsKept
    BY DEF FlushInit, Init, BufferInv, BufferInOrder, MqttRank, IdleMqtt, ConsumerCovers,
           IdleFlush, Flushers, EventsKept
  <1>2. FlushInv /\ BufferInv /\ OnlyConsumer /\ ConsumerCovers /\ EventsKept
          /\ [FlushNext]_allVars => BufferInv' /\ ConsumerCovers' /\ EventsKept'
    BY FlushBuffer, ConsumerCoversStep, EventsKeptStep
  <1>3. QED
    BY <1>1, <1>2, FlushInvAlways, OnlyConsumerAlways, PTL DEF FlushSpec

-----------------------------------------------------------------------------
(* A saved score is covered by events and one final score *)

Backed(score, earned) == \E final \in FinalScores \cup {0} : score <= earned + final

\* Every copy of the session an activity can still write or save is covered.
SessionBacked == session # NoSession => Backed(session.score, hist.earned)
TasksBacked ==
    \A t \in Tasks : task[t].pc = "loaded" => Backed(task[t].snap.score, hist.earned)
MqttBacked == mqtt.pc = "loaded" => Backed(mqtt.snap.score, hist.earned)
FlushBacked ==
    \A f \in Flushers :
        /\ flush[f].pc \in {"loaded", "read"} => Backed(flush[f].snap.score, hist.earned)
        /\ flush[f].pc = "relaying" => flush[f].final \in FinalScores

BackedInv == SessionBacked /\ TasksBacked /\ MqttBacked /\ FlushBacked /\ SavedScoreBacked

LEMMA BackedGrows ==
  ASSUME NEW score \in Nat, NEW m \in Nat, NEW n \in Nat, m <= n, Backed(score, m)
  PROVE  Backed(score, n)
  <1>1. PICK final \in FinalScores \cup {0} : score <= m + final
    BY DEF Backed
  <1>2. final \in Nat /\ score <= n + final
    BY <1>1, FinalScoresAssumption
  <1>3. QED
    BY <1>1, <1>2 DEF Backed

LEMMA BackedAdds ==
  ASSUME NEW score \in Nat, NEW n \in Nat, NEW points \in Nat, Backed(score, n)
  PROVE  Backed(score + points, n + points)
  <1>1. PICK final \in FinalScores \cup {0} : score <= n + final
    BY DEF Backed
  <1>2. final \in Nat /\ score + points <= n + points + final
    BY <1>1, FinalScoresAssumption
  <1>3. QED
    BY <1>1, <1>2 DEF Backed

LEMMA BackedFinal ==
  ASSUME NEW final \in FinalScores, NEW n \in Nat
  PROVE  Backed(final, n)
  <1>1. final \in Nat /\ final <= n + final
    BY FinalScoresAssumption
  <1>2. QED
    BY <1>1 DEF Backed

\* The copies a step of the match makes are copies of what was there.
LEMMA StepCopies ==
  ASSUME LoadedInv, Step
  PROVE  /\ \/ session' = session \/ session' = NewSession \/ MqttSave
            \/ \E t \in Tasks : task[t].pc = "loaded" /\ session'.score = task[t].snap.score
         /\ \A t \in Tasks : task'[t].pc = "loaded" =>
               task'[t] = task[t] \/ (session # NoSession /\ task'[t].snap = session)
         /\ mqtt'.pc = "loaded" =>
               mqtt' = mqtt \/ (session # NoSession /\ mqtt'.snap = session)
  <1>1. ASSUME NEW t \in Tasks, Save(t)
        PROVE  /\ task[t].pc = "loaded" /\ session'.score = task[t].snap.score
               /\ UNCHANGED mqtt
               /\ \A u \in Tasks : task'[u] = task[u] \/ task'[u].pc = "saved"
    BY <1>1, SaveLoaded DEF Save, LoadedInv, TypeOK
  <1>2. ASSUME NEW t \in Tasks, NEW op \in Ops, Load(t, op)
        PROVE  /\ UNCHANGED <<session, mqtt>> /\ session # NoSession
               /\ \A u \in Tasks : task'[u] = task[u] \/ task'[u].snap = session
    BY <1>2 DEF Load, LoadedInv, TypeOK
  <1>3. ASSUME NEW t \in Tasks, Request(t)
        PROVE  /\ UNCHANGED <<session, mqtt>> /\ session # NoSession
               /\ \A u \in Tasks : task'[u] = task[u] \/ task'[u].snap = session
    BY <1>2, <1>3 DEF Request, ReadyUp, PauseSession, ResumeSession, AbandonSession, Ops
  <1>4. ASSUME NEW t \in Tasks, Announce(t) \/ Tick(t) \/ FailTask(t)
        PROVE  /\ UNCHANGED <<session, mqtt>>
               /\ \A u \in Tasks : task'[u] = task[u] \/ task'[u].pc # "loaded"
    BY <1>4 DEF Announce, Tick, FailTask, IdleTask, LoadedInv, TypeOK, TaskType
  <1>5. ASSUME NEW t \in Tasks, EndCountdown(t)
        PROVE  /\ UNCHANGED <<session, mqtt>>
               /\ \A u \in Tasks : \/ task'[u] = task[u] \/ task'[u].pc # "loaded"
                                   \/ session # NoSession /\ task'[u].snap = session
    <2>1. CASE Load(t, "countdown")
      BY <1>2, <2>1 DEF Ops
    <2>2. CASE ~Load(t, "countdown")
      BY <1>5, <2>2 DEF EndCountdown, IdleTask, LoadedInv, TypeOK
    <2>3. QED
      BY <2>1, <2>2
  <1>6. Consume => /\ UNCHANGED task
                   /\ MqttSave \/ UNCHANGED session
                   /\ mqtt'.pc # "loaded"
    BY DEF Consume, MqttSave, MqttPush, MqttAnnounce, IdleMqtt, LoadedInv, TypeOK, MqttType
  <1>7. Hit => /\ UNCHANGED <<session, task>> /\ session # NoSession /\ mqtt'.snap = session
    BY DEF Hit, HandleMqttEvent
  <1>8. CreateSession => session' = NewSession /\ UNCHANGED <<task, mqtt>>
    BY DEF CreateSession
  <1>9. QED
    BY <1>1, <1>3, <1>4, <1>5, <1>6, <1>7, <1>8 DEF Step, TaskRuns

LEMMA StepBacked ==
  ASSUME LoadedInv, SessionBacked, TasksBacked, MqttBacked, Step
  PROVE  SessionBacked' /\ TasksBacked' /\ MqttBacked'
  <1>1. /\ hist.earned \in Nat /\ hist'.earned \in Nat /\ hist.earned <= hist'.earned
        /\ LoadedInv'
    BY StepGrows, StepLoaded DEF LoadedInv, TypeOK, HistType
  <1>2. session # NoSession => session.score \in Nat /\ Backed(session.score, hist'.earned)
    <2>1. ASSUME session # NoSession
          PROVE  session.score \in Nat /\ Backed(session.score, hist.earned)
      BY <2>1 DEF LoadedInv, TypeOK, SessionBacked, Session
    <2>2. QED
      BY <1>1, <2>1, BackedGrows
  <1>3. ASSUME NEW t \in Tasks, task[t].pc = "loaded"
        PROVE  Backed(task[t].snap.score, hist'.earned)
    <2>1. task[t].snap.score \in Nat /\ Backed(task[t].snap.score, hist.earned)
      BY <1>3 DEF LoadedInv, TasksLoaded, TasksBacked, Session
    <2>2. QED
      BY <1>1, <2>1, BackedGrows
  <1>4. ASSUME mqtt.pc = "loaded"
        PROVE  /\ mqtt.snap.score \in Nat /\ Backed(mqtt.snap.score, hist.earned)
               /\ Backed(mqtt.snap.score, hist'.earned)
    <2>1. mqtt.snap.score \in Nat /\ Backed(mqtt.snap.score, hist.earned)
      BY <1>4 DEF LoadedInv, MqttLoaded, MqttBacked, Session
    <2>2. QED
      BY <1>1, <2>1, BackedGrows
  <1>5. ASSUME MqttSave PROVE Backed(session'.score, hist'.earned)
    <2>1. /\ session'.score = mqtt.snap.score + mqtt.event.points
          /\ hist'.earned = hist.earned + mqtt.event.points
          /\ mqtt.event.points \in Nat /\ mqtt.pc = "loaded"
      BY <1>5, MqttSaveFacts DEF MqttSave
    <2>2. QED
      BY <1>1, <1>4, <2>1, BackedAdds
  <1>6. session' = NewSession => Backed(session'.score, hist'.earned)
    <2>1. 0 <= hist'.earned + 0
      BY <1>1
    <2>2. QED
      BY <2>1 DEF NewSession, Backed
  <1>7. SessionBacked'
    BY <1>2, <1>3, <1>5, <1>6, StepCopies DEF SessionBacked
  <1>8. TasksBacked'
    BY <1>2, <1>3, StepCopies DEF TasksBacked
  <1>9. MqttBacked'
    BY <1>2, <1>4, StepCopies DEF MqttBacked
  <1>10. QED
    BY <1>7, <1>8, <1>9

LEMMA FlushBackedStep ==
  ASSUME FlushInv, BackedInv, [FlushNext]_allVars
  PROVE  BackedInv'
  <1> USE DEF BackedInv
  <1>1. /\ hist.earned \in Nat /\ hist'.earned \in Nat /\ hist.earned <= hist'.earned
    BY FlushGrows DEF HistType
  <1>2. /\ session # NoSession => session.score \in Nat /\ Backed(session.score, hist'.earned)
        /\ \A t \in Tasks : task[t].pc = "loaded" => Backed(task[t].snap.score, hist'.earned)
        /\ mqtt.pc = "loaded" => Backed(mqtt.snap.score, hist'.earned)
    <2>1. session # NoSession => session.score \in Nat
      BY DEF FlushInv, LoadedInv, TypeOK, Session
    <2>2. \A t \in Tasks : task[t].pc = "loaded" => task[t].snap.score \in Nat
      BY DEF FlushInv, LoadedInv, TasksLoaded, Session
    <2>3. mqtt.pc = "loaded" => mqtt.snap.score \in Nat
      BY DEF FlushInv, LoadedInv, MqttLoaded, Session
    <2>4. QED
      BY <1>1, <2>1, <2>2, <2>3, BackedGrows DEF SessionBacked, TasksBacked, MqttBacked
  <1>3. \A f \in Flushers : flush[f].pc \in {"loaded", "read"} =>
           flush[f].snap.score \in Nat /\ Backed(flush[f].snap.score, hist'.earned)
    <2>1. \A f \in Flushers : flush[f].pc \in {"loaded", "read"} => flush[f].snap.score \in Nat
      BY DEF FlushInv, CopiesLoaded, Session
    <2>2. QED
      BY <1>1, <2>1, BackedGrows DEF FlushBacked
  \* The match's own copies, when a step of the flush leaves them alone.
  <1>4. ASSUME UNCHANGED <<session, task>>, mqtt' = mqtt \/ mqtt' = IdleMqtt
        PROVE  SessionBacked' /\ TasksBacked' /\ MqttBacked'
    BY <1>2, <1>4 DEF SessionBacked, TasksBacked, MqttBacked, IdleMqtt
  <1>5. ASSUME NEW f \in Flushers, OthersStay(f),
               flush'[f].pc \notin {"loaded", "read", "relaying"}
        PROVE  FlushBacked'
    BY <1>3, <1>5 DEF FlushBacked, OthersStay
  <1>6. SavedScoreBacked'
    <2> SUFFICES ASSUME NEW g \in 1 .. Len(games')
                 PROVE  Backed(games'[g].score, hist'.earned)
      BY DEF SavedScoreBacked, Backed
    <2>1. ASSUME g \in 1 .. Len(games), games'[g] = games[g]
          PROVE  Backed(games'[g].score, hist'.earned)
      <3>1. games[g].score \in Nat /\ Backed(games[g].score, hist.earned)
        BY <2>1, GameFacts DEF SavedScoreBacked, Backed
      <3>2. QED
        BY <1>1, <2>1, <3>1, BackedGrows
    <2>2. ASSUME NEW f \in Flushers, Persist(f)
          PROVE  Backed(games'[g].score, hist'.earned)
      <3>1. /\ Len(games) \in Nat /\ Len(games') = Len(games) + 1
            /\ \A h \in 1 .. Len(games) : games'[h] = games[h]
            /\ games'[Len(games) + 1].score = flush[f].snap.score
        BY <2>2, PersistFacts
      <3>2. flush[f].pc = "read"
        BY <2>2 DEF Persist
      <3>3. CASE g \in 1 .. Len(games)
        BY <2>1, <3>1, <3>3
      <3>4. CASE g = Len(games) + 1
        BY <1>3, <3>1, <3>2, <3>4
      <3>5. QED
        BY <3>1, <3>3, <3>4
    <2>3. QED
      BY <2>1, <2>2, OnlyPersistSaves
  <1>7. ASSUME NEW f \in Flushers, Passes(f) PROVE BackedInv'
    <2>1. FlushBacked'
      BY <1>2, <1>3, <1>7, PassesFacts, NoSessionAssumption DEF FlushBacked, OthersStay
    <2>2. UNCHANGED <<session, task>> /\ (mqtt' = mqtt \/ mqtt' = IdleMqtt)
      BY <1>7, PassesFacts
    <2>3. QED
      BY <1>4, <1>6, <2>1, <2>2
  <1>8. ASSUME NEW f \in Flushers, RelayScore(f) PROVE BackedInv'
    <2>1. flush[f].final \in FinalScores
      BY <1>8 DEF RelayScore, FlushBacked
    <2>2. Backed(flush[f].final, hist'.earned)
      BY <1>1, <2>1, BackedFinal
    <2>3. SessionBacked' /\ TasksBacked' /\ MqttBacked'
      BY <1>2, <1>8, <2>2, RelayScoreFacts
         DEF RelayScore, SessionBacked, TasksBacked, MqttBacked
    <2>4. QED
      BY <1>5, <1>6, <1>8, <2>3, RestartFacts DEF RelayScore
  <1>9. ASSUME NEW f \in Flushers, Persist(f) \/ ClearBuffer(f) PROVE BackedInv'
    BY <1>4, <1>5, <1>6, <1>9, RestartFacts, GotoFacts DEF Persist, ClearBuffer, vars
  <1>10. ASSUME NEW f \in Flushers, DeleteSession(f) \/ FailFlush(f) PROVE BackedInv'
    <2>1. FlushBacked'
      BY <1>5, <1>10, ReturnFacts DEF DeleteSession, FailFlush
    <2>2. UNCHANGED task /\ (mqtt' = mqtt \/ mqtt' = IdleMqtt)
          /\ (session' = session \/ session' = NoSession)
      BY <1>10 DEF DeleteSession, FailFlush, Return, redis
    <2>3. SessionBacked' /\ TasksBacked' /\ MqttBacked'
      BY <1>2, <2>2 DEF SessionBacked, TasksBacked, MqttBacked, IdleMqtt
    <2>4. QED
      BY <1>6, <2>1, <2>3
  <1>11. CASE MatchStep
    <2>1. SessionBacked' /\ TasksBacked' /\ MqttBacked'
      BY <1>11, StepBacked DEF MatchStep, FlushInv
    <2>2. FlushBacked'
      BY <1>3, <1>11 DEF MatchStep, flushVars, FlushBacked
    <2>3. QED
      BY <1>6, <2>1, <2>2
  <1>12. CASE MatchFails
    BY <1>3, <1>4, <1>6, <1>12 DEF MatchFails, FailMqtt, flushVars, FlushBacked
  <1>13. CASE FlushCrash
    <2>1. SessionBacked' /\ TasksBacked' /\ MqttBacked'
      BY <1>2, <1>13 DEF FlushCrash, Crash, IdleTask, IdleMqtt,
                         SessionBacked, TasksBacked, MqttBacked
    <2>2. FlushBacked'
      BY <1>13 DEF FlushCrash, IdleFlush, FlushBacked
    <2>3. QED
      BY <1>6, <2>1, <2>2
  <1>14. CASE UNCHANGED <<vars, games, flush>>
    BY <1>3, <1>4, <1>6, <1>14 DEF vars, FlushBacked
  <1>15. QED
    BY <1>7, <1>8, <1>9, <1>10, <1>11, <1>12, <1>13, <1>14, FlushCases

\* However commands, events, relays and flushes overlap, the score of a finished
\* game is covered by the accepted events and at most one relayed final score.
THEOREM SavedScoresBacked == FlushSpec => []SavedScoreBacked
  <1>1. FlushInit => BackedInv
    BY DEF FlushInit, Init, IdleTask, IdleMqtt, IdleFlush, BackedInv, SessionBacked,
           TasksBacked, MqttBacked, FlushBacked, SavedScoreBacked
  <1>2. FlushInv /\ BackedInv /\ [FlushNext]_allVars => BackedInv'
    BY FlushBackedStep
  <1>3. BackedInv => SavedScoreBacked
    BY DEF BackedInv
  <1>4. QED
    BY <1>1, <1>2, <1>3, FlushInvAlways, PTL DEF FlushSpec

-----------------------------------------------------------------------------
(* What a sequence of events is worth *)

\* f is the function Worth computes, for the first n events of s.
SumsTo(f, s, n) == f = [i \in 0 .. n |-> IF i = 0 THEN 0 ELSE f[i - 1] + s[i].points]

LEMMA SumsExist ==
  ASSUME NEW s, NEW n \in Nat
  PROVE  \E f : SumsTo(f, s, n)
  <1> DEFINE S == {k \in 0 .. n : \E f : SumsTo(f, s, k)}
  <1>1. 0 \in S
    <2>1. SumsTo([i \in 0 .. 0 |-> 0], s, 0)
      BY DEF SumsTo
    <2>2. QED
      BY <2>1
  <1>2. ASSUME NEW k \in 1 .. n, k - 1 \in S PROVE k \in S
    <2>1. PICK f : SumsTo(f, s, k - 1)
      BY <1>2
    <2> DEFINE g == [i \in 0 .. k |-> IF i = k THEN f[k - 1] + s[k].points ELSE f[i]]
    <2>2. \A i \in 0 .. k : g[i] = IF i = 0 THEN 0 ELSE g[i - 1] + s[i].points
      <3> TAKE i \in 0 .. k
      <3>1. CASE i = k
        BY <3>1
      <3>2. CASE i # k
        <4>1. i \in 0 .. k - 1 /\ g[i] = f[i] /\ (i # 0 => i - 1 \in 0 .. k /\ g[i - 1] = f[i - 1])
          BY <3>2
        <4>2. f[i] = IF i = 0 THEN 0 ELSE f[i - 1] + s[i].points
          BY <2>1, <4>1 DEF SumsTo
        <4>3. QED
          BY <4>1, <4>2
      <3>3. QED
        BY <3>1, <3>2
    <2>3. SumsTo(g, s, k)
      BY <2>2 DEF SumsTo
    <2>4. QED
      BY <2>3
  <1>3. \A k \in 0 .. n : k \in S
    <2> HIDE DEF S
    <2>1. QED
      BY <1>1, <1>2, IntervalInduction
  <1>4. QED
    BY <1>3

LEMMA WorthIsSum ==
  ASSUME NEW s \in Seq(Event)
  PROVE  \E f : SumsTo(f, s, Len(s)) /\ Worth(s) = f[Len(s)]
  <1> DEFINE f == CHOOSE f : SumsTo(f, s, Len(s))
  <1>1. SumsTo(f, s, Len(s))
    BY SumsExist
  <1>2. Worth(s) = f[Len(s)]
    BY DEF Worth, SumsTo
  <1>3. QED
    BY <1>1, <1>2

\* No event is worth nothing, and an event adds its points.
LEMMA WorthOfNone == Worth(<<>>) = 0
  <1>1. ASSUME NEW s \in Seq(Event), Len(s) = 0 PROVE Worth(s) = 0
    <2>1. PICK f : SumsTo(f, s, 0) /\ Worth(s) = f[0]
      BY <1>1, WorthIsSum
    <2>2. QED
      BY <2>1 DEF SumsTo
  <1>2. <<>> \in Seq(Event) /\ Len(<<>>) = 0
    OBVIOUS
  <1>3. QED
    BY <1>1, <1>2

LEMMA WorthOfOneMore ==
  ASSUME NEW s \in Seq(Event), NEW e \in Event
  PROVE  Worth(Append(s, e)) = Worth(s) + e.points
  <1> DEFINE t == Append(s, e)
  <1>1. /\ t \in Seq(Event) /\ Len(s) \in Nat /\ Len(t) = Len(s) + 1
        /\ t[Len(s) + 1] = e /\ \A i \in 1 .. Len(s) : s[i] = t[i]
    BY AppendEvent
  <1> HIDE DEF t
  <1>2. PICK f : SumsTo(f, s, Len(s)) /\ Worth(s) = f[Len(s)]
    BY WorthIsSum
  <1>3. PICK g : SumsTo(g, t, Len(s) + 1) /\ Worth(t) = g[Len(s) + 1]
    BY <1>1, WorthIsSum
  <1>4. f[Len(s)] = g[Len(s)]
    <2>1. f[0] = g[0]
      BY <1>1, <1>2, <1>3 DEF SumsTo
    <2>2. \A i \in 1 .. Len(s) : f[i - 1] = g[i - 1] => f[i] = g[i]
      <3> TAKE i \in 1 .. Len(s)
      <3>1. i \in 0 .. Len(s) /\ i \in 0 .. Len(s) + 1 /\ i # 0 /\ s[i] = t[i]
        BY <1>1
      <3>2. f[i] = f[i - 1] + s[i].points /\ g[i] = g[i - 1] + t[i].points
        BY <1>2, <1>3, <3>1 DEF SumsTo
      <3>3. QED
        BY <3>1, <3>2
    <2>3. \A i \in 0 .. Len(s) : f[i] = g[i]
      <3>1. Len(s) \in Nat
        OBVIOUS
      <3>2. QED
        BY <2>1, <2>2, <3>1, SameRecursion
    <2>4. QED
      BY <1>1, <2>3
  <1>5. g[Len(s) + 1] = g[Len(s)] + e.points
    BY <1>1, <1>3 DEF SumsTo
  <1>6. QED
    BY <1>2, <1>3, <1>4, <1>5 DEF t

-----------------------------------------------------------------------------
(* A finished game adds up *)

\* Before POST /sessions there is nothing to flush.
EmptyAtFirst == Quiet => NothingYet /\ (~hist.created => buffer = <<>>)

\* POST /sessions is not undone.
LEMMA CreatedStays == ASSUME LoadedInv, Step, hist.created PROVE hist'.created
  <1>1. ASSUME NEW t \in Tasks, Save(t) \/ Tick(t) PROVE hist'.created = hist.created
    BY <1>1 DEF Save, Tick, LoadedInv, TypeOK, HistType
  <1>2. ASSUME NEW t \in Tasks, Request(t) \/ Announce(t) \/ EndCountdown(t)
        PROVE  hist'.created = hist.created
    BY <1>2 DEF Request, ReadyUp, PauseSession, ResumeSession, AbandonSession, Load,
                Announce, EndCountdown
  <1>3. ASSUME NEW t \in Tasks, FailTask(t) PROVE hist'.created = hist.created
    BY <1>3, FaultType DEF FailTask
  <1>4. MqttSave => hist'.created = hist.created
    BY MqttSaveFacts
  <1>5. Hit \/ MqttPush \/ MqttAnnounce => hist' = hist
    BY DEF Hit, HandleMqttEvent, MqttPush, MqttAnnounce
  <1>6. ~CreateSession
    BY DEF CreateSession
  <1>7. hist'.created = hist.created
    BY <1>1, <1>2, <1>3, <1>4, <1>5, <1>6 DEF Step, TaskRuns, Consume
  <1>8. QED
    BY <1>7, Zenon

LEMMA EmptyAtFirstStep ==
  ASSUME FlushInv, OnlyConsumer, EmptyAtFirst, [FlushNext]_allVars
  PROVE  EmptyAtFirst'
  <1> SUFFICES ASSUME Quiet'
               PROVE  NothingYet' /\ (~hist'.created => buffer' = <<>>)
    BY DEF EmptyAtFirst
  <1>0. Consumer \in Flushers /\ NothingYet /\ (~hist.created => buffer = <<>>)
    BY QuietCases DEF Flushers, EmptyAtFirst
  <1>1. ASSUME UNCHANGED <<task, hist>>, session' = session \/ session' = NoSession,
               mqtt' = mqtt \/ mqtt' = IdleMqtt, buffer' = buffer \/ buffer' = <<>>
        PROVE  NothingYet' /\ (~hist'.created => buffer' = <<>>)
    BY <1>0, <1>1 DEF NothingYet, IdleMqtt
  <1>2. CASE Passes(Consumer)
    BY <1>0, <1>1, <1>2, PassesFacts
  <1>3. CASE Persist(Consumer) \/ ClearBuffer(Consumer) \/ DeleteSession(Consumer)
    BY <1>1, <1>3 DEF Persist, ClearBuffer, DeleteSession, Return, vars
  <1>4. CASE MatchStep
    <2>1. NothingYet'
      BY <1>0, <1>4, NothingYetStep DEF MatchStep, FlushInv, Next
    <2>2. ~hist'.created => ~MqttPush /\ ~MqttSave
      BY <2>1 DEF NothingYet, MqttPush, MqttSave, FlushInv, LoadedInv, TypeOK, MqttType
    <2>3. ASSUME ~hist'.created PROVE buffer' = buffer /\ ~hist.created
      <3>1. buffer' = buffer
        BY <1>4, <2>2, <2>3, StepBufferCases DEF MatchStep, FlushInv
      <3>2. ~hist.created
        BY <1>4, <2>3, CreatedStays DEF MatchStep, FlushInv
      <3>3. QED
        BY <3>1, <3>2
    <2>4. QED
      BY <1>0, <2>1, <2>3
  <1>5. CASE UNCHANGED <<vars, games, flush>>
    BY <1>1, <1>5 DEF vars
  <1>6. QED
    BY <1>2, <1>3, <1>4, <1>5, QuietCases

\* Nothing was failed, flushed by a request, or overwritten with a stale copy.
Fresh == Quiet /\ ~hist.stale

\* The stored score is what the buffered events are worth, and the event being
\* handled once it is saved; until the flush has cleared the buffer.
SessionAddsUp ==
    session # NoSession /\ flush[Consumer].pc # "cleared" =>
        session.score = IF mqtt.pc = "saved" THEN Worth(buffer) + mqtt.event.points
                        ELSE Worth(buffer)

\* The score the consumer has read is what the events it reads next are worth.
ConsumerAddsUp ==
    /\ flush[Consumer].pc = "loaded" => flush[Consumer].snap.score = Worth(buffer)
    /\ flush[Consumer].pc = "read" =>
          flush[Consumer].snap.score = Worth(flush[Consumer].events)

AddsUpInv == (Fresh => SessionAddsUp /\ ConsumerAddsUp) /\ SavedGameAddsUp

\* A step that overwrites no session but the one it had loaded.
LEMMA FreshStep ==
  ASSUME LoadedInv, Step, ~hist'.stale
  PROVE  /\ ~hist.stale
         /\ MqttSave => session = mqtt.snap
         /\ \/ session' = session
            \/ CreateSession
            \/ MqttSave
            \/ session # NoSession /\ session' # NoSession /\ session'.score = session.score
  <1>1. ASSUME hist'.stale = hist.stale PROVE ~hist.stale
    BY <1>1, Zenon
  <1>2. ASSUME NEW t \in Tasks, Save(t)
        PROVE  /\ ~hist.stale /\ session # NoSession /\ session' # NoSession
               /\ session'.score = session.score
    <2>1. hist'.stale = (hist.stale \/ session # task[t].snap)
      BY <1>2 DEF Save, LoadedInv, TypeOK, HistType
    <2>2. ~hist.stale /\ session = task[t].snap
      BY <2>1, Zenon
    <2>3. task[t].snap \in Session /\ session' \in Session /\ session'.score = task[t].snap.score
      BY <1>2, SaveLoaded DEF Save, LoadedInv, TasksLoaded
    <2>4. QED
      BY <2>2, <2>3, NoSessionAssumption
  <1>3. MqttSave => ~hist.stale /\ session = mqtt.snap
    <2>1. ASSUME MqttSave PROVE hist'.stale = (hist.stale \/ session # mqtt.snap)
      BY <2>1, MqttSaveFacts
    <2>2. QED
      BY <2>1, Zenon
  <1>4. ASSUME NEW t \in Tasks, Request(t) \/ Announce(t) \/ EndCountdown(t)
        PROVE  UNCHANGED <<session, hist>>
    BY <1>4 DEF Request, ReadyUp, PauseSession, ResumeSession, AbandonSession, Load,
                Announce, EndCountdown
  <1>5. ASSUME NEW t \in Tasks, Tick(t) PROVE UNCHANGED session /\ hist'.stale = hist.stale
    BY <1>5 DEF Tick, LoadedInv, TypeOK, HistType
  <1>6. ASSUME NEW t \in Tasks, FailTask(t) PROVE UNCHANGED session /\ hist'.stale = hist.stale
    BY <1>6, FaultType DEF FailTask
  <1>7. Hit \/ MqttPush \/ MqttAnnounce => UNCHANGED <<session, hist>>
    BY DEF Hit, HandleMqttEvent, MqttPush, MqttAnnounce
  <1>8. CreateSession => hist'.stale = hist.stale
    BY DEF CreateSession, LoadedInv, TypeOK, HistType
  <1>9. QED
    BY <1>1, <1>2, <1>3, <1>4, <1>5, <1>6, <1>7, <1>8 DEF Step, TaskRuns, Consume

\* A step of the match, when the sums hold.
LEMMA MatchAddsUp ==
  ASSUME FlushInv, NothingYet, ~hist.created => buffer = <<>>,
         SessionAddsUp, ConsumerAddsUp, MatchStep, ~hist'.stale
  PROVE  SessionAddsUp' /\ ConsumerAddsUp'
  <1>1. /\ Step /\ LoadedInv /\ UNCHANGED flush
        /\ flush[Consumer].pc \in {"loaded", "cleared"} => mqtt.pc = "ended"
    BY DEF MatchStep, flushVars, FlushInv, ConsumerWaits
  <1>2. ConsumerAddsUp'
    <2>1. flush[Consumer].pc = "loaded" => buffer' = buffer
      BY <1>1, StepBufferCases DEF MqttPush, MqttSave
    <2>2. QED
      BY <1>1, <2>1 DEF ConsumerAddsUp
  <1>3. SessionAddsUp'
    <2>1. CASE CreateSession
      <3>1. ~hist.created
        BY <2>1 DEF CreateSession
      <3>2. session'.score = 0 /\ mqtt'.pc = "idle" /\ buffer' = <<>>
        BY <2>1, <3>1, Zenon DEF CreateSession, NothingYet, NewSession
      <3>3. QED
        BY <3>2, WorthOfNone DEF SessionAddsUp
    <2>2. CASE MqttSave
      <3>1. /\ mqtt.pc = "loaded" /\ mqtt'.event = mqtt.event /\ mqtt'.pc = "saved"
            /\ UNCHANGED buffer /\ flush[Consumer].pc # "cleared"
            /\ mqtt.snap \in Session
        BY <1>1, <2>2 DEF MqttSave, LoadedInv, MqttLoaded
      <3>2. session = mqtt.snap
        BY <1>1, <2>2, FreshStep
      <3>3. session.score = Worth(buffer)
        BY <3>1, <3>2, NoSessionAssumption DEF SessionAddsUp
      <3>4. session'.score = session.score + mqtt.event.points
        BY <1>1, <2>2, <3>2, MqttSaveFacts
      <3>5. QED
        BY <3>1, <3>3, <3>4 DEF SessionAddsUp
    <2>3. CASE MqttPush
      <3>1. /\ buffer \in Seq(Event) /\ mqtt.event \in Event /\ UNCHANGED session
            /\ buffer' = Append(buffer, mqtt.event)
            /\ mqtt.pc = "saved" /\ mqtt'.pc = "pushed"
        BY <1>1, <2>3 DEF LoadedInv, TypeOK, MqttType, MqttPush
      <3>2. Worth(buffer') = Worth(buffer) + mqtt.event.points
        BY <3>1, WorthOfOneMore
      <3>3. QED
        BY <1>1, <3>1, <3>2 DEF SessionAddsUp
    <2>4. CASE ~CreateSession /\ ~MqttSave /\ ~MqttPush
      <3>1. UNCHANGED buffer /\ (mqtt.pc = "saved" => mqtt' = mqtt)
        BY <1>1, <2>4, StepBufferCases
      <3>2. mqtt'.pc = "saved" => mqtt' = mqtt
        BY <1>1, <2>4
           DEF Step, Request, ReadyUp, PauseSession, ResumeSession, AbandonSession, Load,
               TaskRuns, Save, Announce, Tick, EndCountdown, FailTask, Hit, HandleMqttEvent,
               Consume, MqttAnnounce, IdleMqtt, LoadedInv, TypeOK, MqttType
      <3>3. \/ session' = session
            \/ session # NoSession /\ session' # NoSession /\ session'.score = session.score
        BY <1>1, <2>4, FreshStep
      <3>4. QED
        BY <1>1, <3>1, <3>2, <3>3 DEF SessionAddsUp
    <2>5. QED
      BY <2>1, <2>2, <2>3, <2>4
  <1>4. QED
    BY <1>2, <1>3

LEMMA AddsUpStep ==
  ASSUME FlushInv, OnlyConsumer, EmptyAtFirst, AddsUpInv, [FlushNext]_allVars
  PROVE  AddsUpInv'
  <1>0. Consumer \in Flushers
    BY DEF Flushers
  <1>1. ASSUME Fresh' PROVE Fresh
    <2>1. Quiet
      BY <1>1, QuietCases DEF Fresh
    <2>2. ~hist.stale
      BY <1>0, <1>1, QuietCases, PassesFacts, FreshStep
         DEF Fresh, MatchStep, FlushInv, Persist, ClearBuffer, DeleteSession, vars
    <2>3. QED
      BY <2>1, <2>2 DEF Fresh
  <1>2. ASSUME Fresh' PROVE SessionAddsUp' /\ ConsumerAddsUp'
    <2>0. Fresh /\ SessionAddsUp /\ ConsumerAddsUp /\ FlushInv' /\ Quiet' /\ Quiet
      BY <1>1, <1>2, FlushNextInv DEF AddsUpInv, Fresh
    <2>1. CASE Passes(Consumer)
      <3>1. mqtt'.pc = "saved" <=> mqtt.pc = "saved"
        BY <1>0, <2>1, PassesFacts DEF IdleMqtt
      <3>2. SessionAddsUp'
        BY <1>0, <2>0, <2>1, <3>1, PassesFacts DEF SessionAddsUp, IdleMqtt
      <3>3. flush'[Consumer].pc = "loaded" => mqtt'.pc # "saved"
        BY <2>0 DEF FlushInv, ConsumerWaits
      <3>4. ConsumerAddsUp'
        BY <1>0, <2>0, <2>1, <3>1, <3>3, PassesFacts, NoSessionAssumption
           DEF SessionAddsUp, ConsumerAddsUp
      <3>5. QED
        BY <3>2, <3>4
    <2>2. CASE Persist(Consumer)
      BY <1>0, <2>0, <2>2, RestartFacts DEF Persist, vars, SessionAddsUp, ConsumerAddsUp
    <2>3. CASE ClearBuffer(Consumer)
      BY <1>0, <2>3, GotoFacts DEF ClearBuffer, SessionAddsUp, ConsumerAddsUp
    <2>4. CASE DeleteSession(Consumer)
      BY <1>0, <2>4, ReturnFacts DEF DeleteSession, SessionAddsUp, ConsumerAddsUp
    <2>5. CASE MatchStep
      BY <1>2, <2>0, <2>5, MatchAddsUp DEF EmptyAtFirst, Fresh
    <2>6. CASE UNCHANGED <<vars, games, flush>>
      BY <2>0, <2>6 DEF vars, SessionAddsUp, ConsumerAddsUp
    <2>7. QED
      BY <2>0, <2>1, <2>2, <2>3, <2>4, <2>5, <2>6, QuietCases
  <1>3. ASSUME Fresh' PROVE \A g \in 1 .. Len(games') : games'[g].score = Worth(games'[g].events)
    <2>0. /\ \A g \in 1 .. Len(games) : games[g].score = Worth(games[g].events)
          /\ ConsumerAddsUp
      BY <1>1, <1>3 DEF AddsUpInv, SavedGameAddsUp, Fresh, Quiet
    <2>1. CASE Persist(Consumer)
      <3>1. /\ Len(games) \in Nat /\ Len(games') = Len(games) + 1
            /\ \A g \in 1 .. Len(games) : games'[g] = games[g]
            /\ games'[Len(games) + 1].score = flush[Consumer].snap.score
            /\ games'[Len(games) + 1].events = flush[Consumer].events
        BY <1>0, <2>1, PersistFacts
      <3>2. flush[Consumer].snap.score = Worth(flush[Consumer].events)
        BY <2>0, <2>1 DEF Persist, ConsumerAddsUp
      <3>3. QED
        BY <2>0, <3>1, <3>2
    <2>2. CASE ~Persist(Consumer)
      <3>1. games' = games
        BY <1>0, <1>3, <2>2, QuietCases, PassesFacts
           DEF Fresh, ClearBuffer, DeleteSession, MatchStep, flushVars
      <3>2. QED
        BY <2>0, <3>1
    <2>3. QED
      BY <2>1, <2>2
  <1>4. QED
    BY <1>2, <1>3 DEF AddsUpInv, SavedGameAddsUp, Fresh, Quiet

\* A game saved by the consumer alone, with no stale write, has the score its own
\* events are worth: the buffer it reads after the session belongs to the score.
THEOREM SavedGamesAddUp == FlushSpec => []SavedGameAddsUp
  <1>1. FlushInit => EmptyAtFirst /\ AddsUpInv
    BY DEF FlushInit, Init, IdleTask, IdleMqtt, IdleFlush, Flushers, EmptyAtFirst,
           NothingYet, AddsUpInv, SessionAddsUp, ConsumerAddsUp, SavedGameAddsUp
  <1>2. FlushInv /\ OnlyConsumer /\ EmptyAtFirst /\ AddsUpInv /\ [FlushNext]_allVars
        => EmptyAtFirst' /\ AddsUpInv'
    BY EmptyAtFirstStep, AddsUpStep
  <1>3. AddsUpInv => SavedGameAddsUp
    BY DEF AddsUpInv
  <1>4. QED
    BY <1>1, <1>2, <1>3, FlushInvAlways, OnlyConsumerAlways, PTL DEF FlushSpec

-----------------------------------------------------------------------------
(* The borne, as the flush writes it *)

\* A session mark_game_over is about to take out of its game was in it, and no
\* session becomes unattached again.
MarksAttached ==
    \A f \in Flushers : flush[f].pc = "marking" => borne # "unattached"

LEMMA MarksAttachedStep ==
  ASSUME FlushInv, MarksAttached, [FlushNext]_allVars
  PROVE  MarksAttached' /\ [Screens!Next]_borne
  <1> USE DEF FlushInv, FlushTypeOK, MarksAttached
  <1>1. borne \in {"unattached", "in_game", "game_over", "left"}
    BY DEF BorneStates, Screens!Relations
  <1>2. ASSUME NEW to \in BorneStates, borne' = to,
               to # borne => <<borne, to>> \in Screens!Moves
        PROVE  Screens!Next
    BY <1>2 DEF Screens!Next, Screens!Attached, BorneStates
  <1>3. ASSUME NEW f \in Flushers, MarkGameOver(f) PROVE MarksAttached' /\ Screens!Next
    <2>1. borne' = "game_over" /\ borne # "unattached" /\ "game_over" \in BorneStates
      BY <1>3 DEF MarkGameOver, BorneStates, Screens!Relations
    <2>2. "game_over" # borne => <<borne, "game_over">> \in Screens!Moves
      BY <1>1, <2>1 DEF Screens!Moves
    <2>3. QED
      BY <1>2, <2>1, <2>2
  <1>4. CASE BorneMoves
    BY <1>2, <1>4 DEF BorneMoves, Screens!Moves
  <1>5. ASSUME NEW f \in Flushers, flush' = [flush EXCEPT ![f] = flush'[f]],
               flush'[f].pc = "marking" => borne = "in_game" \/ flush[f].pc = "marking",
               borne' = borne
        PROVE  MarksAttached' /\ [Screens!Next]_borne
    BY <1>5
  <1>6. ASSUME NEW r \in Requests, PostScores(r) \/ RelayGameOver(r)
        PROVE  MarksAttached' /\ [Screens!Next]_borne
    <2>1. r \in Flushers
      BY DEF Flushers
    <2>2. borne' = borne /\ flush' = [flush EXCEPT ![r] = flush'[r]] /\ flush'[r].pc # "marking"
      BY <1>6, <2>1 DEF PostScores, RelayGameOver, LoadSession, Goto, IdleFlush, FlushType
    <2>3. QED
      BY <1>5, <2>1, <2>2
  <1>7. ASSUME NEW f \in Flushers, FlushRuns(f) \/ FailFlush(f), ~MarkGameOver(f)
        PROVE  MarksAttached' /\ [Screens!Next]_borne
    <2>1. borne' = borne
      BY <1>7 DEF FlushRuns, FailFlush, RelayLoad, RelayScore, FinishBorneGame, LoadBorne,
                  FlushMarked, ReadEvents, Persist, ClearBuffer, DeleteSession
    <2>2. flush' = [flush EXCEPT ![f] = flush'[f]]
      BY <1>7 DEF FlushRuns, FailFlush, RelayLoad, RelayScore, FinishBorneGame, LoadBorne,
                  FlushMarked, ReadEvents, Persist, ClearBuffer, DeleteSession, LoadSession,
                  Goto, Restart, Return
    <2>3. flush'[f].pc = "marking" => borne = "in_game"
      <3>1. CASE LoadBorne(f)
        BY <3>1, GotoFacts DEF LoadBorne
      <3>2. CASE RelayLoad(f) \/ RelayScore(f)
        BY <3>2, RelayLoadFacts, RestartFacts DEF RelayScore
      <3>3. CASE FinishBorneGame(f) \/ FlushMarked(f)
        BY <3>3, GotoFacts, ReturnFacts, LoadSessionFacts DEF FinishBorneGame, FlushMarked
      <3>4. CASE ReadEvents(f) \/ Persist(f)
        BY <3>4, ReadEventsFacts, RestartFacts DEF Persist
      <3>5. CASE ClearBuffer(f) \/ DeleteSession(f) \/ FailFlush(f)
        BY <3>5, GotoFacts, ReturnFacts DEF ClearBuffer, DeleteSession, FailFlush
      <3>6. QED
        BY <1>7, <3>1, <3>2, <3>3, <3>4, <3>5 DEF FlushRuns
    <2>4. QED
      BY <1>5, <2>1, <2>2, <2>3
  <1>8. CASE MatchStep \/ MatchFails \/ UNCHANGED allVars
    BY <1>8 DEF MatchStep, MatchFails, flushVars, allVars
  <1>9. CASE FlushCrash
    BY <1>9 DEF FlushCrash, IdleFlush
  <1>10. QED
    BY <1>3, <1>4, <1>6, <1>7, <1>8, <1>9 DEF FlushNext, FlushRuns

\* The flush keeps to the moves of Attachment that the screens keep to: a late
\* mark_game_over never attaches a session that was not, nor brings one back.
THEOREM FlushKeepsAttachment == FlushSpec => FlushAttaches
  <1>1. FlushInit => MarksAttached
    BY DEF FlushInit, MarksAttached, IdleFlush
  <1>2. QED
    BY <1>1, MarksAttachedStep, FlushInvAlways, PTL DEF FlushSpec, FlushAttaches
=============================================================================
