-------------------------- MODULE MatchSyncProofs --------------------------
(***************************************************************************)
(* Machine-checked proofs about MatchSync, for any number of concurrent    *)
(* requests, any points, any bound on events and failures.                 *)
(*                                                                         *)
(* LoadedInv says that every copy an activity holds is a session its guard *)
(* has accepted; it is inductive and gives TypeOK.  HonestInv adds that no *)
(* copy is worth more than the accepted events; a stale copy written back  *)
(* then does no harm to NothingInvented and CountedDown.  BufferInv adds   *)
(* to BufferInOrder which event the consumer has between save and push.    *)
(***************************************************************************)
EXTENDS MatchSync, TLAPS

TasksLoaded ==
    \A t \in Tasks : task[t].pc = "loaded" =>
        /\ task[t].snap \in Session
        /\ task[t].snap.status \in Accepted(task[t].op)

MqttLoaded ==
    mqtt.pc = "loaded" =>
        /\ mqtt.snap \in Session
        /\ mqtt.snap.status = "playing"
        /\ Scores(mqtt.event.topic) \/ mqtt.event.points = 0

LoadedInv == TypeOK /\ TasksLoaded /\ MqttLoaded

-----------------------------------------------------------------------------
(* The pure rules *)

LEMMA TargetIsStatus == ASSUME NEW op \in Ops PROVE Target(op) \in Status
  BY DEF Ops, Target, Status

\* Setting the status of a session leaves a session.
LEMMA SetStatus ==
  ASSUME NEW s \in Session, NEW st \in Status
  PROVE  /\ [s EXCEPT !.status = st] \in Session
         /\ [s EXCEPT !.status = st].status = st
         /\ [s EXCEPT !.status = st].score = s.score
         /\ [s EXCEPT !.status = st].lives = s.lives
         /\ [s EXCEPT !.status = st].combo = s.combo
  BY DEF Session

\* An event leaves a session, adds its points once, takes at most one life,
\* and only a game over changes the status.
LEMMA ApplyFacts ==
  ASSUME NEW topic \in Topics, NEW points \in Nat, NEW s \in Session,
         Scores(topic) \/ points = 0
  PROVE  /\ Apply(topic, points, s) \in Session
         /\ Apply(topic, points, s).score = s.score + points
         /\ Apply(topic, points, s).lives =
              IF topic = "ball_lost" /\ s.lives > 0 THEN s.lives - 1 ELSE s.lives
         /\ Apply(topic, points, s).status =
              IF topic = "game_over" THEN "over" ELSE s.status
  BY LivesAssumption DEF Session, Apply, ScoreAfter, LivesAfter, ComboAfter, Scores, Topics, Status

-----------------------------------------------------------------------------
(* LoadedInv is inductive *)

LEMMA IdleTypes == IdleTask \in TaskType /\ IdleMqtt \in MqttType
  BY DEF IdleTask, TaskType, Ops, COUNTDOWN_VALUES, IdleMqtt, MqttType, NoEvent, Event, Topics

LEMMA InitLoaded == Init => LoadedInv
  <1> SUFFICES ASSUME Init PROVE LoadedInv
    OBVIOUS
  <1>1. TypeOK
    BY IdleTypes DEF Init, TypeOK, HistType
  <1>2. TasksLoaded /\ MqttLoaded
    BY DEF Init, TasksLoaded, MqttLoaded, IdleTask, IdleMqtt
  <1>3. QED
    BY <1>1, <1>2 DEF LoadedInv

LEMMA CreateLoaded == ASSUME LoadedInv, CreateSession PROVE LoadedInv'
  <1>1. session' \in Session
    BY LivesAssumption DEF CreateSession, NewSession, Session, Status
  <1>2. hist' \in HistType
    BY DEF LoadedInv, TypeOK, CreateSession, HistType
  <1>3. QED
    BY <1>1, <1>2 DEF LoadedInv, TypeOK, TasksLoaded, MqttLoaded, CreateSession

LEMMA LoadLoaded ==
  ASSUME LoadedInv, NEW t \in Tasks, NEW op \in Ops, Load(t, op)
  PROVE  LoadedInv'
  <1>1. session \in Session
    BY DEF LoadedInv, TypeOK, Load
  <1>2. task' \in [Tasks -> TaskType]
    BY <1>1 DEF LoadedInv, TypeOK, Load, TaskType, COUNTDOWN_VALUES
  <1>3. TasksLoaded'
    BY <1>1 DEF LoadedInv, TypeOK, TasksLoaded, Load
  <1>4. QED
    BY <1>2, <1>3 DEF LoadedInv, TypeOK, MqttLoaded, Load

LEMMA SaveLoaded ==
  ASSUME LoadedInv, NEW t \in Tasks, Save(t)
  PROVE  /\ LoadedInv'
         /\ session' \in Session
         /\ session'.status = Target(task[t].op)
         /\ session'.score = task[t].snap.score
         /\ session'.lives = task[t].snap.lives
  <1>1. task[t].snap \in Session /\ task[t].op \in Ops
    BY DEF LoadedInv, TypeOK, TasksLoaded, Save, TaskType
  <1>2. /\ session' \in Session
        /\ session'.status = Target(task[t].op)
        /\ session'.score = task[t].snap.score
        /\ session'.lives = task[t].snap.lives
    BY <1>1, SetStatus, TargetIsStatus DEF Save
  <1>3. task' \in [Tasks -> TaskType]
    BY DEF LoadedInv, TypeOK, Save, TaskType
  <1>4. hist' \in HistType
    BY DEF LoadedInv, TypeOK, Save, HistType
  <1>5. TasksLoaded'
    BY DEF LoadedInv, TypeOK, TasksLoaded, Save
  <1>6. QED
    BY <1>2, <1>3, <1>4, <1>5 DEF LoadedInv, TypeOK, MqttLoaded, Save

LEMMA AnnounceLoaded == ASSUME LoadedInv, NEW t \in Tasks, Announce(t) PROVE LoadedInv'
  <1>1. task[t].op \in Ops
    BY DEF LoadedInv, TypeOK, TaskType
  <1>2. task' \in [Tasks -> TaskType]
    BY DEF LoadedInv, TypeOK, Announce, TaskType, IdleTask, Ops, COUNTDOWN_VALUES
  <1>3. TasksLoaded'
    BY DEF LoadedInv, TypeOK, TasksLoaded, Announce, IdleTask
  <1>4. QED
    BY <1>1, <1>2, <1>3, TargetIsStatus DEF LoadedInv, TypeOK, MqttLoaded, Announce

LEMMA TickLoaded == ASSUME LoadedInv, NEW t \in Tasks, Tick(t) PROVE LoadedInv'
  <1>1. task' \in [Tasks -> TaskType]
    <2>1. Len(COUNTDOWN_VALUES) = 4
      BY DEF COUNTDOWN_VALUES
    <2>2. task[t].left \in 0 .. 4 /\ task[t].left - 1 \in 0 .. 4
      BY <2>1 DEF LoadedInv, TypeOK, Tick, TaskType
    <2>3. QED
      BY <2>1, <2>2 DEF LoadedInv, TypeOK, Tick, TaskType
  <1>2. hist' \in HistType
    BY DEF LoadedInv, TypeOK, Tick, HistType
  <1>3. TasksLoaded'
    BY DEF LoadedInv, TypeOK, TasksLoaded, Tick
  <1>4. QED
    BY <1>1, <1>2, <1>3 DEF LoadedInv, TypeOK, MqttLoaded, Tick

LEMMA DropLoaded ==
  ASSUME LoadedInv, NEW t \in Tasks, task' = [task EXCEPT ![t] = IdleTask],
         UNCHANGED <<session, buffer, mqtt, announced>>, hist' \in HistType
  PROVE  LoadedInv'
  <1>1. task' \in [Tasks -> TaskType]
    BY IdleTypes DEF LoadedInv, TypeOK
  <1>2. TasksLoaded'
    BY DEF LoadedInv, TypeOK, TasksLoaded, IdleTask
  <1>3. QED
    BY <1>1, <1>2 DEF LoadedInv, TypeOK, MqttLoaded

LEMMA EndCountdownLoaded ==
  ASSUME LoadedInv, NEW t \in Tasks, EndCountdown(t)
  PROVE  LoadedInv'
  <1>1. CASE Load(t, "countdown")
    BY <1>1, LoadLoaded DEF Ops
  <1>2. CASE ~Load(t, "countdown")
    BY <1>2, DropLoaded DEF EndCountdown, LoadedInv, TypeOK
  <1>3. QED
    BY <1>1, <1>2

LEMMA HitLoaded == ASSUME LoadedInv, Hit PROVE LoadedInv'
  <1>1. PICK topic \in Emits, points \in Points \cup {0} :
             (Scores(topic) \/ points = 0) /\ HandleMqttEvent(topic, points)
    BY DEF Hit
  <1>2. session \in Session /\ topic \in Topics /\ hist.accepted + 1 \in Nat
    BY <1>1, HardwareAssumption DEF LoadedInv, TypeOK, HandleMqttEvent, HistType
  <1>3. mqtt' \in MqttType
    BY <1>1, <1>2 DEF HandleMqttEvent, MqttType, Event
  <1>4. MqttLoaded'
    BY <1>1, <1>2 DEF HandleMqttEvent, MqttLoaded
  <1>5. QED
    BY <1>1, <1>3, <1>4 DEF LoadedInv, TypeOK, TasksLoaded, HandleMqttEvent

\* What MqttSave does to the session and to the history.
LEMMA MqttSaveFacts ==
  ASSUME LoadedInv, MqttSave
  PROVE  /\ mqtt.event.topic \in Topics /\ mqtt.event.points \in Nat
         /\ session' \in Session
         /\ session'.score = mqtt.snap.score + mqtt.event.points
         /\ session'.lives = IF mqtt.event.topic = "ball_lost" /\ mqtt.snap.lives > 0
                             THEN mqtt.snap.lives - 1 ELSE mqtt.snap.lives
         /\ session'.status \in {"playing", "over"}
         /\ hist' \in HistType
         /\ hist'.accepted = hist.accepted + 1
         /\ hist'.earned = hist.earned + mqtt.event.points
         /\ hist'.drained = IF mqtt.event.topic = "ball_lost"
                            THEN hist.drained + 1 ELSE hist.drained
         /\ hist'.stale = (hist.stale \/ session # mqtt.snap)
         /\ hist'.counted = hist.counted
         /\ hist'.faults = hist.faults
         /\ hist'.created = hist.created
  <1>1. /\ mqtt.snap \in Session /\ mqtt.snap.status = "playing"
        /\ mqtt.event.topic \in Topics
        /\ mqtt.event.points \in Nat
        /\ Scores(mqtt.event.topic) \/ mqtt.event.points = 0
    BY HardwareAssumption DEF LoadedInv, TypeOK, MqttLoaded, MqttSave, MqttType, Event
  <1>2. /\ session' \in Session
        /\ session'.score = mqtt.snap.score + mqtt.event.points
        /\ session'.lives = IF mqtt.event.topic = "ball_lost" /\ mqtt.snap.lives > 0
                            THEN mqtt.snap.lives - 1 ELSE mqtt.snap.lives
        /\ session'.status \in {"playing", "over"}
    BY <1>1, ApplyFacts DEF MqttSave
  <1>3. /\ hist.accepted + 1 \in Nat /\ hist.earned + mqtt.event.points \in Nat
        /\ (IF mqtt.event.topic = "ball_lost" THEN hist.drained + 1 ELSE hist.drained) \in Nat
    BY <1>1 DEF LoadedInv, TypeOK, HistType
  <1> DEFINE h1 == [hist EXCEPT !.accepted = hist.accepted + 1]
             h2 == [h1 EXCEPT !.earned = hist.earned + mqtt.event.points]
             h3 == [h2 EXCEPT !.drained = IF mqtt.event.topic = "ball_lost"
                                          THEN hist.drained + 1 ELSE hist.drained]
             h4 == [h3 EXCEPT !.stale = hist.stale \/ session # mqtt.snap]
  <1>4. /\ h1 \in HistType /\ h1.accepted = hist.accepted + 1 /\ h1.earned = hist.earned
        /\ h1.drained = hist.drained /\ h1.stale = hist.stale /\ h1.counted = hist.counted
        /\ h1.faults = hist.faults /\ h1.created = hist.created
    BY <1>3 DEF LoadedInv, TypeOK, HistType
  <1>5. /\ h2 \in HistType /\ h2.accepted = hist.accepted + 1
        /\ h2.earned = hist.earned + mqtt.event.points
        /\ h2.drained = hist.drained /\ h2.stale = hist.stale /\ h2.counted = hist.counted
        /\ h2.faults = hist.faults /\ h2.created = hist.created
    BY <1>3, <1>4 DEF HistType
  <1>6. /\ h3 \in HistType /\ h3.accepted = hist.accepted + 1
        /\ h3.earned = hist.earned + mqtt.event.points
        /\ h3.drained = IF mqtt.event.topic = "ball_lost" THEN hist.drained + 1 ELSE hist.drained
        /\ h3.stale = hist.stale /\ h3.counted = hist.counted
        /\ h3.faults = hist.faults /\ h3.created = hist.created
    BY <1>3, <1>5 DEF HistType
  <1>7. /\ h4 \in HistType /\ h4.accepted = hist.accepted + 1
        /\ h4.earned = hist.earned + mqtt.event.points
        /\ h4.drained = IF mqtt.event.topic = "ball_lost" THEN hist.drained + 1 ELSE hist.drained
        /\ h4.stale = (hist.stale \/ session # mqtt.snap) /\ h4.counted = hist.counted
        /\ h4.faults = hist.faults /\ h4.created = hist.created
    BY <1>3, <1>6 DEF HistType
  <1>8. hist' = h4
    BY DEF MqttSave, LoadedInv, TypeOK, HistType
  <1>9. QED
    BY <1>1, <1>2, <1>7, <1>8

LEMMA ConsumeLoaded == ASSUME LoadedInv, Consume PROVE LoadedInv'
  <1>1. ASSUME MqttSave PROVE LoadedInv'
    <2>1. mqtt' \in MqttType /\ mqtt'.pc = "saved"
      BY <1>1 DEF LoadedInv, TypeOK, MqttSave, MqttType
    <2>2. QED
      BY <1>1, <2>1, MqttSaveFacts DEF LoadedInv, TypeOK, TasksLoaded, MqttLoaded, MqttSave
  <1>2. ASSUME MqttPush PROVE LoadedInv'
    <2>1. mqtt.event \in Event
      BY DEF LoadedInv, TypeOK, MqttType
    <2>2. buffer' \in Seq(Event)
      BY <1>2, <2>1 DEF LoadedInv, TypeOK, MqttPush
    <2>3. mqtt' \in MqttType /\ mqtt'.pc = "pushed"
      BY <1>2 DEF LoadedInv, TypeOK, MqttPush, MqttType
    <2>4. QED
      BY <1>2, <2>2, <2>3 DEF LoadedInv, TypeOK, TasksLoaded, MqttLoaded, MqttPush
  <1>3. ASSUME MqttAnnounce PROVE LoadedInv'
    <2>1. mqtt' \in MqttType /\ mqtt'.pc \in {"ended", "idle"}
      BY <1>3, IdleTypes DEF LoadedInv, TypeOK, MqttAnnounce, MqttType, IdleMqtt
    <2>2. QED
      BY <1>3, <2>1 DEF LoadedInv, TypeOK, TasksLoaded, MqttLoaded, MqttAnnounce, Status
  <1>4. QED
    BY <1>1, <1>2, <1>3 DEF Consume

LEMMA FaultType ==
  ASSUME LoadedInv, CountFault
  PROVE  /\ hist' \in HistType /\ hist'.faults > 0
         /\ hist'.accepted = hist.accepted /\ hist'.earned = hist.earned
         /\ hist'.drained = hist.drained /\ hist'.stale = hist.stale
         /\ hist'.counted = hist.counted /\ hist'.created = hist.created
  BY DEF LoadedInv, TypeOK, CountFault, HistType

LEMMA FailTaskLoaded == ASSUME LoadedInv, NEW t \in Tasks, FailTask(t) PROVE LoadedInv'
  BY DropLoaded, FaultType DEF FailTask

LEMMA IdleConsumerLoaded ==
  ASSUME LoadedInv, mqtt' = IdleMqtt, UNCHANGED <<session, buffer, task, announced>>,
         hist' \in HistType
  PROVE  LoadedInv'
  BY IdleTypes DEF LoadedInv, TypeOK, TasksLoaded, MqttLoaded, IdleMqtt

LEMMA CrashLoaded == ASSUME LoadedInv, Crash PROVE LoadedInv'
  <1>1. task' \in [Tasks -> TaskType] /\ TasksLoaded'
    BY IdleTypes DEF Crash, TasksLoaded, IdleTask
  <1>2. mqtt' \in MqttType /\ MqttLoaded'
    BY IdleTypes DEF Crash, MqttLoaded, IdleMqtt
  <1>3. hist' \in HistType
    BY FaultType DEF Crash
  <1>4. QED
    BY <1>1, <1>2, <1>3 DEF LoadedInv, TypeOK, Crash

LEMMA StepLoaded == ASSUME LoadedInv, Step PROVE LoadedInv'
  <1>1. ASSUME NEW t \in Tasks, Request(t) PROVE LoadedInv'
    BY <1>1, LoadLoaded
       DEF Request, ReadyUp, PauseSession, ResumeSession, AbandonSession, Ops
  <1>2. ASSUME NEW t \in Tasks, TaskRuns(t) PROVE LoadedInv'
    BY <1>2, SaveLoaded, AnnounceLoaded, TickLoaded, EndCountdownLoaded DEF TaskRuns
  <1>3. QED
    BY <1>1, <1>2, CreateLoaded, FailTaskLoaded, HitLoaded, ConsumeLoaded DEF Step

LEMMA NextLoaded == ASSUME LoadedInv, [Next]_vars PROVE LoadedInv'
  <1>1. CASE Step
    BY <1>1, StepLoaded
  <1>2. CASE MqttReturn
    BY <1>2, IdleConsumerLoaded DEF MqttReturn, LoadedInv, TypeOK
  <1>3. CASE FailMqtt
    BY <1>3, IdleConsumerLoaded, FaultType DEF FailMqtt
  <1>4. CASE Crash
    BY <1>4, CrashLoaded
  <1>5. CASE UNCHANGED vars
    BY <1>5 DEF LoadedInv, TypeOK, TasksLoaded, MqttLoaded, vars
  <1>6. QED
    BY <1>1, <1>2, <1>3, <1>4, <1>5 DEF Next

\* Every reachable state has the types of TypeOK, and every copy an activity
\* holds is a session its guard accepted (the guards of the use cases).
THEOREM TypeCorrect == Spec => []TypeOK
  <1>1. LoadedInv => TypeOK
    BY DEF LoadedInv
  <1>2. Spec => []LoadedInv
    BY InitLoaded, NextLoaded, PTL DEF Spec
  <1>3. QED
    BY <1>1, <1>2, PTL

-----------------------------------------------------------------------------
(* No copy is worth more than the accepted events *)

\* A session carries no more points, and has lost no more lives, than the
\* events of history h; and it has not been opened before a countdown.
Honest(s, h) ==
    /\ s.score <= h.earned
    /\ s.lives >= DEFAULT_LIVES - h.drained
    /\ s.status \in {"playing", "paused", "over"} => h.counted

TasksHonest ==
    \A t \in Tasks :
        /\ task[t].pc = "loaded" => Honest(task[t].snap, hist)
        /\ task[t].pc = "loaded" /\ task[t].op = "countdown" => hist.counted
        /\ task[t].pc = "ticking" /\ task[t].left = 0 => hist.counted

MqttHonest ==
    /\ hist.accepted > 0 => hist.counted
    /\ mqtt.pc = "loaded" => Honest(mqtt.snap, hist)

SessionHonest == session # NoSession => Honest(session, hist)

HonestInv == SessionHonest /\ TasksHonest /\ MqttHonest

\* A history that has only grown.
Grown(h, i) ==
    /\ i.earned >= h.earned
    /\ i.drained >= h.drained
    /\ h.counted => i.counted

LEMMA HonestGrows ==
  ASSUME NEW s \in Session, NEW h \in HistType, NEW i \in HistType, Grown(h, i), Honest(s, h)
  PROVE  Honest(s, i)
  BY LivesAssumption DEF Session, HistType, Grown, Honest

LEMMA InitHonest == Init => HonestInv
  BY DEF Init, HonestInv, SessionHonest, TasksHonest, MqttHonest, IdleTask, IdleMqtt

\* Parts of HonestInv that a step leaves alone stay true as the history grows.
LEMMA SessionStaysHonest ==
  ASSUME LoadedInv, SessionHonest, UNCHANGED session, hist' \in HistType, Grown(hist, hist')
  PROVE  SessionHonest'
  BY HonestGrows DEF LoadedInv, TypeOK, SessionHonest

LEMMA TasksStayHonest ==
  ASSUME LoadedInv, TasksHonest, hist' \in HistType, Grown(hist, hist'),
         \A t \in Tasks : task'[t] = task[t] \/ task'[t].pc = "saved" \/ task'[t].pc = "idle"
  PROVE  TasksHonest'
  <1> SUFFICES ASSUME NEW t \in Tasks
               PROVE  /\ task'[t].pc = "loaded" => Honest(task'[t].snap, hist')
                      /\ task'[t].pc = "loaded" /\ task'[t].op = "countdown" => hist'.counted
                      /\ task'[t].pc = "ticking" /\ task'[t].left = 0 => hist'.counted
    BY DEF TasksHonest
  <1>1. CASE task'[t] = task[t]
    BY <1>1, HonestGrows DEF LoadedInv, TypeOK, TasksLoaded, TasksHonest, Grown
  <1>2. CASE task'[t].pc \in {"saved", "idle"}
    BY <1>2
  <1>3. QED
    BY <1>1, <1>2

LEMMA MqttStaysHonest ==
  ASSUME LoadedInv, MqttHonest, hist' \in HistType, Grown(hist, hist'),
         hist'.accepted = hist.accepted, mqtt' = mqtt \/ mqtt'.pc # "loaded"
  PROVE  MqttHonest'
  BY HonestGrows DEF LoadedInv, TypeOK, MqttLoaded, MqttHonest, Grown, HistType

LEMMA GrownRefl == ASSUME NEW h \in HistType PROVE Grown(h, h)
  BY DEF Grown, HistType

LEMMA GrownSame ==
  ASSUME NEW h \in HistType, NEW i \in HistType,
         i.earned = h.earned, i.drained = h.drained, i.counted = h.counted
  PROVE  Grown(h, i)
  <1>1. i.earned >= h.earned /\ i.drained >= h.drained
    BY DEF HistType
  <1>2. h.counted => i.counted
    BY Zenon
  <1>3. QED
    BY <1>1, <1>2, Zenon DEF Grown

LEMMA LoadHonest ==
  ASSUME LoadedInv, HonestInv, NEW t \in Tasks, NEW op \in Ops, Load(t, op),
         op = "countdown" => hist.counted
  PROVE  HonestInv'
  <1>1. session # NoSession /\ Honest(session, hist) /\ hist' = hist /\ session' = session
    BY DEF HonestInv, SessionHonest, Load
  <1>2. TasksHonest'
    BY <1>1 DEF LoadedInv, TypeOK, HonestInv, TasksHonest, Load
  <1>3. QED
    BY <1>1, <1>2 DEF HonestInv, SessionHonest, MqttHonest, Load

LEMMA SaveHonest ==
  ASSUME LoadedInv, HonestInv, NEW t \in Tasks, Save(t)
  PROVE  HonestInv'
  <1>1. /\ task[t].op \in Ops /\ task[t].snap \in Session
        /\ task[t].snap.status \in Accepted(task[t].op)
        /\ Honest(task[t].snap, hist)
        /\ task[t].op = "countdown" => hist.counted
    BY DEF LoadedInv, TypeOK, TasksLoaded, HonestInv, TasksHonest, Save, TaskType
  <1>2. hist' \in HistType /\ Grown(hist, hist') /\ hist'.earned = hist.earned
        /\ hist'.drained = hist.drained /\ hist'.counted = hist.counted
        /\ hist'.accepted = hist.accepted
    <2>1. /\ hist' \in HistType /\ hist'.earned = hist.earned
          /\ hist'.drained = hist.drained /\ hist'.counted = hist.counted
          /\ hist'.accepted = hist.accepted
      BY DEF LoadedInv, TypeOK, Save, HistType
    <2>2. QED
      BY <2>1, GrownSame DEF LoadedInv, TypeOK
  <1>3. Target(task[t].op) \in {"playing", "paused", "over"} => hist.counted
    BY <1>1 DEF Ops, Target, Accepted, Honest
  <1>4. SessionHonest'
    BY <1>1, <1>2, <1>3, SaveLoaded DEF SessionHonest, Honest
  <1>5. TasksHonest'
    <2>1. \A u \in Tasks : task'[u] = task[u] \/ task'[u].pc = "saved"
      BY DEF LoadedInv, TypeOK, Save, TaskType
    <2>2. QED
      BY <1>2, <2>1, TasksStayHonest DEF HonestInv
  <1>6. MqttHonest'
    BY <1>2, MqttStaysHonest DEF HonestInv, Save
  <1>7. QED
    BY <1>4, <1>5, <1>6 DEF HonestInv

LEMMA MqttSaveHonest == ASSUME LoadedInv, HonestInv, MqttSave PROVE HonestInv'
  <1>1. /\ mqtt.snap \in Session /\ mqtt.snap.status = "playing"
        /\ Honest(mqtt.snap, hist) /\ hist.counted
    BY DEF LoadedInv, MqttLoaded, HonestInv, MqttHonest, MqttSave, Honest
  <1>2. hist.earned \in Nat /\ hist.drained \in Nat
    BY DEF LoadedInv, TypeOK, HistType
  <1>3. hist' \in HistType /\ Grown(hist, hist') /\ hist'.counted
    <2>1. hist' \in HistType /\ hist'.earned >= hist.earned /\ hist'.drained >= hist.drained
      BY <1>2, MqttSaveFacts
    <2>2. hist'.counted
      BY <1>1, MqttSaveFacts, Zenon
    <2>3. QED
      BY <2>1, <2>2, Zenon DEF Grown
  <1>4. SessionHonest'
    <2>1. mqtt.snap.score \in Nat /\ mqtt.snap.lives \in 0 .. DEFAULT_LIVES
      BY <1>1 DEF Session
    <2>2. QED
      BY <1>1, <1>2, <1>3, <2>1, MqttSaveFacts, LivesAssumption DEF SessionHonest, Honest
  <1>5. TasksHonest'
    BY <1>3, TasksStayHonest DEF HonestInv, MqttSave
  <1>6. MqttHonest'
    <2>1. mqtt'.pc = "saved"
      BY DEF MqttSave, LoadedInv, TypeOK, MqttType
    <2>2. QED
      BY <1>3, <2>1 DEF MqttHonest
  <1>7. QED
    BY <1>4, <1>5, <1>6 DEF HonestInv

LEMMA RestHonest ==
  ASSUME LoadedInv, HonestInv, UNCHANGED session, hist' \in HistType, Grown(hist, hist'),
         hist'.accepted = hist.accepted,
         mqtt' = mqtt \/ mqtt'.pc # "loaded",
         \A t \in Tasks : task'[t] = task[t] \/ task'[t].pc = "saved" \/ task'[t].pc = "idle"
  PROVE  HonestInv'
  BY SessionStaysHonest, TasksStayHonest, MqttStaysHonest DEF HonestInv

LEMMA CreateHonest == ASSUME LoadedInv, HonestInv, CreateSession PROVE HonestInv'
  <1>1. hist' \in HistType /\ Grown(hist, hist') /\ hist'.accepted = hist.accepted
        /\ hist'.earned \in Nat /\ hist'.drained \in Nat
    <2>1. /\ hist' \in HistType /\ hist'.earned = hist.earned /\ hist'.drained = hist.drained
          /\ hist'.counted = hist.counted /\ hist'.accepted = hist.accepted
          /\ hist'.earned \in Nat /\ hist'.drained \in Nat
      BY DEF LoadedInv, TypeOK, CreateSession, HistType
    <2>2. QED
      BY <2>1, GrownSame DEF LoadedInv, TypeOK
  <1>2. SessionHonest'
    BY <1>1, LivesAssumption DEF CreateSession, NewSession, SessionHonest, Honest
  <1>3. TasksHonest' /\ MqttHonest'
    BY <1>1, TasksStayHonest, MqttStaysHonest DEF HonestInv, CreateSession
  <1>4. QED
    BY <1>2, <1>3 DEF HonestInv

LEMMA AnnounceHonest ==
  ASSUME LoadedInv, HonestInv, NEW t \in Tasks, Announce(t)
  PROVE  HonestInv'
  <1>1. TasksHonest'
    <2>1. Len(COUNTDOWN_VALUES) = 4
      BY DEF COUNTDOWN_VALUES
    <2>2. QED
      BY <2>1 DEF LoadedInv, TypeOK, HonestInv, TasksHonest, Announce, IdleTask
  <1>2. QED
    BY <1>1 DEF HonestInv, SessionHonest, MqttHonest, Announce

LEMMA TickHonest == ASSUME LoadedInv, HonestInv, NEW t \in Tasks, Tick(t) PROVE HonestInv'
  <1>1. /\ hist' \in HistType /\ Grown(hist, hist') /\ hist'.accepted = hist.accepted
        /\ task[t].left = 1 => hist'.counted
        /\ hist'.earned = hist.earned /\ hist'.drained = hist.drained
    <2>1. /\ hist' \in HistType /\ hist'.accepted = hist.accepted
          /\ hist'.earned = hist.earned /\ hist'.drained = hist.drained
          /\ hist'.counted = (hist.counted \/ task[t].left = 1)
      BY DEF LoadedInv, TypeOK, Tick, HistType
    <2>2. hist'.earned >= hist.earned /\ hist'.drained >= hist.drained
      BY <2>1 DEF LoadedInv, TypeOK, HistType
    <2>3. (hist.counted => hist'.counted) /\ (task[t].left = 1 => hist'.counted)
      BY <2>1, Zenon
    <2>4. QED
      BY <2>1, <2>2, <2>3, Zenon DEF Grown
  <1>2. TasksHonest'
    <2> SUFFICES ASSUME NEW u \in Tasks
                 PROVE  /\ task'[u].pc = "loaded" => Honest(task'[u].snap, hist')
                        /\ task'[u].pc = "loaded" /\ task'[u].op = "countdown" => hist'.counted
                        /\ task'[u].pc = "ticking" /\ task'[u].left = 0 => hist'.counted
      BY DEF TasksHonest
    <2>1. CASE u = t
      <3>1. task'[u].pc = "ticking" /\ task'[u].left = task[t].left - 1 /\ task[t].left \in Nat
        BY <2>1 DEF LoadedInv, TypeOK, Tick, TaskType
      <3>2. QED
        BY <1>1, <3>1
    <2>2. CASE u # t
      <3>1. task'[u] = task[u]
        BY <2>2 DEF LoadedInv, TypeOK, Tick
      <3>2. QED
        BY <1>1, <3>1 DEF HonestInv, TasksHonest, Honest, Grown
    <2>3. QED
      BY <2>1, <2>2
  <1>3. SessionHonest' /\ MqttHonest'
    BY <1>1, SessionStaysHonest, MqttStaysHonest DEF HonestInv, Tick
  <1>4. QED
    BY <1>2, <1>3 DEF HonestInv

LEMMA EndCountdownHonest ==
  ASSUME LoadedInv, HonestInv, NEW t \in Tasks, EndCountdown(t)
  PROVE  HonestInv'
  <1>1. hist.counted
    BY DEF EndCountdown, HonestInv, TasksHonest
  <1>2. CASE Load(t, "countdown")
    BY <1>1, <1>2, LoadHonest DEF Ops
  <1>3. CASE ~Load(t, "countdown")
    <2>1. UNCHANGED <<session, mqtt, hist>> /\ task' = [task EXCEPT ![t] = IdleTask]
      BY <1>3 DEF EndCountdown
    <2>2. \A u \in Tasks : task'[u] = task[u] \/ task'[u].pc = "idle"
      BY <2>1 DEF LoadedInv, TypeOK, IdleTask
    <2>3. QED
      BY <2>1, <2>2, GrownRefl, RestHonest DEF LoadedInv, TypeOK
  <1>4. QED
    BY <1>2, <1>3

LEMMA HitHonest == ASSUME LoadedInv, HonestInv, Hit PROVE HonestInv'
  <1>1. /\ session # NoSession /\ Honest(session, hist) /\ mqtt'.snap = session
        /\ UNCHANGED <<session, task, hist>>
    BY DEF Hit, HandleMqttEvent, HonestInv, SessionHonest
  <1>2. QED
    BY <1>1 DEF HonestInv, SessionHonest, TasksHonest, MqttHonest

LEMMA FaultGrows ==
  ASSUME LoadedInv, CountFault
  PROVE  hist' \in HistType /\ Grown(hist, hist') /\ hist'.accepted = hist.accepted
  BY FaultType DEF Grown, HistType, LoadedInv, TypeOK

LEMMA StepHonest == ASSUME LoadedInv, HonestInv, Step PROVE HonestInv'
  <1>1. ASSUME NEW t \in Tasks, Request(t) PROVE HonestInv'
    BY <1>1, LoadHonest
       DEF Request, ReadyUp, PauseSession, ResumeSession, AbandonSession, Ops
  <1>2. ASSUME NEW t \in Tasks, TaskRuns(t) PROVE HonestInv'
    BY <1>2, SaveHonest, AnnounceHonest, TickHonest, EndCountdownHonest DEF TaskRuns
  <1>3. ASSUME NEW t \in Tasks, FailTask(t) PROVE HonestInv'
    <2>1. \A u \in Tasks : task'[u] = task[u] \/ task'[u].pc = "idle"
      BY <1>3 DEF LoadedInv, TypeOK, FailTask, IdleTask
    <2>2. QED
      BY <1>3, <2>1, FaultGrows, RestHonest DEF FailTask
  <1>4. CASE Consume
    <2>1. CASE MqttPush
      <3>1. mqtt'.pc # "loaded"
        BY <2>1 DEF MqttPush, LoadedInv, TypeOK, MqttType
      <3>2. QED
        BY <2>1, <3>1, GrownRefl, RestHonest DEF MqttPush, LoadedInv, TypeOK
    <2>2. CASE MqttAnnounce
      <3>1. mqtt'.pc # "loaded"
        BY <2>2 DEF MqttAnnounce, LoadedInv, TypeOK, MqttType, IdleMqtt
      <3>2. QED
        BY <2>2, <3>1, GrownRefl, RestHonest DEF MqttAnnounce, LoadedInv, TypeOK
    <2>3. QED
      BY <1>4, <2>1, <2>2, MqttSaveHonest DEF Consume
  <1>5. QED
    BY <1>1, <1>2, <1>3, <1>4, CreateHonest, HitHonest DEF Step

LEMMA NextHonest == ASSUME LoadedInv, HonestInv, [Next]_vars PROVE HonestInv'
  <1>1. CASE MqttReturn
    BY <1>1, GrownRefl, RestHonest DEF MqttReturn, IdleMqtt, LoadedInv, TypeOK
  <1>2. CASE FailMqtt
    BY <1>2, FaultGrows, RestHonest DEF FailMqtt, IdleMqtt
  <1>3. CASE Crash
    BY <1>3, FaultGrows, RestHonest DEF Crash, IdleMqtt, IdleTask
  <1>4. CASE UNCHANGED vars
    BY <1>4 DEF vars, HonestInv, SessionHonest, TasksHonest, MqttHonest
  <1>5. QED
    BY <1>1, <1>2, <1>3, <1>4, StepHonest DEF Next

LEMMA HonestAlways == Spec => [](LoadedInv /\ HonestInv)
  <1>1. LoadedInv /\ HonestInv /\ [Next]_vars => (LoadedInv /\ HonestInv)'
    BY NextLoaded, NextHonest
  <1>2. QED
    BY <1>1, InitLoaded, InitHonest, PTL DEF Spec

\* The stored score never exceeds what the accepted events are worth and no
\* life is taken without a lost ball, for any overlap of whole-hash writes.
THEOREM ScoreNeverInvented == Spec => []NothingInvented
  <1>1. LoadedInv /\ HonestInv => NothingInvented
    BY DEF HonestInv, SessionHonest, Honest, NothingInvented
  <1>2. QED
    BY <1>1, HonestAlways, PTL

\* No session plays, is paused, is over or has scored before some countdown of
\* it has gone through its four ticks.
THEOREM NeverOpensEarly == Spec => []CountedDown
  <1>1. LoadedInv /\ HonestInv => CountedDown
    BY DEF HonestInv, SessionHonest, MqttHonest, Honest, CountedDown
  <1>2. QED
    BY <1>1, HonestAlways, PTL

-----------------------------------------------------------------------------
(* Exact as long as nothing stale is written *)

\* Before the session is created nothing runs and no event has been accepted.
NothingYet ==
    ~hist.created => /\ session = NoSession /\ mqtt.pc = "idle"
                     /\ \A t \in Tasks : task[t].pc = "idle"
                     /\ hist.earned = 0 /\ hist.drained = 0

LEMMA NothingYetStep == ASSUME LoadedInv, NothingYet, [Next]_vars PROVE NothingYet'
  <1> USE DEF LoadedInv, TypeOK, HistType
  <1>1. CASE ~hist.created
    <2>1. CreateSession => NothingYet'
      BY DEF CreateSession, NothingYet
    <2>2. ~Hit /\ ~Consume /\ ~MqttReturn /\ ~FailMqtt /\ ~Crash
      BY <1>1 DEF NothingYet, Hit, HandleMqttEvent, Consume, MqttSave, MqttPush, MqttAnnounce,
                  MqttReturn, FailMqtt, Crash
    <2>3. \A t \in Tasks : ~Request(t) /\ ~TaskRuns(t) /\ ~FailTask(t)
      BY <1>1 DEF NothingYet, Request, ReadyUp, PauseSession, ResumeSession, AbandonSession,
                  Load, TaskRuns, Save, Announce, Tick, EndCountdown, FailTask
    <2>4. UNCHANGED vars => NothingYet'
      BY DEF vars, NothingYet
    <2>5. QED
      BY <2>1, <2>2, <2>3, <2>4 DEF Next, Step
  <1>2. CASE hist.created
    <2>1. ASSUME hist'.created = hist.created PROVE NothingYet'
      BY <1>2, <2>1, Zenon DEF NothingYet
    <2>2. ASSUME NEW t \in Tasks, Save(t) PROVE hist'.created = hist.created
      BY <2>2 DEF Save
    <2>3. ASSUME NEW t \in Tasks, Tick(t) PROVE hist'.created = hist.created
      BY <2>3 DEF Tick
    <2>4. ASSUME NEW t \in Tasks, Request(t) \/ Announce(t) \/ EndCountdown(t)
          PROVE  hist'.created = hist.created
      BY <2>4 DEF Request, ReadyUp, PauseSession, ResumeSession, AbandonSession, Load,
                  Announce, EndCountdown
    <2>5. CountFault => hist'.created = hist.created
      BY DEF CountFault
    <2>6. Consume => hist'.created = hist.created
      BY DEF Consume, MqttSave, MqttPush, MqttAnnounce
    <2>7. Hit \/ MqttReturn \/ UNCHANGED vars => hist'.created = hist.created
      BY DEF Hit, HandleMqttEvent, MqttReturn, vars
    <2>8. ~CreateSession
      BY <1>2, Zenon DEF CreateSession
    <2>9. QED
      BY <2>1, <2>2, <2>3, <2>4, <2>5, <2>6, <2>7, <2>8
         DEF Next, Step, TaskRuns, FailTask, FailMqtt, Crash
  <1>3. QED
    BY <1>1, <1>2

LEMMA NothingYetAlways == Spec => []NothingYet
  <1>1. Init => NothingYet
    BY DEF Init, NothingYet, IdleMqtt, IdleTask
  <1>2. QED
    BY <1>1, NothingYetStep, HonestAlways, PTL DEF Spec

LEMMA ExactStep ==
  ASSUME LoadedInv, NothingYet, ExactUnlessStale, [Next]_vars
  PROVE  ExactUnlessStale'
  <1> DEFINE Same == /\ UNCHANGED session /\ hist'.stale = hist.stale
                     /\ hist'.earned = hist.earned /\ hist'.drained = hist.drained
  <1>0. Same => ExactUnlessStale'
    BY Zenon DEF ExactUnlessStale
  <1>1. CASE CreateSession
    <2>1. hist'.earned = hist.earned /\ hist'.drained = hist.drained /\ hist'.stale = hist.stale
      BY <1>1 DEF LoadedInv, TypeOK, CreateSession, HistType
    <2>2. ~hist.created /\ session' = NewSession
      BY <1>1 DEF CreateSession
    <2>3. hist.earned = 0 /\ hist.drained = 0
      BY <2>2 DEF NothingYet
    <2>4. QED
      BY <2>1, <2>2, <2>3, LivesAssumption DEF ExactUnlessStale, NewSession
  <1>2. ASSUME NEW t \in Tasks, Save(t) PROVE ExactUnlessStale'
    <2>1. /\ hist'.earned = hist.earned /\ hist'.drained = hist.drained
          /\ hist'.stale = (hist.stale \/ session # task[t].snap)
      BY <1>2 DEF LoadedInv, TypeOK, Save, HistType
    <2>2. ~hist'.stale => ~hist.stale /\ session = task[t].snap
      BY <2>1, Zenon
    <2>3. session'.score = task[t].snap.score /\ session'.lives = task[t].snap.lives
          /\ task[t].snap # NoSession
      BY <1>2, SaveLoaded, NoSessionAssumption DEF LoadedInv, TasksLoaded, Save
    <2>4. QED
      BY <2>1, <2>2, <2>3 DEF ExactUnlessStale
  <1>3. CASE MqttSave
    <2>1. ~hist'.stale => ~hist.stale /\ session = mqtt.snap
      BY <1>3, MqttSaveFacts, Zenon
    <2>2. mqtt.snap \in Session /\ mqtt.snap # NoSession
      BY <1>3, NoSessionAssumption DEF LoadedInv, MqttLoaded, MqttSave
    <2>3. hist.drained \in Nat
      BY DEF LoadedInv, TypeOK, HistType
    <2>4. SUFFICES ASSUME ~hist'.stale
                   PROVE  /\ session'.score = hist'.earned
                          /\ session'.lives = IF hist'.drained < DEFAULT_LIVES
                                              THEN DEFAULT_LIVES - hist'.drained ELSE 0
      BY DEF ExactUnlessStale
    <2>5. /\ mqtt.snap.score = hist.earned
          /\ mqtt.snap.lives = IF hist.drained < DEFAULT_LIVES
                               THEN DEFAULT_LIVES - hist.drained ELSE 0
      BY <2>1, <2>2, <2>4 DEF ExactUnlessStale
    <2>6. session'.score = hist'.earned
      BY <1>3, <2>5, MqttSaveFacts
    <2>7. CASE mqtt.event.topic = "ball_lost"
      <3>1. /\ hist'.drained = hist.drained + 1
            /\ session'.lives = IF mqtt.snap.lives > 0 THEN mqtt.snap.lives - 1 ELSE mqtt.snap.lives
        BY <1>3, <2>7, MqttSaveFacts
      <3>2. QED
        BY <2>3, <2>5, <2>6, <3>1, LivesAssumption
    <2>8. CASE mqtt.event.topic # "ball_lost"
      <3>1. hist'.drained = hist.drained /\ session'.lives = mqtt.snap.lives
        BY <1>3, <2>8, MqttSaveFacts
      <3>2. QED
        BY <2>5, <2>6, <3>1
    <2>9. QED
      BY <2>7, <2>8
  <1>4. ASSUME NEW t \in Tasks, Tick(t) PROVE Same
    BY <1>4 DEF LoadedInv, TypeOK, Tick, HistType
  <1>5. ASSUME CountFault, UNCHANGED session PROVE Same
    BY <1>5, FaultType
  <1>6. ASSUME UNCHANGED <<session, hist>> PROVE Same
    BY <1>6
  <1>7. ASSUME NEW t \in Tasks, TaskRuns(t) PROVE ExactUnlessStale'
    BY <1>0, <1>2, <1>4, <1>6, <1>7 DEF TaskRuns, Announce, EndCountdown, Load
  <1>8. ASSUME NEW t \in Tasks, Request(t) PROVE Same
    BY <1>6, <1>8 DEF Request, ReadyUp, PauseSession, ResumeSession, AbandonSession, Load
  <1>9. CASE Consume
    BY <1>0, <1>3, <1>6, <1>9 DEF Consume, MqttPush, MqttAnnounce
  <1>10. CASE Hit
    BY <1>0, <1>6, <1>10 DEF Hit, HandleMqttEvent
  <1>11. ASSUME NEW t \in Tasks, FailTask(t) PROVE Same
    BY <1>5, <1>11 DEF FailTask
  <1>12. CASE MqttReturn \/ FailMqtt \/ Crash
    BY <1>0, <1>5, <1>6, <1>12 DEF MqttReturn, FailMqtt, Crash
  <1>13. CASE UNCHANGED vars
    BY <1>0, <1>6, <1>13 DEF vars
  <1>14. QED
    BY <1>0, <1>1, <1>7, <1>8, <1>9, <1>10, <1>11, <1>12, <1>13 DEF Next, Step

\* Score and lives are exact until some activity overwrites a session other
\* than the one it loaded: stale whole-hash writes are the only loss.
THEOREM ExactUntilStaleWrite == Spec => []ExactUnlessStale
  <1>1. Init => ExactUnlessStale
    BY DEF Init, ExactUnlessStale
  <1>2. LoadedInv /\ NothingYet /\ ExactUnlessStale /\ [Next]_vars => ExactUnlessStale'
    BY ExactStep
  <1>3. QED
    BY <1>1, <1>2, HonestAlways, NothingYetAlways, PTL DEF Spec

-----------------------------------------------------------------------------
(* A ready session has a countdown coming *)

LEMMA ReadyStep ==
  ASSUME LoadedInv, ReadyHasCountdown, [Next]_vars
  PROVE  ReadyHasCountdown'
  <1> SUFFICES ASSUME IsReady', hist'.faults = 0
               PROVE  \E t \in Tasks : WillCountDown(t)'
    BY DEF ReadyHasCountdown
  <1> USE DEF WillCountDown
  \* A step that leaves the session and the countdowns alone.
  <1>0. ASSUME UNCHANGED session, hist'.faults = hist.faults,
               \A t \in Tasks : WillCountDown(t) => WillCountDown(t)'
        PROVE  \E t \in Tasks : WillCountDown(t)'
    BY <1>0 DEF ReadyHasCountdown, IsReady
  <1>1. CASE CreateSession
    BY <1>1 DEF CreateSession, NewSession, IsReady
  <1>2. ASSUME NEW t \in Tasks, NEW op \in Ops, Load(t, op),
               task[t].pc = "idle" \/ op = "countdown"
        PROVE  \E u \in Tasks : WillCountDown(u)'
    BY <1>0, <1>2 DEF Load, LoadedInv, TypeOK
  <1>3. ASSUME NEW t \in Tasks, Save(t) PROVE \E u \in Tasks : WillCountDown(u)'
    <2>1. Target(task[t].op) = "ready" /\ task[t].op \in Ops
      BY <1>3, SaveLoaded DEF IsReady, LoadedInv, TypeOK, TaskType
    <2>2. task[t].op \in StartsCountdown
      BY <2>1 DEF Target, Ops, StartsCountdown
    <2>3. task'[t].pc = "saved" /\ task'[t].op = task[t].op
      BY <1>3 DEF Save, LoadedInv, TypeOK, TaskType
    <2>4. QED
      BY <2>2, <2>3
  <1>4. ASSUME NEW t \in Tasks, Announce(t) PROVE \E u \in Tasks : WillCountDown(u)'
    BY <1>0, <1>4 DEF Announce, LoadedInv, TypeOK
  <1>5. ASSUME NEW t \in Tasks, Tick(t) PROVE \E u \in Tasks : WillCountDown(u)'
    <2>1. task'[t].pc = "ticking"
      BY <1>5 DEF Tick, LoadedInv, TypeOK, TaskType
    <2>2. QED
      BY <2>1
  <1>6. ASSUME NEW t \in Tasks, EndCountdown(t) PROVE \E u \in Tasks : WillCountDown(u)'
    <2>1. CASE Load(t, "countdown")
      BY <1>2, <2>1 DEF Ops
    <2>2. CASE ~Load(t, "countdown")
      BY <1>6, <2>2 DEF EndCountdown, IsReady
    <2>3. QED
      BY <2>1, <2>2
  <1>7. ASSUME CountFault PROVE FALSE
    BY <1>7, FaultType
  <1>8. CASE MqttSave
    BY <1>8, MqttSaveFacts DEF IsReady
  <1>9. CASE Hit \/ MqttPush \/ MqttAnnounce \/ MqttReturn
    BY <1>0, <1>9 DEF Hit, HandleMqttEvent, MqttPush, MqttAnnounce, MqttReturn
  <1>10. CASE UNCHANGED vars
    BY <1>0, <1>10 DEF vars
  <1>11. ASSUME NEW t \in Tasks, Request(t) PROVE \E u \in Tasks : WillCountDown(u)'
    BY <1>2, <1>11
       DEF Request, ReadyUp, PauseSession, ResumeSession, AbandonSession, Ops
  <1>12. ASSUME NEW t \in Tasks, TaskRuns(t) PROVE \E u \in Tasks : WillCountDown(u)'
    BY <1>3, <1>4, <1>5, <1>6, <1>12 DEF TaskRuns
  <1>13. QED
    BY <1>1, <1>7, <1>8, <1>9, <1>10, <1>11, <1>12
       DEF Next, Step, Consume, FailTask, FailMqtt, Crash

\* Without failures, a ready session always has an activity that will end its
\* countdown, however many commands and countdowns overlap.
THEOREM ReadyNeverStranded == Spec => []ReadyHasCountdown
  <1>1. Init => ReadyHasCountdown
    BY DEF Init, ReadyHasCountdown, IsReady
  <1>2. LoadedInv /\ ReadyHasCountdown /\ [Next]_vars => ReadyHasCountdown'
    BY ReadyStep
  <1>3. QED
    BY <1>1, <1>2, HonestAlways, PTL DEF Spec

-----------------------------------------------------------------------------
(* The buffer is in arrival order *)

\* The event being handled is the next one, or the latest accepted one; until
\* it is pushed the buffer ends with the one before it.
MqttRank ==
    /\ mqtt.pc = "loaded" => mqtt.event.id = hist.accepted + 1
    /\ mqtt.pc = "saved" =>
          /\ mqtt.event.id = hist.accepted
          /\ \A i \in 1 .. Len(buffer) : buffer[i].id < hist.accepted
          /\ hist.faults = 0 /\ buffer # <<>> => buffer[Len(buffer)].id + 1 = hist.accepted

BufferInv == BufferInOrder /\ MqttRank

LEMMA EventIds ==
  ASSUME NEW s \in Seq(Event), NEW i \in 1 .. Len(s)
  PROVE  s[i] \in Event /\ s[i].id \in Nat
  <1>1. s[i] \in Event
    OBVIOUS
  <1>2. QED
    BY <1>1 DEF Event

LEMMA AppendEvent ==
  ASSUME NEW s \in Seq(Event), NEW e \in Event
  PROVE  /\ Append(s, e) \in Seq(Event)
         /\ Len(s) \in Nat /\ Len(Append(s, e)) = Len(s) + 1
         /\ \A i \in 1 .. Len(s) : Append(s, e)[i] = s[i]
         /\ Append(s, e)[Len(s) + 1] = e
  OBVIOUS

\* A step that leaves the buffer and the count of events alone keeps BufferInv,
\* unless the consumer takes a new event or gives up one without a fault.
LEMMA SameBuffer ==
  ASSUME BufferInv, UNCHANGED buffer, hist'.accepted = hist.accepted,
         hist'.faults = 0 => hist.faults = 0,
         \/ UNCHANGED mqtt
         \/ /\ mqtt'.pc \notin {"loaded", "saved"}
            /\ mqtt.pc # "saved" \/ hist'.faults # 0
  PROVE  BufferInv'
  BY DEF BufferInv, BufferInOrder, MqttRank

LEMMA HitBuffer == ASSUME LoadedInv, BufferInv, Hit PROVE BufferInv'
  <1>1. /\ mqtt'.pc = "loaded" /\ mqtt'.event.id = hist.accepted + 1
        /\ mqtt.pc = "idle" /\ UNCHANGED <<buffer, hist>>
    BY DEF Hit, HandleMqttEvent
  <1>2. QED
    BY <1>1 DEF BufferInv, BufferInOrder, MqttRank

LEMMA MqttSaveBuffer == ASSUME LoadedInv, BufferInv, MqttSave PROVE BufferInv'
  <1>1. /\ hist'.accepted = hist.accepted + 1 /\ hist'.faults = hist.faults
        /\ hist.accepted \in Nat /\ buffer \in Seq(Event) /\ UNCHANGED buffer
        /\ mqtt'.pc = "saved" /\ mqtt'.event.id = hist.accepted + 1
        /\ mqtt.pc = "loaded"
    BY MqttSaveFacts DEF LoadedInv, TypeOK, HistType, MqttSave, BufferInv, MqttRank
  <1>2. \A i \in 1 .. Len(buffer) : buffer[i].id \in Nat
    BY <1>1, EventIds
  <1>3. QED
    BY <1>1, <1>2 DEF BufferInv, BufferInOrder, MqttRank

LEMMA MqttPushBuffer == ASSUME LoadedInv, BufferInv, MqttPush PROVE BufferInv'
  <1>1. /\ buffer' = Append(buffer, mqtt.event) /\ UNCHANGED hist
        /\ mqtt'.pc = "pushed" /\ mqtt.pc = "saved"
        /\ hist.accepted \in Nat /\ buffer \in Seq(Event) /\ mqtt.event \in Event
    BY DEF LoadedInv, TypeOK, HistType, MqttPush, MqttType
  <1>2. /\ Len(buffer) \in Nat /\ Len(buffer') = Len(buffer) + 1
        /\ \A i \in 1 .. Len(buffer) : buffer'[i] = buffer[i] /\ buffer[i].id \in Nat
        /\ buffer'[Len(buffer) + 1] = mqtt.event
    BY <1>1, EventIds, AppendEvent
  <1>3. /\ mqtt.event.id = hist.accepted
        /\ \A i \in 1 .. Len(buffer) : buffer[i].id < hist.accepted
        /\ hist.faults = 0 /\ buffer # <<>> => buffer[Len(buffer)].id + 1 = hist.accepted
    BY <1>1 DEF BufferInv, MqttRank
  <1>4. \A i \in 1 .. Len(buffer') : buffer'[i].id <= hist.accepted
    <2> TAKE i \in 1 .. Len(buffer')
    <2>1. CASE i = Len(buffer) + 1
      BY <1>1, <1>2, <1>3, <2>1
    <2>2. CASE i \in 1 .. Len(buffer)
      BY <1>1, <1>2, <1>3, <2>2
    <2>3. QED
      BY <1>2, <2>1, <2>2
  <1>5. ASSUME NEW i \in 1 .. Len(buffer') - 1
        PROVE  /\ buffer'[i].id < buffer'[i + 1].id
               /\ hist.faults = 0 => buffer'[i + 1].id = buffer'[i].id + 1
    <2>1. CASE i = Len(buffer)
      <3>1. buffer # <<>> /\ i \in 1 .. Len(buffer)
        BY <1>2, <2>1
      <3>2. QED
        BY <1>2, <1>3, <2>1, <3>1
    <2>2. CASE i \in 1 .. Len(buffer) - 1
      <3>1. i \in 1 .. Len(buffer) /\ i + 1 \in 1 .. Len(buffer)
        BY <1>2, <2>2
      <3>2. /\ buffer[i].id < buffer[i + 1].id
            /\ hist.faults = 0 => buffer[i + 1].id = buffer[i].id + 1
        BY <2>2 DEF BufferInv, BufferInOrder
      <3>3. QED
        BY <1>2, <3>1, <3>2
    <2>3. QED
      BY <1>2, <2>1, <2>2
  <1>6. buffer'[Len(buffer')].id = hist.accepted
    BY <1>2, <1>3
  <1>7. QED
    BY <1>1, <1>4, <1>5, <1>6 DEF BufferInv, BufferInOrder, MqttRank

LEMMA StepBuffer == ASSUME LoadedInv, BufferInv, Step PROVE BufferInv'
  <1> USE DEF LoadedInv, TypeOK, HistType
  <1>1. CASE CreateSession
    BY <1>1, SameBuffer DEF CreateSession
  <1>2. ASSUME NEW t \in Tasks, Save(t) PROVE BufferInv'
    BY <1>2, SameBuffer DEF Save
  <1>3. ASSUME NEW t \in Tasks, Tick(t) PROVE BufferInv'
    BY <1>3, SameBuffer DEF Tick
  <1>4. ASSUME UNCHANGED <<buffer, mqtt, hist>> PROVE BufferInv'
    BY <1>4, SameBuffer
  <1>5. ASSUME NEW t \in Tasks, FailTask(t) PROVE BufferInv'
    BY <1>5, FaultType, SameBuffer DEF FailTask
  <1>6. ASSUME NEW t \in Tasks, Request(t) \/ TaskRuns(t) PROVE BufferInv'
    BY <1>2, <1>3, <1>4, <1>6
       DEF Request, ReadyUp, PauseSession, ResumeSession, AbandonSession, Load,
           TaskRuns, Announce, EndCountdown
  <1>7. CASE MqttAnnounce
    <2>1. mqtt'.pc \notin {"loaded", "saved"} /\ mqtt.pc = "pushed"
      BY <1>7 DEF MqttAnnounce, MqttType, IdleMqtt
    <2>2. QED
      BY <1>7, <2>1, SameBuffer DEF MqttAnnounce
  <1>8. QED
    BY <1>1, <1>5, <1>6, <1>7, HitBuffer, MqttSaveBuffer, MqttPushBuffer DEF Step, Consume

LEMMA NextBuffer == ASSUME LoadedInv, BufferInv, [Next]_vars PROVE BufferInv'
  <1>1. CASE MqttReturn
    BY <1>1, SameBuffer DEF MqttReturn, IdleMqtt
  <1>2. CASE FailMqtt
    BY <1>2, FaultType, SameBuffer DEF FailMqtt, IdleMqtt
  <1>3. CASE Crash
    BY <1>3, FaultType, SameBuffer DEF Crash, IdleMqtt
  <1>4. CASE UNCHANGED vars
    BY <1>4, SameBuffer DEF vars
  <1>5. QED
    BY <1>1, <1>2, <1>3, <1>4, StepBuffer DEF Next

\* However commands and failures overlap with the consumer, the buffer holds
\* accepted events in arrival order, none twice, and none is missing without a
\* failure but the one being handled (RedisEventBuffer.push).
THEOREM BufferKeepsOrder == Spec => []BufferInOrder
  <1>1. Init => BufferInv
    BY DEF Init, BufferInv, BufferInOrder, MqttRank, IdleMqtt
  <1>2. BufferInv => BufferInOrder
    BY DEF BufferInv
  <1>3. LoadedInv /\ BufferInv /\ [Next]_vars => BufferInv'
    BY NextBuffer
  <1>4. QED
    BY <1>1, <1>2, <1>3, HonestAlways, PTL DEF Spec

-----------------------------------------------------------------------------
(* Until a stale write, the status moves along the documented table *)

\* A fresh write by an activity that has checked its guard follows the table.
LEMMA FreshSaveFollowsTable ==
  ASSUME LoadedInv, NEW t \in Tasks, Save(t), Transition, ~hist'.stale, ~ReadiesUp
  PROVE  <<session.status, session'.status>> \in Table
  <1>1. hist'.stale = (hist.stale \/ session # task[t].snap)
    BY DEF Save, LoadedInv, TypeOK, HistType
  <1>2. session = task[t].snap
    BY <1>1, Zenon
  <1>3. task[t].op \in Ops \ {"ready"} /\ task[t].snap.status \in Accepted(task[t].op)
    BY DEF LoadedInv, TypeOK, TasksLoaded, TaskType, Save, ReadiesUp
  <1>4. session'.status = Target(task[t].op)
    BY SaveLoaded DEF LoadedInv, TypeOK
  <1>5. QED
    BY <1>2, <1>3, <1>4 DEF Transition, Table, Ops, Accepted, Target

LEMMA FreshEventFollowsTable ==
  ASSUME LoadedInv, MqttSave, Transition, ~hist'.stale
  PROVE  <<session.status, session'.status>> \in Table
  <1>1. session = mqtt.snap
    BY MqttSaveFacts, Zenon
  <1>2. session.status = "playing" /\ session'.status \in {"playing", "over"}
    BY <1>1, MqttSaveFacts DEF LoadedInv, MqttLoaded, MqttSave
  <1>3. QED
    BY <1>2 DEF Transition, Table

\* The documented transition table holds until some activity overwrites a
\* session it had not loaded, but for ReadyUp, which checks no status.
THEOREM FreshTransitionsFollowTable == Spec => TransitionsFollowTable
  <1> DEFINE Follows == Transition /\ ~hist'.stale /\ ~ReadiesUp
                        => <<session.status, session'.status>> \in Table
  <1>1. LoadedInv /\ NothingYet /\ [Next]_vars => [Follows]_vars
    <2> SUFFICES ASSUME LoadedInv, NothingYet, Next, Transition, ~hist'.stale, ~ReadiesUp
                 PROVE  <<session.status, session'.status>> \in Table
      OBVIOUS
    <2>1. ~CreateSession
      <3>1. session # NoSession
        BY DEF Transition
      <3>2. hist.created
        BY <3>1, Zenon DEF NothingYet
      <3>3. QED
        BY <3>2, Zenon DEF CreateSession
    <2>2. ASSUME UNCHANGED session PROVE FALSE
      BY <2>2 DEF Transition
    <2>3. ASSUME NEW t \in Tasks, Request(t) \/ TaskRuns(t) \/ FailTask(t)
          PROVE  Save(t)
      BY <2>2, <2>3 DEF Request, ReadyUp, PauseSession, ResumeSession, AbandonSession,
                        Load, TaskRuns, Announce, Tick, EndCountdown, FailTask
    <2>4. ASSUME Hit \/ Consume PROVE MqttSave
      BY <2>2, <2>4 DEF Hit, HandleMqttEvent, Consume, MqttPush, MqttAnnounce
    <2>5. ~MqttReturn /\ ~FailMqtt /\ ~Crash
      BY <2>2 DEF MqttReturn, FailMqtt, Crash
    <2>6. QED
      BY <2>1, <2>3, <2>4, <2>5, FreshSaveFollowsTable, FreshEventFollowsTable DEF Next, Step
  <1>2. QED
    BY <1>1, HonestAlways, NothingYetAlways, PTL DEF Spec, TransitionsFollowTable
=============================================================================
