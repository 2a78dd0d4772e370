----------------------------- MODULE MatchSync -----------------------------
(***************************************************************************)
(* The life of one match session: its Redis hash and event buffer, and the *)
(* asyncio activities that load, change and store it.                      *)
(*                                                                         *)
(* Every use case is a coroutine: it loads the whole hash, decides, writes *)
(* the whole hash back, then broadcasts.  Other coroutines run at each     *)
(* await, so an activity is split exactly there; between two awaits it is  *)
(* one action.  A Task is an HTTP request or a WebSocket command together  *)
(* with the background countdown it may spawn; at most Tasks of them are   *)
(* in progress at once.  The MQTT consumer is one serial coroutine.        *)
(*                                                                         *)
(* A request the code refuses (unknown session, status not accepted, topic *)
(* unknown, no sessionId) changes nothing: it is a stuttering step.        *)
(***************************************************************************)
EXTENDS Session, Sequences

CONSTANTS
    Tasks,      \* the request slots: how many requests are in progress at once
    NoSession,  \* what session_store.get answers when the key is absent
    Points,     \* the points a bumper or a bonus can be worth
    Emits,      \* the topics the table's hardware emits
    MaxEvents,  \* bound: events the handler accepts in a behaviour
    MaxFaults   \* bound: crashes and failed awaits in a behaviour

ASSUME NoSessionAssumption == NoSession \notin Session
ASSUME HardwareAssumption == Points \subseteq Nat /\ Emits \subseteq Topics
ASSUME BoundsAssumption == MaxEvents \in Nat /\ MaxFaults \in Nat

VARIABLES
    session,    \* the hash session:{id}, or NoSession
    buffer,     \* the list events:{id}
    task,       \* what each request slot is doing
    mqtt,       \* what the MQTT consumer is doing
    announced,  \* the status of the last match:state sent to the screens
    hist        \* history, read by no guard but the bounds: see HistType

redis == <<session, buffer>>
vars == <<session, buffer, task, mqtt, announced, hist>>

COUNTDOWN_VALUES == <<3, 2, 1, 0>>

\* The content of one MQTT message.  id is its rank among the accepted ones.
Event == [id: Nat, topic: Topics, points: Points \cup {0}]
NoEvent == [id |-> 0, topic |-> "game_over", points |-> 0]

\* loaded: get has answered snap and the guard has passed.  saved: the hash is
\* written, the broadcast is not done and needs only op.  ticking: the
\* countdown, `left` ticks before it re-reads the session.
TaskType == [pc: {"idle", "loaded", "saved", "ticking"}, op: Ops,
             snap: Session \cup {NoSession}, left: 0 .. Len(COUNTDOWN_VALUES)]
IdleTask == [pc |-> "idle", op |-> "ready", snap |-> NoSession, left |-> 0]

\* pushed: the event is in the buffer.  ended: game:over and match:state are
\* sent and the on_game_over callback is running.
MqttType == [pc: {"idle", "loaded", "saved", "pushed", "ended"},
             event: Event, snap: Session \cup {NoSession}]
IdleMqtt == [pc |-> "idle", event |-> NoEvent, snap |-> NoSession]

\* created: CreateSession has run.  counted: some countdown of the session has
\* gone through all its ticks.  stale: some activity has overwritten a session
\* that was no longer the one it had loaded.  accepted, earned, drained: the
\* events applied and saved, the points and the lost balls they carried.
HistType == [created: BOOLEAN, counted: BOOLEAN, stale: BOOLEAN,
             accepted: Nat, earned: Nat, drained: Nat, faults: Nat]

Init ==
    /\ session = NoSession
    /\ buffer = <<>>
    /\ task = [t \in Tasks |-> IdleTask]
    /\ mqtt = IdleMqtt
    /\ announced = "none"
    /\ hist = [created |-> FALSE, counted |-> FALSE, stale |-> FALSE,
               accepted |-> 0, earned |-> 0, drained |-> 0, faults |-> 0]

\* POST /sessions.  The id is a fresh uuid, so this happens once per session.
CreateSession ==
    /\ ~hist.created
    /\ session' = NewSession
    /\ hist' = [hist EXCEPT !.created = TRUE]
    /\ UNCHANGED <<buffer, task, mqtt, announced>>

-----------------------------------------------------------------------------
(* Requests and countdowns *)

\* session_store.get followed, with no await between, by the operation's guard.
Load(t, op) ==
    /\ session # NoSession
    /\ session.status \in Accepted(op)
    /\ task' = [task EXCEPT ![t] = [pc |-> "loaded", op |-> op, snap |-> session, left |-> 0]]
    /\ UNCHANGED <<session, buffer, mqtt, announced, hist>>

ReadyUp(t) == task[t].pc = "idle" /\ Load(t, "ready")
PauseSession(t) == task[t].pc = "idle" /\ Load(t, "pause")
ResumeSession(t) == task[t].pc = "idle" /\ Load(t, "resume")
AbandonSession(t) == task[t].pc = "idle" /\ Load(t, "abandon")

\* session.status = ...; await session_store.update(session): the hash becomes
\* the loaded one with the new status, whatever it has become in between.
Save(t) ==
    /\ task[t].pc = "loaded"
    /\ session' = [task[t].snap EXCEPT !.status = Target(task[t].op)]
    /\ task' = [task EXCEPT ![t] = [pc |-> "saved", op |-> @.op, snap |-> NoSession, left |-> 0]]
    /\ hist' = [hist EXCEPT !.stale = @ \/ session # task[t].snap]
    /\ UNCHANGED <<buffer, mqtt, announced>>

\* Mutant: a resumed match gets no countdown.
AnnounceOnly(t) ==
    /\ task[t].pc = "saved"
    /\ announced' = Target(task[t].op)
    /\ task' = [task EXCEPT ![t] =
                  IF @.op = "ready"
                  THEN [pc |-> "ticking", op |-> "countdown", snap |-> NoSession,
                        left |-> Len(COUNTDOWN_VALUES)]
                  ELSE IdleTask]
    /\ UNCHANGED <<session, buffer, mqtt, hist>>

\* The match:state broadcast; ReadyUp and ResumeSession then create the
\* countdown task, every other activity is over.
Announce(t) ==
    /\ task[t].pc = "saved"
    /\ announced' = Target(task[t].op)
    /\ task' = [task EXCEPT ![t] =
                  IF @.op \in StartsCountdown
                  THEN [pc |-> "ticking", op |-> "countdown", snap |-> NoSession,
                        left |-> Len(COUNTDOWN_VALUES)]
                  ELSE IdleTask]
    /\ UNCHANGED <<session, buffer, mqtt, hist>>

\* Mutant: one tick too many.
TickTooFar(t) ==
    /\ task[t].pc = "ticking"
    /\ task[t].left >= 0
    /\ task' = [task EXCEPT ![t].left = @ - 1]
    /\ hist' = [hist EXCEPT !.counted = @ \/ task[t].left = 1]
    /\ UNCHANGED <<session, buffer, mqtt, announced>>

\* One countdown:tick and the one-second sleep after it.
Tick(t) ==
    /\ task[t].pc = "ticking"
    /\ task[t].left > 0
    /\ task' = [task EXCEPT ![t].left = @ - 1]
    /\ hist' = [hist EXCEPT !.counted = @ \/ task[t].left = 1]
    /\ UNCHANGED <<session, buffer, mqtt, announced>>

IsReady == session # NoSession /\ session.status = "ready"

\* Mutant: the countdown opens the game on its last tick.
EndCountdownEarly(t) ==
    /\ task[t].pc = "ticking"
    /\ task[t].left <= 1
    /\ \/ Load(t, "countdown")
       \/ /\ ~IsReady
          /\ task' = [task EXCEPT ![t] = IdleTask]
          /\ UNCHANGED <<session, buffer, mqtt, announced, hist>>

\* The ticks are done: the countdown reads the session again and goes on only
\* if it is still there and still ready.
EndCountdown(t) ==
    /\ task[t].pc = "ticking"
    /\ task[t].left = 0
    /\ \/ Load(t, "countdown")
       \/ /\ ~IsReady
          /\ task' = [task EXCEPT ![t] = IdleTask]
          /\ UNCHANGED <<session, buffer, mqtt, announced, hist>>

-----------------------------------------------------------------------------
(* The MQTT consumer *)

\* An event that finds the session playing.  _apply changes the loaded copy;
\* nothing is stored yet.
HandleMqttEvent(topic, points) ==
    /\ mqtt.pc = "idle"
    /\ hist.accepted < MaxEvents
    /\ session # NoSession
    /\ session.status = "playing"
    /\ mqtt' = [pc |-> "loaded", snap |-> session,
                event |-> [id |-> hist.accepted + 1, topic |-> topic, points |-> points]]
    /\ UNCHANGED <<session, buffer, task, announced, hist>>

MqttSave ==
    /\ mqtt.pc = "loaded"
    /\ session' = Apply(mqtt.event.topic, mqtt.event.points, mqtt.snap)
    /\ mqtt' = [pc |-> "saved", event |-> mqtt.event, snap |-> NoSession]
    /\ hist' = [hist EXCEPT !.accepted = @ + 1,
                            !.earned = @ + mqtt.event.points,
                            !.drained = IF mqtt.event.topic = "ball_lost" THEN @ + 1 ELSE @,
                            !.stale = @ \/ session # mqtt.snap]
    /\ UNCHANGED <<buffer, task, announced>>

\* Mutant: LPUSH for RPUSH.
MqttPushLeft ==
    /\ mqtt.pc = "saved"
    /\ buffer' = <<mqtt.event>> \o buffer
    /\ mqtt' = [mqtt EXCEPT !.pc = "pushed"]
    /\ UNCHANGED <<session, task, announced, hist>>

\* event_buffer.push
MqttPush ==
    /\ mqtt.pc = "saved"
    /\ buffer' = Append(buffer, mqtt.event)
    /\ mqtt' = [mqtt EXCEPT !.pc = "pushed"]
    /\ UNCHANGED <<session, task, announced, hist>>

\* The event's own message and, for a game over, match:state: over.
MqttAnnounce ==
    /\ mqtt.pc = "pushed"
    /\ IF mqtt.event.topic = "game_over"
       THEN announced' = "over" /\ mqtt' = [mqtt EXCEPT !.pc = "ended"]
       ELSE announced' = announced /\ mqtt' = IdleMqtt
    /\ UNCHANGED <<session, buffer, task, hist>>

\* on_game_over returns: no callback is wired, or the callback finds that no
\* borne is playing this session.
MqttReturn ==
    /\ mqtt.pc = "ended"
    /\ mqtt' = IdleMqtt
    /\ UNCHANGED <<session, buffer, task, announced, hist>>

-----------------------------------------------------------------------------
(* Failures: Redis keeps what was written, the activity is gone *)

CountFault ==
    /\ hist.faults < MaxFaults
    /\ hist' = [hist EXCEPT !.faults = @ + 1]

\* An await raises in a request, or in a countdown (an unobserved task).
FailTask(t) ==
    /\ task[t].pc # "idle"
    /\ CountFault
    /\ task' = [task EXCEPT ![t] = IdleTask]
    /\ UNCHANGED <<session, buffer, mqtt, announced>>

\* An await raises in the MQTT handler: the gateway logs it and goes on.
FailMqtt ==
    /\ mqtt.pc # "idle"
    /\ CountFault
    /\ mqtt' = IdleMqtt
    /\ UNCHANGED <<session, buffer, task, announced>>

\* The process dies and is restarted; sleeping countdowns are not recovered.
Crash ==
    /\ hist.created
    /\ CountFault
    /\ task' = [t \in Tasks |-> IdleTask]
    /\ mqtt' = IdleMqtt
    /\ UNCHANGED <<session, buffer, announced>>

-----------------------------------------------------------------------------

TaskRuns(t) == Save(t) \/ Announce(t) \/ Tick(t) \/ EndCountdown(t)
Consume == MqttSave \/ MqttPush \/ MqttAnnounce

Request(t) == ReadyUp(t) \/ PauseSession(t) \/ ResumeSession(t) \/ AbandonSession(t)

Hit == \E topic \in Emits, points \in Points \cup {0} :
            /\ Scores(topic) \/ points = 0
            /\ HandleMqttEvent(topic, points)

Step ==
    \/ CreateSession
    \/ \E t \in Tasks : Request(t) \/ TaskRuns(t) \/ FailTask(t)
    \/ Hit \/ Consume

Next == Step \/ MqttReturn \/ FailMqtt \/ Crash

Spec == Init /\ [][Next]_vars

\* The event loop runs every coroutine that is ready: an activity that has
\* started goes on.  Nothing obliges a player or the hardware to act.
Fairness ==
    /\ \A t \in Tasks : WF_vars(TaskRuns(t))
    /\ WF_vars(Consume)
    /\ WF_vars(MqttReturn)

FairSpec == Spec /\ Fairness

-----------------------------------------------------------------------------
(* Properties *)

TypeOK ==
    /\ session \in Session \cup {NoSession}
    /\ buffer \in Seq(Event)
    /\ task \in [Tasks -> TaskType]
    /\ mqtt \in MqttType
    /\ announced \in Status \cup {"none"}
    /\ hist \in HistType

\* The stored score never exceeds the points of the accepted events, and no
\* life goes without a ball lost, however the whole-hash writes of commands,
\* countdowns and events overlap: an overlap may lose an update, never count
\* one twice (HandleMqttEventUseCase, RedisSessionStore.update).
NothingInvented ==
    session # NoSession => /\ session.score <= hist.earned
                           /\ session.lives >= DEFAULT_LIVES - hist.drained

\* The stored score and lives are exactly those of the accepted events as long
\* as no activity has overwritten a session other than the one it had loaded:
\* stale whole-hash writes are the only way the code loses an event.
ExactUnlessStale ==
    (session # NoSession /\ ~hist.stale) =>
        /\ session.score = hist.earned
        /\ session.lives = IF hist.drained < DEFAULT_LIVES
                           THEN DEFAULT_LIVES - hist.drained ELSE 0

\* A session that plays, is paused or is over has been through a whole
\* 3-2-1-0 countdown, and so has one that has scored: neither ReadyUp nor a
\* stale write opens the game early (StartCountdownUseCase).
CountedDown ==
    \/ hist.accepted > 0
    \/ session # NoSession /\ session.status \in {"playing", "paused", "over"}
    => hist.counted

\* An activity that will still end the countdown of a ready session.
WillCountDown(t) ==
    \/ task[t].pc = "saved" /\ task[t].op \in StartsCountdown
    \/ task[t].pc = "ticking"
    \/ task[t].pc = "loaded" /\ task[t].op = "countdown"

\* A ready session always has an activity bound to start it, whichever
\* commands overlapped; only a crash or a failed await strands it in ready
\* (asyncio.create_task in ReadyUpUseCase and ResumeSessionUseCase).
ReadyHasCountdown ==
    (IsReady /\ hist.faults = 0) => \E t \in Tasks : WillCountDown(t)

\* The buffer holds accepted events in arrival order, none twice; without
\* failures none is missing but the one being handled, even when the score
\* has lost it (HandleMqttEventUseCase pushes after it has saved).
BufferInOrder ==
    /\ \A i \in 1 .. Len(buffer) : buffer[i].id <= hist.accepted
    /\ \A i \in 1 .. Len(buffer) - 1 :
          /\ buffer[i].id < buffer[i + 1].id
          /\ hist.faults = 0 => buffer[i + 1].id = buffer[i].id + 1
    /\ (hist.faults = 0 /\ buffer # <<>> /\ mqtt.pc # "saved") =>
          buffer[Len(buffer)].id = hist.accepted

\* The transition table of docs/MATCH_SYNC.md.
Table == {<<"waiting", "ready">>, <<"ready", "playing">>, <<"playing", "paused">>,
          <<"paused", "ready">>, <<"playing", "over">>, <<"paused", "over">>}

Transition == session # NoSession /\ session' # NoSession /\ session.status # session'.status

\* ReadyUpUseCase storing its status, whatever the session was.
ReadiesUp == \E t \in Tasks : /\ task[t].pc = "loaded" /\ task[t].op = "ready"
                              /\ task'[t].pc = "saved"

\* Until a stale write has happened, the status only moves along the
\* documented table, except when ReadyUp overwrites a status it did not check.
TransitionsFollowTable ==
    [][Transition /\ ~hist'.stale /\ ~ReadiesUp => <<session.status, session'.status>> \in Table]_vars

\* ResumeSessionUseCase: score, lives and combo are preserved by the pause,
\* only the status changes.
PauseOnlyChangesStatus ==
    [][(Transition /\ "paused" \in {session.status, session'.status}) =>
          session' = [session EXCEPT !.status = session'.status]]_vars

\* A session that is ready does not stay so: its countdown ends in playing,
\* or something else has moved it on (no crash, no failed await).
ReadyLeadsOn == IsReady ~> ~IsReady
=============================================================================
