---------------------------- MODULE BorneProofs -----------------------------
(***************************************************************************)
(* Machine-checked proofs about the borne, for any number of sockets and   *)
(* sessions and any set of intents.                                        *)
(*                                                                         *)
(* BorneInv says what each activity holds between two of its awaits: that  *)
(* a borne is there, which copy of it the activity has, which session it   *)
(* is about.  KnownSessions adds how sessions come to be known: one the    *)
(* borne has never shown is known to the handler that created it alone.    *)
(* Every other invariant rests on these two.                               *)
(***************************************************************************)
EXTENDS Borne, TLAPS

-----------------------------------------------------------------------------
(* The invariant behind the types *)

\* A socket acts on a borne only once there is one, and it never goes away; the
\* consumer may end a game before.
BorneIsThere ==
    borne = NoBorne =>
        /\ \A c \in Clients : actor[c].pc \in {"off", "creating"}
        /\ actor[Consumer].pc \in {"idle", "ended", "creating"}

\* The copy an activity will write back, and the navs it was taken in.
CopiesHeld ==
    \A a \in Actors :
        /\ actor[a].to # "in_game"
        /\ actor[a].pc \in {"loaded", "validated", "created", "marking"} => actor[a].snap \in Borne
        /\ actor[a].pc = "loaded" => actor[a].snap.nav # "in_game"
        /\ actor[a].pc \in {"validated", "created"} => actor[a].snap.nav = "identification"
        /\ actor[a].pc = "marking" => actor[a].snap.nav = "in_game"

\* The session an activity is about.
SessionsNamed ==
    \A a \in Actors :
        /\ actor[a].pc \in {"created", "attached", "commanded", "marked"} => actor[a].sid \in Sessions
        /\ actor[a].pc = "ended" => actor[a].sid \in Sessions \cup {Legacy}
        /\ actor[a].job = "finish" => actor[a].sid \in Sessions

BorneInv == BorneTypeOK /\ BorneIsThere /\ CopiesHeld /\ SessionsNamed

\* Activity a goes on as told, the others stay where they are.
Goes(a, pc, job, snap, to, sid) ==
    /\ actor' \in [Actors -> ActorType]
    /\ actor'[a].pc = pc /\ actor'[a].job = job /\ actor'[a].snap = snap
    /\ actor'[a].to = to /\ actor'[a].sid = sid
    /\ \A b \in Actors : b # a => actor'[b] = actor[b]

LEMMA BecomeFacts ==
  ASSUME BorneTypeOK, NEW a \in Actors, NEW r \in ActorType, Become(a, r)
  PROVE  Goes(a, r.pc, r.job, r.snap, r.to, r.sid)
  BY DEF BorneTypeOK, Become, Goes

LEMMA AtFacts ==
  ASSUME BorneTypeOK, NEW a \in Actors,
         NEW pc \in {"off", "idle", "creating", "over"}, Become(a, At(pc))
  PROVE  Goes(a, pc, "none", NoBorne, "splash", NoSession)
  <1>1. /\ At(pc) \in ActorType /\ At(pc).pc = pc /\ At(pc).job = "none"
        /\ At(pc).snap = NoBorne /\ At(pc).to = "splash" /\ At(pc).sid = NoSession
    BY DEF At, ActorType, Nav
  <1>2. QED
    BY <1>1, BecomeFacts

\* What a write of the whole borne leaves.
LEMMA WriteFacts ==
  ASSUME BorneTypeOK, NEW loaded \in Borne \cup {NoBorne}, NEW b \in Borne,
         NEW early \in BOOLEAN, Write(loaded, b, early)
  PROVE  /\ borne' = b /\ borne' # NoBorne
         /\ hist' \in HistType
         /\ hist'.attached = hist.attached \cup ({b.active} \ {NoSession})
         /\ hist'.stale = (hist.stale \/ borne # loaded)
         /\ hist'.early = (hist.early \/ early)
  <1> DEFINE more == hist.attached \cup ({b.active} \ {NoSession})
  <1>1. borne' = b /\ b # NoBorne
    BY NoBorneIsNoBorne DEF Write
  <1>2. more \in SUBSET Sessions
    BY DEF BorneTypeOK, HistType, Borne
  <1>3. hist' = [attached |-> more, stale |-> hist.stale \/ borne # loaded,
                 early |-> hist.early \/ early]
    BY DEF Write, BorneTypeOK, HistType
  <1>4. QED
    BY <1>1, <1>2, <1>3, Zenon DEF HistType

-----------------------------------------------------------------------------
(* What each action does, its records unfolded *)

LEMMA ConnectFacts ==
  ASSUME BorneInv, NEW c \in Clients, Connect(c)
  PROVE  /\ actor[c].pc = "off" /\ UNCHANGED <<borne, status, counting, hist>>
         /\ \E pc \in {"creating", "idle"} :
               /\ pc = "idle" => borne # NoBorne
               /\ Goes(c, pc, "none", NoBorne, "splash", NoSession)
  <1> c \in Actors
    BY DEF Actors
  <1>1. CASE borne = NoBorne
    <2>1. Become(c, At("creating"))
      BY <1>1 DEF Connect
    <2>2. QED
      BY <2>1, AtFacts DEF BorneInv, Connect
  <1>2. CASE borne # NoBorne
    <2>1. Become(c, At("idle"))
      BY <1>2 DEF Connect
    <2>2. QED
      BY <1>2, <2>1, AtFacts DEF BorneInv, Connect
  <1>3. QED
    BY <1>1, <1>2

LEMMA CreateBorneFacts ==
  ASSUME BorneInv, NEW a \in Actors, CreateBorne(a)
  PROVE  /\ actor[a].pc = "creating" /\ UNCHANGED <<status, counting>>
         /\ Goes(a, "idle", "none", NoBorne, "splash", NoSession)
         /\ FreshBorne \in Borne /\ FreshBorne.nav = "splash" /\ FreshBorne.active = NoSession
         /\ Write(NoBorne, FreshBorne, FALSE)
  <1>1. FreshBorne \in Borne /\ FreshBorne.nav = "splash" /\ FreshBorne.active = NoSession
    BY DEF FreshBorne, Borne, Nav
  <1>2. QED
    BY <1>1, AtFacts DEF BorneInv, CreateBorne

\* A row of the table never leads into a game, nor starts in one.
LEMMA RowFacts ==
  ASSUME NEW row \in NavTransitions
  PROVE  row[1] # "in_game" /\ row[3] \in Nav \ {"in_game"}
  BY DEF NavTransitions, Nav

LEMMA IntentFacts ==
  ASSUME BorneInv, NEW c \in Clients, Intent(c)
  PROVE  /\ actor[c].pc = "idle" /\ UNCHANGED <<borne, status, counting, hist>>
         /\ borne \in Borne /\ borne.nav # "in_game"
         /\ \E to \in Nav \ {"in_game"} : Goes(c, "loaded", "none", borne, to, NoSession)
  <1> c \in Actors
    BY DEF Actors
  <1>1. actor[c].pc = "idle" /\ borne \in Borne
    BY DEF Intent, BorneInv, BorneTypeOK, BorneIsThere
  <1>2. PICK row \in NavTransitions :
           /\ row[1] = borne.nav
           /\ Become(c, [At("loaded") EXCEPT !.snap = borne, !.to = row[3]])
    BY DEF Intent
  <1>3. row[1] # "in_game" /\ row[3] \in Nav \ {"in_game"}
    BY RowFacts
  <1> DEFINE r == [At("loaded") EXCEPT !.snap = borne, !.to = row[3]]
  <1>4. /\ r \in ActorType /\ r.pc = "loaded" /\ r.job = "none"
        /\ r.snap = borne /\ r.to = row[3] /\ r.sid = NoSession
    <2>1. At("loaded") \in ActorType
      BY DEF At, ActorType, Nav
    <2>2. QED
      BY <1>1, <1>3, <2>1 DEF At, ActorType
  <1>5. Goes(c, r.pc, r.job, r.snap, r.to, r.sid)
    <2> HIDE DEF r
    <2>1. Become(c, r)
      BY <1>2 DEF r
    <2>2. QED
      BY <1>4, <2>1, BecomeFacts DEF BorneInv
  <1>6. Goes(c, "loaded", "none", borne, row[3], NoSession)
    BY <1>4, <1>5
  <1>7. QED
    BY <1>1, <1>2, <1>3, <1>6 DEF Intent

LEMMA SaveIntentFacts ==
  ASSUME BorneInv, NEW c \in Clients, SaveIntent(c)
  PROVE  /\ actor[c].pc = "loaded" /\ UNCHANGED <<status, counting>>
         /\ Goes(c, "idle", "none", NoBorne, "splash", NoSession)
         /\ \E b \in Borne : /\ b.nav # "in_game"
                             /\ b.active \in {actor[c].snap.active, NoSession}
                             /\ Write(actor[c].snap, b, FALSE)
  <1> c \in Actors
    BY DEF Actors
  <1> DEFINE b == Navigated(actor[c].snap, actor[c].to)
  <1>1. actor[c].pc = "loaded" /\ actor[c].snap \in Borne /\ actor[c].to \in Nav \ {"in_game"}
    BY DEF SaveIntent, BorneInv, BorneTypeOK, CopiesHeld, ActorType
  <1>2. b.nav = actor[c].to /\ b.active \in {actor[c].snap.active, NoSession} /\ b \in Borne
    BY <1>1 DEF Navigated, Borne
  <1>3. QED
    BY <1>1, <1>2, AtFacts DEF BorneInv, SaveIntent

LEMMA PlayersValidatedFacts ==
  ASSUME BorneInv, NEW c \in Clients, PlayersValidated(c)
  PROVE  /\ actor[c].pc = "idle" /\ UNCHANGED <<borne, status, counting, hist>>
         /\ borne \in Borne /\ borne.nav = "identification"
         /\ Goes(c, "validated", "none", borne, "splash", NoSession)
  <1> c \in Actors
    BY DEF Actors
  <1> DEFINE r == [pc |-> "validated", job |-> "none", snap |-> borne,
                   to |-> "splash", sid |-> NoSession]
  <1>1. actor[c].pc = "idle" /\ borne \in Borne
    BY DEF PlayersValidated, BorneInv, BorneTypeOK, BorneIsThere
  <1>2. Become(c, r)
    BY DEF PlayersValidated, At
  <1>3. r \in ActorType
    BY <1>1 DEF ActorType, Nav
  <1>4. QED
    BY <1>1, <1>2, <1>3, BecomeFacts DEF BorneInv, PlayersValidated

LEMMA CreateSessionFacts ==
  ASSUME BorneInv, NEW c \in Clients, CreateSession(c)
  PROVE  /\ actor[c].pc = "validated" /\ UNCHANGED <<borne, counting, hist>>
         /\ \E s \in Sessions : /\ status[s] = "none"
                                /\ status' = [status EXCEPT ![s] = "waiting"]
                                /\ Goes(c, "created", actor[c].job, actor[c].snap, actor[c].to, s)
  <1> c \in Actors
    BY DEF Actors
  <1>1. PICK s \in Sessions : /\ status[s] = "none"
                              /\ status' = [status EXCEPT ![s] = "waiting"]
                              /\ Become(c, [actor[c] EXCEPT !.pc = "created", !.sid = s])
    BY DEF CreateSession
  <1> DEFINE r == [actor[c] EXCEPT !.pc = "created", !.sid = s]
  <1>2. actor[c] \in ActorType
    BY DEF BorneInv, BorneTypeOK
  <1>3. /\ r \in ActorType /\ r.pc = "created" /\ r.job = actor[c].job
        /\ r.snap = actor[c].snap /\ r.to = actor[c].to /\ r.sid = s
    BY <1>2 DEF ActorType
  <1>4. Goes(c, "created", actor[c].job, actor[c].snap, actor[c].to, s)
    <2> HIDE DEF r
    <2>1. Goes(c, r.pc, r.job, r.snap, r.to, r.sid)
      BY <1>1, <1>3, BecomeFacts DEF BorneInv, r
    <2>2. QED
      BY <1>3, <2>1
  <1>5. QED
    BY <1>1, <1>4 DEF CreateSession

LEMMA AttachFacts ==
  ASSUME BorneInv, NEW c \in Clients, Attach(c)
  PROVE  /\ actor[c].pc = "created" /\ UNCHANGED <<status, counting>>
         /\ actor[c].snap \in Borne /\ actor[c].sid \in Sessions
         /\ Goes(c, "attached", "none", NoBorne, "splash", actor[c].sid)
         /\ \E b \in Borne : /\ b.nav = "in_game" /\ b.active = actor[c].sid
                             /\ Write(actor[c].snap, b, FALSE)
  <1> c \in Actors
    BY DEF Actors
  <1>1. actor[c].pc = "created" /\ actor[c].snap \in Borne /\ actor[c].sid \in Sessions
    BY DEF Attach, BorneInv, CopiesHeld, SessionsNamed
  <1> DEFINE r == [pc |-> "attached", job |-> "none", snap |-> NoBorne,
                   to |-> "splash", sid |-> actor[c].sid]
             b == [nav |-> "in_game", active |-> actor[c].sid]
  <1>2. Become(c, r)
    BY DEF Attach, At
  <1>3. r \in ActorType /\ b \in Borne
    BY <1>1 DEF ActorType, Nav, Borne
  <1>4. Goes(c, "attached", "none", NoBorne, "splash", actor[c].sid)
    BY <1>2, <1>3, BecomeFacts DEF BorneInv
  <1>5. QED
    BY <1>1, <1>3, <1>4 DEF Attach

LEMMA ReadyUpFacts ==
  ASSUME BorneInv, NEW c \in Clients, ReadyUp(c)
  PROVE  /\ actor[c].pc = "attached" /\ UNCHANGED <<borne, hist>> /\ actor[c].sid \in Sessions
         /\ \E pc \in {"off", "idle"} : Goes(c, pc, "none", NoBorne, "splash", NoSession)
         /\ \/ status[actor[c].sid] = "gone" /\ UNCHANGED <<status, counting>>
            \/ /\ status[actor[c].sid] # "gone"
               /\ status' = [status EXCEPT ![actor[c].sid] = "ready"]
               /\ counting' = counting \cup {actor[c].sid}
  <1> c \in Actors
    BY DEF Actors
  <1>1. actor[c].sid \in Sessions
    BY DEF ReadyUp, BorneInv, SessionsNamed
  <1>2. QED
    BY <1>1, AtFacts DEF BorneInv, ReadyUp

LEMMA CommandFacts ==
  ASSUME BorneInv, NEW c \in Clients, Command(c)
  PROVE  /\ actor[c].pc = "idle" /\ UNCHANGED <<borne, status, counting, hist>>
         /\ borne \in Borne /\ borne.active \in Sessions
         /\ \E job \in {"pause", "resume", "abandon"} :
               Goes(c, "commanded", job, NoBorne, "splash", borne.active)
  <1> c \in Actors
    BY DEF Actors
  <1>1. /\ actor[c].pc = "idle" /\ borne \in Borne /\ borne.active \in Sessions
    BY DEF Command, BorneInv, BorneTypeOK, BorneIsThere, Borne
  <1>2. PICK job \in {"pause", "resume", "abandon"} :
           Become(c, [At("commanded") EXCEPT !.job = job, !.sid = borne.active])
    BY DEF Command
  <1> DEFINE r == [At("commanded") EXCEPT !.job = job, !.sid = borne.active]
  <1>3. /\ r \in ActorType /\ r.pc = "commanded" /\ r.job = job
        /\ r.snap = NoBorne /\ r.to = "splash" /\ r.sid = borne.active
    <2>1. At("commanded") \in ActorType
      BY DEF At, ActorType, Nav
    <2>2. QED
      BY <1>1, <2>1 DEF At, ActorType
  <1>4. Goes(c, r.pc, r.job, r.snap, r.to, r.sid)
    <2> HIDE DEF r
    <2>1. Become(c, r)
      BY <1>2 DEF r
    <2>2. QED
      BY <1>3, <2>1, BecomeFacts DEF BorneInv
  <1>5. Goes(c, "commanded", job, NoBorne, "splash", borne.active)
    BY <1>3, <1>4
  <1>6. QED
    BY <1>1, <1>5 DEF Command

LEMMA PauseSessionFacts ==
  ASSUME BorneInv, NEW c \in Clients, PauseSession(c)
  PROVE  /\ actor[c].pc = "commanded" /\ UNCHANGED <<borne, counting, hist>>
         /\ Goes(c, "idle", "none", NoBorne, "splash", NoSession)
         /\ actor[c].sid \in Sessions
         /\ \/ UNCHANGED status
            \/ /\ status[actor[c].sid] = "playing"
               /\ status' = [status EXCEPT ![actor[c].sid] = "paused"]
  <1> c \in Actors
    BY DEF Actors
  <1>1. QED
    BY AtFacts DEF BorneInv, SessionsNamed, PauseSession

LEMMA ResumeSessionFacts ==
  ASSUME BorneInv, NEW c \in Clients, ResumeSession(c)
  PROVE  /\ actor[c].pc = "commanded" /\ UNCHANGED <<borne, hist>>
         /\ Goes(c, "idle", "none", NoBorne, "splash", NoSession)
         /\ actor[c].sid \in Sessions
         /\ \/ UNCHANGED <<status, counting>>
            \/ /\ status[actor[c].sid] = "paused"
               /\ status' = [status EXCEPT ![actor[c].sid] = "ready"]
               /\ counting' = counting \cup {actor[c].sid}
  <1> c \in Actors
    BY DEF Actors
  <1>1. QED
    BY AtFacts DEF BorneInv, SessionsNamed, ResumeSession

\* At("over") and At("marked"), with what the actor still has to do.
LEMMA OverFacts ==
  ASSUME BorneTypeOK, NEW a \in Actors, NEW job \in {"mark", "finish"},
         NEW sid \in Sessions \cup {Legacy, NoSession},
         \/ job = "mark" /\ sid = NoSession /\ Become(a, [At("over") EXCEPT !.job = job])
         \/ Become(a, [At("over") EXCEPT !.job = job, !.sid = sid])
  PROVE  Goes(a, "over", job, NoBorne, "splash", sid)
  <1>1. At("over") \in ActorType
    BY DEF At, ActorType, Nav
  <1> DEFINE marks == [At("over") EXCEPT !.job = job]
             over == [At("over") EXCEPT !.job = job, !.sid = sid]
  <1>2. /\ marks \in ActorType /\ marks.pc = "over" /\ marks.job = job
        /\ marks.snap = NoBorne /\ marks.to = "splash" /\ marks.sid = NoSession
    BY <1>1 DEF At, ActorType
  <1>3. /\ over \in ActorType /\ over.pc = "over" /\ over.job = job
        /\ over.snap = NoBorne /\ over.to = "splash" /\ over.sid = sid
    BY <1>1 DEF At, ActorType
  <1>4. \/ sid = NoSession /\ Become(a, marks)
        \/ Become(a, over)
    OBVIOUS
  <1> HIDE DEF marks, over
  <1>5. \/ sid = NoSession /\ Goes(a, marks.pc, marks.job, marks.snap, marks.to, marks.sid)
        \/ Goes(a, over.pc, over.job, over.snap, over.to, over.sid)
    BY <1>2, <1>3, <1>4, BecomeFacts
  <1>6. QED
    BY <1>2, <1>3, <1>5

LEMMA AbandonSessionFacts ==
  ASSUME BorneInv, NEW c \in Clients, AbandonSession(c)
  PROVE  /\ actor[c].pc = "commanded" /\ UNCHANGED <<borne, counting, hist>>
         /\ Goes(c, "over", "mark", NoBorne, "splash", NoSession)
         /\ actor[c].sid \in Sessions
         /\ \/ UNCHANGED status
            \/ /\ InPlay(actor[c].sid)
               /\ status' = [status EXCEPT ![actor[c].sid] = "over"]
  <1> c \in Actors
    BY DEF Actors
  <1>1. QED
    BY OverFacts DEF BorneInv, SessionsNamed, AbandonSession

\* At("ended") and At("marked"), with their session.
LEMMA EndedFacts ==
  ASSUME BorneTypeOK, NEW a \in Actors, NEW pc \in {"ended", "marked"},
         NEW sid \in Sessions \cup {Legacy},
         Become(a, [At(pc) EXCEPT !.sid = sid])
  PROVE  Goes(a, pc, "none", NoBorne, "splash", sid)
  <1> DEFINE r == [pc |-> pc, job |-> "none", snap |-> NoBorne, to |-> "splash", sid |-> sid]
  <1>1. At(pc) \in ActorType
    BY DEF At, ActorType, Nav
  <1>2. r \in ActorType
    BY DEF ActorType, Nav
  <1>3. Become(a, r)
    BY <1>1 DEF At, ActorType
  <1>4. QED
    BY <1>2, <1>3, BecomeFacts

LEMMA RelayGameOverFacts ==
  ASSUME BorneInv, NEW c \in Clients, RelayGameOver(c)
  PROVE  /\ actor[c].pc = "idle" /\ UNCHANGED <<borne, status, counting, hist>>
         /\ borne \in Borne
         /\ \/ Goes(c, "over", "mark", NoBorne, "splash", NoSession)
            \/ borne.active \in Sessions /\ Goes(c, "ended", "none", NoBorne, "splash", borne.active)
  <1> c \in Actors
    BY DEF Actors
  <1>1. actor[c].pc = "idle" /\ borne \in Borne
    BY DEF RelayGameOver, BorneInv, BorneTypeOK, BorneIsThere
  <1>2. CASE borne.active = NoSession
    <2>1. Become(c, [At("over") EXCEPT !.job = "mark"])
      BY <1>2 DEF RelayGameOver
    <2>2. QED
      BY <1>1, <2>1, OverFacts DEF BorneInv, RelayGameOver
  <1>3. CASE borne.active # NoSession
    <2>1. Become(c, [At("ended") EXCEPT !.sid = borne.active])
      BY <1>3 DEF RelayGameOver
    <2>2. borne.active \in Sessions
      BY <1>1, <1>3 DEF Borne
    <2>3. QED
      BY <1>1, <2>1, <2>2, EndedFacts DEF BorneInv, RelayGameOver
  <1>4. QED
    BY <1>2, <1>3

LEMMA HardwareGameOverFacts ==
  ASSUME BorneInv, HardwareGameOver
  PROVE  /\ actor[Consumer].pc = "idle" /\ UNCHANGED <<borne, counting, hist>>
         /\ \E s \in Sessions \cup {Legacy} :
               /\ status[s] = "playing"
               /\ status' = [status EXCEPT ![s] = "over"]
               /\ Goes(Consumer, "ended", "none", NoBorne, "splash", s)
  <1> Consumer \in Actors
    BY DEF Actors
  <1>1. QED
    BY EndedFacts DEF BorneInv, HardwareGameOver

LEMMA FinishBorneGameFacts ==
  ASSUME BorneInv, NEW a \in Actors, FinishBorneGame(a)
  PROVE  /\ actor[a].pc = "ended" /\ UNCHANGED <<borne, status, counting, hist>>
         /\ \/ borne = NoBorne /\ Goes(a, "creating", "none", NoBorne, "splash", NoSession)
            \/ /\ borne # NoBorne /\ borne.active = actor[a].sid /\ actor[a].sid \in Sessions
               /\ Goes(a, "over", "finish", NoBorne, "splash", actor[a].sid)
            \/ /\ borne # NoBorne /\ borne.active # actor[a].sid
               /\ Goes(a, "idle", "none", NoBorne, "splash", NoSession)
  <1>1. actor[a].pc = "ended" /\ actor[a].sid \in Sessions \cup {Legacy}
    BY DEF FinishBorneGame, BorneInv, SessionsNamed
  <1>2. CASE borne = NoBorne
    <2>1. Become(a, At("creating"))
      BY <1>2 DEF FinishBorneGame
    <2>2. QED
      BY <1>1, <1>2, <2>1, AtFacts DEF BorneInv, FinishBorneGame
  <1>3. CASE borne # NoBorne /\ borne.active = actor[a].sid
    <2>1. Become(a, [At("over") EXCEPT !.job = "finish", !.sid = actor[a].sid])
      BY <1>3 DEF FinishBorneGame
    <2>2. borne.active \in Sessions \cup {NoSession}
      BY <1>3 DEF BorneInv, BorneTypeOK, Borne
    <2>3. actor[a].sid \in Sessions
      BY <1>1, <1>3, <2>2, SessionsAreDistinct
    <2>4. QED
      BY <1>1, <1>3, <2>1, <2>3, OverFacts DEF BorneInv, FinishBorneGame
  <1>4. CASE borne # NoBorne /\ borne.active # actor[a].sid
    <2>1. Become(a, At("idle"))
      BY <1>4 DEF FinishBorneGame
    <2>2. QED
      BY <1>1, <1>4, <2>1, AtFacts DEF BorneInv, FinishBorneGame
  <1>5. QED
    BY <1>2, <1>3, <1>4

LEMMA MarkedFacts ==
  ASSUME BorneInv, NEW a \in Actors, Become(a, Marked(a))
  PROVE  \/ /\ actor[a].job = "finish" /\ actor[a].sid \in Sessions
            /\ Goes(a, "marked", "none", NoBorne, "splash", actor[a].sid)
         \/ /\ actor[a].job # "finish"
            /\ Goes(a, "idle", "none", NoBorne, "splash", NoSession)
  <1>1. CASE actor[a].job = "finish"
    <2>1. actor[a].sid \in Sessions
      BY <1>1 DEF BorneInv, SessionsNamed
    <2>2. Become(a, [At("marked") EXCEPT !.sid = actor[a].sid])
      BY <1>1 DEF Marked
    <2>3. QED
      BY <1>1, <2>1, <2>2, EndedFacts DEF BorneInv
  <1>2. CASE actor[a].job # "finish"
    <2>1. Become(a, At("idle"))
      BY <1>2 DEF Marked
    <2>2. QED
      BY <1>2, <2>1, AtFacts DEF BorneInv
  <1>3. QED
    BY <1>1, <1>2

LEMMA LoadToMarkFacts ==
  ASSUME BorneInv, NEW a \in Actors, LoadToMark(a)
  PROVE  /\ actor[a].pc = "over" /\ UNCHANGED <<borne, status, counting, hist>>
         /\ borne \in Borne
         /\ \/ /\ borne.nav = "in_game"
               /\ Goes(a, "marking", actor[a].job, borne, actor[a].to, actor[a].sid)
            \/ /\ borne.nav # "in_game" /\ actor[a].job = "finish" /\ actor[a].sid \in Sessions
               /\ Goes(a, "marked", "none", NoBorne, "splash", actor[a].sid)
            \/ /\ borne.nav # "in_game" /\ actor[a].job # "finish"
               /\ Goes(a, "idle", "none", NoBorne, "splash", NoSession)
  <1>1. actor[a].pc = "over" /\ borne \in Borne
    BY DEF LoadToMark, BorneInv, BorneTypeOK, BorneIsThere, Actors
  <1>2. CASE borne.nav = "in_game"
    <2> DEFINE r == [actor[a] EXCEPT !.pc = "marking", !.snap = borne]
    <2>1. actor[a] \in ActorType
      BY DEF BorneInv, BorneTypeOK
    <2>2. /\ r \in ActorType /\ r.pc = "marking" /\ r.job = actor[a].job
          /\ r.snap = borne /\ r.to = actor[a].to /\ r.sid = actor[a].sid
      BY <1>1, <2>1 DEF ActorType
    <2>3. Goes(a, r.pc, r.job, r.snap, r.to, r.sid)
      <3> HIDE DEF r
      <3>1. Become(a, r)
        BY <1>2 DEF LoadToMark, r
      <3>2. QED
        BY <2>2, <3>1, BecomeFacts DEF BorneInv
    <2>4. Goes(a, "marking", actor[a].job, borne, actor[a].to, actor[a].sid)
      BY <2>2, <2>3
    <2>5. QED
      BY <1>1, <1>2, <2>4 DEF LoadToMark
  <1>3. CASE borne.nav # "in_game"
    <2>1. Become(a, Marked(a))
      BY <1>3 DEF LoadToMark
    <2>2. QED
      BY <1>1, <1>3, <2>1, MarkedFacts DEF LoadToMark
  <1>4. QED
    BY <1>2, <1>3

LEMMA MarkGameOverFacts ==
  ASSUME BorneInv, NEW a \in Actors, MarkGameOver(a)
  PROVE  /\ actor[a].pc = "marking" /\ UNCHANGED <<status, counting>>
         /\ actor[a].snap \in Borne /\ actor[a].snap.nav = "in_game"
         /\ \/ /\ actor[a].job = "finish" /\ actor[a].sid \in Sessions
               /\ Goes(a, "marked", "none", NoBorne, "splash", actor[a].sid)
            \/ /\ actor[a].job # "finish"
               /\ Goes(a, "idle", "none", NoBorne, "splash", NoSession)
         /\ \E b \in Borne, early \in BOOLEAN :
               /\ b.nav = "game_over" /\ b.active = actor[a].snap.active
               /\ early = (Live(b.active) /\ ~(actor[a].job = "finish" /\ actor[a].sid = b.active))
               /\ Write(actor[a].snap, b, early)
  <1> DEFINE b == [nav |-> "game_over", active |-> actor[a].snap.active]
             early == Live(b.active) /\ ~(actor[a].job = "finish" /\ actor[a].sid = b.active)
  <1>1. /\ actor[a].pc = "marking" /\ actor[a].snap \in Borne
        /\ actor[a].snap.nav = "in_game"
    BY DEF MarkGameOver, BorneInv, CopiesHeld
  <1>2. b \in Borne /\ b.nav = "game_over" /\ b.active = actor[a].snap.active
    BY <1>1 DEF Borne, Nav
  <1>3. early \in BOOLEAN
    OBVIOUS
  <1>4. Write(actor[a].snap, b, early)
    BY DEF MarkGameOver
  <1>5. \E e \in BOOLEAN :
           /\ e = (Live(b.active) /\ ~(actor[a].job = "finish" /\ actor[a].sid = b.active))
           /\ Write(actor[a].snap, b, e)
    BY <1>3, <1>4, Zenon
  <1>6. Become(a, Marked(a)) /\ UNCHANGED <<status, counting>>
    BY DEF MarkGameOver
  <1> HIDE DEF b, early
  <1>7. QED
    BY <1>1, <1>2, <1>5, <1>6, MarkedFacts

LEMMA FlushFacts ==
  ASSUME BorneInv, NEW a \in Actors, Flush(a)
  PROVE  /\ actor[a].pc = "marked" /\ UNCHANGED <<borne, counting, hist>>
         /\ actor[a].sid \in Sessions
         /\ Goes(a, "idle", "none", NoBorne, "splash", NoSession)
         /\ status' = [status EXCEPT ![actor[a].sid] = "gone"]
  BY AtFacts DEF BorneInv, SessionsNamed, Flush

-----------------------------------------------------------------------------
(* The types *)

LEMMA BorneInvInit == Init => BorneInv
  <1> SUFFICES ASSUME Init PROVE BorneInv
    OBVIOUS
  <1>1. \A a \in Actors : /\ actor[a] \in ActorType
                          /\ actor[a].pc = IF a = Consumer THEN "idle" ELSE "off"
                          /\ actor[a].to = "splash" /\ actor[a].job = "none"
    BY DEF Init, At, ActorType, Nav
  <1>2. actor \in [Actors -> ActorType]
    BY <1>1 DEF Init
  <1>3. hist \in HistType
    BY DEF Init, HistType
  <1>4. BorneTypeOK
    BY <1>2, <1>3 DEF Init, BorneTypeOK, SessionStates
  <1>5. BorneIsThere /\ CopiesHeld /\ SessionsNamed
    BY <1>1, ConsumerIsNoClient DEF BorneIsThere, CopiesHeld, SessionsNamed, Actors
  <1>6. QED
    BY <1>4, <1>5 DEF BorneInv

\* What a write preserves.
LEMMA WriteBorneInv ==
  ASSUME BorneInv, NEW loaded \in Borne \cup {NoBorne}, NEW b \in Borne,
         NEW early \in BOOLEAN, Write(loaded, b, early),
         UNCHANGED <<status, counting>>,
         NEW a \in Actors, NEW pc \in {"idle", "attached", "marked"},
         NEW sid \in Sessions \cup {NoSession},
         pc # "idle" => sid \in Sessions,
         Goes(a, pc, "none", NoBorne, "splash", sid)
  PROVE  BorneInv'
  <1>1. /\ borne' = b /\ borne' # NoBorne /\ hist' \in HistType
    BY WriteFacts DEF BorneInv
  <1>2. BorneTypeOK'
    BY <1>1 DEF BorneInv, BorneTypeOK, Goes
  <1>3. BorneIsThere'
    BY <1>1 DEF BorneIsThere
  <1>4. CopiesHeld' /\ SessionsNamed'
    BY DEF BorneInv, CopiesHeld, SessionsNamed, Goes
  <1>5. QED
    BY <1>2, <1>3, <1>4 DEF BorneInv

LEMMA BorneInvNext == BorneInv /\ [Next]_vars => BorneInv'
  <1> SUFFICES ASSUME BorneInv, [Next]_vars PROVE BorneInv'
    OBVIOUS
  <1> USE DEF BorneInv
  <1>1. ASSUME NEW c \in Clients, Connect(c) PROVE BorneInv'
    BY <1>1, ConnectFacts, ConsumerIsNoClient
       DEF BorneTypeOK, BorneIsThere, CopiesHeld, SessionsNamed, Goes, Actors
  <1>2. ASSUME NEW c \in Clients, Intent(c) PROVE BorneInv'
    BY <1>2, IntentFacts, NoBorneIsNoBorne
       DEF BorneTypeOK, BorneIsThere, CopiesHeld, SessionsNamed, Goes, Actors
  <1>3. ASSUME NEW c \in Clients, PlayersValidated(c) PROVE BorneInv'
    BY <1>3, PlayersValidatedFacts, NoBorneIsNoBorne
       DEF BorneTypeOK, BorneIsThere, CopiesHeld, SessionsNamed, Goes, Actors
  <1>4. ASSUME NEW c \in Clients, Command(c) PROVE BorneInv'
    BY <1>4, CommandFacts, NoBorneIsNoBorne
       DEF BorneTypeOK, BorneIsThere, CopiesHeld, SessionsNamed, Goes, Actors
  <1>5. ASSUME NEW c \in Clients, RelayGameOver(c) PROVE BorneInv'
    BY <1>5, RelayGameOverFacts, NoBorneIsNoBorne
       DEF BorneTypeOK, BorneIsThere, CopiesHeld, SessionsNamed, Goes, Actors
  <1>6. ASSUME NEW c \in Clients, SaveIntent(c) PROVE BorneInv'
    BY <1>6, SaveIntentFacts, WriteBorneInv DEF BorneTypeOK, CopiesHeld, Actors
  <1>7. ASSUME NEW c \in Clients, CreateSession(c) PROVE BorneInv'
    <2>1. PICK s \in Sessions : /\ status' = [status EXCEPT ![s] = "waiting"]
                                /\ Goes(c, "created", actor[c].job, actor[c].snap, actor[c].to, s)
      BY <1>7, CreateSessionFacts
    <2>2. BorneTypeOK'
      BY <1>7, <2>1, CreateSessionFacts DEF BorneTypeOK, Goes, SessionStates
    <2>3. actor[c].pc = "validated" /\ c \in Actors /\ c # Consumer /\ borne' = borne
      BY <1>7, CreateSessionFacts, ConsumerIsNoClient DEF Actors
    <2>4. BorneIsThere'
      BY <2>1, <2>3 DEF BorneIsThere, Goes, Actors
    <2>5. CopiesHeld' /\ SessionsNamed'
      BY <2>1, <2>3 DEF CopiesHeld, SessionsNamed, Goes
    <2>6. QED
      BY <2>2, <2>4, <2>5
  <1>8. ASSUME NEW c \in Clients, Attach(c) PROVE BorneInv'
    BY <1>8, AttachFacts, WriteBorneInv DEF Actors
  <1>9. ASSUME NEW c \in Clients, ReadyUp(c) PROVE BorneInv'
    <2>1. BorneTypeOK'
      BY <1>9, ReadyUpFacts DEF BorneTypeOK, Goes, SessionStates
    <2>2. BorneIsThere' /\ CopiesHeld' /\ SessionsNamed'
      BY <1>9, ReadyUpFacts, ConsumerIsNoClient
         DEF BorneIsThere, CopiesHeld, SessionsNamed, Goes, Actors
    <2>3. QED
      BY <2>1, <2>2
  <1>10. ASSUME NEW c \in Clients, PauseSession(c) PROVE BorneInv'
    <2>1. BorneTypeOK'
      BY <1>10, PauseSessionFacts DEF BorneTypeOK, Goes, SessionStates
    <2>2. BorneIsThere' /\ CopiesHeld' /\ SessionsNamed'
      BY <1>10, PauseSessionFacts, ConsumerIsNoClient
         DEF BorneIsThere, CopiesHeld, SessionsNamed, Goes, Actors
    <2>3. QED
      BY <2>1, <2>2
  <1>11. ASSUME NEW c \in Clients, ResumeSession(c) PROVE BorneInv'
    <2>1. BorneTypeOK'
      BY <1>11, ResumeSessionFacts DEF BorneTypeOK, Goes, SessionStates
    <2>2. BorneIsThere' /\ CopiesHeld' /\ SessionsNamed'
      BY <1>11, ResumeSessionFacts, ConsumerIsNoClient
         DEF BorneIsThere, CopiesHeld, SessionsNamed, Goes, Actors
    <2>3. QED
      BY <2>1, <2>2
  <1>12. ASSUME NEW c \in Clients, AbandonSession(c) PROVE BorneInv'
    <2>1. BorneTypeOK'
      BY <1>12, AbandonSessionFacts DEF BorneTypeOK, Goes, SessionStates
    <2>2. BorneIsThere' /\ CopiesHeld' /\ SessionsNamed'
      BY <1>12, AbandonSessionFacts, ConsumerIsNoClient
         DEF BorneIsThere, CopiesHeld, SessionsNamed, Goes, Actors
    <2>3. QED
      BY <2>1, <2>2
  <1>13. ASSUME NEW a \in Actors, CreateBorne(a) PROVE BorneInv'
    BY <1>13, CreateBorneFacts, WriteBorneInv
  <1>14. ASSUME NEW a \in Actors, FinishBorneGame(a) PROVE BorneInv'
    BY <1>14, FinishBorneGameFacts, ConsumerIsNoClient
       DEF BorneTypeOK, BorneIsThere, CopiesHeld, SessionsNamed, Goes, Actors
  <1>15. ASSUME NEW a \in Actors, LoadToMark(a) PROVE BorneInv'
    <2>1. BorneTypeOK' /\ BorneIsThere'
      BY <1>15, LoadToMarkFacts, NoBorneIsNoBorne DEF BorneTypeOK, BorneIsThere, Goes
    <2>2. CopiesHeld' /\ SessionsNamed'
      BY <1>15, LoadToMarkFacts DEF CopiesHeld, SessionsNamed, Goes
    <2>3. QED
      BY <2>1, <2>2
  <1>16. ASSUME NEW a \in Actors, MarkGameOver(a) PROVE BorneInv'
    BY <1>16, MarkGameOverFacts, WriteBorneInv
  <1>17. ASSUME NEW a \in Actors, Flush(a) PROVE BorneInv'
    <2>1. BorneTypeOK'
      BY <1>17, FlushFacts DEF BorneTypeOK, Goes, SessionStates
    <2>2. BorneIsThere' /\ CopiesHeld' /\ SessionsNamed'
      BY <1>17, FlushFacts, ConsumerIsNoClient
         DEF BorneIsThere, CopiesHeld, SessionsNamed, Goes, Actors
    <2>3. QED
      BY <2>1, <2>2
  <1>18. ASSUME NEW s \in Sessions, EndCountdown(s) PROVE BorneInv'
    BY <1>18 DEF EndCountdown, BorneTypeOK, BorneIsThere, CopiesHeld, SessionsNamed, SessionStates
  <1>19. ASSUME HardwareGameOver PROVE BorneInv'
    <2>1. BorneTypeOK'
      BY <1>19, HardwareGameOverFacts DEF BorneTypeOK, Goes, SessionStates
    <2>2. BorneIsThere' /\ CopiesHeld' /\ SessionsNamed'
      BY <1>19, HardwareGameOverFacts, ConsumerIsNoClient
         DEF BorneIsThere, CopiesHeld, SessionsNamed, Goes, Actors
    <2>3. QED
      BY <2>1, <2>2
  <1>20. CASE UNCHANGED vars
    BY <1>20 DEF vars, BorneTypeOK, BorneIsThere, CopiesHeld, SessionsNamed
  <1> HIDE DEF BorneInv
  <1>21. QED
    BY <1>1, <1>2, <1>3, <1>4, <1>5, <1>6, <1>7, <1>8, <1>9, <1>10, <1>11, <1>12, <1>13,
       <1>14, <1>15, <1>16, <1>17, <1>18, <1>19, <1>20
       DEF Next, Message, ClientRuns, Finishes

LEMMA BorneInvAlways == Spec => []BorneInv
  BY BorneInvInit, BorneInvNext, PTL DEF Spec

\* The stored borne always has a BorneNavState and a session it created itself,
\* and every activity holds what it needs for its next await, whatever the
\* number of screens and the order of their messages.
THEOREM BorneTypes == Spec => []BorneTypeOK
  <1>1. BorneInv => BorneTypeOK
    BY DEF BorneInv
  <1>2. QED
    BY <1>1, BorneInvAlways, PTL

\* FinishBorneGameUseCase's guard: only a session the borne has shown is ever
\* flushed by the borne, and Legacy is none.
LEMMA LegacyStep ==
  ASSUME BorneInv, LegacyLeftAlone, [Next]_vars
  PROVE  LegacyLeftAlone'
  <1> USE SessionsAreDistinct DEF LegacyLeftAlone, BorneInv, BorneTypeOK
  <1>1. ASSUME NEW c \in Clients, ClientRuns(c) PROVE LegacyLeftAlone'
    <2>1. CASE SaveIntent(c) \/ Attach(c)
      BY <2>1, SaveIntentFacts, AttachFacts
    <2>2. CASE CreateSession(c)
      BY <2>2, CreateSessionFacts
    <2>3. CASE ReadyUp(c)
      BY <2>3, ReadyUpFacts
    <2>4. CASE PauseSession(c) \/ ResumeSession(c) \/ AbandonSession(c)
      BY <2>4, PauseSessionFacts, ResumeSessionFacts, AbandonSessionFacts
    <2>5. QED
      BY <1>1, <2>1, <2>2, <2>3, <2>4 DEF ClientRuns
  <1>2. ASSUME NEW c \in Clients, Connect(c) \/ Message(c) PROVE LegacyLeftAlone'
    BY <1>2 DEF Connect, Message, Intent, PlayersValidated, Command, RelayGameOver
  <1>3. ASSUME NEW a \in Actors, Flush(a) PROVE LegacyLeftAlone'
    BY <1>3, FlushFacts
  <1>4. ASSUME NEW a \in Actors,
               CreateBorne(a) \/ FinishBorneGame(a) \/ LoadToMark(a) \/ MarkGameOver(a)
        PROVE  LegacyLeftAlone'
    BY <1>4 DEF CreateBorne, FinishBorneGame, LoadToMark, MarkGameOver
  <1>5. ASSUME NEW s \in Sessions, EndCountdown(s) PROVE LegacyLeftAlone'
    BY <1>5 DEF EndCountdown
  <1>6. ASSUME HardwareGameOver PROVE LegacyLeftAlone'
    BY <1>6, HardwareGameOverFacts
  <1>7. CASE UNCHANGED vars
    BY <1>7 DEF vars
  <1>8. QED
    BY <1>1, <1>2, <1>3, <1>4, <1>5, <1>6, <1>7 DEF Next, Finishes

\* The borne never persists nor deletes a session of POST /sessions, however
\* game overs of the hardware meet what the screens do.
THEOREM LegacyNeverFlushed == Spec => []LegacyLeftAlone
  <1>1. Init => LegacyLeftAlone
    BY DEF Init, LegacyLeftAlone
  <1>2. BorneInv /\ LegacyLeftAlone /\ [Next]_vars => LegacyLeftAlone'
    BY LegacyStep
  <1>3. QED
    BY <1>1, <1>2, BorneInvAlways, PTL DEF Spec

-----------------------------------------------------------------------------
(* Which sessions are known, and to whom *)

Known == hist.attached \cup {NoSession}

Creating(a, s) == actor[a].pc = "created" /\ actor[a].sid = s

\* A session that has never been the borne's is known to its creator alone; one
\* that has been is no longer new.
KnownSessions ==
    /\ counting \subseteq hist.attached
    /\ borne # NoBorne => borne.active \in Known
    /\ \A s \in Sessions :
          /\ status[s] = "none" => s \notin hist.attached
          /\ status[s] \notin {"none", "waiting"} => s \in hist.attached
          /\ status[s] = "waiting" /\ s \notin hist.attached => \E a \in Actors : Creating(a, s)
    /\ \A a \in Actors :
          /\ actor[a].snap # NoBorne => actor[a].snap.active \in Known
          /\ actor[a].pc = "created" =>
                status[actor[a].sid] = "waiting" /\ actor[a].sid \notin hist.attached
          /\ actor[a].pc # "created" => actor[a].sid \in Known \cup {Legacy}
    /\ \A a, b \in Actors : \A s \in Sessions : Creating(a, s) /\ Creating(b, s) => a = b

\* An activity that names no new session moves on, and no session changes
\* its status from or to none and waiting.
LEMMA KnownFrame ==
  ASSUME BorneInv, KnownSessions,
         NEW a \in Actors, actor[a].pc # "created",
         NEW pc, pc # "created", NEW job, NEW to,
         NEW snap \in Borne \cup {NoBorne}, NEW sid \in Sessions \cup {Legacy, NoSession},
         Goes(a, pc, job, snap, to, sid),
         snap # NoBorne => snap.active \in Known, sid \in Known \cup {Legacy},
         UNCHANGED <<borne, hist>>, counting' \subseteq hist.attached,
         \A s \in Sessions : \/ status'[s] = status[s]
                             \/ s \in hist.attached /\ status'[s] # "none"
  PROVE  KnownSessions'
  <1>1. \A s \in Sessions : Creating(a, s) = FALSE /\ Creating(a, s)' = FALSE
    BY DEF Creating, Goes
  <1>2. \A b \in Actors, s \in Sessions : Creating(b, s)' = Creating(b, s)
    BY <1>1 DEF Creating, Goes
  <1>3. Known' = Known
    BY DEF Known
  <1>4. \A s \in Sessions :
          /\ status'[s] = "none" => s \notin hist'.attached
          /\ status'[s] \notin {"none", "waiting"} => s \in hist'.attached
          /\ status'[s] = "waiting" /\ s \notin hist'.attached => \E b \in Actors : Creating(b, s)'
    BY <1>2 DEF KnownSessions
  <1>5. \A b \in Actors :
          /\ actor'[b].snap # NoBorne => actor'[b].snap.active \in Known
          /\ actor'[b].pc = "created" =>
                status'[actor'[b].sid] = "waiting" /\ actor'[b].sid \notin hist.attached
          /\ actor'[b].pc # "created" => actor'[b].sid \in Known \cup {Legacy}
    <2> TAKE b \in Actors
    <2>1. CASE b = a
      BY <2>1 DEF Goes
    <2>2. CASE b # a
      <3>1. actor'[b] = actor[b] /\ (actor[b].pc = "created" => actor[b].sid \in Sessions)
        BY <2>2 DEF Goes, BorneInv, SessionsNamed
      <3>2. QED
        BY <3>1 DEF KnownSessions
    <2>3. QED
      BY <2>1, <2>2
  <1>6. \A b, d \in Actors : \A s \in Sessions : Creating(b, s)' /\ Creating(d, s)' => b = d
    BY <1>2 DEF KnownSessions
  <1>7. counting' \subseteq hist'.attached /\ (borne' # NoBorne => borne'.active \in Known)
    BY DEF KnownSessions
  <1>8. QED
    BY <1>3, <1>4, <1>5, <1>6, <1>7 DEF KnownSessions, Known

\* A write of a borne whose session is known, or is the one its writer created.
LEMMA KnownWrite ==
  ASSUME BorneInv, KnownSessions,
         NEW loaded \in Borne \cup {NoBorne}, NEW b \in Borne, NEW early \in BOOLEAN,
         Write(loaded, b, early), UNCHANGED <<status, counting>>,
         NEW a \in Actors, NEW pc, NEW sid \in Sessions \cup {NoSession},
         pc # "created", Goes(a, pc, "none", NoBorne, "splash", sid),
         sid \in hist'.attached \cup {NoSession},
         \/ actor[a].pc # "created" /\ b.active \in Known
         \/ Creating(a, b.active) /\ b.active \in Sessions
  PROVE  KnownSessions'
  <1>1. /\ borne' = b /\ hist'.attached = hist.attached \cup ({b.active} \ {NoSession})
        /\ Known' = Known \cup {b.active}
    BY WriteFacts DEF BorneInv, Known
  <1>2. \A s \in Sessions : Creating(a, s)' = FALSE
    BY DEF Creating, Goes
  <1>3. \A d \in Actors, s \in Sessions : d # a => Creating(d, s)' = Creating(d, s)
    BY DEF Creating, Goes
  <1>4. b.active # NoSession /\ b.active \notin hist.attached =>
           b.active \in Sessions /\ Creating(a, b.active)
    BY DEF Known
  <1>5. \A s \in Sessions : Creating(a, s) => s = b.active
    BY DEF Creating
  <1>6. \A s \in Sessions :
          /\ status'[s] = "none" => s \notin hist'.attached
          /\ status'[s] \notin {"none", "waiting"} => s \in hist'.attached
          /\ status'[s] = "waiting" /\ s \notin hist'.attached => \E d \in Actors : Creating(d, s)'
    <2> TAKE s \in Sessions
    <2>1. s = b.active => s \in hist'.attached
      BY <1>1, SessionsAreDistinct
    <2>2. status'[s] = status[s]
      OBVIOUS
    <2>3. status[s] = "none" => s # b.active \/ s \in hist.attached
      BY <1>4, SessionsAreDistinct DEF KnownSessions, Creating
    <2>4. status[s] = "none" => s \notin hist'.attached
      BY <1>1, <2>3 DEF KnownSessions
    <2>5. status[s] = "waiting" /\ s \notin hist'.attached => \E d \in Actors : Creating(d, s)'
      BY <1>1, <1>3, <1>5, <2>1 DEF KnownSessions
    <2>6. QED
      BY <1>1, <2>2, <2>4, <2>5 DEF KnownSessions
  <1>7. \A d \in Actors :
          /\ actor'[d].snap # NoBorne => actor'[d].snap.active \in Known'
          /\ actor'[d].pc = "created" =>
                status'[actor'[d].sid] = "waiting" /\ actor'[d].sid \notin hist'.attached
          /\ actor'[d].pc # "created" => actor'[d].sid \in Known' \cup {Legacy}
    <2> TAKE d \in Actors
    <2>1. CASE d = a
      BY <2>1 DEF Goes, Known
    <2>2. CASE d # a
      <3>1. actor'[d] = actor[d] /\ (actor[d].pc = "created" => actor[d].sid \in Sessions)
        BY <2>2 DEF Goes, BorneInv, SessionsNamed
      <3>2. actor[d].pc = "created" => actor[d].sid \notin hist.attached
        BY DEF KnownSessions
      <3>3. actor[d].pc = "created" /\ actor[d].sid = b.active => FALSE
        BY <1>4, <2>2, <3>1, <3>2, SessionsAreDistinct DEF KnownSessions, Creating
      <3>4. QED
        BY <1>1, <3>1, <3>2, <3>3 DEF KnownSessions
    <2>3. QED
      BY <2>1, <2>2
  <1>8. \A d, e \in Actors : \A s \in Sessions : Creating(d, s)' /\ Creating(e, s)' => d = e
    BY <1>2, <1>3 DEF KnownSessions
  <1>9. counting' \subseteq hist'.attached /\ (borne' # NoBorne => borne'.active \in Known')
    BY <1>1 DEF KnownSessions
  <1>10. QED
    BY <1>6, <1>7, <1>8, <1>9 DEF KnownSessions

LEMMA KnownInit == Init => KnownSessions
  <1> SUFFICES ASSUME Init PROVE KnownSessions
    OBVIOUS
  <1>1. \A a \in Actors : /\ actor[a].pc \in {"idle", "off"} /\ actor[a].snap = NoBorne
                          /\ actor[a].sid = NoSession
    BY DEF Init, At
  <1>2. hist.attached = {}
    BY DEF Init
  <1>3. QED
    BY <1>1, <1>2, SessionsAreDistinct DEF Init, KnownSessions, Known, Creating

LEMMA KnownNext ==
  ASSUME BorneInv, KnownSessions, [Next]_vars
  PROVE  KnownSessions'
  <1>0. /\ counting \subseteq hist.attached
        /\ borne # NoBorne => borne.active \in Known
        /\ \A a \in Actors : actor[a].pc # "created" => actor[a].sid \in Known \cup {Legacy}
        /\ \A a \in Actors : actor[a].snap # NoBorne => actor[a].snap.active \in Known
        /\ \A s \in Sessions : status[s] \notin {"none", "waiting"} => s \in hist.attached
    BY DEF KnownSessions
  <1>s. NoSession \in Known /\ \A s \in Sessions : s \in Known => s \in hist.attached
    BY SessionsAreDistinct DEF Known
  <1>k. \A c \in Clients : c \in Actors
    BY DEF Actors
  <1>t. status \in [Sessions \cup {Legacy} -> SessionStates]
    BY DEF BorneInv, BorneTypeOK
  <1>n. borne \in Borne => borne # NoBorne
    BY NoBorneIsNoBorne
  <1>1. ASSUME NEW c \in Clients, Connect(c) \/ Message(c) PROVE KnownSessions'
    <2>1. CASE Connect(c)
      BY <2>1, <1>0, <1>s, <1>k, ConnectFacts, KnownFrame, Zenon
    <2>2. CASE Intent(c)
      <3>1. PICK to \in Nav : Goes(c, "loaded", "none", borne, to, NoSession)
        BY <2>2, IntentFacts
      <3>2. QED
        BY <2>2, <3>1, <1>0, <1>s, <1>k, <1>n, IntentFacts, KnownFrame
    <2>3. CASE PlayersValidated(c)
      BY <2>3, <1>0, <1>s, <1>k, <1>n, PlayersValidatedFacts, KnownFrame
    <2>4. CASE Command(c)
      BY <2>4, <1>0, <1>s, <1>k, <1>n, CommandFacts, KnownFrame
    <2>5. CASE RelayGameOver(c)
      BY <2>5, <1>0, <1>s, <1>k, <1>n, RelayGameOverFacts, KnownFrame
    <2>6. QED
      BY <1>1, <2>1, <2>2, <2>3, <2>4, <2>5 DEF Message
  <1>2. ASSUME NEW c \in Clients, SaveIntent(c) PROVE KnownSessions'
    <2>1. actor[c].snap \in Borne /\ actor[c].snap # NoBorne
      BY <1>2, <1>k, NoBorneIsNoBorne, SaveIntentFacts DEF BorneInv, CopiesHeld
    <2>2. actor[c].snap.active \in Known
      BY <1>0, <1>k, <2>1
    <2>3. PICK b \in Borne : /\ b.active \in {actor[c].snap.active, NoSession}
                             /\ Write(actor[c].snap, b, FALSE)
      BY <1>2, SaveIntentFacts
    <2>4. b.active \in Known
      BY <1>s, <2>2, <2>3
    <2>5. /\ actor[c].pc # "created" /\ UNCHANGED <<status, counting>>
          /\ Goes(c, "idle", "none", NoBorne, "splash", NoSession)
      BY <1>2, SaveIntentFacts
    <2>6. QED
      BY <1>k, <2>1, <2>3, <2>4, <2>5, KnownWrite
  <1>3. ASSUME NEW c \in Clients, CreateSession(c) PROVE KnownSessions'
    <2>1. PICK s \in Sessions : /\ status[s] = "none"
                                /\ status' = [status EXCEPT ![s] = "waiting"]
                                /\ Goes(c, "created", actor[c].job, actor[c].snap, actor[c].to, s)
      BY <1>3, CreateSessionFacts
    <2>2. actor[c].pc = "validated" /\ UNCHANGED <<borne, counting, hist>> /\ c \in Actors
      BY <1>3, <1>k, CreateSessionFacts
    <2>3. /\ status'[s] = "waiting" /\ s \notin hist.attached
          /\ \A r \in Sessions : r # s => status'[r] = status[r]
      BY <1>t, <2>1 DEF KnownSessions
    <2>4. \A a \in Actors : ~Creating(a, s)
      BY <2>1 DEF KnownSessions, Creating
    <2>5. /\ Creating(c, s)' /\ \A r \in Sessions : r # s => ~Creating(c, r)'
          /\ \A r \in Sessions : ~Creating(c, r)
          /\ \A a \in Actors : a # c => \A r \in Sessions : Creating(a, r)' = Creating(a, r)
      BY <2>1, <2>2 DEF Creating, Goes
    <2>6. \A r \in Sessions :
            /\ status'[r] = "none" => r \notin hist.attached
            /\ status'[r] \notin {"none", "waiting"} => r \in hist.attached
            /\ status'[r] = "waiting" /\ r \notin hist.attached => \E a \in Actors : Creating(a, r)'
      BY <2>2, <2>3, <2>5 DEF KnownSessions
    <2>7. \A a \in Actors :
            /\ actor'[a].snap # NoBorne => actor'[a].snap.active \in Known
            /\ actor'[a].pc = "created" =>
                  status'[actor'[a].sid] = "waiting" /\ actor'[a].sid \notin hist.attached
            /\ actor'[a].pc # "created" => actor'[a].sid \in Known \cup {Legacy}
      <3> TAKE a \in Actors
      <3>1. CASE a = c
        BY <1>0, <2>1, <2>2, <2>3, <3>1 DEF Goes
      <3>2. CASE a # c
        <4>1. actor'[a] = actor[a] /\ (actor[a].pc = "created" => actor[a].sid \in Sessions)
          BY <2>1, <3>2 DEF Goes, BorneInv, SessionsNamed
        <4>2. QED
          BY <2>3, <4>1 DEF KnownSessions
      <3>3. QED
        BY <3>1, <3>2
    <2>8. \A a, b \in Actors : \A r \in Sessions : Creating(a, r)' /\ Creating(b, r)' => a = b
      BY <2>4, <2>5 DEF KnownSessions
    <2>9. QED
      BY <1>0, <2>2, <2>6, <2>7, <2>8 DEF KnownSessions, Known
  <1>4. ASSUME NEW c \in Clients, Attach(c) PROVE KnownSessions'
    <2>1. PICK b \in Borne : b.active = actor[c].sid /\ Write(actor[c].snap, b, FALSE)
      BY <1>4, AttachFacts
    <2>2. /\ actor[c].snap \in Borne /\ Creating(c, b.active) /\ b.active \in Sessions
          /\ UNCHANGED <<status, counting>>
          /\ Goes(c, "attached", "none", NoBorne, "splash", b.active)
      BY <1>4, <2>1, AttachFacts DEF Creating
    <2>3. b.active \in hist'.attached
      BY <2>1, <2>2, WriteFacts, SessionsAreDistinct DEF BorneInv
    <2>4. QED
      BY <1>k, <2>1, <2>2, <2>3, KnownWrite
  <1>5. ASSUME NEW c \in Clients, ReadyUp(c) PROVE KnownSessions'
    <2>1. actor[c].sid \in hist.attached /\ actor[c].pc = "attached"
      BY <1>5, <1>0, <1>k, <1>s, ReadyUpFacts, SessionsAreDistinct
    <2>2. /\ counting' \subseteq hist.attached /\ UNCHANGED <<borne, hist>>
          /\ \A s \in Sessions : \/ status'[s] = status[s]
                                 \/ s \in hist.attached /\ status'[s] # "none"
      BY <1>5, <1>0, <1>t, <2>1, ReadyUpFacts
    <2>3. PICK pc \in {"off", "idle"} : Goes(c, pc, "none", NoBorne, "splash", NoSession)
      BY <1>5, ReadyUpFacts
    <2>4. QED
      BY <1>k, <1>s, <2>1, <2>2, <2>3, KnownFrame
  <1>6. ASSUME NEW c \in Clients, PauseSession(c) \/ ResumeSession(c) \/ AbandonSession(c)
        PROVE  KnownSessions'
    <2>1. actor[c].sid \in hist.attached /\ actor[c].pc = "commanded"
      BY <1>6, <1>0, <1>k, <1>s, PauseSessionFacts, ResumeSessionFacts, AbandonSessionFacts,
         SessionsAreDistinct
    <2>2. /\ counting' \subseteq hist.attached /\ UNCHANGED <<borne, hist>>
          /\ \A s \in Sessions : \/ status'[s] = status[s]
                                 \/ s \in hist.attached /\ status'[s] # "none"
      BY <1>6, <1>0, <1>t, <2>1, PauseSessionFacts, ResumeSessionFacts, AbandonSessionFacts
    <2>3. PICK pc \in {"idle", "over"}, job \in {"none", "mark"} :
             Goes(c, pc, job, NoBorne, "splash", NoSession)
      BY <1>6, PauseSessionFacts, ResumeSessionFacts, AbandonSessionFacts
    <2>4. QED
      BY <1>k, <1>s, <2>1, <2>2, <2>3, KnownFrame
  <1>7. ASSUME NEW a \in Actors, CreateBorne(a) PROVE KnownSessions'
    <2>1. actor[a].pc # "created" /\ FreshBorne.active \in Known
      BY <1>7, <1>s, CreateBorneFacts
    <2>2. QED
      BY <1>7, <2>1, CreateBorneFacts, KnownWrite
  <1>8. ASSUME NEW a \in Actors, FinishBorneGame(a) PROVE KnownSessions'
    BY <1>8, <1>0, <1>s, FinishBorneGameFacts, KnownFrame
  <1>9. ASSUME NEW a \in Actors, LoadToMark(a) PROVE KnownSessions'
    <2>1. /\ actor[a].pc = "over" /\ UNCHANGED <<borne, status, counting, hist>>
          /\ borne \in Borne /\ borne.active \in Known /\ actor[a].sid \in Known \cup {Legacy}
          /\ actor[a].sid \in Sessions \cup {Legacy, NoSession}
      BY <1>9, <1>0, <1>n, LoadToMarkFacts DEF BorneInv, BorneTypeOK, ActorType
    <2>2. CASE Goes(a, "marking", actor[a].job, borne, actor[a].to, actor[a].sid)
      BY <1>0, <2>1, <2>2, KnownFrame
    <2>3. CASE Goes(a, "marked", "none", NoBorne, "splash", actor[a].sid)
      BY <1>0, <2>1, <2>3, KnownFrame
    <2>4. CASE Goes(a, "idle", "none", NoBorne, "splash", NoSession)
      BY <1>0, <1>s, <2>1, <2>4, KnownFrame
    <2>5. QED
      BY <1>9, <2>2, <2>3, <2>4, LoadToMarkFacts
  <1>10. ASSUME NEW a \in Actors, MarkGameOver(a) PROVE KnownSessions'
    <2>1. PICK b \in Borne, early \in BOOLEAN :
             b.active = actor[a].snap.active /\ Write(actor[a].snap, b, early)
      BY <1>10, MarkGameOverFacts
    <2>2. /\ actor[a].pc = "marking" /\ actor[a].snap \in Borne /\ actor[a].snap # NoBorne
          /\ UNCHANGED <<status, counting>> /\ b.active \in Known
          /\ actor[a].sid \in Known \cup {Legacy}
      BY <1>10, <1>0, <2>1, NoBorneIsNoBorne, MarkGameOverFacts
    <2>3. CASE /\ actor[a].sid \in Sessions
               /\ Goes(a, "marked", "none", NoBorne, "splash", actor[a].sid)
      <3>1. actor[a].sid \in hist'.attached
        BY <1>s, <2>1, <2>2, <2>3, WriteFacts, SessionsAreDistinct DEF BorneInv
      <3>2. QED
        BY <2>1, <2>2, <2>3, <3>1, KnownWrite
    <2>4. CASE Goes(a, "idle", "none", NoBorne, "splash", NoSession)
      BY <2>1, <2>2, <2>4, KnownWrite
    <2>5. QED
      BY <1>10, <2>3, <2>4, MarkGameOverFacts
  <1>11. ASSUME NEW a \in Actors, Flush(a) PROVE KnownSessions'
    <2>1. actor[a].sid \in hist.attached /\ actor[a].pc = "marked"
      BY <1>11, <1>0, <1>s, FlushFacts, SessionsAreDistinct
    <2>2. /\ counting' \subseteq hist.attached /\ UNCHANGED <<borne, hist>>
          /\ \A s \in Sessions : \/ status'[s] = status[s]
                                 \/ s \in hist.attached /\ status'[s] # "none"
      BY <1>11, <1>0, <1>t, <2>1, FlushFacts
    <2>3. Goes(a, "idle", "none", NoBorne, "splash", NoSession)
      BY <1>11, FlushFacts
    <2>4. QED
      BY <1>s, <2>1, <2>2, <2>3, KnownFrame
  <1>12. ASSUME NEW s \in Sessions, EndCountdown(s) PROVE KnownSessions'
    BY <1>12, <1>t DEF EndCountdown, KnownSessions, Known, Creating, BorneInv, SessionsNamed
  <1>13. ASSUME HardwareGameOver PROVE KnownSessions'
    <2>1. PICK s \in Sessions \cup {Legacy} :
             /\ status[s] = "playing"
             /\ status' = [status EXCEPT ![s] = "over"]
             /\ Goes(Consumer, "ended", "none", NoBorne, "splash", s)
      BY <1>13, HardwareGameOverFacts
    <2>2. /\ actor[Consumer].pc = "idle" /\ UNCHANGED <<borne, counting, hist>>
          /\ Consumer \in Actors
      BY <1>13, HardwareGameOverFacts DEF Actors
    <2>3. s \in Sessions => s \in hist.attached
      BY <1>0, <2>1
    <2>4. s \in Known \cup {Legacy}
      BY <2>1, <2>3 DEF Known
    <2>5. \A r \in Sessions : \/ status'[r] = status[r]
                              \/ r \in hist.attached /\ status'[r] # "none"
      BY <1>t, <2>1, <2>3
    <2>6. QED
      BY <1>0, <2>1, <2>2, <2>4, <2>5, KnownFrame
  <1>14. CASE UNCHANGED vars
    BY <1>14 DEF vars, KnownSessions, Known, Creating
  <1>15. QED
    BY <1>1, <1>2, <1>3, <1>4, <1>5, <1>6, <1>7, <1>8, <1>9, <1>10, <1>11, <1>12, <1>13, <1>14
       DEF Next, ClientRuns, Finishes

LEMMA KnownAlways == Spec => []KnownSessions
  <1>1. BorneInv /\ KnownSessions /\ [Next]_vars => KnownSessions'
    BY KnownNext
  <1>2. QED
    BY <1>1, KnownInit, BorneInvAlways, PTL DEF Spec

-----------------------------------------------------------------------------
(* What a step may do to the borne *)

InGame(s) == borne # NoBorne /\ borne.nav = "in_game" /\ borne.active = s

\* A step that writes the borne either attaches a session nobody else knows, or
\* writes a known session with another nav.
Attaches(s) ==
    /\ \E c \in Clients : Creating(c, s)
    /\ status[s] = "waiting" /\ status' = status
    /\ s \notin hist.attached /\ hist'.attached = hist.attached \cup {s}
    /\ borne' \in Borne /\ borne'.nav = "in_game" /\ borne'.active = s

Rewrites ==
    /\ status' = status
    /\ hist'.attached = hist.attached
    /\ borne' \in Borne /\ borne'.nav # "in_game" /\ borne'.active \in Known

LEMMA BorneMoves ==
  ASSUME BorneInv, KnownSessions, [Next]_vars
  PROVE  \/ UNCHANGED <<borne, hist>>
         \/ Rewrites
         \/ \E s \in Sessions : Attaches(s)
  <1>k. \A c \in Clients : c \in Actors
    BY DEF Actors
  <1>1. ASSUME NEW a \in Actors, NEW loaded \in Borne \cup {NoBorne}, NEW b \in Borne,
               NEW early \in BOOLEAN, Write(loaded, b, early), status' = status,
               b.nav # "in_game", b.active \in Known
        PROVE  Rewrites
    BY <1>1, WriteFacts DEF Rewrites, Known, BorneInv
  <1>2. ASSUME NEW c \in Clients, SaveIntent(c) PROVE Rewrites
    <2>1. PICK b \in Borne : /\ b.nav # "in_game"
                             /\ b.active \in {actor[c].snap.active, NoSession}
                             /\ Write(actor[c].snap, b, FALSE)
      BY <1>2, SaveIntentFacts
    <2>2. actor[c].snap \in Borne /\ status' = status
      BY <1>2, <1>k, SaveIntentFacts DEF BorneInv, CopiesHeld
    <2>3. actor[c].snap.active \in Known
      BY <1>k, <2>2, NoBorneIsNoBorne DEF KnownSessions
    <2>4. b.active \in Known
      BY <2>1, <2>3 DEF Known
    <2>5. QED
      BY <1>1, <1>k, <2>1, <2>2, <2>4
  <1>3. ASSUME NEW c \in Clients, Attach(c) PROVE \E s \in Sessions : Attaches(s)
    <2>1. PICK b \in Borne : /\ b.nav = "in_game" /\ b.active = actor[c].sid
                             /\ Write(actor[c].snap, b, FALSE)
      BY <1>3, AttachFacts
    <2>2. /\ actor[c].snap \in Borne /\ Creating(c, b.active) /\ b.active \in Sessions
          /\ status' = status
      BY <1>3, <2>1, AttachFacts DEF Creating
    <2>3. /\ borne' = b /\ hist'.attached = hist.attached \cup {b.active}
      BY <2>1, <2>2, WriteFacts, SessionsAreDistinct DEF BorneInv
    <2>4. status[b.active] = "waiting" /\ b.active \notin hist.attached
      BY <1>k, <2>2 DEF KnownSessions, Creating
    <2>5. Attaches(b.active)
      BY <2>1, <2>2, <2>3, <2>4 DEF Attaches
    <2>6. QED
      BY <2>2, <2>5
  <1>4. ASSUME NEW a \in Actors, CreateBorne(a) PROVE Rewrites
    <2>1. FreshBorne.active \in Known
      BY <1>4, CreateBorneFacts DEF Known
    <2>2. QED
      BY <1>1, <1>4, <2>1, CreateBorneFacts
  <1>5. ASSUME NEW a \in Actors, MarkGameOver(a) PROVE Rewrites
    <2>1. PICK b \in Borne, early \in BOOLEAN :
             b.nav = "game_over" /\ b.active = actor[a].snap.active /\ Write(actor[a].snap, b, early)
      BY <1>5, MarkGameOverFacts
    <2>2. actor[a].snap \in Borne /\ actor[a].snap # NoBorne /\ status' = status
      BY <1>5, NoBorneIsNoBorne, MarkGameOverFacts
    <2>3. b.active \in Known
      BY <2>1, <2>2 DEF KnownSessions
    <2>4. QED
      BY <1>1, <2>1, <2>2, <2>3
  <1>6. CASE UNCHANGED vars
    BY <1>6 DEF vars
  <1>7. QED
    BY <1>2, <1>3, <1>4, <1>5, <1>6
       DEF Next, ClientRuns, Finishes, Connect, Message, Intent, PlayersValidated, Command,
           RelayGameOver, CreateSession, ReadyUp, PauseSession, ResumeSession, AbandonSession,
           FinishBorneGame, LoadToMark, Flush, EndCountdown, HardwareGameOver

\* An activity only moves by an action of its own.
LEMMA OwnMoves ==
  ASSUME BorneInv, Next, NEW a \in Actors, actor'[a] # actor[a]
  PROVE  \/ a \in Clients /\ (Connect(a) \/ Message(a) \/ ClientRuns(a))
         \/ Finishes(a)
         \/ a = Consumer /\ HardwareGameOver
  <1>k. \A c \in Clients : c \in Actors
    BY DEF Actors
  <1>1. ASSUME NEW c \in Clients, Connect(c) \/ Message(c) PROVE c = a
    <2>1. \A b \in Actors : b # c => actor'[b] = actor[b]
      <3>1. CASE Connect(c)
        BY <3>1, ConnectFacts DEF Goes
      <3>2. CASE Intent(c)
        BY <3>2, IntentFacts DEF Goes
      <3>3. CASE PlayersValidated(c)
        BY <3>3, PlayersValidatedFacts DEF Goes
      <3>4. CASE Command(c)
        BY <3>4, CommandFacts DEF Goes
      <3>5. CASE RelayGameOver(c)
        BY <3>5, RelayGameOverFacts DEF Goes
      <3>6. QED
        BY <1>1, <3>1, <3>2, <3>3, <3>4, <3>5 DEF Message
    <2>2. QED
      BY <2>1
  <1>2. ASSUME NEW c \in Clients, ClientRuns(c) PROVE c = a
    <2>1. \A b \in Actors : b # c => actor'[b] = actor[b]
      <3>1. CASE SaveIntent(c)
        BY <3>1, SaveIntentFacts DEF Goes
      <3>2. CASE CreateSession(c)
        BY <3>2, CreateSessionFacts DEF Goes
      <3>3. CASE Attach(c)
        BY <3>3, AttachFacts DEF Goes
      <3>4. CASE ReadyUp(c)
        BY <3>4, ReadyUpFacts DEF Goes
      <3>5. CASE PauseSession(c)
        BY <3>5, PauseSessionFacts DEF Goes
      <3>6. CASE ResumeSession(c)
        BY <3>6, ResumeSessionFacts DEF Goes
      <3>7. CASE AbandonSession(c)
        BY <3>7, AbandonSessionFacts DEF Goes
      <3>8. QED
        BY <1>2, <3>1, <3>2, <3>3, <3>4, <3>5, <3>6, <3>7 DEF ClientRuns
    <2>2. QED
      BY <2>1
  <1>3. ASSUME NEW b \in Actors, Finishes(b) PROVE b = a
    <2>1. \A d \in Actors : d # b => actor'[d] = actor[d]
      <3>1. CASE CreateBorne(b)
        BY <3>1, CreateBorneFacts DEF Goes
      <3>2. CASE FinishBorneGame(b)
        BY <3>2, FinishBorneGameFacts DEF Goes
      <3>3. CASE LoadToMark(b)
        BY <3>3, LoadToMarkFacts DEF Goes
      <3>4. CASE MarkGameOver(b)
        BY <3>4, MarkGameOverFacts DEF Goes
      <3>5. CASE Flush(b)
        BY <3>5, FlushFacts DEF Goes
      <3>6. QED
        BY <1>3, <3>1, <3>2, <3>3, <3>4, <3>5 DEF Finishes
    <2>2. QED
      BY <2>1
  <1>4. ASSUME HardwareGameOver PROVE a = Consumer
    BY <1>4, HardwareGameOverFacts DEF Goes
  <1>5. ASSUME NEW s \in Sessions, EndCountdown(s) PROVE FALSE
    BY <1>5 DEF EndCountdown
  <1>6. QED
    BY <1>1, <1>2, <1>3, <1>4, <1>5 DEF Next

-----------------------------------------------------------------------------
(* A finished game is always about to be marked over *)

\* A game is in progress only with a session, and no activity about to flush a
\* session leaves it in game: only Attach puts a session in game, once.
InGameInv ==
    /\ borne # NoBorne /\ borne.nav = "in_game" => borne.active \in Sessions
    /\ \A a \in Actors : actor[a].pc = "marked" => ~InGame(actor[a].sid)

LEMMA InGameNext ==
  ASSUME BorneInv, KnownSessions, InGameInv, [Next]_vars
  PROVE  InGameInv'
  <1>1. borne' # NoBorne /\ borne'.nav = "in_game" => borne'.active \in Sessions
    BY BorneMoves DEF InGameInv, Rewrites, Attaches
  <1>2. \A a \in Actors : actor[a].pc = "marked" =>
           ~(borne' # NoBorne /\ borne'.nav = "in_game" /\ borne'.active = actor[a].sid)
    <2> SUFFICES ASSUME NEW a \in Actors, actor[a].pc = "marked",
                        borne' # NoBorne, borne'.nav = "in_game", borne'.active = actor[a].sid
                 PROVE  FALSE
      OBVIOUS
    <2>1. actor[a].sid \in Sessions /\ actor[a].sid \in hist.attached
      BY SessionsAreDistinct DEF BorneInv, SessionsNamed, KnownSessions, Known
    <2>2. QED
      BY <2>1, BorneMoves DEF InGameInv, InGame, Rewrites, Attaches
  <1>3. ASSUME NEW a \in Actors, actor'[a].pc = "marked", actor'[a] # actor[a]
        PROVE  borne'.nav # "in_game"
    <2>1. Next
      BY <1>3 DEF vars
    <2>2. a \in Clients => ~(Connect(a) \/ Message(a))
      BY <1>3, ConnectFacts, IntentFacts, PlayersValidatedFacts, CommandFacts, RelayGameOverFacts
         DEF Message, Goes
    <2>3. a \in Clients => ~ClientRuns(a)
      BY <1>3, SaveIntentFacts, CreateSessionFacts, AttachFacts, ReadyUpFacts,
         PauseSessionFacts, ResumeSessionFacts, AbandonSessionFacts DEF ClientRuns, Goes
    <2>4. ~(CreateBorne(a) \/ FinishBorneGame(a) \/ Flush(a))
      BY <1>3, CreateBorneFacts, FinishBorneGameFacts, FlushFacts DEF Goes
    <2>5. a = Consumer => ~HardwareGameOver
      BY <1>3, HardwareGameOverFacts DEF Goes
    <2>6. LoadToMark(a) => borne'.nav # "in_game"
      BY <1>3, LoadToMarkFacts DEF Goes
    <2>7. MarkGameOver(a) => borne'.nav # "in_game"
      BY MarkGameOverFacts DEF Write
    <2>8. QED
      BY <1>3, <2>1, <2>2, <2>3, <2>4, <2>5, <2>6, <2>7, OwnMoves DEF Finishes
  <1>4. \A a \in Actors : actor'[a].pc = "marked" =>
           ~(borne' # NoBorne /\ borne'.nav = "in_game" /\ borne'.active = actor'[a].sid)
    BY <1>2, <1>3
  <1>5. QED
    BY <1>1, <1>4 DEF InGameInv, InGame

LEMMA InGameAlways == Spec => []InGameInv
  <1>1. Init => InGameInv
    BY DEF Init, InGameInv, At
  <1>2. BorneInv /\ KnownSessions /\ InGameInv /\ [Next]_vars => InGameInv'
    BY InGameNext
  <1>3. QED
    BY <1>1, <1>2, BorneInvAlways, KnownAlways, PTL DEF Spec

\* How a session comes to its end.
LEMMA Endings ==
  ASSUME BorneInv, [Next]_vars, NEW s \in Sessions, ~Finished(s), Finished(s)'
  PROVE  \E a \in Actors : \/ actor'[a].pc = "over"
                           \/ actor'[a].pc = "ended" /\ actor'[a].sid = s
                           \/ actor[a].pc = "marked" /\ actor[a].sid = s
  <1>k. (\A c \in Clients : c \in Actors) /\ Consumer \in Actors
    BY DEF Actors
  <1>t. status[s] \notin {"over", "gone"} /\ status'[s] \in {"over", "gone"}
        /\ status \in [Sessions \cup {Legacy} -> SessionStates]
    BY DEF BorneInv, BorneTypeOK, Finished
  <1>1. ASSUME NEW c \in Clients, ClientRuns(c) PROVE actor'[c].pc = "over"
    <2>1. CASE SaveIntent(c) \/ CreateSession(c) \/ Attach(c) \/ ReadyUp(c)
      BY <1>t, <2>1, SaveIntentFacts, CreateSessionFacts, AttachFacts, ReadyUpFacts
    <2>2. CASE PauseSession(c) \/ ResumeSession(c)
      BY <1>t, <2>2, PauseSessionFacts, ResumeSessionFacts
    <2>3. CASE AbandonSession(c)
      BY <2>3, AbandonSessionFacts DEF Goes
    <2>4. QED
      BY <1>1, <2>1, <2>2, <2>3 DEF ClientRuns
  <1>2. ASSUME NEW a \in Actors, Flush(a) PROVE actor[a].pc = "marked" /\ actor[a].sid = s
    BY <1>t, <1>2, FlushFacts
  <1>3. ASSUME HardwareGameOver PROVE actor'[Consumer].pc = "ended" /\ actor'[Consumer].sid = s
    BY <1>t, <1>3, HardwareGameOverFacts DEF Goes
  <1>4. ASSUME NEW r \in Sessions, EndCountdown(r) PROVE FALSE
    BY <1>t, <1>4 DEF EndCountdown
  <1>5. ~UNCHANGED vars
    BY <1>t DEF vars
  <1>6. ASSUME NEW c \in Clients, Connect(c) \/ Message(c) PROVE FALSE
    BY <1>t, <1>6 DEF Connect, Message, Intent, PlayersValidated, Command, RelayGameOver
  <1>7. ASSUME NEW a \in Actors,
               CreateBorne(a) \/ FinishBorneGame(a) \/ LoadToMark(a) \/ MarkGameOver(a)
        PROVE  FALSE
    BY <1>t, <1>7 DEF CreateBorne, FinishBorneGame, LoadToMark, MarkGameOver
  <1>8. QED
    BY <1>k, <1>1, <1>2, <1>3, <1>4, <1>5, <1>6, <1>7 DEF Next, Finishes

\* Who is about to mark the borne over stays so until it has, while that game
\* is the one in the borne.
LEMMA HandlingGoesOn ==
  ASSUME BorneInv, [Next]_vars, NEW a \in Actors, WillMark(a),
         UNCHANGED borne, borne # NoBorne, borne.nav = "in_game"
  PROVE  WillMark(a)'
  <1>1. CASE actor'[a] = actor[a]
    BY <1>1 DEF WillMark
  <1>2. CASE actor'[a] # actor[a]
    <2>1. Next
      BY <1>2 DEF vars
    <2>2. actor[a].pc \in {"ended", "over", "marking"}
          /\ (actor[a].pc = "ended" => actor[a].sid = borne.active)
      BY DEF WillMark
    <2>3. a \in Clients => ~(Connect(a) \/ Message(a) \/ ClientRuns(a))
      BY <2>2 DEF Connect, Message, Intent, PlayersValidated, Command, RelayGameOver, ClientRuns,
                  SaveIntent, CreateSession, Attach, ReadyUp, PauseSession, ResumeSession,
                  AbandonSession
    <2>4. ~(a = Consumer /\ HardwareGameOver)
      BY <2>2 DEF HardwareGameOver
    <2>5. ~CreateBorne(a) /\ ~Flush(a)
      BY <2>2 DEF CreateBorne, Flush
    <2>6. ~MarkGameOver(a)
      BY MarkGameOverFacts DEF Write
    <2>7. CASE FinishBorneGame(a)
      BY <2>2, <2>7, FinishBorneGameFacts DEF Goes, WillMark
    <2>8. CASE LoadToMark(a)
      BY <2>8, LoadToMarkFacts DEF Goes, WillMark
    <2>9. QED
      BY <1>2, <2>1, <2>3, <2>4, <2>5, <2>6, <2>7, <2>8, OwnMoves DEF Finishes
  <1>3. QED
    BY <1>1, <1>2

LEMMA EndedStep ==
  ASSUME BorneInv, KnownSessions, InGameInv, EndedIsHandled, [Next]_vars
  PROVE  EndedIsHandled'
  <1> SUFFICES ASSUME borne' # NoBorne, borne'.nav = "in_game", Finished(borne.active)'
               PROVE  \E a \in Actors : WillMark(a)'
    BY DEF EndedIsHandled, ShowsEnded
  <1>1. ~Rewrites
    BY DEF Rewrites
  <1>2. ASSUME NEW s \in Sessions, Attaches(s) PROVE FALSE
    BY <1>2 DEF Attaches, Finished
  <1>3. UNCHANGED borne
    BY <1>1, <1>2, BorneMoves
  <1>4. borne # NoBorne /\ borne.nav = "in_game" /\ borne.active \in Sessions
    BY <1>3 DEF InGameInv
  <1>5. CASE Finished(borne.active)
    <2>1. PICK a \in Actors : WillMark(a)
      BY <1>4, <1>5 DEF EndedIsHandled, ShowsEnded
    <2>2. QED
      BY <1>3, <1>4, <2>1, HandlingGoesOn
  <1>6. CASE ~Finished(borne.active)
    <2> DEFINE s == borne.active
    <2>1. s \in Sessions /\ ~Finished(s) /\ status'[s] \in {"over", "gone"}
      BY <1>3, <1>4, <1>6 DEF Finished
    <2>2. Finished(s)'
      BY <1>3, <2>1 DEF Finished
    <2>3. PICK a \in Actors : \/ actor'[a].pc = "over"
                              \/ actor'[a].pc = "ended" /\ actor'[a].sid = s
                              \/ actor[a].pc = "marked" /\ actor[a].sid = s
      <3> HIDE DEF s
      <3>1. \A r \in Sessions : ~Finished(r) /\ status'[r] \in {"over", "gone"} =>
               \E a \in Actors : \/ actor'[a].pc = "over"
                                 \/ actor'[a].pc = "ended" /\ actor'[a].sid = r
                                 \/ actor[a].pc = "marked" /\ actor[a].sid = r
        BY Endings DEF Finished
      <3>2. QED
        BY <2>1, <3>1
    <2>4. ~(actor[a].pc = "marked" /\ actor[a].sid = s)
      BY <1>4 DEF InGameInv, InGame
    <2>5. QED
      BY <1>3, <2>3, <2>4 DEF WillMark
  <1>7. QED
    BY <1>5, <1>6

\* However messages, intents and game overs overlap, the screens are never left
\* in a game that has ended: some handler has still to mark the borne over.
THEOREM EndedGameIsHandled == Spec => []EndedIsHandled
  <1>1. Init => EndedIsHandled
    BY DEF Init, EndedIsHandled, ShowsEnded
  <1>2. BorneInv /\ KnownSessions /\ InGameInv /\ EndedIsHandled /\ [Next]_vars => EndedIsHandled'
    BY EndedStep
  <1>3. QED
    BY <1>1, <1>2, BorneInvAlways, KnownAlways, InGameAlways, PTL DEF Spec

-----------------------------------------------------------------------------
(* The borne refines Attachment *)

LEMMA RelationMoves ==
  ASSUME BorneInv, BorneInv', KnownSessions, KnownSessions', [Next]_vars
  PROVE  Abstract!Next \/ UNCHANGED [s \in Sessions |-> Relation(s)]
  <1>1. CASE UNCHANGED <<borne, hist>>
    <2>1. \A s \in Sessions : Relation(s)' = Relation(s)
      BY <1>1 DEF Relation
    <2>2. QED
      BY <2>1
  <1>2. CASE Rewrites
    <2>1. \A s \in Sessions : s = borne'.active => s \in hist.attached
      BY <1>2, SessionsAreDistinct DEF Rewrites, Known
    <2>2. borne' # NoBorne /\ borne'.nav # "in_game" /\ hist'.attached = hist.attached
      BY <1>2, NoBorneIsNoBorne DEF Rewrites
    <2>3. \A s \in Sessions : borne # NoBorne /\ borne.active = s => s \in hist.attached
      BY SessionsAreDistinct DEF KnownSessions, Known
    <2>4. \A s \in Sessions : Relation(s)' # Relation(s) => <<Relation(s), Relation(s)'>> \in Abstract!Moves
      BY <2>1, <2>2, <2>3 DEF Relation, Abstract!Moves
    <2>5. \A s \in Sessions : Relation(s)' \in {"game_over", "left", "unattached"}
                              /\ (Relation(s)' = "game_over" => s = borne'.active)
      BY <2>2 DEF Relation
    <2>6. QED
      BY <2>4, <2>5 DEF Abstract!Next, Abstract!Attached, Abstract!Relations
  <1>3. ASSUME NEW r \in Sessions, Attaches(r) PROVE Abstract!Next
    <2>1. /\ borne' # NoBorne /\ borne'.nav = "in_game" /\ borne'.active = r
          /\ hist'.attached = hist.attached \cup {r} /\ r \notin hist.attached
      BY <1>3, NoBorneIsNoBorne DEF Attaches
    <2>2. \A s \in Sessions : borne # NoBorne /\ borne.active = s => s \in hist.attached
      BY SessionsAreDistinct DEF KnownSessions, Known
    <2>3. Relation(r) = "unattached" /\ Relation(r)' = "in_game"
      BY <2>1, <2>2 DEF Relation
    <2>4. \A s \in Sessions : s # r /\ Relation(s)' # Relation(s) =>
                                 <<Relation(s), Relation(s)'>> \in Abstract!Moves
      BY <2>1, <2>2 DEF Relation, Abstract!Moves
    <2>5. \A s \in Sessions : Relation(s)' \in {"in_game", "left", "unattached"}
                              /\ (Relation(s)' = "in_game" => s = r)
      BY <2>1 DEF Relation
    <2>6. QED
      BY <2>3, <2>4, <2>5 DEF Abstract!Next, Abstract!Attached, Abstract!Relations, Abstract!Moves
  <1>4. QED
    BY <1>1, <1>2, <1>3, BorneMoves

\* The borne implements Attachment: a session enters the game once, whoever
\* writes the borne late, and at most one is attached at a time.
THEOREM BorneIsAttachment == Spec => IsAttachment
  <1>1. Init => Abstract!Init
    <2> SUFFICES ASSUME Init, NEW s \in Sessions PROVE Relation(s) = "unattached"
      BY DEF Abstract!Init
    <2>1. QED
      BY DEF Init, Relation
  <1>2. BorneInv /\ BorneInv' /\ KnownSessions /\ KnownSessions' /\ [Next]_vars
          => Abstract!Next \/ UNCHANGED [s \in Sessions |-> Relation(s)]
    BY RelationMoves
  <1>3. QED
    BY <1>1, <1>2, BorneInvAlways, KnownAlways, PTL DEF Spec, IsAttachment, Abstract!Spec

-----------------------------------------------------------------------------
(* No game is left running without its screens *)

\* A session between Attach and ReadyUp is another activity's only once it is
\* marked over, and nobody else readies it up.
ReadyingUp ==
    /\ \A a \in Actors : actor[a].pc = "attached" => status[actor[a].sid] \in {"waiting", "gone"}
    /\ \A a, b \in Actors :
          actor[a].pc = "attached" /\ actor[b].pc = "attached" /\ actor[a].sid = actor[b].sid => a = b

\* What a step does to the status of a session of the borne.
LEMMA StatusMoves ==
  ASSUME BorneInv, [Next]_vars, NEW s \in Sessions, status'[s] # status[s]
  PROVE  \/ /\ status[s] = "none" /\ status'[s] = "waiting"
            /\ \E c \in Clients : Creating(c, s)'
         \/ /\ status[s] # "gone" /\ status'[s] = "ready"
            /\ \E c \in Clients : ReadyUp(c) /\ actor[c].pc = "attached" /\ actor[c].sid = s
         \/ status[s] = "ready" /\ status'[s] = "playing"
         \/ status[s] = "playing" /\ status'[s] = "paused"
         \/ status[s] = "paused" /\ status'[s] = "ready"
         \/ status[s] \in {"playing", "paused"} /\ status'[s] = "over"
         \/ /\ status'[s] = "gone"
            /\ \E a \in Actors : Flush(a) /\ actor[a].pc = "marked" /\ actor[a].sid = s
  <1>t. status \in [Sessions \cup {Legacy} -> SessionStates]
    BY DEF BorneInv, BorneTypeOK
  <1>1. ASSUME NEW c \in Clients, CreateSession(c)
        PROVE  status[s] = "none" /\ status'[s] = "waiting" /\ Creating(c, s)'
    BY <1>t, <1>1, CreateSessionFacts DEF Goes, Creating
  <1>2. ASSUME NEW c \in Clients, ReadyUp(c)
        PROVE  /\ status[s] # "gone" /\ status'[s] = "ready"
               /\ actor[c].pc = "attached" /\ actor[c].sid = s
    BY <1>t, <1>2, ReadyUpFacts
  <1>3. ASSUME NEW c \in Clients, PauseSession(c)
        PROVE  status[s] = "playing" /\ status'[s] = "paused"
    BY <1>t, <1>3, PauseSessionFacts
  <1>4. ASSUME NEW c \in Clients, ResumeSession(c)
        PROVE  status[s] = "paused" /\ status'[s] = "ready"
    BY <1>t, <1>4, ResumeSessionFacts
  <1>5. ASSUME NEW c \in Clients, AbandonSession(c)
        PROVE  status[s] \in {"playing", "paused"} /\ status'[s] = "over"
    BY <1>t, <1>5, AbandonSessionFacts DEF InPlay
  <1>6. ASSUME NEW a \in Actors, Flush(a)
        PROVE  status'[s] = "gone" /\ actor[a].pc = "marked" /\ actor[a].sid = s
    BY <1>t, <1>6, FlushFacts
  <1>7. ASSUME NEW r \in Sessions, EndCountdown(r)
        PROVE  status[s] = "ready" /\ status'[s] = "playing"
    BY <1>t, <1>7 DEF EndCountdown
  <1>8. ASSUME HardwareGameOver PROVE status[s] = "playing" /\ status'[s] = "over"
    BY <1>t, <1>8, HardwareGameOverFacts
  <1>9. ASSUME NEW c \in Clients, Connect(c) \/ Message(c) \/ SaveIntent(c) \/ Attach(c) PROVE FALSE
    BY <1>9 DEF Connect, Message, Intent, PlayersValidated, Command, RelayGameOver, SaveIntent, Attach
  <1>10. ASSUME NEW a \in Actors,
                CreateBorne(a) \/ FinishBorneGame(a) \/ LoadToMark(a) \/ MarkGameOver(a)
         PROVE  FALSE
    BY <1>10 DEF CreateBorne, FinishBorneGame, LoadToMark, MarkGameOver
  <1>11. Next
    BY DEF vars
  <1>12. ASSUME NEW c \in Clients, ClientRuns(c)
         PROVE  CreateSession(c) \/ ReadyUp(c) \/ PauseSession(c) \/ ResumeSession(c) \/ AbandonSession(c)
    BY <1>9, <1>12 DEF ClientRuns
  <1>13. \/ \E c \in Clients : CreateSession(c) \/ ReadyUp(c) \/ PauseSession(c)
                               \/ ResumeSession(c) \/ AbandonSession(c)
         \/ \E a \in Actors : Flush(a)
         \/ \E r \in Sessions : EndCountdown(r)
         \/ HardwareGameOver
    BY <1>9, <1>10, <1>11, <1>12 DEF Next, Finishes
  <1>14. QED
    BY <1>1, <1>2, <1>3, <1>4, <1>5, <1>6, <1>7, <1>8, <1>13

LEMMA ReadyingUpNext ==
  ASSUME BorneInv, KnownSessions, ReadyingUp, [Next]_vars
  PROVE  ReadyingUp'
  <1>1. ASSUME NEW a \in Actors, actor'[a].pc = "attached"
        PROVE  \/ actor'[a] = actor[a]
               \/ /\ Creating(a, actor'[a].sid) /\ actor'[a].sid \in Sessions
                  /\ status' = status
    <2> SUFFICES ASSUME actor'[a] # actor[a]
                 PROVE  /\ Creating(a, actor'[a].sid) /\ actor'[a].sid \in Sessions
                        /\ status' = status
      OBVIOUS
    <2>1. Next
      BY DEF vars
    <2>2. a \in Clients => ~(Connect(a) \/ Message(a))
      BY <1>1, ConnectFacts, IntentFacts, PlayersValidatedFacts, CommandFacts, RelayGameOverFacts
         DEF Message, Goes
    <2>3. a \in Clients => ~(SaveIntent(a) \/ CreateSession(a) \/ ReadyUp(a))
      BY <1>1, SaveIntentFacts, CreateSessionFacts, ReadyUpFacts DEF Goes
    <2>4. a \in Clients => ~(PauseSession(a) \/ ResumeSession(a) \/ AbandonSession(a))
      BY <1>1, PauseSessionFacts, ResumeSessionFacts, AbandonSessionFacts DEF Goes
    <2>5. ~(CreateBorne(a) \/ FinishBorneGame(a) \/ Flush(a))
      BY <1>1, CreateBorneFacts, FinishBorneGameFacts, FlushFacts DEF Goes
    <2>6. ~LoadToMark(a)
      BY <1>1, LoadToMarkFacts DEF Goes
    <2>7. ~MarkGameOver(a)
      BY <1>1, MarkGameOverFacts DEF Goes
    <2>8. ~(a = Consumer /\ HardwareGameOver)
      BY <1>1, HardwareGameOverFacts DEF Goes
    <2>9. a \in Clients /\ Attach(a)
      BY <2>1, <2>2, <2>3, <2>4, <2>5, <2>6, <2>7, <2>8, OwnMoves DEF ClientRuns, Finishes
    <2>10. QED
      BY <2>9, AttachFacts DEF Goes, Creating
  <1>2. ASSUME NEW a \in Actors, actor'[a].pc = "attached"
        PROVE  status'[actor'[a].sid] \in {"waiting", "gone"}
    <2>1. CASE actor'[a] = actor[a]
      <3> DEFINE s == actor[a].sid
      <3>1. actor[a].pc = "attached" /\ s \in Sessions /\ status[s] \in {"waiting", "gone"}
        BY <1>2, <2>1 DEF BorneInv, SessionsNamed, ReadyingUp
      <3>2. ASSUME NEW c \in Clients, ReadyUp(c), actor[c].pc = "attached", actor[c].sid = s
            PROVE  FALSE
        <4>1. c = a
          BY <3>1, <3>2 DEF ReadyingUp, Actors
        <4>2. actor'[a].pc \in {"off", "idle"}
          BY <3>2, <4>1, ReadyUpFacts DEF Goes
        <4>3. QED
          BY <1>2, <4>2
      <3> HIDE DEF s
      <3>3. status'[s] = status[s] \/ status'[s] \in {"waiting", "gone"}
        BY <3>1, <3>2, StatusMoves
      <3>4. QED
        BY <2>1, <3>1, <3>3 DEF s
    <2>2. CASE Creating(a, actor'[a].sid) /\ status' = status
      BY <2>2 DEF KnownSessions, Creating
    <2>3. QED
      BY <1>1, <1>2, <2>1, <2>2
  <1>3. ASSUME NEW a \in Actors, NEW b \in Actors,
               actor'[a].pc = "attached", actor'[b].pc = "attached", actor'[a].sid = actor'[b].sid
        PROVE  a = b
    <2>1. ASSUME NEW d \in Actors, NEW e \in Actors, actor'[d] = actor[d],
                 actor'[d].pc = "attached", Creating(e, actor'[d].sid)
          PROVE  FALSE
      <3>1. actor[d].sid \in Sessions /\ actor[d].sid \in Known \cup {Legacy}
        BY <2>1 DEF BorneInv, SessionsNamed, KnownSessions
      <3>2. actor[d].sid \in hist.attached
        BY <3>1, SessionsAreDistinct DEF Known
      <3>3. QED
        BY <2>1, <3>2 DEF KnownSessions, Creating
    <2>2. CASE actor'[a] = actor[a] /\ actor'[b] = actor[b]
      BY <1>3, <2>2 DEF ReadyingUp
    <2>3. CASE actor'[a] # actor[a] /\ actor'[b] # actor[b]
      BY <1>1, <1>3, <2>3 DEF KnownSessions
    <2>4. QED
      BY <1>1, <1>3, <2>1, <2>2, <2>3
  <1>4. QED
    BY <1>2, <1>3 DEF ReadyingUp

LEMMA ReadyingUpAlways == Spec => []ReadyingUp
  <1>1. Init => ReadyingUp
    BY DEF Init, ReadyingUp, At
  <1>2. BorneInv /\ KnownSessions /\ ReadyingUp /\ [Next]_vars => ReadyingUp'
    BY ReadyingUpNext
  <1>3. QED
    BY <1>1, <1>2, BorneInvAlways, KnownAlways, PTL DEF Spec

\* Stronger than NoGhostGame: the active session is in game, and there is a borne.
LiveIsInGame ==
    (~hist.stale /\ ~hist.early) =>
        \A s \in Sessions : Live(s) => InGame(s) \/ \E a \in Actors : WillSettle(a, s)

\* An activity that will settle a session does so, unless the session ends.
LEMMA SettleStays ==
  ASSUME BorneInv, [Next]_vars, NEW a \in Actors, NEW s \in Sessions,
         WillSettle(a, s), Live(s)'
  PROVE  WillSettle(a, s)' \/ InGame(s)'
  <1>1. CASE actor'[a] = actor[a]
    BY <1>1 DEF WillSettle
  <1>2. CASE actor'[a] # actor[a]
    <2>1. Next
      BY <1>2 DEF vars
    <2>2. /\ actor[a].pc \in {"created", "over", "marking", "marked"} /\ actor[a].sid = s
          /\ actor[a].pc \in {"over", "marking"} => actor[a].job = "finish"
      BY DEF WillSettle
    <2>3. a \in Clients /\ (Connect(a) \/ Message(a) \/ ClientRuns(a)) => Attach(a)
      BY <2>2 DEF Connect, Message, Intent, PlayersValidated, Command, RelayGameOver, ClientRuns,
                  SaveIntent, CreateSession, ReadyUp, PauseSession, ResumeSession, AbandonSession
    <2>4. ~(a = Consumer /\ HardwareGameOver)
      BY <2>2 DEF HardwareGameOver
    <2>5. ~CreateBorne(a) /\ ~FinishBorneGame(a)
      BY <2>2 DEF CreateBorne, FinishBorneGame
    <2>6. CASE a \in Clients /\ Attach(a)
      BY <2>2, <2>6, AttachFacts, NoBorneIsNoBorne DEF InGame, Write
    <2>7. CASE LoadToMark(a)
      BY <2>2, <2>7, LoadToMarkFacts DEF Goes, WillSettle
    <2>8. CASE MarkGameOver(a)
      BY <2>2, <2>8, MarkGameOverFacts DEF Goes, WillSettle
    <2>9. CASE Flush(a)
      BY <2>2, <2>9, FlushFacts DEF BorneInv, BorneTypeOK, Live
    <2>10. QED
      BY <1>2, <2>1, <2>3, <2>4, <2>5, <2>6, <2>7, <2>8, <2>9, OwnMoves DEF Finishes
  <1>3. QED
    BY <1>1, <1>2

\* Without a stale write the game in the borne leaves it only by its own end.
LEMMA GameStays ==
  ASSUME BorneInv, [Next]_vars, NEW s \in Sessions, InGame(s), Live(s), Live(s)',
         ~hist'.stale, ~hist'.early
  PROVE  InGame(s)' \/ \E a \in Actors : WillSettle(a, s)'
  <1>k. \A c \in Clients : c \in Actors
    BY DEF Actors
  <1>1. ASSUME NEW loaded \in Borne \cup {NoBorne}, NEW b \in Borne, NEW early \in BOOLEAN,
               Write(loaded, b, early)
        PROVE  borne = loaded /\ ~early
    BY <1>1, WriteFacts DEF BorneInv
  <1>2. ASSUME NEW c \in Clients PROVE ~SaveIntent(c)
    <2> SUFFICES ASSUME SaveIntent(c) PROVE FALSE
      OBVIOUS
    <2>1. actor[c].snap \in Borne /\ actor[c].snap.nav # "in_game"
      BY <1>k, SaveIntentFacts DEF BorneInv, CopiesHeld
    <2>2. QED
      BY <1>1, <2>1, SaveIntentFacts DEF InGame
  <1>3. ASSUME NEW c \in Clients PROVE ~Attach(c)
    <2> SUFFICES ASSUME Attach(c) PROVE FALSE
      OBVIOUS
    <2>1. actor[c].snap \in Borne /\ actor[c].snap.nav = "identification"
      BY <1>k, AttachFacts DEF BorneInv, CopiesHeld
    <2>2. QED
      BY <1>1, <2>1, AttachFacts DEF InGame
  <1>4. ASSUME NEW a \in Actors PROVE ~CreateBorne(a)
    BY <1>1, CreateBorneFacts DEF InGame
  <1>5. ASSUME NEW a \in Actors, MarkGameOver(a) PROVE WillSettle(a, s)'
    <2>1. PICK b \in Borne, early \in BOOLEAN :
             /\ b.nav = "game_over" /\ b.active = actor[a].snap.active
             /\ early = (Live(b.active) /\ ~(actor[a].job = "finish" /\ actor[a].sid = b.active))
             /\ Write(actor[a].snap, b, early)
      BY <1>5, MarkGameOverFacts
    <2>2. actor[a].snap \in Borne
      BY <1>5, MarkGameOverFacts
    <2>3. b.active = s /\ ~early
      BY <1>1, <2>1, <2>2 DEF InGame
    <2>4. actor[a].job = "finish" /\ actor[a].sid = s
      BY <2>1, <2>3
    <2>5. QED
      BY <1>5, <2>4, MarkGameOverFacts DEF Goes, WillSettle
  <1>6. (\A a \in Actors : ~MarkGameOver(a)) => UNCHANGED borne
    BY <1>2, <1>3, <1>4
       DEF Next, vars, ClientRuns, Finishes, Connect, Message, Intent, PlayersValidated, Command,
           RelayGameOver, CreateSession, ReadyUp, PauseSession, ResumeSession, AbandonSession,
           FinishBorneGame, LoadToMark, Flush, EndCountdown, HardwareGameOver
  <1>7. QED
    BY <1>5, <1>6 DEF InGame

LEMMA LiveStep ==
  ASSUME BorneInv, ReadyingUp, LiveIsInGame, [Next]_vars
  PROVE  LiveIsInGame'
  <1> SUFFICES ASSUME ~hist'.stale, ~hist'.early, NEW s \in Sessions, Live(s)'
               PROVE  InGame(s)' \/ \E a \in Actors : WillSettle(a, s)'
    BY DEF LiveIsInGame
  <1>1. ~hist.stale /\ ~hist.early
    <2>1. CASE UNCHANGED hist
      BY <2>1
    <2>2. ASSUME NEW loaded, NEW b, NEW early, Write(loaded, b, early) PROVE ~hist.stale /\ ~hist.early
      BY <2>2 DEF Write, BorneInv, BorneTypeOK, HistType
    <2>3. QED
      BY <2>1, <2>2
         DEF Next, vars, ClientRuns, Finishes, Connect, Message, Intent, PlayersValidated, Command,
             RelayGameOver, CreateSession, ReadyUp, PauseSession, ResumeSession, AbandonSession,
             FinishBorneGame, LoadToMark, Flush, EndCountdown, HardwareGameOver,
             SaveIntent, Attach, CreateBorne, MarkGameOver
  <1>2. CASE Live(s)
    <2>1. CASE InGame(s)
      BY <1>2, <2>1, GameStays
    <2>2. ASSUME NEW a \in Actors, WillSettle(a, s) PROVE WillSettle(a, s)' \/ InGame(s)'
      BY <2>2, SettleStays
    <2>3. QED
      BY <1>1, <1>2, <2>1, <2>2 DEF LiveIsInGame
  <1>3. CASE ~Live(s)
    <2>1. status'[s] # status[s] /\ status'[s] \in {"waiting", "ready", "playing", "paused"}
          /\ status[s] \notin {"waiting", "ready", "playing", "paused"}
      BY <1>3 DEF Live
    <2>2. ~\E c \in Clients : actor[c].pc = "attached" /\ actor[c].sid = s /\ status[s] # "gone"
      BY <2>1 DEF ReadyingUp, Actors
    <2>3. \E c \in Clients : Creating(c, s)'
      BY <2>1, <2>2, StatusMoves
    <2>4. QED
      BY <2>3 DEF Creating, WillSettle, Actors
  <1>4. QED
    BY <1>2, <1>3

\* A game of the borne runs out of reach of every screen only if a borne was
\* overwritten by a late write or was marked over before its game had ended.
THEOREM NoGameOutOfReach == Spec => []NoGhostGame
  <1>1. Init => LiveIsInGame
    <2> SUFFICES ASSUME Init, NEW s \in Sessions PROVE ~Live(s)
      BY DEF LiveIsInGame
    <2>1. QED
      BY SessionsAreDistinct DEF Init, Live
  <1>2. BorneInv /\ ReadyingUp /\ LiveIsInGame /\ [Next]_vars => LiveIsInGame'
    BY LiveStep
  <1>3. LiveIsInGame => NoGhostGame
    BY DEF LiveIsInGame, InGame, NoGhostGame
  <1>4. QED
    BY <1>1, <1>2, <1>3, BorneInvAlways, ReadyingUpAlways, PTL DEF Spec
=============================================================================
