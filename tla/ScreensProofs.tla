---------------------------- MODULE ScreensProofs ---------------------------
(***************************************************************************)
(* Machine-checked proofs about what reaches the WebSocket clients, for    *)
(* any number of clients, senders and messages, and about the life of the  *)
(* gateway.                                                                *)
(*                                                                         *)
(* ListsHold says what the hub lists hold; on it rests StateOnItsWay, the  *)
(* heart of NoStateMissed: a screen that has not been shown the stored     *)
(* navigation has a broadcast of it ahead.  LeaversInv says that a         *)
(* broadcast under way has missed one client at most for each it skipped.  *)
(***************************************************************************)
EXTENDS Screens, FiniteSetTheorems, TLAPS

-----------------------------------------------------------------------------
(* The gateway *)

\* The Event is only set by a task that has subscribed, or has crashed.
ReadyIsKnown ==
    /\ GatewayTypeOK
    /\ app = "starting" /\ ready => task \in {"consuming", "crashed"}

LEMMA GatewaySteps ==
  ASSUME ReadyIsKnown, [Next]_vars
  PROVE  ReadyIsKnown' /\ (app # "serving" /\ app' = "serving" => task' = "consuming")
  <1> USE DEF ReadyIsKnown, GatewayTypeOK
  <1>1. CASE Lifespan
    BY <1>1 DEF Lifespan, Start, Subscribed, ConsumerCrashes, StartReturns, StartTimesOut
  <1>2. CASE StopServing
    BY <1>2 DEF StopServing, Stop
  <1>3. CASE UNCHANGED gatewayVars
    BY <1>3 DEF gatewayVars
  <1>4. ASSUME NEW k \in Clients, ClientStep(k) PROVE UNCHANGED gatewayVars
    BY <1>4 DEF ClientStep, Accept, ReadSnapshot, SendSnapshot, SocketLost, HandlerFails,
                Disconnect, gatewayVars
  <1>5. ASSUME NEW s \in Senders, SenderStep(s) PROVE UNCHANGED gatewayVars
    BY <1>5 DEF SenderStep, BroadcastNav, HubDone, Send, SendFails, gatewayVars
  <1>6. ASSUME NEW s \in Requests, Publish(s) PROVE UNCHANGED gatewayVars
    BY <1>6 DEF Publish, gatewayVars
  <1>7. ASSUME NEW m \in MqttMessages, Consume(m) PROVE UNCHANGED gatewayVars
    BY <1>7 DEF Consume, gatewayVars
  <1>8. UNCHANGED vars => UNCHANGED gatewayVars
    BY DEF vars, gatewayVars
  <1>9. QED
    BY <1>1, <1>2, <1>3, <1>4, <1>5, <1>6, <1>7, <1>8 DEF Next

\* The lifespan serves no request before the consumer of its gateway has
\* subscribed, although start() waits for an Event that a crash sets too.
THEOREM ServesOnceSubscribed == Spec => ServesSubscribed
  <1>1. Init => ReadyIsKnown
    BY DEF Init, GatewayInit, ReadyIsKnown, GatewayTypeOK
  <1>2. ReadyIsKnown /\ [Next]_vars => ReadyIsKnown'
    BY GatewaySteps
  <1>3. ReadyIsKnown /\ [Next]_vars =>
           [app # "serving" /\ app' = "serving" => task' = "consuming"]_gatewayVars
    BY GatewaySteps
  <1>4. QED
    BY <1>1, <1>2, <1>3, PTL DEF Spec, ServesSubscribed

-----------------------------------------------------------------------------
(* Lists *)

\* list.remove: what was behind the removed client moves one place forward.
LEMMA Removed ==
  ASSUME NEW S, NEW list \in Seq(S), NEW p \in 1 .. Len(list), IsInjective(list)
  PROVE  /\ RemoveFirst(list, list[p]) \in Seq(S)
         /\ Len(RemoveFirst(list, list[p])) = Len(list) - 1
         /\ \A i \in 1 .. Len(list) - 1 :
               RemoveFirst(list, list[p])[i] = IF i < p THEN list[i] ELSE list[i + 1]
  <1> DEFINE places == {i \in 1 .. Len(list) : list[i] = list[p]}
  <1>1. places = {p}
    BY DEF IsInjective
  <1>2. SelectInSeq(list, LAMBDA v : v = list[p]) = p
    BY <1>1 DEF SelectInSeq, Min
  <1>3. RemoveFirst(list, list[p]) = RemoveAt(list, p)
    BY <1>2 DEF RemoveFirst
  <1>4. /\ SubSeq(list, 1, p - 1) \in Seq(S) /\ Len(SubSeq(list, 1, p - 1)) = p - 1
        /\ SubSeq(list, p + 1, Len(list)) \in Seq(S)
        /\ Len(SubSeq(list, p + 1, Len(list))) = Len(list) - p
        /\ \A i \in 1 .. p - 1 : SubSeq(list, 1, p - 1)[i] = list[i]
        /\ \A i \in 1 .. Len(list) - p : SubSeq(list, p + 1, Len(list))[i] = list[p + i]
    OBVIOUS
  <1>5. QED
    <2> DEFINE before == SubSeq(list, 1, p - 1)
               after == SubSeq(list, p + 1, Len(list))
    <2>1. RemoveFirst(list, list[p]) = before \o after
      BY <1>3 DEF RemoveAt
    <2> HIDE DEF before, after
    <2>2. /\ before \in Seq(S) /\ after \in Seq(S)
          /\ Len(before) = p - 1 /\ Len(after) = Len(list) - p
          /\ \A i \in 1 .. p - 1 : before[i] = list[i]
          /\ \A i \in 1 .. Len(list) - p : after[i] = list[p + i]
      BY <1>4 DEF before, after
    <2>3. before \o after \in Seq(S) /\ Len(before \o after) = Len(list) - 1
      BY <2>2
    <2>4. ASSUME NEW i \in 1 .. Len(list) - 1
          PROVE  (before \o after)[i] = IF i < p THEN list[i] ELSE list[i + 1]
      <3>1. CASE i < p
        BY <2>2, <3>1
      <3>2. CASE ~(i < p)
        <4>1. (before \o after)[i] = after[i - (p - 1)] /\ i - (p - 1) \in 1 .. Len(list) - p
          BY <2>2, <3>2
        <4>2. after[i - (p - 1)] = list[p + (i - (p - 1))]
          BY <2>2, <4>1
        <4>3. QED
          BY <3>2, <4>1, <4>2
      <3>3. QED
        BY <3>1, <3>2
    <2>5. QED
      BY <2>1, <2>3, <2>4

\* add_client: the new client is the last of the list.
LEMMA Appended ==
  ASSUME NEW S, NEW list \in Seq(S), NEW k \in S, IsInjective(list),
         \A i \in DOMAIN list : list[i] # k
  PROVE  /\ Append(list, k) \in Seq(S) /\ IsInjective(Append(list, k))
         /\ Len(Append(list, k)) = Len(list) + 1 /\ Append(list, k)[Len(list) + 1] = k
         /\ \A i \in 1 .. Len(list) : Append(list, k)[i] = list[i]
  BY DEF IsInjective

-----------------------------------------------------------------------------
(* What the lists hold *)

Present(k) == \E i \in DOMAIN listed[Hub[k]] : listed[Hub[k]][i] = k

\* Each hub lists clients of its own, once, from their add_client to their
\* remove_client.
ListsHold ==
    /\ listed \in [Hubs -> Seq(Clients)]
    /\ \A h \in Hubs : IsInjective(listed[h])
    /\ \A h \in Hubs : \A i \in DOMAIN listed[h] : Hub[listed[h][i]] = h
    /\ \A k \in Clients : Present(k) <=> client[k].pc \notin {"new", "closed"}

\* Only a socket that is served is up; a broadcast that is being sent has a
\* hub to go through.
Serving ==
    /\ \A k \in Clients : client[k].up => client[k].pc \in {"added", "read", "live"}
    /\ \A s \in Senders : cast[s].pc = "sending" => cast[s].route # <<>> /\ cast[s].next > 0

ScreensInv ==
    /\ GatewayTypeOK
    /\ last \in Nat /\ nav \in 0 .. last
    /\ client \in [Clients -> ClientType]
    /\ cast \in [Senders -> CastType]
    /\ ListsHold
    /\ Serving

LEMMA ScreensTypes == ScreensInv => ScreensTypeOK
  <1>1. \A k \in Clients : Present(k) <=> k \in ToSet(listed[Hub[k]])
    BY DEF Present, ToSet
  <1>2. QED
    BY <1>1, Zenon DEF ScreensInv, ListsHold, ScreensTypeOK

\* Client k is now so, the others are where they were.
Serves(k, pc, up, snap, got) ==
    /\ client' \in [Clients -> ClientType]
    /\ client'[k].pc = pc /\ client'[k].up = up
    /\ client'[k].snap = snap /\ client'[k].got = got
    /\ \A j \in Clients : j # k => client'[j] = client[j]

LEMMA ServesFacts ==
  ASSUME ScreensInv, NEW k \in Clients, NEW r \in ClientType,
         client' = [client EXCEPT ![k] = r]
  PROVE  Serves(k, r.pc, r.up, r.snap, r.got)
  BY Zenon DEF ScreensInv, Serves

LEMMA AcceptFacts ==
  ASSUME ScreensInv, NEW k \in Clients, Accept(k)
  PROVE  /\ client[k].pc = "new" /\ UNCHANGED <<gatewayVars, nav, last, cast, lossy>>
         /\ listed' = [listed EXCEPT ![Hub[k]] = Append(@, k)]
         /\ Serves(k, IF Hub[k] = "borne" THEN "added" ELSE "live", TRUE,
                   client[k].snap, client[k].got)
  <1> DEFINE pc == IF Hub[k] = "borne" THEN "added" ELSE "live"
             up == [client[k] EXCEPT !.up = TRUE]
             r == [up EXCEPT !.pc = pc]
  <1>1. client[k] \in ClientType
    BY DEF ScreensInv
  <1>2. up \in ClientType /\ up.up = TRUE /\ up.snap = client[k].snap /\ up.got = client[k].got
    BY <1>1, Zenon DEF ClientType
  <1>3. pc \in {"added", "live"}
    OBVIOUS
  <1>4. /\ r \in ClientType /\ r.pc = pc /\ r.up = up.up
        /\ r.snap = up.snap /\ r.got = up.got
    <2> HIDE DEF pc, up
    <2>1. QED
      BY <1>2, <1>3, Zenon DEF ClientType
  <1>5. client' = [client EXCEPT ![k] = r]
    BY DEF Accept, ScreensInv
  <1>6. Serves(k, r.pc, r.up, r.snap, r.got)
    <2> HIDE DEF r
    <2>1. QED
      BY <1>4, <1>5, ServesFacts
  <1>7. QED
    BY <1>2, <1>4, <1>6 DEF Accept

LEMMA ReadSnapshotFacts ==
  ASSUME ScreensInv, NEW k \in Clients, ReadSnapshot(k)
  PROVE  /\ client[k].pc = "added" /\ UNCHANGED <<gatewayVars, nav, last, listed, cast, lossy>>
         /\ Serves(k, "read", client[k].up, IF client[k].up THEN nav ELSE 0, client[k].got)
  <1> DEFINE snap == IF client[k].up THEN nav ELSE 0
             read == [client[k] EXCEPT !.pc = "read"]
             r == [read EXCEPT !.snap = snap]
  <1>1. client[k] \in ClientType
    BY DEF ScreensInv
  <1>2. /\ read \in ClientType /\ read.pc = "read" /\ read.up = client[k].up
        /\ read.got = client[k].got
    BY <1>1, Zenon DEF ClientType
  <1>3. snap \in Nat
    BY DEF ScreensInv
  <1>4. /\ r \in ClientType /\ r.pc = read.pc /\ r.up = read.up
        /\ r.snap = snap /\ r.got = read.got
    <2> HIDE DEF snap, read
    <2>1. QED
      BY <1>2, <1>3, Zenon DEF ClientType
  <1>5. client' = [client EXCEPT ![k] = r]
    BY DEF ReadSnapshot, ScreensInv
  <1>6. Serves(k, r.pc, r.up, r.snap, r.got)
    <2> HIDE DEF r
    <2>1. QED
      BY <1>4, <1>5, ServesFacts
  <1>7. QED
    BY <1>2, <1>4, <1>6 DEF ReadSnapshot

\* A client of which only the place in its coroutine changes.
LEMMA ServedOnFacts ==
  ASSUME ScreensInv, NEW k \in Clients, NEW pc \in {"live", "abandoned", "closed"},
         client' = [client EXCEPT ![k].pc = pc]
  PROVE  Serves(k, pc, client[k].up, client[k].snap, client[k].got)
  <1> DEFINE r == [client[k] EXCEPT !.pc = pc]
  <1>1. client[k] \in ClientType
    BY DEF ScreensInv
  <1>2. /\ r \in ClientType /\ r.pc = pc /\ r.up = client[k].up
        /\ r.snap = client[k].snap /\ r.got = client[k].got
    BY <1>1, Zenon DEF ClientType
  <1>3. client' = [client EXCEPT ![k] = r]
    OBVIOUS
  <1>4. Serves(k, r.pc, r.up, r.snap, r.got)
    <2> HIDE DEF r
    <2>1. QED
      BY <1>2, <1>3, ServesFacts
  <1>5. QED
    BY <1>2, <1>4

LEMMA SendSnapshotFacts ==
  ASSUME ScreensInv, NEW k \in Clients, SendSnapshot(k)
  PROVE  /\ client[k].pc = "read" /\ UNCHANGED <<gatewayVars, nav, last, listed, cast, lossy>>
         /\ \E pc \in {"live", "abandoned"} :
               /\ pc = "live" <=> client[k].up
               /\ Serves(k, pc, client[k].up, client[k].snap, client[k].got)
  <1>1. CASE client[k].up
    <2>1. client' = [client EXCEPT ![k].pc = "live"]
      BY <1>1 DEF SendSnapshot
    <2>2. QED
      BY <1>1, <2>1, ServedOnFacts DEF SendSnapshot
  <1>2. CASE ~client[k].up
    <2>1. client' = [client EXCEPT ![k].pc = "abandoned"]
      BY <1>2 DEF SendSnapshot
    <2>2. QED
      BY <1>2, <2>1, ServedOnFacts DEF SendSnapshot
  <1>3. QED
    BY <1>1, <1>2

\* A client whose socket is lost: nothing it has received counts any more.
LEMMA LostFacts ==
  ASSUME ScreensInv, NEW k \in Clients,
         NEW pc \in {"new", "added", "read", "live", "closed", "abandoned"},
         client' = [client EXCEPT ![k] = [NewClient EXCEPT !.pc = pc]]
  PROVE  Serves(k, pc, FALSE, 0, {})
  <1> DEFINE r == [NewClient EXCEPT !.pc = pc]
  <1>1. NewClient \in ClientType /\ NewClient.up = FALSE /\ NewClient.snap = 0 /\ NewClient.got = {}
    BY DEF NewClient, ClientType
  <1>2. /\ r \in ClientType /\ r.pc = pc /\ r.up = NewClient.up
        /\ r.snap = NewClient.snap /\ r.got = NewClient.got
    BY <1>1, Zenon DEF ClientType
  <1>3. client' = [client EXCEPT ![k] = r]
    OBVIOUS
  <1>4. Serves(k, r.pc, r.up, r.snap, r.got)
    <2> HIDE DEF r
    <2>1. QED
      BY <1>2, <1>3, ServesFacts
  <1>5. QED
    BY <1>1, <1>2, <1>4

LEMMA SocketLostFacts ==
  ASSUME ScreensInv, NEW k \in Clients, SocketLost(k)
  PROVE  /\ client[k].up /\ UNCHANGED <<gatewayVars, nav, last, listed, cast, lossy>>
         /\ Serves(k, client[k].pc, FALSE, 0, {})
  <1>1. client[k].pc \in {"new", "added", "read", "live", "closed", "abandoned"}
    BY DEF ScreensInv, ClientType
  <1>2. QED
    BY <1>1, LostFacts DEF SocketLost

LEMMA HandlerFailsFacts ==
  ASSUME ScreensInv, NEW k \in Clients, HandlerFails(k)
  PROVE  /\ client[k].pc = "live" /\ UNCHANGED <<gatewayVars, nav, last, listed, cast, lossy>>
         /\ Serves(k, "abandoned", FALSE, 0, {})
  BY LostFacts DEF HandlerFails

LEMMA DisconnectFacts ==
  ASSUME ScreensInv, NEW k \in Clients, Disconnect(k)
  PROVE  /\ client[k].pc = "live" /\ ~client[k].up /\ UNCHANGED <<gatewayVars, nav, last>>
         /\ listed' = [listed EXCEPT ![Hub[k]] = RemoveFirst(@, k)]
         /\ lossy' = (lossy \/ \E s \in Passed(k) : cast[s].id = nav)
         /\ Serves(k, "closed", client[k].up, client[k].snap, client[k].got)
         /\ cast' \in [Senders -> CastType]
         /\ \A s \in Senders :
               /\ cast'[s].pc = cast[s].pc /\ cast'[s].id = cast[s].id
               /\ cast'[s].route = cast[s].route /\ cast'[s].next = cast[s].next
               /\ cast'[s].due = cast[s].due
               /\ cast'[s].skips = IF s \in Passed(k) THEN cast[s].skips + 1 ELSE cast[s].skips
  <1>1. ASSUME NEW s \in Senders
        PROVE  /\ cast'[s] \in CastType
               /\ cast'[s].pc = cast[s].pc /\ cast'[s].id = cast[s].id
               /\ cast'[s].route = cast[s].route /\ cast'[s].next = cast[s].next
               /\ cast'[s].due = cast[s].due
               /\ cast'[s].skips = IF s \in Passed(k) THEN cast[s].skips + 1 ELSE cast[s].skips
    <2>1. cast[s] \in CastType
      BY DEF ScreensInv
    <2>2. cast'[s] = IF s \in Passed(k) THEN [cast[s] EXCEPT !.skips = @ + 1] ELSE cast[s]
      BY DEF Disconnect
    <2>3. CASE s \in Passed(k)
      <3>1. cast'[s] = [cast[s] EXCEPT !.skips = @ + 1]
        BY <2>2, <2>3
      <3>2. QED
        BY <2>1, <2>3, <3>1 DEF CastType
    <2>4. CASE s \notin Passed(k)
      BY <2>1, <2>2, <2>4
    <2>5. QED
      BY <2>3, <2>4
  <1>2. cast' \in [Senders -> CastType]
    <2>1. cast' = [s \in Senders |-> cast'[s]]
      BY DEF Disconnect
    <2>2. QED
      BY <1>1, <2>1
  <1>3. QED
    BY <1>1, <1>2, ServedOnFacts DEF Disconnect

\* The broadcast of sender s is now so, the others are where they were.
Casts(s, pc, id, route, next, due, skips) ==
    /\ cast' \in [Senders -> CastType]
    /\ cast'[s].pc = pc /\ cast'[s].id = id /\ cast'[s].route = route
    /\ cast'[s].next = next /\ cast'[s].due = due /\ cast'[s].skips = skips
    /\ \A t \in Senders : t # s => cast'[t] = cast[t]

LEMMA CastsFacts ==
  ASSUME ScreensInv, NEW s \in Senders, NEW r \in CastType,
         cast' = [cast EXCEPT ![s] = r]
  PROVE  Casts(s, r.pc, r.id, r.route, r.next, r.due, r.skips)
  BY DEF ScreensInv, Casts

LEMMA NewCastType ==
  /\ NewCast \in CastType /\ NewCast.pc = "idle" /\ NewCast.id = 0 /\ NewCast.route = <<>>
  /\ NewCast.next = 1 /\ NewCast.due = {} /\ NewCast.skips = 0
  BY DEF NewCast, CastType

LEMMA PublishFacts ==
  ASSUME ScreensInv, NEW s \in Requests, Publish(s)
  PROVE  /\ cast[s].pc = "idle" /\ UNCHANGED <<gatewayVars, listed, client>>
         /\ last' = last + 1 /\ nav' = last + 1 /\ ~lossy'
         /\ Casts(s, "stored", last + 1, <<>>, 1, {}, 0)
  <1> s \in Senders
    BY DEF Senders
  <1> DEFINE r == [NewCast EXCEPT !.pc = "stored", !.id = last + 1]
  <1>0. last + 1 \in Nat
    BY DEF ScreensInv
  <1>1. /\ r \in CastType /\ r.pc = "stored" /\ r.id = last + 1 /\ r.route = <<>>
        /\ r.next = 1 /\ r.due = {} /\ r.skips = 0
    BY <1>0, NewCastType DEF CastType
  <1>2. cast' = [cast EXCEPT ![s] = r]
    BY DEF Publish
  <1>3. Casts(s, r.pc, r.id, r.route, r.next, r.due, r.skips)
    <2> HIDE DEF r
    <2>1. QED
      BY <1>1, <1>2, CastsFacts
  <1>4. QED
    BY <1>1, <1>3 DEF Publish

LEMMA SendingFacts ==
  ASSUME ScreensInv, NEW s \in Senders, NEW id \in Nat, NEW route \in Seq(Hubs), Sending(s, id, route)
  PROVE  Casts(s, "sending", id, route, 1, {k \in Listed(route) : client[k].up}, 0)
  <1> DEFINE due == {k \in Listed(route) : client[k].up}
             r == [pc |-> "sending", id |-> id, route |-> route, next |-> 1, due |-> due, skips |-> 0]
  <1>1. Listed(route) \in SUBSET Clients
    BY DEF Listed, ScreensInv, ListsHold, ToSet
  <1>2. due \in SUBSET Clients
    BY <1>1
  <1>3. /\ r \in CastType /\ r.pc = "sending" /\ r.id = id /\ r.route = route
        /\ r.next = 1 /\ r.due = due /\ r.skips = 0
    <2> HIDE DEF due
    <2>1. QED
      BY <1>2 DEF CastType
  <1>4. cast' = [cast EXCEPT ![s] = r]
    BY DEF Sending
  <1>5. Casts(s, r.pc, r.id, r.route, r.next, r.due, r.skips)
    <2> HIDE DEF r
    <2>1. QED
      BY <1>3, <1>4, CastsFacts
  <1>6. QED
    BY <1>3, <1>5

LEMMA BroadcastNavFacts ==
  ASSUME ScreensInv, NEW s \in Senders, BroadcastNav(s)
  PROVE  /\ cast[s].pc = "stored" /\ UNCHANGED <<gatewayVars, nav, last, listed, client, lossy>>
         /\ Casts(s, "sending", cast[s].id, <<"borne">>, 1,
                  {k \in Listed(<<"borne">>) : client[k].up}, 0)
  <1>1. cast[s].id \in Nat /\ <<"borne">> \in Seq(Hubs)
    BY DEF ScreensInv, CastType, Hubs
  <1>2. QED
    BY <1>1, SendingFacts DEF BroadcastNav

LEMMA ConsumeFacts ==
  ASSUME ScreensInv, NEW m \in MqttMessages, Consume(m)
  PROVE  /\ cast[Consumer].pc = "idle" /\ UNCHANGED <<gatewayVars, nav, listed, client, lossy>>
         /\ last' = last + 1
         /\ \E route \in {<<"borne">>, <<"session", "borne">>} :
               Casts(Consumer, "sending", last + 1, route, 1,
                     {k \in Listed(route) : client[k].up}, 0)
  <1>1. Consumer \in Senders /\ last + 1 \in Nat
    BY DEF Senders, ScreensInv
  <1>2. <<"borne">> \in Seq(Hubs) /\ <<"session", "borne">> \in Seq(Hubs)
    BY DEF Hubs
  <1>3. \E route \in {<<"borne">>, <<"session", "borne">>} : Sending(Consumer, last + 1, route)
    BY DEF Consume
  <1>4. QED
    BY <1>1, <1>2, <1>3, SendingFacts DEF Consume

\* The client a broadcast comes to.
LEMMA AtFacts ==
  ASSUME ScreensInv, NEW s \in Senders, NEW k \in Clients, At(s, k)
  PROVE  /\ cast[s].pc = "sending" /\ cast[s].route \in Seq(Hubs) /\ cast[s].route # <<>>
         /\ Head(cast[s].route) = Hub[k] /\ cast[s].next \in DOMAIN listed[Hub[k]]
         /\ listed[Hub[k]][cast[s].next] = k
  <1>1. /\ cast[s].pc = "sending" /\ cast[s].route \in Seq(Hubs) /\ cast[s].route # <<>>
        /\ cast[s].next \in Nat /\ cast[s].next > 0
    BY DEF At, ScreensInv, Serving, CastType
  <1> DEFINE h == Head(cast[s].route)
  <1>2. h \in Hubs
    BY <1>1
  <1>3. listed[h] \in Seq(Clients) /\ cast[s].next <= Len(listed[h]) /\ k = listed[h][cast[s].next]
    BY <1>2 DEF At, ScreensInv, ListsHold
  <1>4. cast[s].next \in DOMAIN listed[h]
    BY <1>1, <1>3
  <1>5. Hub[k] = h
    BY <1>2, <1>3, <1>4 DEF ScreensInv, ListsHold
  <1>6. QED
    BY <1>1, <1>3, <1>4, <1>5

LEMMA WalkFacts ==
  ASSUME ScreensInv, NEW s \in Senders, cast' = [cast EXCEPT ![s].next = @ + 1]
  PROVE  Casts(s, cast[s].pc, cast[s].id, cast[s].route, cast[s].next + 1,
               cast[s].due, cast[s].skips)
  <1> DEFINE r == [cast[s] EXCEPT !.next = @ + 1]
  <1>1. cast[s] \in CastType
    BY DEF ScreensInv
  <1>2. /\ r \in CastType /\ r.pc = cast[s].pc /\ r.id = cast[s].id /\ r.route = cast[s].route
        /\ r.next = cast[s].next + 1 /\ r.due = cast[s].due /\ r.skips = cast[s].skips
    BY <1>1 DEF CastType
  <1>3. cast' = [cast EXCEPT ![s] = r]
    OBVIOUS
  <1>4. Casts(s, r.pc, r.id, r.route, r.next, r.due, r.skips)
    <2> HIDE DEF r
    <2>1. QED
      BY <1>2, <1>3, CastsFacts
  <1>5. QED
    BY <1>2, <1>4

LEMMA SendFacts ==
  ASSUME ScreensInv, NEW s \in Senders, NEW k \in Clients, Send(s, k)
  PROVE  /\ client[k].up /\ UNCHANGED <<gatewayVars, nav, last, listed, lossy>>
         /\ Serves(k, client[k].pc, client[k].up, client[k].snap, client[k].got \cup {cast[s].id})
         /\ Casts(s, cast[s].pc, cast[s].id, cast[s].route, cast[s].next + 1,
                  cast[s].due, cast[s].skips)
  <1> DEFINE r == [client[k] EXCEPT !.got = @ \cup {cast[s].id}]
  <1>1. client[k] \in ClientType /\ cast[s].id \in Nat
    BY DEF ScreensInv, CastType
  <1>2. client[k].got \cup {cast[s].id} \in SUBSET Nat
    BY <1>1 DEF ClientType
  <1>3. /\ r \in ClientType /\ r.pc = client[k].pc /\ r.up = client[k].up
        /\ r.snap = client[k].snap /\ r.got = client[k].got \cup {cast[s].id}
    BY <1>1, <1>2, Zenon DEF ClientType
  <1>4. client' = [client EXCEPT ![k] = r]
    BY DEF Send
  <1>5. Serves(k, r.pc, r.up, r.snap, r.got)
    <2> HIDE DEF r
    <2>1. QED
      BY <1>3, <1>4, ServesFacts
  <1>6. QED
    BY <1>3, <1>5, WalkFacts DEF Send

LEMMA SendFailsFacts ==
  ASSUME ScreensInv, NEW s \in Senders, NEW k \in Clients, SendFails(s, k)
  PROVE  /\ ~client[k].up /\ UNCHANGED <<gatewayVars, nav, last, listed, client, lossy>>
         /\ Casts(s, cast[s].pc, cast[s].id, cast[s].route, cast[s].next + 1,
                  cast[s].due, cast[s].skips)
  BY WalkFacts DEF SendFails

LEMMA HubDoneFacts ==
  ASSUME ScreensInv, NEW s \in Senders, HubDone(s)
  PROVE  /\ cast[s].pc = "sending" /\ UNCHANGED <<gatewayVars, nav, last, listed, client, lossy>>
         /\ cast[s].next > Len(listed[Head(cast[s].route)])
         /\ cast[s].route \in Seq(Hubs) /\ cast[s].route # <<>>
         /\ \/ Len(cast[s].route) = 1 /\ Casts(s, "idle", 0, <<>>, 1, {}, 0)
            \/ /\ Tail(cast[s].route) # <<>>
               /\ Casts(s, "sending", cast[s].id, Tail(cast[s].route), 1,
                        cast[s].due, cast[s].skips)
  <1>1. /\ cast[s] \in CastType /\ cast[s].pc = "sending"
        /\ cast[s].route \in Seq(Hubs) /\ cast[s].route # <<>>
    BY DEF HubDone, ScreensInv, Serving, CastType
  <1>2. CASE Len(cast[s].route) = 1
    <2>1. cast' = [cast EXCEPT ![s] = NewCast]
      BY <1>2 DEF HubDone, ScreensInv
    <2>2. QED
      BY <1>1, <1>2, <2>1, CastsFacts, NewCastType DEF HubDone
  <1>3. CASE Len(cast[s].route) # 1
    <2> DEFINE r == [cast[s] EXCEPT !.route = Tail(@), !.next = 1]
    <2>1. Tail(cast[s].route) \in Seq(Hubs) /\ Tail(cast[s].route) # <<>>
      <3>1. Len(cast[s].route) \in Nat /\ Len(cast[s].route) # 0
        BY <1>1
      <3>2. Len(Tail(cast[s].route)) = Len(cast[s].route) - 1
        BY <1>1
      <3>3. Len(Tail(cast[s].route)) # 0
        BY <1>3, <3>1, <3>2
      <3>4. Tail(cast[s].route) \in Seq(Hubs)
        BY <1>1
      <3>5. ASSUME Tail(cast[s].route) = <<>> PROVE FALSE
        <4>1. Len(Tail(cast[s].route)) = Len(<<>>)
          BY <3>5
        <4>2. QED
          BY <3>3, <4>1
      <3>6. QED
        BY <3>4, <3>5
    <2>2. /\ r \in CastType /\ r.pc = cast[s].pc /\ r.id = cast[s].id
          /\ r.route = Tail(cast[s].route) /\ r.next = 1
          /\ r.due = cast[s].due /\ r.skips = cast[s].skips
      BY <1>1, <2>1 DEF CastType
    <2>3. cast' = [cast EXCEPT ![s] = r]
      BY <1>3 DEF HubDone, ScreensInv
    <2>4. Casts(s, r.pc, r.id, r.route, r.next, r.due, r.skips)
      <3> HIDE DEF r
      <3>1. QED
        BY <2>2, <2>3, CastsFacts
    <2>5. QED
      BY <1>1, <2>1, <2>2, <2>4 DEF HubDone
  <1>4. QED
    BY <1>2, <1>3

-----------------------------------------------------------------------------
(* The types *)

LEMMA ScreensInit == Init => ScreensInv
  <1> SUFFICES ASSUME Init PROVE ScreensInv
    OBVIOUS
  <1>1. NewClient \in ClientType /\ NewClient.pc = "new" /\ NewClient.up = FALSE
    BY DEF NewClient, ClientType
  <1>2. /\ client \in [Clients -> ClientType]
        /\ \A k \in Clients : client[k].pc = "new" /\ ~client[k].up
    BY <1>1 DEF Init, Fresh
  <1>3. cast \in [Senders -> CastType] /\ \A s \in Senders : cast[s].pc = "idle"
    BY NewCastType DEF Init, Fresh
  <1>4. \A h \in Hubs : listed[h] = <<>>
    BY DEF Init, Fresh
  <1>5. listed \in [Hubs -> Seq(Clients)]
    BY DEF Init, Fresh
  <1>6. ListsHold
    BY <1>2, <1>4, <1>5, HubAssumption DEF ListsHold, Present, IsInjective
  <1>7. GatewayTypeOK
    BY DEF Init, GatewayInit, GatewayTypeOK
  <1>8. last \in Nat /\ nav \in 0 .. last
    BY DEF Init
  <1>9. Serving
    BY <1>2, <1>3, Zenon DEF Serving
  <1>10. QED
    BY <1>2, <1>3, <1>6, <1>7, <1>8, <1>9 DEF ScreensInv

\* The lists of a hub that client k leaves or joins no longer hold what they did;
\* the others' are as they were, and so is the presence of their clients.
LEMMA AcceptLists ==
  ASSUME ScreensInv, NEW k \in Clients, Accept(k)
  PROVE  ListsHold'
  <1> DEFINE h == Hub[k]
             list == listed[h]
  <1>1. /\ client[k].pc = "new" /\ listed' = [listed EXCEPT ![h] = Append(list, k)]
        /\ client'[k].pc \notin {"new", "closed"}
        /\ \A j \in Clients : j # k => client'[j] = client[j]
    BY AcceptFacts DEF Serves
  <1>2. h \in Hubs /\ list \in Seq(Clients) /\ IsInjective(list)
    BY HubAssumption DEF ScreensInv, ListsHold
  <1>3. \A i \in DOMAIN list : list[i] # k
    BY <1>1 DEF ScreensInv, ListsHold, Present
  <1>4. /\ listed' \in [Hubs -> Seq(Clients)] /\ listed'[h] = Append(list, k)
        /\ \A g \in Hubs : g # h => listed'[g] = listed[g]
    <2>1. Append(list, k) \in Seq(Clients)
      BY <1>2
    <2> HIDE DEF list
    <2>2. QED
      BY <1>1, <1>2, <2>1 DEF ScreensInv, ListsHold
  <1>5. /\ Append(list, k) \in Seq(Clients) /\ IsInjective(Append(list, k))
        /\ Len(Append(list, k)) = Len(list) + 1 /\ Append(list, k)[Len(list) + 1] = k
        /\ \A i \in 1 .. Len(list) : Append(list, k)[i] = list[i]
    BY <1>2, <1>3, Appended
  <1>6. DOMAIN list = 1 .. Len(list) /\ DOMAIN Append(list, k) = 1 .. Len(list) + 1
        /\ Len(list) \in Nat
    BY <1>2, <1>5
  <1> DEFINE new == Append(list, k)
  <1>7. \A i \in DOMAIN new : \/ i \in DOMAIN list /\ new[i] = list[i]
                              \/ i = Len(list) + 1 /\ new[i] = k
    BY <1>5, <1>6
  <1>8. \A i \in DOMAIN list : i \in DOMAIN new /\ new[i] = list[i]
    BY <1>5, <1>6
  <1>9. Len(list) + 1 \in DOMAIN new /\ new[Len(list) + 1] = k /\ IsInjective(new)
    BY <1>5, <1>6
  <1> HIDE DEF new
  <1>10. listed'[h] = new
    BY <1>4 DEF new
  <1>11. \A g \in Hubs : IsInjective(listed[g])'
    BY <1>4, <1>9, <1>10 DEF ScreensInv, ListsHold, IsInjective
  <1>12. \A g \in Hubs : \A i \in DOMAIN listed'[g] : Hub[listed'[g][i]] = g
    <2> SUFFICES ASSUME NEW g \in Hubs, NEW i \in DOMAIN listed'[g] PROVE Hub[listed'[g][i]] = g
      OBVIOUS
    <2>1. CASE g # h
      BY <1>4, <2>1 DEF ScreensInv, ListsHold
    <2>2. CASE g = h
      BY <1>2, <1>7, <1>10, <2>2 DEF ScreensInv, ListsHold
    <2>3. QED
      BY <2>1, <2>2
  <1>13. Present(k)'
    BY <1>9, <1>10 DEF Present
  <1>14. \A j \in Clients : j # k => (Present(j)' <=> Present(j))
    <2> SUFFICES ASSUME NEW j \in Clients, j # k PROVE Present(j)' <=> Present(j)
      OBVIOUS
    <2>1. CASE Hub[j] = h
      BY <1>7, <1>8, <1>10, <2>1 DEF Present
    <2>2. CASE Hub[j] # h
      BY <1>4, <2>2, HubAssumption DEF Present
    <2>3. QED
      BY <2>1, <2>2
  <1>15. \A j \in Clients : Present(j)' <=> client'[j].pc \notin {"new", "closed"}
    BY <1>1, <1>13, <1>14 DEF ScreensInv, ListsHold
  <1>16. QED
    BY <1>4, <1>11, <1>12, <1>15 DEF ListsHold

\* The place of a client that is listed, and what its removal leaves.
LEMMA DisconnectList ==
  ASSUME ScreensInv, NEW k \in Clients, NEW h, h = Hub[k], Disconnect(k)
  PROVE  \E p \in DOMAIN listed[h] :
           /\ listed[h][p] = k
           /\ listed' \in [Hubs -> Seq(Clients)]
           /\ \A g \in Hubs : g # h => listed'[g] = listed[g]
           /\ Len(listed'[h]) = Len(listed[h]) - 1
           /\ \A i \in 1 .. Len(listed[h]) - 1 :
                 listed'[h][i] = listed[h][IF i < p THEN i ELSE i + 1]
  <1> DEFINE list == listed[h]
  <1>1. h \in Hubs /\ list \in Seq(Clients) /\ IsInjective(list)
    BY HubAssumption DEF ScreensInv, ListsHold
  <1>2. PICK p \in DOMAIN list : list[p] = k
    BY DisconnectFacts DEF ScreensInv, ListsHold, Present
  <1>3. p \in 1 .. Len(list)
    BY <1>1, <1>2
  <1> HIDE DEF list
  <1>4. /\ RemoveFirst(list, k) \in Seq(Clients)
        /\ Len(RemoveFirst(list, k)) = Len(list) - 1
        /\ \A i \in 1 .. Len(list) - 1 :
              RemoveFirst(list, k)[i] = IF i < p THEN list[i] ELSE list[i + 1]
    BY <1>1, <1>2, <1>3, Removed
  <1>5. listed' = [listed EXCEPT ![h] = RemoveFirst(list, k)]
    BY DisconnectFacts DEF list
  <1>6. /\ listed' \in [Hubs -> Seq(Clients)] /\ listed'[h] = RemoveFirst(list, k)
        /\ \A g \in Hubs : g # h => listed'[g] = listed[g]
    BY <1>1, <1>4, <1>5 DEF ScreensInv, ListsHold
  <1>7. \A i \in 1 .. Len(list) - 1 : listed'[h][i] = list[IF i < p THEN i ELSE i + 1]
    BY <1>4, <1>6
  <1>8. QED
    BY <1>2, <1>4, <1>6, <1>7 DEF list

LEMMA DisconnectLists ==
  ASSUME ScreensInv, NEW k \in Clients, Disconnect(k)
  PROVE  ListsHold'
  <1> DEFINE h == Hub[k]
             list == listed[h]
             new == listed'[h]
  <1>1. PICK p \in DOMAIN list :
           /\ list[p] = k
           /\ listed' \in [Hubs -> Seq(Clients)]
           /\ \A g \in Hubs : g # h => listed'[g] = listed[g]
           /\ Len(new) = Len(list) - 1
           /\ \A i \in 1 .. Len(list) - 1 : new[i] = list[IF i < p THEN i ELSE i + 1]
    BY DisconnectList
  <1>2. h \in Hubs /\ list \in Seq(Clients) /\ IsInjective(list) /\ new \in Seq(Clients)
    BY <1>1, HubAssumption DEF ScreensInv, ListsHold
  <1>3. /\ DOMAIN list = 1 .. Len(list) /\ DOMAIN new = 1 .. Len(list) - 1
        /\ p \in 1 .. Len(list) /\ Len(list) \in Nat
    BY <1>1, <1>2
  <1>4. \A i \in DOMAIN new :
           \E j \in DOMAIN list : new[i] = list[j] /\ j # p /\ j = IF i < p THEN i ELSE i + 1
    <2> TAKE i \in DOMAIN new
    <2> DEFINE j == IF i < p THEN i ELSE i + 1
    <2>1. i \in 1 .. Len(list) - 1 /\ j \in 1 .. Len(list) /\ j # p
      BY <1>3
    <2>2. new[i] = list[j]
      BY <1>1, <2>1
    <2>3. j \in DOMAIN list
      BY <1>3, <2>1
    <2>4. QED
      BY <2>1, <2>2, <2>3
  <1>5. \A j \in DOMAIN list : j # p => \E i \in DOMAIN new : new[i] = list[j]
    <2> SUFFICES ASSUME NEW j \in DOMAIN list, j # p PROVE \E i \in DOMAIN new : new[i] = list[j]
      OBVIOUS
    <2> DEFINE i == IF j < p THEN j ELSE j - 1
    <2>1. i \in 1 .. Len(list) - 1 /\ (IF i < p THEN i ELSE i + 1) = j
      BY <1>3
    <2>2. new[i] = list[IF i < p THEN i ELSE i + 1]
      BY <1>1, <2>1
    <2>3. new[i] = list[j] /\ i \in DOMAIN new
      BY <1>3, <2>1, <2>2
    <2>4. QED
      BY <2>3
  <1>6. IsInjective(new)
    <2> SUFFICES ASSUME NEW i \in DOMAIN new, NEW j \in DOMAIN new, new[i] = new[j] PROVE i = j
      BY DEF IsInjective
    <2> DEFINE I == IF i < p THEN i ELSE i + 1
               J == IF j < p THEN j ELSE j + 1
    <2>1. I \in DOMAIN list /\ J \in DOMAIN list /\ new[i] = list[I] /\ new[j] = list[J]
      BY <1>4
    <2>2. I = J
      BY <1>2, <2>1 DEF IsInjective
    <2>3. i \in Int /\ j \in Int /\ p \in Int
      BY <1>3
    <2>4. QED
      BY <2>2, <2>3
  <1>7. \A g \in Hubs : IsInjective(listed[g])'
    BY <1>1, <1>6 DEF ScreensInv, ListsHold, IsInjective
  <1>8. \A g \in Hubs : \A i \in DOMAIN listed'[g] : Hub[listed'[g][i]] = g
    <2> SUFFICES ASSUME NEW g \in Hubs, NEW i \in DOMAIN listed'[g] PROVE Hub[listed'[g][i]] = g
      OBVIOUS
    <2>1. CASE g # h
      BY <1>1, <2>1 DEF ScreensInv, ListsHold
    <2>2. CASE g = h
      BY <1>2, <1>4, <2>2 DEF ScreensInv, ListsHold
    <2>3. QED
      BY <2>1, <2>2
  <1>9. ~Present(k)'
    <2> SUFFICES ASSUME NEW i \in DOMAIN new PROVE new[i] # k
      BY DEF Present
    <2>1. PICK j \in DOMAIN list : new[i] = list[j] /\ j # p
      BY <1>4
    <2>2. QED
      BY <1>1, <1>2, <2>1 DEF IsInjective
  <1>10. \A j \in Clients : j # k => (Present(j)' <=> Present(j))
    <2> SUFFICES ASSUME NEW j \in Clients, j # k PROVE Present(j)' <=> Present(j)
      OBVIOUS
    <2>1. CASE Hub[j] = h
      <3>1. Present(j)' <=> \E i \in DOMAIN new : new[i] = j
        BY <2>1 DEF Present
      <3>2. Present(j) <=> \E i \in DOMAIN list : list[i] = j
        BY <2>1 DEF Present
      <3>3. QED
        BY <1>1, <1>4, <1>5, <3>1, <3>2
    <2>2. CASE Hub[j] # h
      BY <1>1, <2>2, HubAssumption DEF Present
    <2>3. QED
      BY <2>1, <2>2
  <1>11. /\ client'[k].pc = "closed"
         /\ \A j \in Clients : j # k => client'[j] = client[j]
    BY DisconnectFacts DEF Serves
  <1>12. \A j \in Clients : Present(j)' <=> client'[j].pc \notin {"new", "closed"}
    BY <1>9, <1>10, <1>11 DEF ScreensInv, ListsHold
  <1>13. QED
    BY <1>1, <1>7, <1>8, <1>12 DEF ListsHold

\* A step that changes no list nor what any client is listed for.
LEMMA SameLists ==
  ASSUME ScreensInv, UNCHANGED listed,
         \A k \in Clients : client'[k].pc \in {"new", "closed"} <=> client[k].pc \in {"new", "closed"}
  PROVE  ListsHold'
  <1>1. \A k \in Clients : Present(k)' <=> Present(k)
    BY DEF Present
  <1>2. \A k \in Clients : Present(k)' <=> client'[k].pc \notin {"new", "closed"}
    BY <1>1 DEF ScreensInv, ListsHold
  <1>3. QED
    BY <1>2 DEF ScreensInv, ListsHold

\* A step of a client that is served.
LEMMA ServesInv ==
  ASSUME ScreensInv, UNCHANGED <<gatewayVars, nav, last>>, NEW k \in Clients,
         NEW pc, NEW up, NEW snap, NEW got, Serves(k, pc, up, snap, got),
         up => pc \in {"added", "read", "live"},
         ListsHold',
         cast' \in [Senders -> CastType],
         \A s \in Senders : cast'[s].pc = "sending" => cast'[s].route # <<>> /\ cast'[s].next > 0
  PROVE  ScreensInv'
  <1>1. Serving'
    BY DEF ScreensInv, Serving, Serves
  <1>2. QED
    BY <1>1 DEF ScreensInv, Serves, GatewayTypeOK, gatewayVars

LEMMA ClientStepInv ==
  ASSUME ScreensInv, NEW k \in Clients, ClientStep(k)
  PROVE  ScreensInv'
  <1>0. /\ cast \in [Senders -> CastType]
        /\ \A s \in Senders : cast[s].pc = "sending" => cast[s].route # <<>> /\ cast[s].next > 0
    BY DEF ScreensInv, Serving
  <1>1. CASE Accept(k)
    BY <1>0, <1>1, AcceptFacts, AcceptLists, ServesInv
  <1>2. CASE ReadSnapshot(k)
    <2>1. ListsHold'
      BY <1>2, ReadSnapshotFacts, SameLists DEF Serves
    <2>2. QED
      BY <1>0, <1>2, <2>1, ReadSnapshotFacts, ServesInv
  <1>3. CASE SendSnapshot(k)
    <2>1. ListsHold'
      BY <1>3, SendSnapshotFacts, SameLists DEF Serves
    <2>2. QED
      BY <1>0, <1>3, <2>1, SendSnapshotFacts, ServesInv
  <1>4. CASE SocketLost(k)
    <2>1. ListsHold'
      BY <1>4, SocketLostFacts, SameLists DEF Serves
    <2>2. QED
      BY <1>0, <1>4, <2>1, SocketLostFacts, ServesInv
  <1>5. CASE HandlerFails(k)
    <2>1. ListsHold'
      BY <1>5, HandlerFailsFacts, SameLists DEF Serves
    <2>2. QED
      BY <1>0, <1>5, <2>1, HandlerFailsFacts, ServesInv
  <1>6. CASE Disconnect(k)
    <2>1. \A s \in Senders : cast'[s].pc = "sending" => cast'[s].route # <<>> /\ cast'[s].next > 0
      BY <1>0, <1>6, DisconnectFacts
    <2>2. QED
      BY <1>6, <2>1, DisconnectFacts, DisconnectLists, ServesInv
  <1>7. QED
    BY <1>1, <1>2, <1>3, <1>4, <1>5, <1>6 DEF ClientStep

\* A step of a broadcast that no client feels.
LEMMA CastsInv ==
  ASSUME ScreensInv, UNCHANGED <<gatewayVars, listed, client>>,
         last' \in Nat, nav' \in 0 .. last',
         NEW s \in Senders, cast' \in [Senders -> CastType],
         \A t \in Senders : t # s => cast'[t] = cast[t],
         cast'[s].pc = "sending" => cast'[s].route # <<>> /\ cast'[s].next > 0
  PROVE  ScreensInv'
  <1>1. Serving'
    BY DEF ScreensInv, Serving
  <1>2. ListsHold'
    BY SameLists
  <1>3. QED
    BY <1>1, <1>2 DEF ScreensInv, GatewayTypeOK, gatewayVars

LEMMA SenderStepInv ==
  ASSUME ScreensInv, NEW s \in Senders, SenderStep(s)
  PROVE  ScreensInv'
  <1>0. last \in Nat /\ nav \in 0 .. last
    BY DEF ScreensInv
  <1>1. CASE BroadcastNav(s)
    <2>1. /\ cast' \in [Senders -> CastType] /\ cast'[s].route = <<"borne">> /\ cast'[s].next = 1
          /\ \A t \in Senders : t # s => cast'[t] = cast[t]
          /\ UNCHANGED <<gatewayVars, nav, last, listed, client>>
      BY <1>1, BroadcastNavFacts DEF Casts
    <2>2. cast'[s].route # <<>> /\ cast'[s].next > 0
      BY <2>1
    <2>3. last' \in Nat /\ nav' \in 0 .. last'
      BY <1>0, <2>1
    <2>4. QED
      BY <2>1, <2>2, <2>3, CastsInv
  <1>2. CASE HubDone(s)
    <2>1. UNCHANGED <<gatewayVars, nav, last, listed, client>>
      BY <1>2, HubDoneFacts
    <2>2. /\ cast' \in [Senders -> CastType]
          /\ \A t \in Senders : t # s => cast'[t] = cast[t]
          /\ cast'[s].pc = "sending" => cast'[s].route # <<>> /\ cast'[s].next > 0
      <3>1. \/ Casts(s, "idle", 0, <<>>, 1, {}, 0)
            \/ /\ Tail(cast[s].route) # <<>>
               /\ Casts(s, "sending", cast[s].id, Tail(cast[s].route), 1,
                        cast[s].due, cast[s].skips)
        BY <1>2, HubDoneFacts
      <3>2. CASE Casts(s, "idle", 0, <<>>, 1, {}, 0)
        BY <3>2 DEF Casts
      <3>3. CASE /\ Tail(cast[s].route) # <<>>
                 /\ Casts(s, "sending", cast[s].id, Tail(cast[s].route), 1,
                          cast[s].due, cast[s].skips)
        BY <3>3 DEF Casts
      <3>4. QED
        BY <3>1, <3>2, <3>3
    <2>3. QED
      BY <1>0, <2>1, <2>2, CastsInv
  <1>3. ASSUME NEW k \in Clients, SendFails(s, k) PROVE ScreensInv'
    <2>1. /\ cast[s].route # <<>> /\ cast[s].next + 1 > 0
      BY <1>3, AtFacts DEF SendFails, ScreensInv, Serving, CastType
    <2>2. QED
      BY <1>0, <1>3, <2>1, SendFailsFacts, CastsInv DEF Casts
  <1>4. ASSUME NEW k \in Clients, Send(s, k) PROVE ScreensInv'
    <2>1. /\ cast[s].route # <<>> /\ cast[s].next + 1 > 0
      BY <1>4, AtFacts DEF Send, ScreensInv, Serving, CastType
    <2>2. ListsHold'
      BY <1>4, SendFacts, SameLists DEF Serves
    <2>3. client[k].up => client[k].pc \in {"added", "read", "live"}
      BY DEF ScreensInv, Serving
    <2>4. \A t \in Senders : cast'[t].pc = "sending" => cast'[t].route # <<>> /\ cast'[t].next > 0
      <3>1. cast'[s].route # <<>> /\ cast'[s].next > 0
        BY <1>4, <2>1, SendFacts DEF Casts
      <3>2. \A t \in Senders : t # s => cast'[t] = cast[t]
        BY <1>4, SendFacts DEF Casts
      <3>3. QED
        BY <3>1, <3>2 DEF ScreensInv, Serving
    <2>5. cast' \in [Senders -> CastType]
      BY <1>4, SendFacts DEF Casts
    <2>6. QED
      BY <1>4, <2>2, <2>3, <2>4, <2>5, SendFacts, ServesInv
  <1>5. QED
    BY <1>1, <1>2, <1>3, <1>4 DEF SenderStep

LEMMA ScreensNext == ScreensInv /\ [Next]_vars => ScreensInv'
  <1> SUFFICES ASSUME ScreensInv, [Next]_vars PROVE ScreensInv'
    OBVIOUS
  <1>1. CASE Lifespan
    <2>1. GatewayTypeOK'
      BY <1>1 DEF Lifespan, Start, Subscribed, ConsumerCrashes, StartReturns, StartTimesOut,
                  ScreensInv, GatewayTypeOK
    <2>2. UNCHANGED <<nav, last, listed, client, cast>>
      BY <1>1 DEF Lifespan, screenVars
    <2>3. ListsHold' /\ Serving'
      BY <2>2 DEF ScreensInv, ListsHold, Present, Serving
    <2>4. QED
      BY <2>1, <2>2, <2>3 DEF ScreensInv
  <1>2. CASE StopServing
    <2>1. GatewayTypeOK'
      BY <1>2 DEF StopServing, Stop, ScreensInv, GatewayTypeOK
    <2>2. NewClient \in ClientType /\ NewClient.pc = "new" /\ NewClient.up = FALSE
      BY DEF NewClient, ClientType
    <2>3. /\ client' \in [Clients -> ClientType]
          /\ \A k \in Clients : client'[k].pc = "new" /\ ~client'[k].up
      BY <1>2, <2>2 DEF StopServing
    <2>4. cast' \in [Senders -> CastType] /\ \A s \in Senders : cast'[s].pc = "idle"
      BY <1>2, NewCastType DEF StopServing
    <2>5. listed' \in [Hubs -> Seq(Clients)] /\ \A h \in Hubs : listed'[h] = <<>>
      BY <1>2 DEF StopServing
    <2>6. ListsHold'
      BY <2>3, <2>5, HubAssumption DEF ListsHold, Present, IsInjective
    <2>7. Serving'
      BY <2>3, <2>4, Zenon DEF Serving
    <2>8. UNCHANGED <<nav, last>>
      BY <1>2 DEF StopServing
    <2>9. QED
      BY <2>1, <2>3, <2>4, <2>6, <2>7, <2>8 DEF ScreensInv
  <1>3. ASSUME NEW s \in Requests, Publish(s) PROVE ScreensInv'
    <2>1. s \in Senders /\ last + 1 \in Nat /\ last + 1 \in 0 .. (last + 1)
      BY DEF Senders, ScreensInv
    <2>2. QED
      BY <1>3, <2>1, PublishFacts, CastsInv DEF Casts
  <1>4. ASSUME NEW m \in MqttMessages, Consume(m) PROVE ScreensInv'
    <2>1. Consumer \in Senders /\ last + 1 \in Nat /\ nav \in 0 .. (last + 1)
      BY DEF Senders, ScreensInv
    <2>2. /\ cast' \in [Senders -> CastType]
          /\ \A t \in Senders : t # Consumer => cast'[t] = cast[t]
          /\ cast'[Consumer].route # <<>> /\ cast'[Consumer].next > 0
      <3>1. PICK route \in {<<"borne">>, <<"session", "borne">>} :
               Casts(Consumer, "sending", last + 1, route, 1, {k \in Listed(route) : client[k].up}, 0)
        BY <1>4, ConsumeFacts
      <3>2. route # <<>>
        OBVIOUS
      <3>3. QED
        BY <3>1, <3>2 DEF Casts
    <2>3. UNCHANGED <<gatewayVars, nav, listed, client>> /\ last' = last + 1
      BY <1>4, ConsumeFacts
    <2>4. QED
      BY <2>1, <2>2, <2>3, CastsInv
  <1>5. CASE UNCHANGED vars
    BY <1>5 DEF vars, screenVars, gatewayVars, ScreensInv, GatewayTypeOK, ListsHold, Present, Serving
  <1>6. QED
    BY <1>1, <1>2, <1>3, <1>4, <1>5, ClientStepInv, SenderStepInv DEF Next

LEMMA ScreensAlways == Spec => []ScreensInv
  BY ScreensInit, ScreensNext, PTL DEF Spec

\* Each hub lists exactly the clients it has accepted and not removed, once and
\* in their own hub, whatever order they come, leave and fail in.
THEOREM ScreenTypes == Spec => []ScreensTypeOK
  BY ScreensAlways, ScreensTypes, PTL

-----------------------------------------------------------------------------
(* No screen misses the navigation *)

\* Sender s has the stored navigation and has still to come to client k.
Reaches(s, k) ==
    /\ cast[s].id = nav
    /\ \/ cast[s].pc = "stored"
       \/ /\ cast[s].pc = "sending" /\ cast[s].route = <<"borne">>
          /\ \E i \in DOMAIN listed["borne"] : i >= cast[s].next /\ listed["borne"][i] = k

Shown(k) == nav \in client[k].got \cup {client[k].snap}

Waits(k) == Hub[k] = "borne" /\ client[k].pc \in {"read", "live"} /\ client[k].up

\* A screen that is past its snapshot has seen the stored state or is about to.
StateOnItsWay ==
    \A k \in Clients : Waits(k) => lossy \/ Shown(k) \/ \E s \in Senders : Reaches(s, k)

\* A step of a client other than a removal.
LEMMA ClientOnItsWay ==
  ASSUME ScreensInv, StateOnItsWay, NEW k \in Clients,
         UNCHANGED <<nav, cast, lossy>>,
         \/ UNCHANGED listed
         \/ Accept(k),
         NEW pc, NEW up, NEW snap, NEW got, Serves(k, pc, up, snap, got),
         up => \/ pc \notin {"read", "live"} \/ Hub[k] # "borne"
               \/ snap = nav
               \/ Waits(k) /\ snap = client[k].snap /\ got = client[k].got
  PROVE  StateOnItsWay'
  <1>1. \A s \in Senders, j \in Clients : Reaches(s, j) => Reaches(s, j)'
    <2> SUFFICES ASSUME NEW s \in Senders, NEW j \in Clients, Reaches(s, j) PROVE Reaches(s, j)'
      OBVIOUS
    <2>1. CASE UNCHANGED listed
      BY <2>1 DEF Reaches
    <2>2. CASE Accept(k) /\ Hub[k] # "borne"
      <3>1. listed'["borne"] = listed["borne"]
        BY <2>2, AcceptFacts DEF ScreensInv, ListsHold, Hubs
      <3>2. QED
        BY <3>1 DEF Reaches
    <2>3. CASE Accept(k) /\ Hub[k] = "borne"
      <3>1. /\ "borne" \in Hubs /\ listed["borne"] \in Seq(Clients)
            /\ listed \in [Hubs -> Seq(Clients)]
            /\ listed'["borne"] = Append(listed["borne"], k)
        <4>1. listed \in [Hubs -> Seq(Clients)] /\ "borne" \in Hubs
          BY DEF ScreensInv, ListsHold, Hubs
        <4>2. listed' = [listed EXCEPT !["borne"] = Append(@, k)]
          BY <2>3 DEF Accept
        <4>3. QED
          BY <4>1, <4>2
      <3>2. \A i \in DOMAIN listed["borne"] :
               i \in DOMAIN listed'["borne"] /\ listed'["borne"][i] = listed["borne"][i]
        BY <3>1
      <3>3. QED
        BY <3>2 DEF Reaches
    <2>4. QED
      BY <2>1, <2>2, <2>3
  <1>2. \A j \in Clients : Waits(j)' => lossy \/ Shown(j)' \/ \E s \in Senders : Reaches(s, j)
    <2> SUFFICES ASSUME NEW j \in Clients, Waits(j)'
                 PROVE  lossy \/ Shown(j)' \/ \E s \in Senders : Reaches(s, j)
      OBVIOUS
    <2>1. CASE j # k
      BY <2>1 DEF StateOnItsWay, Waits, Shown, Serves
    <2>2. CASE j = k /\ snap = nav
      BY <2>2 DEF Shown, Serves
    <2>3. CASE j = k /\ Waits(k) /\ snap = client[k].snap /\ got = client[k].got
      BY <2>3 DEF StateOnItsWay, Shown, Serves
    <2>4. QED
      BY <2>1, <2>2, <2>3 DEF Waits, Serves
  <1>3. QED
    BY <1>1, <1>2 DEF StateOnItsWay

\* A removal: a broadcast that has passed the client skips the one behind it,
\* and the state is lossy; any other still comes to whom it had ahead.
LEMMA DisconnectOnItsWay ==
  ASSUME ScreensInv, StateOnItsWay, NEW k \in Clients, Disconnect(k)
  PROVE  StateOnItsWay'
  <1> DEFINE list == listed["borne"]
             new == listed'["borne"]
  <1>0. /\ client[k].pc = "live" /\ ~client[k].up /\ UNCHANGED nav
        /\ lossy' = (lossy \/ \E s \in Passed(k) : cast[s].id = nav)
        /\ ~client'[k].up
        /\ \A j \in Clients : j # k => client'[j] = client[j]
        /\ \A s \in Senders : /\ cast'[s].pc = cast[s].pc /\ cast'[s].id = cast[s].id
                              /\ cast'[s].route = cast[s].route /\ cast'[s].next = cast[s].next
    BY DisconnectFacts DEF Serves
  <1>1. ASSUME NEW s \in Senders, NEW j \in Clients, j # k, Reaches(s, j), ~lossy'
        PROVE  Reaches(s, j)'
    <2>1. CASE cast[s].pc = "stored"
      BY <1>0, <1>1, <2>1 DEF Reaches
    <2>2. CASE Hub[k] # "borne"
      <3>1. new = list
        BY <2>2, DisconnectList DEF Hubs
      <3>2. QED
        BY <1>0, <1>1, <3>1 DEF Reaches
    <2>3. CASE cast[s].pc = "sending" /\ Hub[k] = "borne"
      <3>1. /\ cast[s].id = nav /\ cast[s].route = <<"borne">>
        BY <1>1, <2>3 DEF Reaches
      <3>2. PICK i \in DOMAIN list : i >= cast[s].next /\ list[i] = j
        BY <1>1, <2>3 DEF Reaches
      <3>3. PICK p \in DOMAIN list :
               /\ list[p] = k
               /\ Len(new) = Len(list) - 1 /\ new \in Seq(Clients)
               /\ \A n \in 1 .. Len(list) - 1 : new[n] = list[IF n < p THEN n ELSE n + 1]
        <4> DEFINE h == "borne"
        <4>1. h = Hub[k] /\ h \in Hubs
          BY <2>3 DEF Hubs
        <4> HIDE DEF h
        <4>2. PICK p \in DOMAIN listed[h] :
                 /\ listed[h][p] = k
                 /\ listed' \in [Hubs -> Seq(Clients)]
                 /\ \A g \in Hubs : g # h => listed'[g] = listed[g]
                 /\ Len(listed'[h]) = Len(listed[h]) - 1
                 /\ \A n \in 1 .. Len(listed[h]) - 1 :
                       listed'[h][n] = listed[h][IF n < p THEN n ELSE n + 1]
          BY <4>1, DisconnectList
        <4>3. listed'[h] \in Seq(Clients)
          BY <4>1, <4>2
        <4>4. QED
          BY <4>2, <4>3 DEF h
      <3>4. /\ list \in Seq(Clients) /\ Len(list) \in Nat /\ DOMAIN list = 1 .. Len(list)
            /\ cast[s].next \in Nat /\ cast[s].next > 0
            /\ DOMAIN new = 1 .. Len(list) - 1
        BY <2>3, <3>3 DEF ScreensInv, ListsHold, Hubs, CastType, Serving
      <3>5. p # i
        BY <1>1, <3>2, <3>3
      <3>6. ~(p < cast[s].next)
        <4> SUFFICES ASSUME p < cast[s].next PROVE FALSE
          OBVIOUS
        <4>1. cast[s].next <= Len(list) /\ p \in 1 .. cast[s].next - 1
          BY <3>2, <3>4
        <4>2. SubSeq(list, 1, cast[s].next - 1)[p] = list[p]
              /\ p \in DOMAIN SubSeq(list, 1, cast[s].next - 1)
          BY <3>4, <4>1
        <4>3. k \in ToSet(SubSeq(list, 1, cast[s].next - 1))
          BY <3>3, <4>2 DEF ToSet
        <4>4. Head(cast[s].route) = "borne"
          BY <3>1
        <4>5. s \in Passed(k)
          BY <2>3, <4>1, <4>3, <4>4 DEF Passed
        <4>6. QED
          BY <1>0, <1>1, <3>1, <4>5
      <3> DEFINE n == IF i < p THEN i ELSE i - 1
      <3>7. n \in 1 .. Len(list) - 1 /\ n >= cast[s].next /\ (IF n < p THEN n ELSE n + 1) = i
        BY <3>2, <3>4, <3>5, <3>6
      <3>8. new[n] = list[IF n < p THEN n ELSE n + 1]
        BY <3>3, <3>7
      <3>9. n \in DOMAIN new /\ n >= cast[s].next /\ new[n] = j
        BY <3>2, <3>4, <3>7, <3>8
      <3>10. \E m \in DOMAIN new : m >= cast'[s].next /\ new[m] = j
        BY <1>0, <3>9
      <3>11. QED
        BY <1>0, <2>3, <3>1, <3>10 DEF Reaches
    <2>4. QED
      BY <1>1, <2>1, <2>2, <2>3 DEF Reaches
  <1>2. ASSUME NEW j \in Clients, Waits(j)', ~lossy'
        PROVE  Shown(j)' \/ \E s \in Senders : Reaches(s, j)'
    <2>1. j # k /\ client'[j] = client[j] /\ ~lossy
      BY <1>0, <1>2 DEF Waits
    <2>2. Waits(j) /\ (Shown(j)' <=> Shown(j))
      BY <1>0, <1>2, <2>1 DEF Waits, Shown
    <2>3. QED
      BY <1>1, <1>2, <2>1, <2>2 DEF StateOnItsWay
  <1>3. QED
    BY <1>2 DEF StateOnItsWay

\* A step of a broadcast: what it leaves behind it has been shown.
LEMMA CastOnItsWay ==
  ASSUME ScreensInv, StateOnItsWay, NEW s \in Senders, UNCHANGED <<nav, listed, lossy>>,
         \A t \in Senders : t # s => cast'[t] = cast[t],
         \A k \in Clients : Waits(k)' => Waits(k),
         \A k \in Clients : Waits(k) /\ Shown(k) => Shown(k)',
         \A k \in Clients : Waits(k)' /\ Reaches(s, k) => Shown(k)' \/ Reaches(s, k)'
  PROVE  StateOnItsWay'
  <1>1. \A t \in Senders, k \in Clients : t # s /\ Reaches(t, k) => Reaches(t, k)'
    BY DEF Reaches
  <1>2. QED
    BY <1>1 DEF StateOnItsWay

LEMMA ClientStepOnItsWay ==
  ASSUME ScreensInv, StateOnItsWay, NEW k \in Clients, ClientStep(k)
  PROVE  StateOnItsWay'
  <1>1. CASE Accept(k)
    BY <1>1, AcceptFacts, ClientOnItsWay
  <1>2. CASE ReadSnapshot(k)
    BY <1>2, ReadSnapshotFacts, ClientOnItsWay
  <1>3. CASE SendSnapshot(k)
    <2>1. PICK pc \in {"live", "abandoned"} :
             Serves(k, pc, client[k].up, client[k].snap, client[k].got)
      BY <1>3, SendSnapshotFacts
    <2>2. client[k].up => Hub[k] # "borne" \/ Waits(k)
      BY <1>3, SendSnapshotFacts DEF Waits
    <2>3. QED
      BY <1>3, <2>1, <2>2, SendSnapshotFacts, ClientOnItsWay
  <1>4. CASE SocketLost(k)
    BY <1>4, SocketLostFacts, ClientOnItsWay
  <1>5. CASE HandlerFails(k)
    BY <1>5, HandlerFailsFacts, ClientOnItsWay
  <1>6. CASE Disconnect(k)
    BY <1>6, DisconnectOnItsWay
  <1>7. QED
    BY <1>1, <1>2, <1>3, <1>4, <1>5, <1>6 DEF ClientStep

LEMMA SenderStepOnItsWay ==
  ASSUME ScreensInv, StateOnItsWay, NEW s \in Senders, SenderStep(s)
  PROVE  StateOnItsWay'
  <1>1. CASE BroadcastNav(s)
    <2>1. /\ cast[s].pc = "stored" /\ UNCHANGED <<nav, listed, client, lossy>>
          /\ \A t \in Senders : t # s => cast'[t] = cast[t]
          /\ cast'[s].pc = "sending" /\ cast'[s].id = cast[s].id
          /\ cast'[s].route = <<"borne">> /\ cast'[s].next = 1
      BY <1>1, BroadcastNavFacts DEF Casts
    <2>2. ASSUME NEW k \in Clients, Waits(k)', Reaches(s, k) PROVE Reaches(s, k)'
      <3>1. client[k].pc \notin {"new", "closed"} /\ Hub[k] = "borne"
        BY <2>1, <2>2 DEF Waits
      <3>2. PICK i \in DOMAIN listed["borne"] : listed["borne"][i] = k
        BY <3>1 DEF ScreensInv, ListsHold, Present
      <3>3. listed["borne"] \in Seq(Clients)
        BY DEF ScreensInv, ListsHold, Hubs
      <3>4. i \in DOMAIN listed'["borne"] /\ i >= cast'[s].next /\ listed'["borne"][i] = k
        BY <2>1, <3>2, <3>3
      <3>5. QED
        BY <2>1, <2>2, <3>4 DEF Reaches
    <2>3. \A k \in Clients : (Waits(k)' => Waits(k)) /\ (Shown(k) => Shown(k)')
      BY <2>1 DEF Waits, Shown
    <2>4. QED
      BY <2>1, <2>2, <2>3, CastOnItsWay
  <1>2. CASE HubDone(s)
    <2>1. /\ UNCHANGED <<nav, listed, client, lossy>> /\ cast[s].pc = "sending"
          /\ \A t \in Senders : t # s => cast'[t] = cast[t]
          /\ cast[s].next > Len(listed[Head(cast[s].route)])
      BY <1>2, HubDoneFacts DEF Casts
    <2>2. ASSUME NEW k \in Clients, Reaches(s, k) PROVE FALSE
      <3>1. cast[s].route = <<"borne">>
        BY <2>1, <2>2 DEF Reaches
      <3>2. PICK i \in DOMAIN listed["borne"] : i >= cast[s].next
        BY <2>1, <2>2 DEF Reaches
      <3>3. listed["borne"] \in Seq(Clients) /\ cast[s].next \in Nat
        BY DEF ScreensInv, ListsHold, Hubs, CastType
      <3>4. cast[s].next > Len(listed["borne"])
        BY <2>1, <3>1
      <3>5. QED
        BY <3>2, <3>3, <3>4
    <2>3. \A k \in Clients : (Waits(k)' => Waits(k)) /\ (Shown(k) => Shown(k)')
      BY <2>1 DEF Waits, Shown
    <2>4. QED
      BY <2>1, <2>2, <2>3, CastOnItsWay
  <1>3. ASSUME NEW k \in Clients, NEW j \in Clients, At(s, k), Reaches(s, j), j # k,
               cast'[s].pc = cast[s].pc, cast'[s].id = cast[s].id, cast'[s].route = cast[s].route,
               cast'[s].next = cast[s].next + 1, UNCHANGED <<nav, listed>>
        PROVE  Reaches(s, j)'
    <2>1. /\ cast[s].pc = "sending" /\ Head(cast[s].route) = Hub[k]
          /\ listed[Hub[k]][cast[s].next] = k
      BY <1>3, AtFacts
    <2>2. cast[s].route = <<"borne">> /\ cast[s].id = nav
      BY <1>3, <2>1 DEF Reaches
    <2>3. PICK i \in DOMAIN listed["borne"] : i >= cast[s].next /\ listed["borne"][i] = j
      BY <1>3, <2>1 DEF Reaches
    <2>4. Hub[k] = "borne"
      BY <2>1, <2>2
    <2>5. i # cast[s].next
      BY <1>3, <2>1, <2>3, <2>4
    <2>6. i \in Nat /\ cast[s].next \in Nat
      BY DEF ScreensInv, ListsHold, Hubs, CastType
    <2>7. i \in DOMAIN listed'["borne"] /\ i >= cast'[s].next /\ listed'["borne"][i] = j
      BY <1>3, <2>3, <2>5, <2>6
    <2>8. QED
      BY <1>3, <2>1, <2>2, <2>7 DEF Reaches
  <1>4. ASSUME NEW k \in Clients, SendFails(s, k) PROVE StateOnItsWay'
    <2>1. /\ ~client[k].up /\ UNCHANGED <<nav, listed, client, lossy>> /\ At(s, k)
          /\ \A t \in Senders : t # s => cast'[t] = cast[t]
          /\ cast'[s].pc = cast[s].pc /\ cast'[s].id = cast[s].id
          /\ cast'[s].route = cast[s].route /\ cast'[s].next = cast[s].next + 1
      BY <1>4, SendFailsFacts DEF Casts, SendFails
    <2>2. \A j \in Clients : (Waits(j)' => Waits(j)) /\ (Shown(j) => Shown(j)')
      BY <2>1 DEF Waits, Shown
    <2>3. \A j \in Clients : Waits(j)' /\ Reaches(s, j) => Reaches(s, j)'
      BY <1>3, <2>1 DEF Waits
    <2>4. QED
      BY <2>1, <2>2, <2>3, CastOnItsWay
  <1>5. ASSUME NEW k \in Clients, Send(s, k) PROVE StateOnItsWay'
    <2>1. /\ UNCHANGED <<nav, listed, lossy>> /\ At(s, k)
          /\ \A t \in Senders : t # s => cast'[t] = cast[t]
          /\ cast'[s].pc = cast[s].pc /\ cast'[s].id = cast[s].id
          /\ cast'[s].route = cast[s].route /\ cast'[s].next = cast[s].next + 1
      BY <1>5, SendFacts DEF Casts, Send
    <2>2. /\ client'[k].pc = client[k].pc /\ client'[k].up = client[k].up
          /\ client'[k].snap = client[k].snap
          /\ client'[k].got = client[k].got \cup {cast[s].id}
          /\ \A j \in Clients : j # k => client'[j] = client[j]
      BY <1>5, SendFacts DEF Serves
    <2>3. \A j \in Clients : (Waits(j)' => Waits(j)) /\ (Shown(j) => Shown(j)')
      BY <2>1, <2>2 DEF Waits, Shown
    <2>4. ASSUME NEW j \in Clients, Reaches(s, j) PROVE Shown(j)' \/ Reaches(s, j)'
      <3>1. CASE j = k
        BY <2>1, <2>2, <2>4, <3>1 DEF Reaches, Shown
      <3>2. CASE j # k
        BY <1>3, <2>1, <2>4, <3>2
      <3>3. QED
        BY <3>1, <3>2
    <2>5. QED
      BY <2>1, <2>3, <2>4, CastOnItsWay
  <1>6. QED
    BY <1>1, <1>2, <1>4, <1>5 DEF SenderStep

LEMMA NextOnItsWay == ScreensInv /\ StateOnItsWay /\ [Next]_vars => StateOnItsWay'
  <1> SUFFICES ASSUME ScreensInv, StateOnItsWay, [Next]_vars PROVE StateOnItsWay'
    OBVIOUS
  <1>1. CASE Lifespan
    <2>1. UNCHANGED <<nav, listed, client, cast, lossy>>
      BY <1>1 DEF Lifespan, screenVars
    <2>2. ASSUME NEW k \in Clients, Waits(k)'
          PROVE  lossy' \/ Shown(k)' \/ \E s \in Senders : Reaches(s, k)'
      <3>1. Waits(k)
        BY <2>1, <2>2 DEF Waits
      <3>2. CASE lossy
        BY <2>1, <3>2
      <3>3. CASE Shown(k)
        BY <2>1, <3>3 DEF Shown
      <3>4. ASSUME NEW s \in Senders, Reaches(s, k) PROVE Reaches(s, k)'
        BY <2>1, <3>4 DEF Reaches
      <3>5. QED
        BY <3>1, <3>2, <3>3, <3>4 DEF StateOnItsWay
    <2>3. QED
      BY <2>2 DEF StateOnItsWay
  <1>2. CASE StopServing
    <2>1. \A k \in Clients : client'[k] = NewClient
      BY <1>2 DEF StopServing
    <2>2. NewClient.pc = "new"
      BY DEF NewClient
    <2>3. QED
      BY <2>1, <2>2 DEF StateOnItsWay, Waits
  <1>3. ASSUME NEW s \in Requests, Publish(s) PROVE StateOnItsWay'
    <2>1. s \in Senders /\ cast'[s].pc = "stored" /\ cast'[s].id = nav'
      BY <1>3, PublishFacts DEF Senders, Casts
    <2>2. QED
      BY <2>1 DEF StateOnItsWay, Reaches
  <1>4. ASSUME NEW m \in MqttMessages, Consume(m) PROVE StateOnItsWay'
    <2>1. /\ Consumer \in Senders /\ cast[Consumer].pc = "idle"
          /\ UNCHANGED <<nav, listed, client, lossy>>
          /\ \A t \in Senders : t # Consumer => cast'[t] = cast[t]
      BY <1>4, ConsumeFacts DEF Senders, Casts
    <2>2. \A k \in Clients : ~Reaches(Consumer, k)
      BY <2>1 DEF Reaches
    <2>3. \A k \in Clients : (Waits(k)' => Waits(k)) /\ (Shown(k) => Shown(k)')
      BY <2>1 DEF Waits, Shown
    <2>4. QED
      BY <2>1, <2>2, <2>3, CastOnItsWay
  <1>5. CASE UNCHANGED vars
    BY <1>5 DEF vars, screenVars, StateOnItsWay, Waits, Shown, Reaches
  <1>6. QED
    BY <1>1, <1>2, <1>3, <1>4, <1>5, ClientStepOnItsWay, SenderStepOnItsWay DEF Next

\* A screen is never left with a navigation that is not the stored one: whenever
\* it connects, and however snapshots, broadcasts and departures interleave, it has
\* been shown it, or a broadcast of it is still ahead, or a removal made one skip.
THEOREM NoScreenMissesState == Spec => []NoStateMissed
  <1>1. Init => StateOnItsWay
    <2>1. NewClient.pc = "new"
      BY DEF NewClient
    <2>2. QED
      BY <2>1 DEF Init, Fresh, StateOnItsWay, Waits
  <1>2. ScreensInv /\ StateOnItsWay /\ [Next]_vars => StateOnItsWay'
    BY NextOnItsWay
  <1>3. StateOnItsWay => NoStateMissed
    <2> SUFFICES ASSUME StateOnItsWay, \A s \in Senders : cast[s].pc = "idle",
                        NEW k \in Clients, Hub[k] = "borne", client[k].pc = "live", client[k].up
                 PROVE  lossy \/ nav \in client[k].got \cup {client[k].snap}
      BY DEF NoStateMissed
    <2>1. Waits(k) /\ \A s \in Senders : ~Reaches(s, k)
      BY DEF Waits, Reaches
    <2>2. QED
      BY <2>1 DEF StateOnItsWay, Shown
  <1>4. QED
    BY <1>1, <1>2, <1>3, ScreensAlways, PTL DEF Spec

-----------------------------------------------------------------------------
(* What a broadcast loses *)

Routes == {<<"borne">>, <<"session", "borne">>}

\* The broadcast of s has still to come to client k, in this hub or the next.
Ahead(s, k) ==
    \/ cast[s].route = <<"session", "borne">> /\ Hub[k] = "borne"
    \/ /\ Hub[k] = Head(cast[s].route)
       /\ \E i \in DOMAIN listed[Hub[k]] : i >= cast[s].next /\ listed[Hub[k]][i] = k

\* The clients the broadcast of s has missed.
Missing(s) == {k \in cast[s].due : /\ client[k].up /\ cast[s].id \notin client[k].got
                                   /\ ~Ahead(s, k)}

LosesToLeavers(s) ==
    /\ cast[s].route \in Routes
    /\ \A k \in cast[s].due : client[k].pc # "new"
    /\ IsFiniteSet(Missing(s)) /\ Cardinality(Missing(s)) <= cast[s].skips

\* A broadcast under way has missed one client at most for each it has skipped.
LeaversInv == \A s \in Senders : cast[s].pc = "sending" => LosesToLeavers(s)

LEMMA RouteFacts ==
  /\ Head(<<"borne">>) = "borne" /\ Head(<<"session", "borne">>) = "session"
  /\ Len(<<"borne">>) = 1 /\ Len(<<"session", "borne">>) = 2
  /\ Tail(<<"session", "borne">>) = <<"borne">>
  OBVIOUS

LEMMA NothingMoreMissed ==
  ASSUME ScreensInv, NEW s \in Senders, LosesToLeavers(s),
         cast'[s].route \in Routes, cast'[s].due = cast[s].due, cast'[s].skips = cast[s].skips,
         \A k \in cast[s].due : client'[k].pc # "new",
         Missing(s)' \subseteq Missing(s)
  PROVE  LosesToLeavers(s)'
  <1> DEFINE old == Missing(s)
             new == Missing(s)'
  <1>1. IsFiniteSet(old) /\ Cardinality(old) <= cast[s].skips /\ new \subseteq old
    BY DEF LosesToLeavers
  <1>2. cast[s].skips \in Nat
    BY DEF ScreensInv, CastType
  <1> HIDE DEF old, new
  <1>3. IsFiniteSet(new) /\ Cardinality(new) <= Cardinality(old)
    BY <1>1, FS_Subset
  <1>4. Cardinality(new) \in Nat /\ Cardinality(old) \in Nat
    BY <1>1, <1>3, FS_CardinalityType
  <1>5. Cardinality(new) <= cast[s].skips
    BY <1>1, <1>2, <1>3, <1>4
  <1>6. QED
    BY <1>3, <1>5 DEF LosesToLeavers, new

\* A client that joins, is served or is lost.
LEMMA ClientLoses ==
  ASSUME ScreensInv, LeaversInv, NEW k \in Clients, UNCHANGED cast,
         NEW pc, NEW up, NEW snap, NEW got, Serves(k, pc, up, snap, got), pc # "new",
         UNCHANGED listed \/ Accept(k),
         client[k].pc = "new" \/ (up => client[k].up /\ got = client[k].got)
  PROVE  LeaversInv'
  <1>1. ASSUME NEW s \in Senders, NEW j \in Clients, Ahead(s, j) PROVE Ahead(s, j)'
    <2>1. ASSUME NEW i \in DOMAIN listed[Hub[j]]
          PROVE  i \in DOMAIN listed'[Hub[j]] /\ listed'[Hub[j]][i] = listed[Hub[j]][i]
      <3>1. CASE UNCHANGED listed
        BY <3>1
      <3>2. CASE Accept(k)
        <4>1. listed' = [listed EXCEPT ![Hub[k]] = Append(@, k)]
          BY <3>2 DEF Accept
        <4> DEFINE h == Hub[j]
                   g == Hub[k]
        <4>2. h \in Hubs /\ g \in Hubs /\ listed \in [Hubs -> Seq(Clients)]
          BY HubAssumption DEF ScreensInv, ListsHold
        <4> HIDE DEF h, g
        <4>3. i \in DOMAIN listed[h]
          BY DEF h
        <4>4. listed' = [listed EXCEPT ![g] = Append(@, k)]
          BY <4>1 DEF g
        <4>5. i \in DOMAIN listed'[h] /\ listed'[h][i] = listed[h][i]
          <5>1. CASE g = h
            <6>1. listed'[h] = Append(listed[h], k) /\ listed[h] \in Seq(Clients)
              BY <4>2, <4>4, <5>1
            <6>2. QED
              BY <4>3, <6>1
          <5>2. CASE g # h
            BY <4>2, <4>3, <4>4, <5>2
          <5>3. QED
            BY <5>1, <5>2
        <4>6. QED
          BY <4>5 DEF h
      <3>3. QED
        BY <3>1, <3>2
    <2>2. QED
      BY <1>1, <2>1 DEF Ahead
  <1>2. ASSUME NEW s \in Senders, cast[s].pc = "sending" PROVE LosesToLeavers(s)'
    <2>1. LosesToLeavers(s) /\ cast[s].due \subseteq Clients
      BY <1>2 DEF LeaversInv, ScreensInv, CastType
    <2>2. /\ client'[k].pc = pc /\ client'[k].up = up /\ client'[k].got = got
          /\ \A j \in Clients : j # k => client'[j] = client[j]
      BY DEF Serves
    <2>3. \A j \in cast[s].due : client'[j].pc # "new"
      BY <2>1, <2>2 DEF LosesToLeavers
    <2>4. Missing(s)' \subseteq Missing(s)
      <3> SUFFICES ASSUME NEW j \in Missing(s)' PROVE j \in Missing(s)
        OBVIOUS
      <3>1. /\ j \in cast[s].due /\ client'[j].up /\ cast[s].id \notin client'[j].got
            /\ ~Ahead(s, j)'
        BY DEF Missing
      <3>2. j \in Clients /\ client[j].pc # "new" /\ ~Ahead(s, j)
        BY <1>1, <2>1, <3>1 DEF LosesToLeavers
      <3>3. client[j].up /\ cast[s].id \notin client[j].got
        BY <2>2, <3>1, <3>2
      <3>4. QED
        BY <3>1, <3>2, <3>3 DEF Missing
    <2>5. QED
      BY <2>1, <2>3, <2>4, NothingMoreMissed DEF LosesToLeavers
  <1>3. QED
    BY <1>2 DEF LeaversInv

\* A removal moves one client into a place that a broadcast has left behind.
LEMMA DisconnectLoses ==
  ASSUME ScreensInv, LeaversInv, NEW k \in Clients, Disconnect(k)
  PROVE  LeaversInv'
  <1> DEFINE h == Hub[k]
             list == listed[h]
             new == listed'[h]
  <1>1. PICK p \in DOMAIN list :
           /\ list[p] = k
           /\ listed' \in [Hubs -> Seq(Clients)]
           /\ \A g \in Hubs : g # h => listed'[g] = listed[g]
           /\ Len(new) = Len(list) - 1
           /\ \A i \in 1 .. Len(list) - 1 : new[i] = list[IF i < p THEN i ELSE i + 1]
    BY DisconnectList
  <1>2. h \in Hubs /\ list \in Seq(Clients) /\ new \in Seq(Clients)
    BY <1>1, HubAssumption DEF ScreensInv, ListsHold
  <1>3. /\ DOMAIN list = 1 .. Len(list) /\ DOMAIN new = 1 .. Len(list) - 1
        /\ p \in 1 .. Len(list) /\ Len(list) \in Nat
    BY <1>1, <1>2
  <1>4. /\ ~client'[k].up /\ client'[k].pc = "closed"
        /\ \A j \in Clients : j # k => client'[j] = client[j]
        /\ \A s \in Senders :
              /\ cast'[s].pc = cast[s].pc /\ cast'[s].id = cast[s].id
              /\ cast'[s].route = cast[s].route /\ cast'[s].next = cast[s].next
              /\ cast'[s].due = cast[s].due
              /\ cast'[s].skips = IF s \in Passed(k) THEN cast[s].skips + 1 ELSE cast[s].skips
    BY DisconnectFacts DEF Serves
  <1>5. ASSUME NEW s \in Senders, cast[s].pc = "sending", LosesToLeavers(s)
        PROVE  LosesToLeavers(s)'
    <2> DEFINE skipped == list[cast[s].next]
    <2>1. cast[s].next \in Nat /\ cast[s].skips \in Nat /\ cast[s].due \subseteq Clients
      BY DEF ScreensInv, CastType
    <2>2. ASSUME NEW j \in Clients, j # k, Ahead(s, j), ~(s \in Passed(k) /\ j = skipped)
          PROVE  Ahead(s, j)'
      <3>1. CASE cast[s].route = <<"session", "borne">> /\ Hub[j] = "borne"
        BY <1>4, <3>1 DEF Ahead
      <3>2. CASE Hub[j] # h /\ ~(cast[s].route = <<"session", "borne">> /\ Hub[j] = "borne")
        <4>1. listed'[Hub[j]] = listed[Hub[j]]
          BY <1>1, <3>2, HubAssumption
        <4>2. PICK i \in DOMAIN listed[Hub[j]] :
                 Hub[j] = Head(cast[s].route) /\ i >= cast[s].next /\ listed[Hub[j]][i] = j
          BY <2>2, <3>2 DEF Ahead
        <4>3. Hub[j] = Head(cast'[s].route) /\ i >= cast'[s].next
          BY <1>4, <4>2
        <4>4. QED
          BY <4>1, <4>2, <4>3 DEF Ahead
      <3>3. CASE Hub[j] = h /\ ~(cast[s].route = <<"session", "borne">> /\ Hub[j] = "borne")
        <4>1. PICK i \in DOMAIN list :
                 h = Head(cast[s].route) /\ i >= cast[s].next /\ list[i] = j
          BY <2>2, <3>3 DEF Ahead
        <4>2. i # p
          BY <1>1, <2>2, <4>1
        <4>3. ASSUME p < cast[s].next, i = cast[s].next PROVE FALSE
          <5>1. cast[s].next <= Len(list) /\ p \in 1 .. cast[s].next - 1
            BY <1>3, <2>1, <4>1, <4>3
          <5>2. SubSeq(list, 1, cast[s].next - 1)[p] = list[p]
                /\ p \in DOMAIN SubSeq(list, 1, cast[s].next - 1)
            BY <1>2, <1>3, <2>1, <5>1
          <5>3. k \in ToSet(SubSeq(list, 1, cast[s].next - 1))
            BY <1>1, <5>2 DEF ToSet
          <5>4. s \in Passed(k)
            BY <1>5, <4>1, <5>1, <5>3 DEF Passed
          <5>5. QED
            BY <2>2, <4>1, <4>3, <5>4
        <4> DEFINE n == IF i < p THEN i ELSE i - 1
        <4>4. n \in 1 .. Len(list) - 1 /\ n >= cast[s].next /\ (IF n < p THEN n ELSE n + 1) = i
          BY <1>3, <2>1, <4>1, <4>2, <4>3
        <4>5. new[n] = list[IF n < p THEN n ELSE n + 1]
          BY <1>1, <4>4
        <4>6. n \in DOMAIN new /\ new[n] = j
          BY <1>3, <4>1, <4>4, <4>5
        <4>7. Hub[j] = Head(cast'[s].route) /\ n >= cast'[s].next
          BY <1>4, <3>3, <4>1, <4>4
        <4> HIDE DEF n
        <4>8. n \in DOMAIN listed'[Hub[j]] /\ listed'[Hub[j]][n] = j
          BY <3>3, <4>6
        <4>9. QED
          BY <4>7, <4>8 DEF Ahead
      <3>4. QED
        BY <3>1, <3>2, <3>3
    <2>3. ASSUME NEW j \in Missing(s)', j \notin Missing(s)
          PROVE  s \in Passed(k) /\ j = skipped
      <3>1. /\ j \in cast[s].due /\ client'[j].up /\ cast[s].id \notin client'[j].got
            /\ ~Ahead(s, j)'
        BY <1>4, <2>3 DEF Missing
      <3>2. j \in Clients /\ j # k /\ client'[j] = client[j]
        BY <1>4, <2>1, <3>1
      <3>3. Ahead(s, j)
        BY <2>3, <3>1, <3>2 DEF Missing
      <3>4. QED
        BY <2>2, <3>1, <3>2, <3>3
    <2>4. \A j \in cast[s].due : client'[j].pc # "new"
      <3> SUFFICES ASSUME NEW j \in cast[s].due PROVE client'[j].pc # "new"
        OBVIOUS
      <3>1. client[j].pc # "new"
        BY <1>5 DEF LosesToLeavers
      <3>2. QED
        BY <1>4, <2>1, <3>1
    <2>5. CASE s \notin Passed(k)
      <3>1. Missing(s)' \subseteq Missing(s)
        BY <2>3, <2>5
      <3>2. QED
        BY <1>4, <1>5, <2>4, <2>5, <3>1, NothingMoreMissed DEF LosesToLeavers
    <2>6. CASE s \in Passed(k)
      <3> DEFINE old == Missing(s)
                 more == Missing(s)'
      <3>1. more \subseteq old \cup {skipped}
        BY <2>3
      <3>2. IsFiniteSet(old) /\ Cardinality(old) <= cast[s].skips
        BY <1>5 DEF LosesToLeavers
      <3> HIDE DEF old, more, skipped
      <3>3. IsFiniteSet(old \cup {skipped}) /\ Cardinality(old \cup {skipped}) <= Cardinality(old) + 1
        <4>1. Cardinality(old) \in Nat
          BY <3>2, FS_CardinalityType
        <4>2. QED
          BY <3>2, <4>1, FS_AddElement
      <3>4. IsFiniteSet(more) /\ Cardinality(more) <= Cardinality(old \cup {skipped})
        BY <3>1, <3>3, FS_Subset
      <3>5. /\ Cardinality(more) \in Nat /\ Cardinality(old) \in Nat
            /\ Cardinality(old \cup {skipped}) \in Nat
        BY <3>2, <3>3, <3>4, FS_CardinalityType
      <3>6. Cardinality(more) <= cast[s].skips + 1
        BY <2>1, <3>2, <3>3, <3>4, <3>5
      <3>7. cast'[s].route \in Routes /\ cast'[s].skips = cast[s].skips + 1
            /\ cast'[s].due = cast[s].due
        BY <1>4, <1>5, <2>6 DEF LosesToLeavers
      <3>8. QED
        BY <2>4, <3>4, <3>6, <3>7 DEF LosesToLeavers, more
    <2>7. QED
      BY <2>5, <2>6
  <1>6. QED
    BY <1>4, <1>5 DEF LeaversInv

\* A step of one broadcast.
LEMMA CastLoses ==
  ASSUME ScreensInv, LeaversInv, NEW s \in Senders, UNCHANGED listed,
         \A t \in Senders : t # s => cast'[t] = cast[t],
         \A k \in Clients : /\ client'[k].pc = client[k].pc /\ client'[k].up = client[k].up
                            /\ client[k].got \subseteq client'[k].got,
         cast'[s].pc = "sending" => LosesToLeavers(s)'
  PROVE  LeaversInv'
  <1> SUFFICES ASSUME NEW t \in Senders, cast'[t].pc = "sending" PROVE LosesToLeavers(t)'
    BY DEF LeaversInv
  <1>1. CASE t = s
    BY <1>1
  <1>2. CASE t # s
    <2>1. cast'[t] = cast[t] /\ LosesToLeavers(t) /\ cast[t].due \subseteq Clients
      BY <1>2 DEF LeaversInv, ScreensInv, CastType
    <2>2. \A k \in Clients : Ahead(t, k)' <=> Ahead(t, k)
      BY <2>1 DEF Ahead
    <2>3. Missing(t)' \subseteq Missing(t)
      <3> SUFFICES ASSUME NEW k \in Missing(t)' PROVE k \in Missing(t)
        OBVIOUS
      <3>1. /\ k \in cast[t].due /\ client'[k].up /\ cast[t].id \notin client'[k].got
            /\ ~Ahead(t, k)'
        BY <2>1 DEF Missing
      <3>2. QED
        BY <2>1, <2>2, <3>1 DEF Missing
    <2>4. \A k \in cast[t].due : client'[k].pc # "new"
      BY <2>1 DEF LosesToLeavers
    <2>5. QED
      BY <2>1, <2>3, <2>4, NothingMoreMissed DEF LosesToLeavers
  <1>3. QED
    BY <1>1, <1>2

\* A broadcast that starts has every client it is due to ahead.
LEMMA NothingMissedAtFirst ==
  ASSUME ScreensInv, NEW s \in Senders, NEW route \in Routes,
         cast'[s].route = route, cast'[s].next = 1, cast'[s].skips = 0,
         cast'[s].due = {k \in Listed(route) : client[k].up}, UNCHANGED <<listed, client>>
  PROVE  LosesToLeavers(s)'
  <1>1. ASSUME NEW k \in Listed(route)
        PROVE  k \in Clients /\ Ahead(s, k)'
    <2>1. PICK h \in ToSet(route) : k \in ToSet(listed[h])
      BY DEF Listed
    <2>2. /\ h \in Hubs
          /\ \/ h = Head(route)
             \/ route = <<"session", "borne">> /\ h = "borne"
      BY RouteFacts DEF Routes, ToSet, Hubs
    <2>3. PICK i \in DOMAIN listed[h] : listed[h][i] = k
      BY <2>1 DEF ToSet
    <2>4. listed[h] \in Seq(Clients) /\ Hub[k] = h /\ i \in 1 .. Len(listed[h])
      BY <2>2, <2>3 DEF ScreensInv, ListsHold
    <2>5. k \in Clients /\ i >= 1
      BY <2>3, <2>4
    <2>6. i \in DOMAIN listed'[Hub[k]] /\ listed'[Hub[k]][i] = k /\ i >= cast'[s].next
      BY <2>3, <2>4, <2>5
    <2>7. QED
      BY <2>2, <2>4, <2>5, <2>6 DEF Ahead
  <1>2. Missing(s)' = {}
    <2> SUFFICES ASSUME NEW k \in Missing(s)' PROVE FALSE
      OBVIOUS
    <2>1. k \in cast'[s].due /\ ~Ahead(s, k)'
      BY DEF Missing
    <2>2. QED
      BY <1>1, <2>1
  <1>3. \A k \in cast'[s].due : client'[k].pc # "new"
    <2> SUFFICES ASSUME NEW k \in cast'[s].due PROVE client[k].pc # "new"
      OBVIOUS
    <2>1. k \in Listed(route) /\ client[k].up
      OBVIOUS
    <2>2. QED
      BY <1>1, <2>1 DEF ScreensInv, Serving
  <1>4. QED
    BY <1>2, <1>3, FS_EmptySet DEF LosesToLeavers

LEMMA SenderStepLoses ==
  ASSUME ScreensInv, LeaversInv, NEW s \in Senders, SenderStep(s)
  PROVE  LeaversInv'
  <1>1. CASE BroadcastNav(s)
    <2>1. /\ UNCHANGED <<nav, listed, client, lossy>>
          /\ \A t \in Senders : t # s => cast'[t] = cast[t]
          /\ cast'[s].route = <<"borne">> /\ cast'[s].next = 1 /\ cast'[s].skips = 0
          /\ cast'[s].due = {k \in Listed(<<"borne">>) : client[k].up}
      BY <1>1, BroadcastNavFacts DEF Casts
    <2>2. <<"borne">> \in Routes
      BY DEF Routes
    <2>3. LosesToLeavers(s)'
      BY <2>1, <2>2, NothingMissedAtFirst
    <2>4. QED
      BY <2>1, <2>3, CastLoses
  <1>2. CASE HubDone(s)
    <2>1. /\ UNCHANGED <<nav, listed, client, lossy>> /\ cast[s].pc = "sending"
          /\ \A t \in Senders : t # s => cast'[t] = cast[t]
          /\ cast[s].next > Len(listed[Head(cast[s].route)])
      BY <1>2, HubDoneFacts DEF Casts
    <2>2. LosesToLeavers(s) /\ cast[s].due \subseteq Clients /\ cast[s].next \in Nat
      BY <2>1 DEF LeaversInv, ScreensInv, CastType
    <2>3. ASSUME cast'[s].pc = "sending" PROVE LosesToLeavers(s)'
      <3>1. /\ Len(cast[s].route) # 1 /\ cast'[s].route = Tail(cast[s].route)
            /\ cast'[s].id = cast[s].id /\ cast'[s].next = 1
            /\ cast'[s].due = cast[s].due /\ cast'[s].skips = cast[s].skips
        <4>1. \/ Len(cast[s].route) = 1 /\ Casts(s, "idle", 0, <<>>, 1, {}, 0)
              \/ Casts(s, "sending", cast[s].id, Tail(cast[s].route), 1, cast[s].due, cast[s].skips)
          BY <1>2, HubDoneFacts
        <4>2. CASE Casts(s, "idle", 0, <<>>, 1, {}, 0)
          BY <2>3, <4>2 DEF Casts
        <4>3. CASE Casts(s, "sending", cast[s].id, Tail(cast[s].route), 1, cast[s].due, cast[s].skips)
          <5>1. Len(cast[s].route) # 1
            <6>1. ASSUME Len(cast[s].route) = 1 PROVE FALSE
              <7>1. cast' = [cast EXCEPT ![s] = NewCast]
                BY <1>2, <6>1 DEF HubDone, ScreensInv
              <7>2. cast'[s] = NewCast
                BY <7>1 DEF ScreensInv
              <7>3. QED
                BY <2>3, <7>2 DEF NewCast
            <6>2. QED
              BY <6>1
          <5>2. QED
            BY <4>3, <5>1 DEF Casts
        <4>4. QED
          BY <4>1, <4>2, <4>3
      <3>2. cast[s].route = <<"session", "borne">> /\ cast'[s].route = <<"borne">>
        BY <2>2, <3>1, RouteFacts DEF LosesToLeavers, Routes
      <3>3. <<"borne">> \in Routes
        BY DEF Routes
      <3>4. Missing(s)' \subseteq Missing(s)
        <4> SUFFICES ASSUME NEW k \in Missing(s)' PROVE k \in Missing(s)
          OBVIOUS
        <4>1. /\ k \in cast[s].due /\ client[k].up /\ cast[s].id \notin client[k].got
              /\ ~Ahead(s, k)' /\ k \in Clients
          BY <2>1, <2>2, <3>1 DEF Missing
        <4>2. ASSUME Ahead(s, k) PROVE FALSE
          <5>1. Hub[k] \in Hubs /\ listed[Hub[k]] \in Seq(Clients)
            BY <4>1, HubAssumption DEF ScreensInv, ListsHold
          <5>2. CASE Hub[k] = "borne"
            <6>1. client[k].pc \notin {"new", "closed"}
              BY <4>1 DEF ScreensInv, Serving
            <6>2. PICK i \in DOMAIN listed[Hub[k]] : listed[Hub[k]][i] = k
              BY <4>1, <6>1 DEF ScreensInv, ListsHold, Present
            <6>3. i >= cast'[s].next /\ Hub[k] = Head(cast'[s].route)
              BY <3>1, <3>2, <5>1, <5>2, <6>2, RouteFacts
            <6>4. Ahead(s, k)'
              BY <2>1, <6>2, <6>3 DEF Ahead
            <6>5. QED
              BY <4>1, <6>4
          <5>3. CASE Hub[k] # "borne"
            <6>1. PICK i \in DOMAIN listed[Hub[k]] :
                     Hub[k] = Head(cast[s].route) /\ i >= cast[s].next
              BY <4>2, <5>3 DEF Ahead
            <6>2. cast[s].next > Len(listed[Hub[k]])
              BY <2>1, <6>1
            <6>3. QED
              BY <2>2, <5>1, <6>1, <6>2
          <5>4. QED
            BY <5>2, <5>3
        <4>3. QED
          BY <4>1, <4>2 DEF Missing
      <3>5. \A k \in cast[s].due : client'[k].pc # "new"
        BY <2>1, <2>2 DEF LosesToLeavers
      <3>6. QED
        BY <2>2, <3>1, <3>2, <3>3, <3>4, <3>5, NothingMoreMissed
    <2>4. QED
      BY <2>1, <2>3, CastLoses
  <1>3. ASSUME NEW k \in Clients, At(s, k), UNCHANGED <<nav, listed, lossy>>,
               \A t \in Senders : t # s => cast'[t] = cast[t],
               cast'[s].id = cast[s].id, cast'[s].route = cast[s].route,
               cast'[s].due = cast[s].due, cast'[s].skips = cast[s].skips,
               cast'[s].next = cast[s].next + 1,
               \A j \in Clients : /\ client'[j].pc = client[j].pc /\ client'[j].up = client[j].up
                                  /\ client[j].got \subseteq client'[j].got,
               client[k].up => cast[s].id \in client'[k].got
        PROVE  LeaversInv'
    <2>1. LosesToLeavers(s) /\ cast[s].due \subseteq Clients /\ cast[s].next \in Nat
      BY <1>3, AtFacts DEF LeaversInv, ScreensInv, CastType
    <2>2. ASSUME NEW j \in Clients, j # k, Ahead(s, j) PROVE Ahead(s, j)'
      <3>1. CASE cast[s].route = <<"session", "borne">> /\ Hub[j] = "borne"
        BY <1>3, <3>1 DEF Ahead
      <3>2. CASE ~(cast[s].route = <<"session", "borne">> /\ Hub[j] = "borne")
        <4>1. PICK i \in DOMAIN listed[Hub[j]] :
                 Hub[j] = Head(cast[s].route) /\ i >= cast[s].next /\ listed[Hub[j]][i] = j
          BY <2>2, <3>2 DEF Ahead
        <4>2. Hub[j] = Hub[k] /\ listed[Hub[k]][cast[s].next] = k
          BY <1>3, <4>1, AtFacts
        <4>3. i # cast[s].next
          BY <2>2, <4>1, <4>2
        <4>4. i \in Nat
          BY HubAssumption DEF ScreensInv, ListsHold
        <4>5. i >= cast'[s].next /\ Hub[j] = Head(cast'[s].route)
          BY <1>3, <2>1, <4>1, <4>3, <4>4
        <4>6. QED
          BY <1>3, <4>1, <4>5 DEF Ahead
      <3>3. QED
        BY <3>1, <3>2
    <2>3. Missing(s)' \subseteq Missing(s)
      <3> SUFFICES ASSUME NEW j \in Missing(s)' PROVE j \in Missing(s)
        OBVIOUS
      <3>1. /\ j \in cast[s].due /\ client'[j].up /\ cast[s].id \notin client'[j].got
            /\ ~Ahead(s, j)'
        BY <1>3 DEF Missing
      <3>2. j \in Clients /\ client[j].up /\ cast[s].id \notin client[j].got /\ j # k
        BY <1>3, <2>1, <3>1
      <3>3. QED
        BY <2>2, <3>1, <3>2 DEF Missing
    <2>4. \A j \in cast[s].due : client'[j].pc # "new"
      BY <1>3, <2>1 DEF LosesToLeavers
    <2>5. LosesToLeavers(s)'
      BY <1>3, <2>1, <2>3, <2>4, NothingMoreMissed DEF LosesToLeavers
    <2>6. QED
      BY <1>3, <2>5, CastLoses
  <1>4. ASSUME NEW k \in Clients, SendFails(s, k) PROVE LeaversInv'
    <2>1. /\ ~client[k].up /\ UNCHANGED <<nav, listed, client, lossy>> /\ At(s, k)
          /\ \A t \in Senders : t # s => cast'[t] = cast[t]
          /\ cast'[s].id = cast[s].id /\ cast'[s].route = cast[s].route
          /\ cast'[s].due = cast[s].due /\ cast'[s].skips = cast[s].skips
          /\ cast'[s].next = cast[s].next + 1
      BY <1>4, SendFailsFacts DEF Casts, SendFails
    <2>2. QED
      BY <1>3, <2>1
  <1>5. ASSUME NEW k \in Clients, Send(s, k) PROVE LeaversInv'
    <2>1. /\ UNCHANGED <<nav, listed, lossy>> /\ At(s, k)
          /\ \A t \in Senders : t # s => cast'[t] = cast[t]
          /\ cast'[s].id = cast[s].id /\ cast'[s].route = cast[s].route
          /\ cast'[s].due = cast[s].due /\ cast'[s].skips = cast[s].skips
          /\ cast'[s].next = cast[s].next + 1
      BY <1>5, SendFacts DEF Casts, Send
    <2>2. /\ client'[k].pc = client[k].pc /\ client'[k].up = client[k].up
          /\ client'[k].got = client[k].got \cup {cast[s].id}
          /\ \A j \in Clients : j # k => client'[j] = client[j]
      BY <1>5, SendFacts DEF Serves
    <2>3. \A j \in Clients : /\ client'[j].pc = client[j].pc /\ client'[j].up = client[j].up
                             /\ client[j].got \subseteq client'[j].got
      BY <2>2
    <2>4. QED
      BY <1>3, <2>1, <2>2, <2>3
  <1>6. QED
    BY <1>1, <1>2, <1>4, <1>5 DEF SenderStep

LEMMA ClientStepLoses ==
  ASSUME ScreensInv, LeaversInv, NEW k \in Clients, ClientStep(k)
  PROVE  LeaversInv'
  <1>1. CASE Accept(k)
    BY <1>1, AcceptFacts, ClientLoses
  <1>2. CASE ReadSnapshot(k)
    BY <1>2, ReadSnapshotFacts, ClientLoses
  <1>3. CASE SendSnapshot(k)
    <2>1. PICK pc \in {"live", "abandoned"} :
             Serves(k, pc, client[k].up, client[k].snap, client[k].got)
      BY <1>3, SendSnapshotFacts
    <2>2. QED
      BY <1>3, <2>1, SendSnapshotFacts, ClientLoses
  <1>4. CASE SocketLost(k)
    <2>1. client[k].pc # "new"
      BY <1>4, SocketLostFacts DEF ScreensInv, Serving
    <2>2. QED
      BY <1>4, <2>1, SocketLostFacts, ClientLoses
  <1>5. CASE HandlerFails(k)
    BY <1>5, HandlerFailsFacts, ClientLoses
  <1>6. CASE Disconnect(k)
    BY <1>6, DisconnectLoses
  <1>7. QED
    BY <1>1, <1>2, <1>3, <1>4, <1>5, <1>6 DEF ClientStep

LEMMA NextLoses == ScreensInv /\ LeaversInv /\ [Next]_vars => LeaversInv'
  <1> SUFFICES ASSUME ScreensInv, LeaversInv, [Next]_vars PROVE LeaversInv'
    OBVIOUS
  <1>1. CASE UNCHANGED <<nav, last, listed, client, cast, lossy>>
    <2> SUFFICES ASSUME NEW s \in Senders, cast'[s].pc = "sending" PROVE LosesToLeavers(s)'
      BY DEF LeaversInv
    <2>1. LosesToLeavers(s)
      BY <1>1 DEF LeaversInv
    <2>2. \A k \in Clients : Ahead(s, k)' <=> Ahead(s, k)
      BY <1>1 DEF Ahead
    <2>3. cast[s].due \subseteq Clients
      BY DEF ScreensInv, CastType
    <2>4. Missing(s)' \subseteq Missing(s)
      BY <1>1, <2>2, <2>3 DEF Missing
    <2>5. QED
      BY <1>1, <2>1, <2>4, NothingMoreMissed DEF LosesToLeavers
  <1>2. CASE Lifespan
    BY <1>1, <1>2 DEF Lifespan, screenVars
  <1>3. CASE StopServing
    <2>1. \A s \in Senders : cast'[s].pc = "idle"
      BY <1>3 DEF StopServing, NewCast
    <2>2. QED
      BY <2>1 DEF LeaversInv
  <1>4. ASSUME NEW s \in Requests, Publish(s) PROVE LeaversInv'
    <2>1. /\ s \in Senders /\ cast'[s].pc = "stored" /\ UNCHANGED <<listed, client>>
          /\ \A t \in Senders : t # s => cast'[t] = cast[t]
      BY <1>4, PublishFacts DEF Senders, Casts
    <2>2. QED
      BY <2>1, CastLoses
  <1>5. ASSUME NEW m \in MqttMessages, Consume(m) PROVE LeaversInv'
    <2>1. PICK route \in {<<"borne">>, <<"session", "borne">>} :
             Casts(Consumer, "sending", last + 1, route, 1, {k \in Listed(route) : client[k].up}, 0)
      BY <1>5, ConsumeFacts
    <2>2. Consumer \in Senders /\ route \in Routes /\ UNCHANGED <<nav, listed, client, lossy>>
      BY <1>5, ConsumeFacts DEF Senders, Routes
    <2>3. LosesToLeavers(Consumer)'
      BY <2>1, <2>2, NothingMissedAtFirst DEF Casts
    <2>4. \A t \in Senders : t # Consumer => cast'[t] = cast[t]
      BY <2>1 DEF Casts
    <2>5. QED
      BY <2>2, <2>3, <2>4, CastLoses
  <1>6. CASE UNCHANGED vars
    BY <1>1, <1>6 DEF vars, screenVars
  <1>7. QED
    BY <1>2, <1>3, <1>4, <1>5, <1>6, ClientStepLoses, SenderStepLoses DEF Next

\* A broadcast that ends has missed, of the screens that were connected when it
\* began and still are, no more than the departures that made it skip one.
THEOREM BroadcastLosesToLeavers == Spec => LostOnlyToLeavers
  <1>1. Init => LeaversInv
    BY DEF Init, Fresh, NewCast, LeaversInv
  <1>2. ScreensInv /\ LeaversInv /\ [Next]_vars => LeaversInv'
    BY NextLoses
  <1>3. ASSUME ScreensInv, LeaversInv, NEW s \in Senders, HubDone(s), cast'[s].pc = "idle"
        PROVE  Cardinality({k \in cast[s].due : client[k].up /\ cast[s].id \notin client[k].got})
                   <= cast[s].skips
    <2>1. /\ cast[s].pc = "sending" /\ cast[s].next > Len(listed[Head(cast[s].route)])
          /\ \/ Len(cast[s].route) = 1
             \/ cast'[s].pc = "sending"
      BY <1>3, HubDoneFacts DEF Casts
    <2>2. Len(cast[s].route) = 1
      BY <1>3, <2>1
    <2>3. LosesToLeavers(s) /\ cast[s].due \subseteq Clients /\ cast[s].next \in Nat
      BY <1>3, <2>1 DEF LeaversInv, ScreensInv, CastType
    <2>4. cast[s].route = <<"borne">>
      BY <2>2, <2>3, RouteFacts DEF LosesToLeavers, Routes
    <2>5. listed["borne"] \in Seq(Clients) /\ cast[s].next > Len(listed["borne"])
      BY <1>3, <2>1, <2>4, RouteFacts DEF ScreensInv, ListsHold, Hubs
    <2>6. ASSUME NEW k \in Clients, Ahead(s, k) PROVE FALSE
      <3>1. cast[s].route # <<"session", "borne">>
        BY <2>2, RouteFacts
      <3>2. PICK i \in DOMAIN listed[Hub[k]] :
               Hub[k] = "borne" /\ i >= cast[s].next
        BY <2>4, <2>6, <3>1, RouteFacts DEF Ahead
      <3>3. i \in DOMAIN listed["borne"]
        BY <3>2
      <3>4. QED
        BY <2>3, <2>5, <3>2, <3>3
    <2>7. Missing(s) = {k \in cast[s].due : client[k].up /\ cast[s].id \notin client[k].got}
      BY <2>3, <2>6 DEF Missing
    <2>8. QED
      BY <2>3, <2>7 DEF LosesToLeavers
  <1>4. ScreensInv /\ LeaversInv =>
          [\A s \in Senders : HubDone(s) /\ cast'[s].pc = "idle" =>
             Cardinality({k \in cast[s].due : client[k].up /\ cast[s].id \notin client[k].got})
                 <= cast[s].skips]_vars
    BY <1>3
  <1>5. QED
    BY <1>1, <1>2, <1>4, ScreensAlways, PTL DEF Spec, LostOnlyToLeavers
=============================================================================
