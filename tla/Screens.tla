------------------------------ MODULE Screens ------------------------------
(***************************************************************************)
(* What reaches the WebSocket clients.  A hub keeps a list of clients; a   *)
(* broadcast walks the list by index and awaits each send, while clients   *)
(* come and go.  Borne screens also get a snapshot of the navigation when  *)
(* they connect.  Requests publish a new navigation state; the MQTT        *)
(* consumer relays inputs to the borne, and events of a game to both hubs. *)
(* A client is one WebSocket object: a screen that reconnects is another.  *)
(***************************************************************************)
EXTENDS Gateway, Integers, Sequences, FiniteSets, SequencesExt

CONSTANTS
    Clients,     \* the WebSocket objects
    Hub,         \* Hub[k]: the hub client k asks for
    Requests,    \* the coroutines that may publish the navigation
    Consumer,    \* the MQTT consumer
    MqttMessages,\* messages of the two topic filters
    MaxMessages  \* bound on broadcasts

Hubs == {"session", "borne"}
Senders == Requests \cup {Consumer}

ASSUME HubAssumption == Hub \in [Clients -> Hubs]
ASSUME ConsumerAssumption == Consumer \notin Requests
ASSUME MaxMessagesAssumption == MaxMessages \in Nat

VARIABLES
    nav,    \* the number of the broadcast of the stored navigation, 0 at boot
    last,   \* how many broadcasts have been decided, their numbers
    listed, \* listed[h]: the clients list of hub h
    client, \* client[k]: the coroutine that serves k, and what k has received
    cast,   \* cast[s]: the broadcast of sender s
    lossy   \* history: a removal has made the broadcast of nav skip a client

screenVars == <<nav, last, listed, client, cast, lossy>>
vars == <<app, task, ready, screenVars>>

\* new: not connected.  added: in the list, before the snapshot is read.
\* read: before it is sent.  live: in its receive loop.  closed: removed.
\* abandoned: its coroutine has ended and it is still in the list.
ClientType == [pc: {"new", "added", "read", "live", "closed", "abandoned"}, up: BOOLEAN,
               snap: Nat, got: SUBSET Nat]
CastType == [pc: {"idle", "stored", "sending"}, id: Nat, route: Seq(Hubs), next: Nat,
             due: SUBSET Clients, skips: Nat]

NewClient == [pc |-> "new", up |-> FALSE, snap |-> 0, got |-> {}]
NewCast == [pc |-> "idle", id |-> 0, route |-> <<>>, next |-> 1, due |-> {}, skips |-> 0]

Fresh ==
    /\ listed = [h \in Hubs |-> <<>>]
    /\ client = [k \in Clients |-> NewClient]
    /\ cast = [s \in Senders |-> NewCast]

Init == GatewayInit /\ nav = 0 /\ last = 0 /\ lossy = FALSE /\ Fresh

-----------------------------------------------------------------------------
(* Clients: _serve_borne and _serve_session *)

Accept(k) ==
    /\ app = "serving" /\ client[k].pc = "new"
    /\ listed' = [listed EXCEPT ![Hub[k]] = Append(@, k)]
    /\ client' = [client EXCEPT ![k].up = TRUE,
                     ![k].pc = IF Hub[k] = "borne" THEN "added" ELSE "live"]
    /\ UNCHANGED <<gatewayVars, nav, last, cast, lossy>>

ReadSnapshot(k) ==
    /\ client[k].pc = "added"
    /\ client' = [client EXCEPT ![k].pc = "read", ![k].snap = IF client[k].up THEN nav ELSE 0]
    /\ UNCHANGED <<gatewayVars, nav, last, listed, cast, lossy>>

\* The snapshot is sent before the try: a socket lost by then stays listed.
SendSnapshot(k) ==
    /\ client[k].pc = "read"
    /\ client' = [client EXCEPT ![k].pc = IF client[k].up THEN "live" ELSE "abandoned"]
    /\ UNCHANGED <<gatewayVars, nav, last, listed, cast, lossy>>

SocketLost(k) ==
    /\ client[k].up
    /\ client' = [client EXCEPT ![k] = [NewClient EXCEPT !.pc = client[k].pc]]
    /\ UNCHANGED <<gatewayVars, nav, last, listed, cast, lossy>>

\* A use case raises for a message of k: only WebSocketDisconnect is caught.
HandlerFails(k) ==
    /\ client[k].pc = "live" /\ client[k].up
    /\ client' = [client EXCEPT ![k] = [NewClient EXCEPT !.pc = "abandoned"]]
    /\ UNCHANGED <<gatewayVars, nav, last, listed, cast, lossy>>

\* The senders that are walking the list of k and have passed k, with a client
\* left to skip.
Passed(k) ==
    LET list == listed[Hub[k]] IN
    {s \in Senders : /\ cast[s].pc = "sending" /\ Head(cast[s].route) = Hub[k]
                     /\ cast[s].next <= Len(list)
                     /\ k \in ToSet(SubSeq(list, 1, cast[s].next - 1))}

\* WebSocketDisconnect: remove_client.  Every broadcast that has passed k
\* skips the client that moves into the place it has just left.
Disconnect(k) ==
    /\ client[k].pc = "live" /\ ~client[k].up
    /\ listed' = [listed EXCEPT ![Hub[k]] = RemoveFirst(@, k)]
    /\ cast' = [s \in Senders |-> IF s \in Passed(k)
                                  THEN [cast[s] EXCEPT !.skips = @ + 1] ELSE cast[s]]
    /\ lossy' = (lossy \/ \E s \in Passed(k) : cast[s].id = nav)
    /\ client' = [client EXCEPT ![k].pc = "closed"]
    /\ UNCHANGED <<gatewayVars, nav, last>>

-----------------------------------------------------------------------------
(* Broadcasts *)

Listed(route) == UNION {ToSet(listed[h]) : h \in ToSet(route)}

Sending(s, id, route) ==
    cast' = [cast EXCEPT ![s] = [pc |-> "sending", id |-> id, route |-> route, next |-> 1,
                due |-> {k \in Listed(route) : client[k].up}, skips |-> 0]]

\* ApplyBorneIntentUseCase stores the borne, then broadcasts nav:state.
Publish(s) ==
    /\ app = "serving" /\ cast[s].pc = "idle" /\ last < MaxMessages
    /\ last' = last + 1
    /\ nav' = last + 1
    /\ lossy' = FALSE
    /\ cast' = [cast EXCEPT ![s] = [NewCast EXCEPT !.pc = "stored", !.id = last + 1]]
    /\ UNCHANGED <<gatewayVars, listed, client>>

BroadcastNav(s) ==
    /\ cast[s].pc = "stored"
    /\ Sending(s, cast[s].id, <<"borne">>)
    /\ UNCHANGED <<gatewayVars, nav, last, listed, client, lossy>>

\* HandleBorneInputUseCase: a navigation button is relayed when pressed, the
\* flippers and the plunger when pressed and released; the rest is ignored.
FlipperButtons == {"L1", "R2"}
NavButtons == {"L2", "R1", "top", "bottom", "middle"}

Relayed(m) ==
    \/ m.topic = "plunger" /\ m.state \in {0, 1}
    \/ m.topic = "button" /\ m.id \in FlipperButtons /\ m.state \in {0, 1}
    \/ m.topic = "button" /\ m.id \in NavButtons /\ m.state = 1

\* mqtt_handler: inputs go to the borne; the events of a game to the hub of
\* the session, then to the borne (CompositeBroadcaster).  The consumer takes
\* the next message when this one is handled.
Consume(m) ==
    /\ app = "serving" /\ task = "consuming"
    /\ cast[Consumer].pc = "idle" /\ last < MaxMessages
    /\ m.topic = "sensor" \/ Relayed(m)
    /\ last' = last + 1
    /\ Sending(Consumer, last + 1,
               IF m.topic = "sensor" THEN <<"session", "borne">> ELSE <<"borne">>)
    /\ UNCHANGED <<gatewayVars, nav, listed, client, lossy>>

\* The client the broadcast of s comes to, if it has not passed the last one.
At(s, k) == /\ cast[s].pc = "sending"
            /\ cast[s].next <= Len(listed[Head(cast[s].route)])
            /\ k = listed[Head(cast[s].route)][cast[s].next]

Send(s, k) ==
    /\ At(s, k) /\ client[k].up
    /\ client' = [client EXCEPT ![k].got = @ \cup {cast[s].id}]
    /\ cast' = [cast EXCEPT ![s].next = @ + 1]
    /\ UNCHANGED <<gatewayVars, nav, last, listed, lossy>>

\* Mutant: a failed send ends the broadcast.
SendFailsLoudly(s, k) ==
    /\ At(s, k) /\ ~client[k].up
    /\ cast' = [cast EXCEPT ![s] = NewCast]
    /\ UNCHANGED <<gatewayVars, nav, last, listed, client, lossy>>

\* Mutant: a failed send removes the client, inside the loop over the list.
SendFailsRemoving(s, k) ==
    /\ At(s, k) /\ ~client[k].up
    /\ cast' = [cast EXCEPT ![s].next = @ + 1]
    /\ listed' = [listed EXCEPT ![Hub[k]] = RemoveFirst(@, k)]
    /\ UNCHANGED <<gatewayVars, nav, last, client, lossy>>

\* The exception of one send is logged and the walk goes on.
SendFails(s, k) ==
    /\ At(s, k) /\ ~client[k].up
    /\ cast' = [cast EXCEPT ![s].next = @ + 1]
    /\ UNCHANGED <<gatewayVars, nav, last, listed, client, lossy>>

\* The end of the list: the next hub of the route, or the end.
HubDone(s) ==
    /\ cast[s].pc = "sending"
    /\ cast[s].next > Len(listed[Head(cast[s].route)])
    /\ cast' = [cast EXCEPT ![s] = IF Len(cast[s].route) = 1 THEN NewCast
                                   ELSE [cast[s] EXCEPT !.route = Tail(@), !.next = 1]]
    /\ UNCHANGED <<gatewayVars, nav, last, listed, client, lossy>>

-----------------------------------------------------------------------------
(* The process *)

Lifespan ==
    /\ Start \/ Subscribed \/ ConsumerCrashes \/ StartReturns \/ StartTimesOut
    /\ UNCHANGED screenVars

\* The process ends, with every socket and every coroutine; Redis stays.
StopServing ==
    /\ Stop
    /\ listed' = [h \in Hubs |-> <<>>]
    /\ client' = [k \in Clients |-> NewClient]
    /\ cast' = [s \in Senders |-> NewCast]
    /\ UNCHANGED <<nav, last, lossy>>

ClientStep(k) ==
    \/ Accept(k) \/ ReadSnapshot(k) \/ SendSnapshot(k)
    \/ SocketLost(k) \/ HandlerFails(k) \/ Disconnect(k)

SenderStep(s) ==
    \/ BroadcastNav(s) \/ HubDone(s)
    \/ \E k \in Clients : Send(s, k) \/ SendFails(s, k)

Next ==
    \/ Lifespan \/ StopServing
    \/ \E k \in Clients : ClientStep(k)
    \/ \E s \in Requests : Publish(s)
    \/ \E m \in MqttMessages : Consume(m)
    \/ \E s \in Senders : SenderStep(s)

Spec == Init /\ [][Next]_vars

-----------------------------------------------------------------------------
(* Properties *)

\* The hub lists hold each client that has connected and was not removed, once.
ScreensTypeOK ==
    /\ GatewayTypeOK
    /\ nav \in 0..last
    /\ \A h \in Hubs : IsInjective(listed[h])
    /\ \A k \in Clients :
           (k \in ToSet(listed[Hub[k]])) <=> client[k].pc \notin {"new", "closed"}
    /\ client \in [Clients -> ClientType]
    /\ cast \in [Senders -> CastType]

\* Once no navigation is being published, every screen has been shown the
\* stored state, by its snapshot or by a broadcast, whenever it connected,
\* unless a removal made that broadcast skip a client.
NoStateMissed ==
    (\A s \in Senders : cast[s].pc = "idle") =>
        \A k \in Clients : Hub[k] = "borne" /\ client[k].pc = "live" /\ client[k].up =>
            lossy \/ nav \in client[k].got \cup {client[k].snap}

\* A broadcast misses at most one client for each client that was removed
\* while it walked the list; dead sockets left in the list cost nobody one.
LostOnlyToLeavers ==
    [][\A s \in Senders : HubDone(s) /\ cast'[s].pc = "idle" =>
           Cardinality({k \in cast[s].due : client[k].up /\ cast[s].id \notin client[k].got})
               <= cast[s].skips]_vars
=============================================================================
