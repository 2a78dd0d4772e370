------------------------------ MODULE Gateway ------------------------------
(***************************************************************************)
(* The life of the process around its MQTT consumer: the lifespan starts   *)
(* AioMqttGateway before it serves anything and stops it at the end.       *)
(* start() waits for the consumer task to say that it is ready, which the  *)
(* task also says when it crashes.                                         *)
(***************************************************************************)

VARIABLES
    app,   \* where the lifespan is; "down": no process
    task,  \* the consumer task of the gateway
    ready  \* the gateway's Event

gatewayVars == <<app, task, ready>>

GatewayInit ==
    /\ app = "down"
    /\ task = "none"
    /\ ready = FALSE

\* A new process, a new gateway: start() creates the task and waits.
Start ==
    /\ app = "down"
    /\ app' = "starting"
    /\ task' = "connecting"
    /\ ready' = FALSE

\* Every topic filter is subscribed to.
Subscribed ==
    /\ task = "connecting"
    /\ task' = "consuming"
    /\ ready' = TRUE
    /\ UNCHANGED app

\* The broker refuses, or the connection is lost.  The task ends with the
\* exception; nothing starts it again.
ConsumerCrashes ==
    /\ task \in {"connecting", "consuming"}
    /\ task' = "crashed"
    /\ ready' = TRUE
    /\ UNCHANGED app

\* Mutant: start() returns as soon as the task is ready.
StartReturnsWhenReady ==
    /\ app = "starting" /\ ready
    /\ app' = "serving"
    /\ UNCHANGED <<task, ready>>

\* A task that is done has crashed: start() raises, the process exits.
StartReturns ==
    /\ app = "starting" /\ ready
    /\ app' = IF task = "crashed" THEN "down" ELSE "serving"
    /\ UNCHANGED <<task, ready>>

\* After 10 s: the task is cancelled, and kept, so this gateway could not be
\* started again; the process exits.
StartTimesOut ==
    /\ app = "starting" /\ ~ready
    /\ task' = "cancelled"
    /\ app' = "down"
    /\ UNCHANGED ready

\* The end of the lifespan; the consumer is cancelled wherever it awaits.
Stop ==
    /\ app = "serving"
    /\ app' = "down"
    /\ task' = "none"
    /\ ready' = FALSE

-----------------------------------------------------------------------------
(* Properties *)

GatewayTypeOK ==
    /\ app \in {"down", "starting", "serving"}
    /\ task \in {"none", "connecting", "consuming", "crashed", "cancelled"}
    /\ ready \in BOOLEAN

\* The backend serves no request before its consumer has subscribed, although
\* a crash sets the same Event as a success.  It may lose the broker later.
ServesSubscribed ==
    [][app # "serving" /\ app' = "serving" => task' = "consuming"]_gatewayVars
=============================================================================
