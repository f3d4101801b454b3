------------------------------- MODULE WifiDrv -------------------------------
(***************************************************************************)
(* The Wi-Fi driver, backend/wifidrv.c.  _wifi_event_task runs the state   *)
(* machine; the ESP event task runs the handlers that write ctx.connected; *)
(* the application calls Connect, Disconnect and StartScan from tasks of   *)
(* its own.  They share ctx without a lock.                                *)
(*                                                                         *)
(* The station itself (esp_wifi) is external: it joins the access point    *)
(* or not, loses it, and posts each change to the event loop, which runs   *)
(* the handlers in order and later.  The two callback lists count as one   *)
(* call each, and the credentials (ssid, password and their copy in NVS)   *)
(* are left out: no step of the state machine depends on them.             *)
(***************************************************************************)
EXTENDS Integers, Sequences

CONSTANTS
    Types,          \* the values given to wifiDrvSetWifiType
    MaxConnects,    \* 3: failed calls of esp_wifi_connect before giving up
    MaxWaits,       \* 30: polls of ctx.connected before giving up
    MaxEvents       \* the length of the event loop's queue

ASSUME TypesAssumption == Types \subseteq {"server", "client"}
ASSUME LimitsAssumption == MaxConnects \in Nat /\ MaxWaits \in Nat /\ MaxConnects < MaxWaits
ASSUME EventsAssumption == MaxEvents \in Nat /\ MaxEvents >= 2

VARIABLES
    wifi_type,
    ctx,        \* state, is_started, connected, connect_req, disconnect_req, connect_attemps
    told,       \* the last callbacks run were on_connect_cb's
    radio,      \* esp_wifi is started
    link,       \* the station: "down", "joining", or "up" with an address
    events,     \* posted and not handled: TRUE is GOT_IP, FALSE is DISCONNECTED
    pc          \* how far the current call of the event task and of the scan is

vars == <<wifi_type, ctx, told, radio, link, events, pc>>

Init ==
    /\ wifi_type \in Types
    /\ ctx = [state |-> "INIT", is_started |-> FALSE, connected |-> FALSE,
              connect_req |-> FALSE, disconnect_req |-> FALSE, connect_attemps |-> 0]
    /\ told = FALSE /\ radio = FALSE /\ link = "down" /\ events = <<>>
    /\ pc = [task |-> "loop", scan |-> "idle"]

station == <<radio, link, events>>

In(s) == pc.task = "loop" /\ ctx.state = s
At(l) == pc.task = l
Goto(l) == pc' = [pc EXCEPT !.task = l]

(* esp_wifi_disconnect: the station leaves, and the event is posted.       *)
Leave ==
    /\ link' = "down"
    /\ events' = IF link = "down" THEN events ELSE Append(events, FALSE)

-----------------------------------------------------------------------------
(* _wifi_event_task.                                                       *)

(* Access point or station, the radio is started.                          *)
StateInit ==
    /\ In("INIT")
    /\ ctx' = [ctx EXCEPT !.state = "IDLE", !.is_started = TRUE]
    /\ radio' = TRUE
    /\ UNCHANGED <<wifi_type, told, link, events, pc>>

Idle ==
    /\ In("IDLE")
    /\ ctx' = CASE wifi_type = "server" -> [ctx EXCEPT !.state = "START", !.connected = TRUE]
                [] wifi_type = "client" /\ ctx.connect_req -> [ctx EXCEPT !.state = "CONNECT"]
                [] OTHER -> ctx
    /\ UNCHANGED <<wifi_type, told, station, pc>>

Connect ==
    /\ In("CONNECT")
    /\ ctx' = [ctx EXCEPT !.is_started = TRUE]
    /\ radio' = (radio \/ ~ctx.is_started)
    /\ Goto("connect")
    /\ UNCHANGED <<wifi_type, told, link, events>>

(* Room for the two events of an attempt stands for a queue whose reader   *)
(* keeps up.                                                               *)
ConnectBegins ==
    /\ At("connect") /\ radio /\ Len(events) + 2 <= MaxEvents
    /\ link' = "joining"
    /\ ctx' = [ctx EXCEPT !.state = "WAIT_CONNECT"]
    /\ Goto("loop")
    /\ UNCHANGED <<wifi_type, told, radio, events>>

(* Mutant: giving up keeps the counter.                                    *)
ConnectFails_CounterKept ==
    /\ At("connect")
    /\ IF ctx.connect_attemps > MaxConnects
       THEN /\ ctx' = [ctx EXCEPT !.state = "IDLE", !.connect_req = FALSE,
                                  !.is_started = FALSE, !.connect_attemps = @ + 1]
            /\ Goto("stop")
       ELSE /\ ctx' = [ctx EXCEPT !.state = "IDLE", !.connect_attemps = @ + 1]
            /\ Goto("loop")
    /\ UNCHANGED <<wifi_type, told, station>>

(* The state is IDLE before is_started is cleared, and is_started before   *)
(* the radio stops.  The counter is reset, and then incremented.           *)
ConnectFails ==
    /\ At("connect")
    /\ IF ctx.connect_attemps > MaxConnects
       THEN /\ ctx' = [ctx EXCEPT !.state = "IDLE", !.connect_req = FALSE,
                                  !.is_started = FALSE, !.connect_attemps = 1]
            /\ Goto("stop")
       ELSE /\ ctx' = [ctx EXCEPT !.state = "IDLE", !.connect_attemps = @ + 1]
            /\ Goto("loop")
    /\ UNCHANGED <<wifi_type, told, station>>

(* Mutant: the request survives the connection it asked for.               *)
WaitConnected_StillAsked ==
    /\ In("WAIT_CONNECT") /\ ctx.connected
    /\ ctx' = [ctx EXCEPT !.state = "START", !.disconnect_req = FALSE, !.connect_attemps = 0]
    /\ UNCHANGED <<wifi_type, told, station, pc>>

(* A disconnect asked for while waiting is withdrawn with the request.     *)
WaitConnected ==
    /\ In("WAIT_CONNECT") /\ ctx.connected
    /\ ctx' = [ctx EXCEPT !.state = "START", !.connect_req = FALSE,
                          !.disconnect_req = FALSE, !.connect_attemps = 0]
    /\ UNCHANGED <<wifi_type, told, station, pc>>

WaitAgain ==
    /\ In("WAIT_CONNECT") /\ ~ctx.connected /\ ctx.connect_attemps <= MaxWaits
    /\ ctx' = [ctx EXCEPT !.connect_attemps = @ + 1]
    /\ UNCHANGED <<wifi_type, told, station, pc>>

WaitExpires ==
    /\ In("WAIT_CONNECT") /\ ~ctx.connected /\ ctx.connect_attemps > MaxWaits
    /\ ctx' = [ctx EXCEPT !.state = "IDLE", !.connect_req = FALSE,
                          !.is_started = FALSE, !.connect_attemps = 1]
    /\ Goto("stop")
    /\ UNCHANGED <<wifi_type, told, station>>

(* Mutant: is_started is cleared and the radio goes on.                    *)
RadioStops_GoesOn ==
    /\ At("stop") /\ Goto("loop")
    /\ UNCHANGED <<wifi_type, ctx, told, station>>

(* esp_wifi_stop, which also takes the station off the network.            *)
RadioStops ==
    /\ At("stop")
    /\ radio' = FALSE /\ Leave
    /\ Goto("loop")
    /\ UNCHANGED <<wifi_type, ctx, told>>

Start ==
    /\ In("START")
    /\ told' = TRUE
    /\ ctx' = [ctx EXCEPT !.state = "READY"]
    /\ UNCHANGED <<wifi_type, station, pc>>

(* Mutant: only a lost link or a new request is looked for.                *)
Ready_LossOnly ==
    /\ In("READY")
    /\ ctx' = IF ~ctx.connected \/ ctx.connect_req THEN [ctx EXCEPT !.state = "STOP"] ELSE ctx
    /\ UNCHANGED <<wifi_type, told, station, pc>>

Ready ==
    /\ In("READY")
    /\ ctx' = IF ctx.disconnect_req \/ ~ctx.connected \/ ctx.connect_req
              THEN [ctx EXCEPT !.state = "STOP"] ELSE ctx
    /\ UNCHANGED <<wifi_type, told, station, pc>>

StopTells ==
    /\ In("STOP")
    /\ told' = FALSE
    /\ Goto("leave")
    /\ UNCHANGED <<wifi_type, ctx, station>>

(* Mutant: the station is not taken off the network.                       *)
StopLeaves_Stays ==
    /\ At("leave")
    /\ ctx' = [ctx EXCEPT !.disconnect_req = FALSE]
    /\ Goto("left")
    /\ UNCHANGED <<wifi_type, told, station>>

StopLeaves ==
    /\ At("leave")
    /\ ctx' = [ctx EXCEPT !.disconnect_req = FALSE]
    /\ Leave
    /\ Goto("left")
    /\ UNCHANGED <<wifi_type, told, radio>>

StopDone ==
    /\ At("left")
    /\ ctx' = [ctx EXCEPT !.connected = FALSE, !.state = "IDLE"]
    /\ Goto("loop")
    /\ UNCHANGED <<wifi_type, told, station>>

EventTask ==
    \/ StateInit \/ Idle \/ Connect \/ ConnectBegins \/ ConnectFails
    \/ WaitConnected \/ WaitAgain \/ WaitExpires \/ RadioStops
    \/ Start \/ Ready \/ StopTells \/ StopLeaves \/ StopDone

-----------------------------------------------------------------------------
(* Mutant: the disconnect handler only records the reason.                 *)
Handle_GotIpOnly ==
    /\ events # <<>>
    /\ ctx' = [ctx EXCEPT !.connected = @ \/ Head(events)]
    /\ events' = Tail(events)
    /\ UNCHANGED <<wifi_type, told, radio, link, pc>>

(* _got_ip_event_handler and _on_wifi_disconnect.                          *)
Handle ==
    /\ events # <<>>
    /\ ctx' = [ctx EXCEPT !.connected = Head(events)]
    /\ events' = Tail(events)
    /\ UNCHANGED <<wifi_type, told, radio, link, pc>>

(* wifiDrvConnect and wifiDrvDisconnect refuse in server mode.             *)
AppConnect ==
    /\ wifi_type = "client"
    /\ ctx' = [ctx EXCEPT !.connect_req = TRUE]
    /\ UNCHANGED <<wifi_type, told, station, pc>>

AppDisconnect ==
    /\ wifi_type = "client"
    /\ ctx' = [ctx EXCEPT !.disconnect_req = TRUE]
    /\ UNCHANGED <<wifi_type, told, station, pc>>

(* wifiDrvStartScan starts a radio that is_started says is off.            *)
ScanChecks ==
    /\ pc.scan = "idle" /\ ctx.state \in {"IDLE", "READY"} /\ ~ctx.is_started
    /\ pc' = [pc EXCEPT !.scan = "start"]
    /\ UNCHANGED <<wifi_type, ctx, told, station>>

ScanStarts ==
    /\ pc.scan = "start"
    /\ radio' = TRUE
    /\ pc' = [pc EXCEPT !.scan = "started"]
    /\ UNCHANGED <<wifi_type, ctx, told, link, events>>

ScanStarted ==
    /\ pc.scan = "started"
    /\ ctx' = [ctx EXCEPT !.is_started = TRUE]
    /\ pc' = [pc EXCEPT !.scan = "idle"]
    /\ UNCHANGED <<wifi_type, told, station>>

-----------------------------------------------------------------------------
(* The station.                                                            *)

Joins ==
    /\ link = "joining"
    /\ link' = "up" /\ events' = Append(events, TRUE)
    /\ UNCHANGED <<wifi_type, ctx, told, radio, pc>>

LosesLink ==
    /\ link # "down" /\ Leave
    /\ UNCHANGED <<wifi_type, ctx, told, radio, pc>>

Next ==
    \/ EventTask \/ Handle
    \/ AppConnect \/ AppDisconnect \/ ScanChecks \/ ScanStarts \/ ScanStarted
    \/ Joins \/ LosesLink

(* Both tasks run; nothing is assumed of the station or of the callers.    *)
Fairness == WF_vars(EventTask) /\ WF_vars(Handle)

Spec == Init /\ [][Next]_vars /\ Fairness

-----------------------------------------------------------------------------
Contexts == [state : {"INIT", "IDLE", "CONNECT", "WAIT_CONNECT", "START", "READY", "STOP"},
             is_started : BOOLEAN, connected : BOOLEAN, connect_req : BOOLEAN,
             disconnect_req : BOOLEAN, connect_attemps : 0..MaxWaits + 1]

(* The attempts counter, which two states share and neither resets when    *)
(* the other is entered, stays in bounds, and so does the event queue.     *)
TypeOK ==
    /\ wifi_type \in Types /\ ctx \in Contexts
    /\ told \in BOOLEAN /\ radio \in BOOLEAN /\ link \in {"down", "joining", "up"}
    /\ events \in Seq(BOOLEAN) /\ Len(events) <= MaxEvents
    /\ pc \in [task : {"loop", "connect", "stop", "leave", "left"},
               scan : {"idle", "start", "started"}]

(* ctx.connected once the events that are posted are handled.              *)
Believed == IF events = <<>> THEN ctx.connected ELSE events[Len(events)]

(* However late the handlers run, and although _state_stop writes          *)
(* ctx.connected itself, the flag ends equal to what the station does.     *)
LinkKnown == wifi_type = "client" => (Believed <=> link = "up")

(* A station that nobody asked to connect is off the network: giving up    *)
(* and stopping both end with the station disconnected.                    *)
IdleIsOffline == In("IDLE") \/ In("CONNECT") => link = "down"

(* The lost link is noticed: the callbacks are told of it unless the       *)
(* station is joining again.                                               *)
LossNoticed ==
    (wifi_type = "client" /\ told /\ link = "down") ~> (~told \/ link # "down")

(* A disconnect asked for while connected is carried out.                  *)
DisconnectObeyed == (In("READY") /\ ctx.disconnect_req) ~> ~told

Service == INSTANCE WifiService WITH up <- told, asked <- ctx.connect_req

(* Requests and callbacks are as WifiService promises.                     *)
ServiceSpec == Service!Spec
=============================================================================
