------------------------------ MODULE CmdClient ------------------------------
(***************************************************************************)
(* The client end of the command link, backend/cmd_client.c, with the      *)
(* keep-alive of drv/keepalive.c that watches it.                          *)
(*                                                                         *)
(* Four tasks share the context ctx without a lock:                        *)
(*   "cl"  cmd_client_task, the state machine that owns the socket;        *)
(*   "rq"  the request task of cmd_client_req.c, which calls cmdClientSend *)
(*         and then cmdClientRead until it is satisfied;                   *)
(*   "ka"  keepAliveProcess, which calls cmdClientSend for its frames and  *)
(*         cmdClientDisconnect when it gives up;                           *)
(*   "wf"  the Wi-Fi driver, which calls cmdClientStart and cmdClientStop. *)
(* cmdClientTryConnect and cmdClientDisconnect may be called at any time.  *)
(* A step ends where another task can see, or undo, what it did.           *)
(*                                                                         *)
(* ctx.error only selects a log line, and the two semaphores of ctx are    *)
(* never taken: they are left out.  Deadlines are abstracted to whether    *)
(* they have passed.  socket, connect, send, select, read and close are    *)
(* lwIP's: a connection is up, silent (what is sent is buffered, nothing   *)
(* comes back) or dead (every call on it fails).                           *)
(***************************************************************************)
EXTENDS Integers

CONSTANTS
    Fds,        \* the descriptors lwIP hands out
    TRY         \* KEEP_ALIVE_TRY, the sends without success before an error

NoFd == -1

ASSUME FdsAssumption == NoFd \notin Fds
ASSUME TryAssumption == TRY \in Nat \ {0}

VARIABLES
    ctx,                \* state, socket, start and disconnect_req of ctx
    keep,               \* keepAliveActiveFlag, -ErrorFlag, -Try; the deadline has passed
    net,                \* the descriptors open in lwIP, and the state of the connection
    pc,                 \* where each task is
    loaded,             \* "ka": the value of keepAliveTry it is about to increment
    selected,           \* "rq": the descriptor given to select
    lastSendFailed      \* the last keepAliveSend returned an error

local == <<loaded, selected, lastSendFailed>>
vars == <<ctx, keep, net, pc, local>>

Tasks == {"cl", "rq", "ka", "wf"}

Init ==
    /\ ctx = [state |-> "IDLE", socket |-> NoFd, start |-> FALSE, disconnect_req |-> FALSE]
    /\ keep = [active |-> FALSE, error |-> FALSE, try |-> 0, due |-> FALSE]
    /\ net = [open |-> {}, link |-> "dead"]
    /\ pc = [t \in Tasks |-> "loop"]
    /\ loaded = 0 /\ selected = NoFd /\ lastSendFailed = FALSE

At(t, l) == pc[t] = l
Goto(t, l) == pc' = [pc EXCEPT ![t] = l]

change_state(s) == ctx' = [ctx EXCEPT !.state = s]

IsConnected == ~ctx.disconnect_req /\ ctx.start /\ ctx.state = "READY"

(* Calls on descriptor fd succeed. *)
Alive(fd) == fd \in net.open /\ net.link # "dead"

(* Mutant: an accepted send does not give the tries back.                *)
Accept_TriesKept(k) == [active |-> k.active, due |-> FALSE, try |-> k.try, error |-> FALSE]

(* keepAliveAccept: a new deadline, no tries, no error. *)
Accept(k) == [active |-> k.active, due |-> FALSE, try |-> 0, error |-> FALSE]

-----------------------------------------------------------------------------
(* cmd_client_task.  Its loop dispatches on ctx.state.                     *)

Dispatch(s) == At("cl", "loop") /\ ctx.state = s

Idle ==
    /\ Dispatch("IDLE")
    /\ Goto("cl", IF ctx.disconnect_req THEN "idle_stop" ELSE "idle_start")
    /\ UNCHANGED <<ctx, keep, net, local>>

IdleStop ==
    /\ At("cl", "idle_stop") /\ Goto("cl", "idle_ack")
    /\ ctx' = [ctx EXCEPT !.start = FALSE]
    /\ UNCHANGED <<keep, net, local>>

IdleAck ==
    /\ At("cl", "idle_ack") /\ Goto("cl", "idle_start")
    /\ ctx' = [ctx EXCEPT !.disconnect_req = FALSE]
    /\ UNCHANGED <<keep, net, local>>

IdleStart ==
    /\ At("cl", "idle_start") /\ Goto("cl", "loop")
    /\ change_state(IF ctx.start THEN "CREATE_SOC" ELSE ctx.state)
    /\ UNCHANGED <<keep, net, local>>

(* A socket left over is closed first; socket() gives a descriptor or -1.  *)
CreateSoc ==
    /\ Dispatch("CREATE_SOC")
    /\ \/ ctx.socket # NoFd /\ change_state("CLOSE_SOC") /\ UNCHANGED net
       \/ /\ ctx.socket = NoFd
          /\ \E fd \in Fds \ net.open :
                /\ ctx' = [ctx EXCEPT !.socket = fd, !.state = "CONNECT_SERVER"]
                /\ net' = [open |-> net.open \union {fd}, link |-> "dead"]
    /\ UNCHANGED <<keep, pc, local>>

(* Mutant: a failed socket call goes on to connect.                      *)
CreateSocFails_GoesOn ==
    /\ Dispatch("CREATE_SOC") /\ ctx.socket = NoFd
    /\ change_state("CONNECT_SERVER")
    /\ UNCHANGED <<keep, net, pc, local>>

CreateSocFails ==
    /\ Dispatch("CREATE_SOC") /\ ctx.socket = NoFd
    /\ change_state("CLOSE_SOC")
    /\ UNCHANGED <<keep, net, pc, local>>

ConnectServer ==
    /\ Dispatch("CONNECT_SERVER") /\ Goto("cl", "connected")
    /\ net' = [net EXCEPT !.link = "up"]
    /\ UNCHANGED <<ctx, keep, local>>

ConnectServerFails ==
    /\ Dispatch("CONNECT_SERVER")
    /\ change_state("CLOSE_SOC")
    /\ UNCHANGED <<keep, net, pc, local>>

(* Mutant: the keep-alive is not activated.                              *)
KeepAliveStart_NotActive ==
    /\ At("cl", "connected") /\ Goto("cl", "activated")
    /\ keep' = [keep EXCEPT !.error = FALSE]
    /\ UNCHANGED <<ctx, net, local>>

(* The entry is active while it still has the tries and the deadline of    *)
(* the connection before.                                                  *)
KeepAliveStart ==
    /\ At("cl", "connected") /\ Goto("cl", "activated")
    /\ keep' = [keep EXCEPT !.active = TRUE, !.error = FALSE]
    /\ UNCHANGED <<ctx, net, local>>

KeepAliveAccept ==
    /\ At("cl", "activated") /\ Goto("cl", "set_ready")
    /\ keep' = Accept(keep)
    /\ UNCHANGED <<ctx, net, local>>

SetReady ==
    /\ At("cl", "set_ready") /\ Goto("cl", "loop")
    /\ change_state("READY")
    /\ UNCHANGED <<keep, net, local>>

(* Mutant: a requested disconnect is not looked for.                     *)
MustClose_StopOnly == ~ctx.start

MustClose == ~ctx.start \/ ctx.disconnect_req

Ready ==
    /\ Dispatch("READY") /\ MustClose
    /\ change_state("CLOSE_SOC")
    /\ UNCHANGED <<keep, net, pc, local>>

(* Mutant: close is not called.                                          *)
CloseSoc_NotClosed ==
    /\ Dispatch("CLOSE_SOC") /\ Goto("cl", "closed")
    /\ UNCHANGED <<ctx, keep, net, local>>

(* close, socket = -1, keepAliveStop, CMD_CLIENT_CHECK_ERRORS. *)
CloseSoc ==
    /\ Dispatch("CLOSE_SOC") /\ Goto("cl", "closed")
    /\ net' = [open |-> net.open \ {ctx.socket},
               link |-> IF ctx.socket \in net.open THEN "dead" ELSE net.link]
    /\ UNCHANGED <<ctx, keep, local>>

(* Mutant: ctx.socket keeps the closed descriptor.                       *)
CloseForget_Kept ==
    /\ At("cl", "closed") /\ Goto("cl", "keep_stop")
    /\ UNCHANGED <<ctx, keep, net, local>>

CloseForget ==
    /\ At("cl", "closed") /\ Goto("cl", "keep_stop")
    /\ ctx' = [ctx EXCEPT !.socket = NoFd]
    /\ UNCHANGED <<keep, net, local>>

(* Mutant: the keep-alive is not stopped.                                *)
KeepAliveStop_Missing ==
    /\ At("cl", "keep_stop") /\ Goto("cl", "set_check")
    /\ UNCHANGED <<ctx, keep, net, local>>

KeepAliveStop ==
    /\ At("cl", "keep_stop") /\ Goto("cl", "set_check")
    /\ keep' = [keep EXCEPT !.active = FALSE]
    /\ UNCHANGED <<ctx, net, local>>

SetCheck ==
    /\ At("cl", "set_check") /\ Goto("cl", "loop")
    /\ change_state("CHECK_ERRORS")
    /\ UNCHANGED <<keep, net, local>>

CheckErrors ==
    /\ Dispatch("CHECK_ERRORS")
    /\ change_state("IDLE")
    /\ UNCHANGED <<keep, net, pc, local>>

ClientTask ==
    \/ Idle \/ IdleStop \/ IdleAck \/ IdleStart
    \/ CreateSoc \/ CreateSocFails \/ ConnectServer \/ ConnectServerFails
    \/ KeepAliveStart \/ KeepAliveAccept \/ SetReady \/ Ready
    \/ CloseSoc \/ CloseForget \/ KeepAliveStop \/ SetCheck \/ CheckErrors

-----------------------------------------------------------------------------
(* cmdClientSend, called by "rq" and by "ka".                              *)

SendReturns(t, ok) ==
    IF t = "ka"
    THEN Goto("ka", "load") /\ lastSendFailed' = ~ok /\ UNCHANGED <<loaded, selected>>
    ELSE Goto("rq", IF ok THEN "read" ELSE "loop") /\ UNCHANGED local

SendCheck(t) ==
    /\ At(t, IF t = "ka" THEN "send" ELSE "loop")
    /\ IF ctx.socket = NoFd \/ ctx.state # "READY"
       THEN SendReturns(t, FALSE)
       ELSE Goto(t, "transmit") /\ UNCHANGED local
    /\ UNCHANGED <<ctx, keep, net>>

SendTransmit(t) ==
    /\ At(t, "transmit")
    /\ IF Alive(ctx.socket)
       THEN Goto(t, "sent") /\ UNCHANGED local
       ELSE SendReturns(t, FALSE)
    /\ UNCHANGED <<ctx, keep, net>>

SendAccept(t) ==
    /\ At(t, "sent")
    /\ keep' = Accept(keep)
    /\ SendReturns(t, TRUE)
    /\ UNCHANGED <<ctx, net>>

-----------------------------------------------------------------------------
(* cmdClientRead, called by "rq" after a send, until the answer is there   *)
(* or the time is over (after data, or an end of file, it may read again). *)

(* The state is checked, then ctx.socket is read once more for FD_SET. *)
ReadCheck ==
    /\ At("rq", "read")
    /\ Goto("rq", IF IsConnected /\ ctx.socket # NoFd THEN "fd_set" ELSE "loop")
    /\ UNCHANGED <<ctx, keep, net, local>>

ReadFdSet ==
    /\ At("rq", "fd_set") /\ Goto("rq", "select")
    /\ selected' = ctx.socket
    /\ UNCHANGED <<ctx, keep, net, loaded, lastSendFailed>>

(* The read fails: ctx.state is set from this task, whatever the client    *)
(* task has made of it since the read began.                               *)
ReadFails == change_state("CLOSE_SOC") /\ Goto("rq", "loop")

(* select: a bad descriptor, a time-out, or something to read. *)
ReadSelect ==
    /\ At("rq", "select")
    /\ \/ selected \notin net.open /\ ReadFails
       \/ Goto("rq", "loop") /\ UNCHANGED ctx
       \/ selected \in net.open /\ net.link # "silent" /\ Goto("rq", "readable") /\ UNCHANGED ctx
    /\ UNCHANGED <<keep, net, local>>

ReadRecheck ==
    /\ At("rq", "readable")
    /\ IF ctx.start /\ ~ctx.disconnect_req /\ ctx.socket = selected
       THEN Goto("rq", "recv") /\ UNCHANGED ctx
       ELSE ReadFails
    /\ UNCHANGED <<keep, net, local>>

(* read() on ctx.socket: data, an error, or an end of file. *)
ReadRecv ==
    /\ At("rq", "recv")
    /\ \/ ctx.socket \in net.open /\ net.link = "up" /\ Goto("rq", "received") /\ UNCHANGED ctx
       \/ ~Alive(ctx.socket) /\ ReadFails
       \/ /\ ctx.socket \in net.open /\ net.link = "dead"
          /\ \E l \in {"read", "loop"} : Goto("rq", l)
          /\ UNCHANGED ctx
    /\ UNCHANGED <<keep, net, local>>

ReadAccept ==
    /\ At("rq", "received")
    /\ keep' = Accept(keep)
    /\ \E l \in {"read", "loop"} : Goto("rq", l)
    /\ UNCHANGED <<ctx, net, local>>

RequestTask ==
    \/ SendCheck("rq") \/ SendTransmit("rq") \/ SendAccept("rq")
    \/ ReadCheck \/ ReadFdSet \/ ReadSelect \/ ReadRecheck \/ ReadRecv \/ ReadAccept

-----------------------------------------------------------------------------
(* keepAliveProcess, for the entry of this client.                         *)

(* Mutant: one try too many.                                             *)
TriesLeft_OneMore == keep.try <= TRY

TriesLeft == keep.try < TRY

KeepAliveScan ==
    /\ At("ka", "loop")
    /\ ~keep.error /\ keep.active /\ keep.due
    /\ Goto("ka", IF TriesLeft THEN "send" ELSE "give_up")
    /\ UNCHANGED <<ctx, keep, net, local>>

(* keepAliveTry++ is a load and a store, with the new deadline after it. *)
KeepAliveLoad ==
    /\ At("ka", "load") /\ Goto("ka", "store")
    /\ loaded' = keep.try
    /\ UNCHANGED <<ctx, keep, net, selected, lastSendFailed>>

KeepAliveStore ==
    /\ At("ka", "store") /\ Goto("ka", "loop")
    /\ keep' = [keep EXCEPT !.try = loaded + 1, !.due = FALSE]
    /\ loaded' = 0
    /\ UNCHANGED <<ctx, net, selected, lastSendFailed>>

KeepAliveGiveUp ==
    /\ At("ka", "give_up") /\ Goto("ka", "error_cb")
    /\ keep' = [keep EXCEPT !.error = TRUE]
    /\ UNCHANGED <<ctx, net, local>>

(* cmdClientErrorKACb calls cmdClientDisconnect. *)
KeepAliveErrorCb ==
    /\ At("ka", "error_cb") /\ Goto("ka", "loop")
    /\ ctx' = [ctx EXCEPT !.disconnect_req = TRUE]
    /\ UNCHANGED <<keep, net, local>>

KeepAliveTask ==
    \/ KeepAliveScan
    \/ SendCheck("ka") \/ SendTransmit("ka") \/ SendAccept("ka")
    \/ KeepAliveLoad \/ KeepAliveStore \/ KeepAliveGiveUp \/ KeepAliveErrorCb

-----------------------------------------------------------------------------
(* The callers of the module.  cmdClientStart writes two fields.           *)

WifiConnected ==
    /\ At("wf", "loop") /\ Goto("wf", "starting")
    /\ ctx' = [ctx EXCEPT !.start = TRUE]
    /\ UNCHANGED <<keep, net, local>>

WifiStarted ==
    /\ At("wf", "starting") /\ Goto("wf", "loop")
    /\ ctx' = [ctx EXCEPT !.disconnect_req = FALSE]
    /\ UNCHANGED <<keep, net, local>>

WifiDisconnected ==
    /\ At("wf", "loop")
    /\ ctx' = [ctx EXCEPT !.start = FALSE]
    /\ UNCHANGED <<keep, net, pc, local>>

(* cmdClientDisconnect, and the only write of cmdClientTryConnect. *)
AppDisconnect ==
    /\ ctx' = [ctx EXCEPT !.disconnect_req = TRUE]
    /\ UNCHANGED <<keep, net, pc, local>>

AppTryConnect ==
    /\ ctx' = [ctx EXCEPT !.disconnect_req = FALSE]
    /\ UNCHANGED <<keep, net, pc, local>>

-----------------------------------------------------------------------------
(* Time and the network.                                                   *)

DeadlinePasses ==
    /\ ~keep.due
    /\ keep' = [keep EXCEPT !.due = TRUE]
    /\ UNCHANGED <<ctx, net, pc, local>>

LinkChanges ==
    /\ net.link # "dead"
    /\ \E l \in {"up", "silent", "dead"} \ {net.link} : net' = [net EXCEPT !.link = l]
    /\ UNCHANGED <<ctx, keep, pc, local>>

Next ==
    \/ ClientTask \/ RequestTask \/ KeepAliveTask
    \/ WifiConnected \/ WifiStarted \/ WifiDisconnected \/ AppDisconnect \/ AppTryConnect
    \/ DeadlinePasses \/ LinkChanges

(* Tasks of one priority are time-sliced: none is kept from running.  A    *)
(* deadline passes in the end; socket and connect do not fail for ever.    *)
Fairness ==
    /\ WF_vars(ClientTask) /\ WF_vars(KeepAliveTask) /\ WF_vars(WifiStarted)
    /\ SF_vars(CreateSoc) /\ SF_vars(ConnectServer)
    /\ WF_vars(DeadlinePasses)

Spec == Init /\ [][Next]_vars /\ Fairness

-----------------------------------------------------------------------------
States == {"IDLE", "CREATE_SOC", "CONNECT_SERVER", "READY", "CLOSE_SOC", "CHECK_ERRORS"}
Contexts == [state : States, socket : Fds \union {NoFd},
             start : BOOLEAN, disconnect_req : BOOLEAN]
Keeps == [active : BOOLEAN, error : BOOLEAN, try : 0..TRY, due : BOOLEAN]
Nets == [open : SUBSET Fds, link : {"up", "silent", "dead"}]
Labels == [cl |-> {"loop", "idle_stop", "idle_ack", "idle_start", "connected", "activated",
                   "set_ready", "closed", "keep_stop", "set_check"},
           rq |-> {"loop", "transmit", "sent", "read", "fd_set", "select", "readable", "recv",
                   "received"},
           ka |-> {"loop", "send", "transmit", "sent", "load", "store", "give_up", "error_cb"},
           wf |-> {"loop", "starting"}]

TypeOK ==
    /\ ctx \in Contexts /\ keep \in Keeps /\ net \in Nets
    /\ pc \in [Tasks -> UNION {Labels[t] : t \in Tasks}] /\ \A t \in Tasks : pc[t] \in Labels[t]
    /\ loaded \in 0..TRY /\ selected \in Fds \union {NoFd} /\ lastSendFailed \in BOOLEAN

(* Every open descriptor is the one in ctx.socket: whatever CLOSE_SOC the  *)
(* request task writes over the state, and whenever, none is lost open.    *)
NoSocketLeak == net.open \subseteq {ctx.socket}

(* cmdClientIsConnected tells the truth about the socket: READY is never   *)
(* entered, or kept, without one.                                          *)
ReadyHasSocket == ctx.state = "READY" => ctx.socket \in net.open

(* A client at rest is not watched: the keep-alive never runs out against  *)
(* a connection that no longer exists.                                     *)
NotWatchedAtRest == ctx.state \in {"IDLE", "CREATE_SOC"} => ~keep.active

(* The keep-alive reports an error only after a send that failed.  One is  *)
(* enough: a send that succeeds clears keepAliveTry before it is counted.  *)
ErrorAfterFailedSend ==
    [][At("ka", "loop") /\ pc'["ka"] = "give_up" => lastSendFailed]_vars

(* A request to disconnect is always taken up in the end. *)
DisconnectServed == ctx.disconnect_req ~> ~ctx.disconnect_req

(* A dead connection does not stay READY, unless a cmdClientStart or a     *)
(* cmdClientTryConnect withdrew the report of the keep-alive before the    *)
(* client task had seen it.                                                *)
ReportWithdrawn == keep.error /\ ~ctx.disconnect_req /\ ~At("ka", "error_cb")
DeadLinkDropped ==
    (ctx.state = "READY" /\ net.link = "dead") ~> (ctx.state # "READY" \/ ReportWithdrawn)

(* As long as it is wanted the client comes back to READY, whatever the    *)
(* reads of the request task do to its state.                              *)
Reconnects == <>[](ctx.start /\ ~ctx.disconnect_req) => []<>(ctx.state = "READY")
=============================================================================
