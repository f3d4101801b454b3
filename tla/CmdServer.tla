------------------------------ MODULE CmdServer ------------------------------
(***************************************************************************)
(* The server end of the command link, backend/cmd_server.c, with the      *)
(* keep-alive of drv/keepalive.c that watches its one client.              *)
(*                                                                         *)
(* Three tasks share ctx without a lock: cmd_server_task ("sv"), which     *)
(* owns both sockets; keepAliveProcess ("ka"); and the Wi-Fi driver, which *)
(* calls cmdServerStart and cmdServerStop.  _change_state sleeps before it *)
(* writes the state: a handler leaves the next state in target and the     *)
(* write is a step of its own.                                             *)
(*                                                                         *)
(* ctx.error only selects a log line and is left out.  Parsing what was    *)
(* received is CmdClientReq's: here a frame only proves that the client    *)
(* lives.  The client talks, is silent, has closed, or there is none.      *)
(***************************************************************************)
EXTENDS Integers

CONSTANTS
    Fds,        \* the descriptors lwIP hands out
    TRY         \* KEEP_ALIVE_TRY

NoFd == -1

ASSUME FdsAssumption == NoFd \notin Fds
ASSUME TryAssumption == TRY \in Nat \ {0}

VARIABLES
    ctx,        \* state, socket, client_socket, start, disconnect_req, is_connected
    keep,       \* keepAliveActiveFlag, -ErrorFlag, -Try; the deadline has passed
    net,        \* the descriptors open in lwIP, and what the client does
    pc,         \* where the two tasks are
    target,     \* "sv": the argument of _change_state
    loaded      \* "ka": the value of keepAliveTry it is about to increment

vars == <<ctx, keep, net, pc, target, loaded>>

Init ==
    /\ ctx = [state |-> "IDLE", socket |-> NoFd, client_socket |-> NoFd,
              start |-> FALSE, disconnect_req |-> FALSE, is_connected |-> FALSE]
    /\ keep = [active |-> FALSE, error |-> FALSE, try |-> 0, due |-> FALSE]
    /\ net = [open |-> {}, peer |-> "none"]
    /\ pc = [sv |-> "loop", ka |-> "loop"]
    /\ target = "IDLE" /\ loaded = 0

At(t, l) == pc[t] = l
Goto(t, l) == pc' = [pc EXCEPT ![t] = l]

Dispatch(s) == At("sv", "loop") /\ ctx.state = s
change_state(s) == target' = s /\ Goto("sv", "change")

(* keepAliveAccept *)
Accept(k) == [active |-> k.active, due |-> FALSE, try |-> 0, error |-> FALSE]

-----------------------------------------------------------------------------
(* cmd_server_task.                                                        *)

ChangeState ==
    /\ At("sv", "change") /\ Goto("sv", "loop")
    /\ ctx' = [ctx EXCEPT !.state = target]
    /\ UNCHANGED <<keep, net, target, loaded>>

Idle ==
    /\ Dispatch("IDLE") /\ ctx.start
    /\ ctx' = [ctx EXCEPT !.disconnect_req = FALSE]
    /\ change_state("CREATE_SOC")
    /\ UNCHANGED <<keep, net, loaded>>

(* socket, bind and listen; the descriptor is kept when bind or listen     *)
(* fails, and CLOSE_SOC closes it.                                         *)
CreateSoc ==
    /\ Dispatch("CREATE_SOC") /\ ctx.socket = NoFd
    /\ \E fd \in Fds \ net.open, s \in {"LISTEN", "CLOSE_SOC"} :
          /\ ctx' = [ctx EXCEPT !.socket = fd]
          /\ net' = [net EXCEPT !.open = @ \union {fd}]
          /\ change_state(s)
    /\ UNCHANGED <<keep, loaded>>

(* A socket left over is closed first.  When socket fails the code goes on *)
(* with -1, and bind fails.                                                *)
CreateSocFails ==
    /\ Dispatch("CREATE_SOC")
    /\ change_state("CLOSE_SOC")
    /\ UNCHANGED <<ctx, keep, net, loaded>>

MustClose == ~ctx.start \/ ctx.disconnect_req

(* LISTEN and READY: leave, or wait in select for 1.1 s. *)
BeforeSelect ==
    /\ Dispatch("LISTEN") \/ Dispatch("READY")
    /\ IF MustClose
       THEN change_state("CLOSE_SOC")
       ELSE Goto("sv", "select") /\ UNCHANGED target
    /\ UNCHANGED <<ctx, keep, net, loaded>>

SelectTimesOut ==
    /\ At("sv", "select") /\ Goto("sv", "loop")
    /\ UNCHANGED <<ctx, keep, net, target, loaded>>

(* select, accept or read fails. *)
SelectFails ==
    /\ At("sv", "select")
    /\ change_state("CLOSE_SOC")
    /\ UNCHANGED <<ctx, keep, net, loaded>>

ListenAccept ==
    /\ At("sv", "select") /\ ctx.state = "LISTEN" /\ Goto("sv", "accepted")
    /\ \E fd \in Fds \ net.open :
          /\ ctx' = [ctx EXCEPT !.client_socket = fd]
          /\ net' = [open |-> net.open \union {fd}, peer |-> "talking"]
    /\ UNCHANGED <<keep, target, loaded>>

(* Mutant: the keep-alive is not activated.                              *)
KeepAliveStart_NotActive ==
    /\ At("sv", "accepted") /\ Goto("sv", "activated")
    /\ keep' = [keep EXCEPT !.error = FALSE]
    /\ UNCHANGED <<ctx, net, target, loaded>>

(* The entry is active while it still has the tries and the deadline of    *)
(* the connection before.                                                  *)
KeepAliveStart ==
    /\ At("sv", "accepted") /\ Goto("sv", "activated")
    /\ keep' = [keep EXCEPT !.active = TRUE, !.error = FALSE]
    /\ UNCHANGED <<ctx, net, target, loaded>>

KeepAliveAccept ==
    /\ At("sv", "activated") /\ Goto("sv", "watched")
    /\ keep' = Accept(keep)
    /\ UNCHANGED <<ctx, net, target, loaded>>

ListenDone ==
    /\ At("sv", "watched")
    /\ ctx' = [ctx EXCEPT !.is_connected = TRUE]
    /\ change_state("READY")
    /\ UNCHANGED <<keep, net, loaded>>

(* After select only ctx.start is looked at again; an end of file ends the *)
(* connection.                                                             *)
ReadyRead ==
    /\ At("sv", "select") /\ ctx.state = "READY" /\ net.peer \in {"talking", "closed"}
    /\ change_state(IF ctx.start /\ net.peer = "talking" THEN "PARSE_RESPONSE" ELSE "CLOSE_SOC")
    /\ UNCHANGED <<ctx, keep, net, loaded>>

ParseAccept ==
    /\ Dispatch("PARSE_RESPONSE") /\ Goto("sv", "parsed")
    /\ keep' = Accept(keep)
    /\ UNCHANGED <<ctx, net, target, loaded>>

ParseDone ==
    /\ At("sv", "parsed")
    /\ change_state(IF MustClose THEN "CLOSE_SOC" ELSE "READY")
    /\ UNCHANGED <<ctx, keep, net, loaded>>

(* Mutant: the client is forgotten and not closed.                       *)
CloseClient_Forgets ==
    /\ Dispatch("CLOSE_SOC") /\ Goto("sv", "close")
    /\ ctx' = [ctx EXCEPT !.client_socket = NoFd]
    /\ UNCHANGED <<keep, net, target, loaded>>

CloseClient ==
    /\ Dispatch("CLOSE_SOC") /\ Goto("sv", "close")
    /\ ctx' = [ctx EXCEPT !.client_socket = NoFd]
    /\ net' = [open |-> net.open \ {ctx.client_socket}, peer |-> "none"]
    /\ UNCHANGED <<keep, target, loaded>>

(* Mutant: the listener stays open.                                      *)
CloseListener_Kept ==
    /\ At("sv", "close")
    /\ net' = [net EXCEPT !.open = @ \ {ctx.socket}]
    /\ change_state("CHECK_ERRORS")
    /\ UNCHANGED <<ctx, keep, loaded>>

(* keepAliveStop is commented out: the keep-alive runs on. *)
CloseListener ==
    /\ At("sv", "close")
    /\ ctx' = [ctx EXCEPT !.socket = NoFd]
    /\ net' = [net EXCEPT !.open = @ \ {ctx.socket}]
    /\ change_state("CHECK_ERRORS")
    /\ UNCHANGED <<keep, loaded>>

CheckErrors ==
    /\ Dispatch("CHECK_ERRORS")
    /\ ctx' = [ctx EXCEPT !.disconnect_req = FALSE]
    /\ change_state("IDLE")
    /\ UNCHANGED <<keep, net, loaded>>

ServerTask ==
    \/ ChangeState \/ Idle \/ CreateSoc \/ CreateSocFails
    \/ BeforeSelect \/ SelectTimesOut \/ SelectFails
    \/ ListenAccept \/ KeepAliveStart \/ KeepAliveAccept \/ ListenDone
    \/ ReadyRead \/ ParseAccept \/ ParseDone
    \/ CloseClient \/ CloseListener \/ CheckErrors

-----------------------------------------------------------------------------
(* keepAliveProcess, for the entry of this server.                         *)

(* Mutant: one try too many.                                             *)
TriesLeft_OneMore == keep.try <= TRY

TriesLeft == keep.try < TRY

KeepAliveScan ==
    /\ At("ka", "loop")
    /\ ~keep.error /\ keep.active /\ keep.due
    /\ Goto("ka", IF TriesLeft THEN "send" ELSE "give_up")
    /\ UNCHANGED <<ctx, keep, net, target, loaded>>

(* keepAliveSend: the second byte of the frame is not CMD_REQUEST, so      *)
(* cmdServerSendDataWaitResp returns false and nothing is sent.            *)
SendCheck ==
    /\ At("ka", "send")
    /\ Goto("ka", IF ctx.state \in {"READY", "PARSE_RESPONSE"} THEN "send_failed" ELSE "load")
    /\ UNCHANGED <<ctx, keep, net, target, loaded>>

SendFailed ==
    /\ At("ka", "send_failed") /\ Goto("ka", "load")
    /\ ctx' = [ctx EXCEPT !.disconnect_req = TRUE]
    /\ UNCHANGED <<keep, net, target, loaded>>

KeepAliveLoad ==
    /\ At("ka", "load") /\ Goto("ka", "store")
    /\ loaded' = keep.try
    /\ UNCHANGED <<ctx, keep, net, target>>

KeepAliveStore ==
    /\ At("ka", "store") /\ Goto("ka", "loop")
    /\ keep' = [keep EXCEPT !.try = loaded + 1, !.due = FALSE]
    /\ loaded' = 0
    /\ UNCHANGED <<ctx, net, target>>

KeepAliveGiveUp ==
    /\ At("ka", "give_up") /\ Goto("ka", "error_cb")
    /\ keep' = [keep EXCEPT !.error = TRUE]
    /\ UNCHANGED <<ctx, net, target, loaded>>

(* cmdServerErrorKACb *)
ErrorDisconnects ==
    /\ At("ka", "error_cb") /\ Goto("ka", "not_connected")
    /\ ctx' = [ctx EXCEPT !.disconnect_req = TRUE]
    /\ UNCHANGED <<keep, net, target, loaded>>

(* Mutant: the error callback leaves is_connected set.                   *)
ErrorNotConnected_Missing ==
    /\ At("ka", "not_connected") /\ Goto("ka", "loop")
    /\ UNCHANGED <<ctx, keep, net, target, loaded>>

ErrorNotConnected ==
    /\ At("ka", "not_connected") /\ Goto("ka", "loop")
    /\ ctx' = [ctx EXCEPT !.is_connected = FALSE]
    /\ UNCHANGED <<keep, net, target, loaded>>

KeepAliveTask ==
    \/ KeepAliveScan \/ SendCheck \/ SendFailed \/ KeepAliveLoad \/ KeepAliveStore
    \/ KeepAliveGiveUp \/ ErrorDisconnects \/ ErrorNotConnected

-----------------------------------------------------------------------------
(* The Wi-Fi callbacks, time and the client.                               *)

WifiCallback ==
    /\ \E b \in BOOLEAN \ {ctx.start} : ctx' = [ctx EXCEPT !.start = b]
    /\ UNCHANGED <<keep, net, pc, target, loaded>>

DeadlinePasses ==
    /\ ~keep.due
    /\ keep' = [keep EXCEPT !.due = TRUE]
    /\ UNCHANGED <<ctx, net, pc, target, loaded>>

PeerChanges ==
    /\ net.peer \in {"talking", "silent"}
    /\ \E p \in {"talking", "silent", "closed"} \ {net.peer} : net' = [net EXCEPT !.peer = p]
    /\ UNCHANGED <<ctx, keep, pc, target, loaded>>

Next ==
    \/ ServerTask \/ KeepAliveTask
    \/ WifiCallback \/ DeadlinePasses \/ PeerChanges

(* Both tasks run, the deadline passes in the end, and socket, bind and    *)
(* listen do not fail for ever.                                            *)
Fairness ==
    /\ WF_vars(ServerTask) /\ WF_vars(KeepAliveTask) /\ WF_vars(DeadlinePasses)
    /\ SF_vars(CreateSoc /\ target' = "LISTEN")

Spec == Init /\ [][Next]_vars /\ Fairness

-----------------------------------------------------------------------------
States == {"IDLE", "CREATE_SOC", "LISTEN", "READY", "PARSE_RESPONSE", "CLOSE_SOC", "CHECK_ERRORS"}
Descriptors == Fds \union {NoFd}
Contexts == [state : States, socket : Descriptors, client_socket : Descriptors,
             start : BOOLEAN, disconnect_req : BOOLEAN, is_connected : BOOLEAN]
Keeps == [active : BOOLEAN, error : BOOLEAN, try : 0..TRY, due : BOOLEAN]
Nets == [open : SUBSET Fds, peer : {"none", "talking", "silent", "closed"}]
Labels == [sv |-> {"loop", "change", "select", "accepted", "activated", "watched", "parsed",
                   "close"},
           ka |-> {"loop", "send", "send_failed", "load", "store", "give_up", "error_cb",
                   "not_connected"}]

TypeOK ==
    /\ ctx \in Contexts /\ keep \in Keeps /\ net \in Nets
    /\ pc \in [sv : Labels.sv, ka : Labels.ka]
    /\ target \in States /\ loaded \in 0..TRY

(* Both sockets are closed in the end: the descriptors that are open are   *)
(* the two of ctx, and a connection in use has its socket.                 *)
SocketsOwned ==
    /\ net.open = {ctx.socket, ctx.client_socket} \ {NoFd}
    /\ ctx.state \in {"READY", "PARSE_RESPONSE"} =>
          ctx.client_socket # NoFd /\ ctx.client_socket # ctx.socket

(* A client that falls silent is dropped: keepAliveSend asks for it at the *)
(* first deadline, whatever the races with keepAliveStart.                 *)
SilentClientDropped ==
    (ctx.state = "READY" /\ net.peer = "silent") ~> (ctx.state # "READY" \/ net.peer # "silent")

(* cmdServerIsWorking does not stay true without a client, although only   *)
(* the keep-alive clears it.  Only an error that it raised during the      *)
(* accept, after keepAliveStart, is raised too early to do so.             *)
NotWorkingInTheEnd ==
    (ctx.is_connected /\ net.peer = "none" /\ ~keep.error)
        ~> (~ctx.is_connected \/ net.peer # "none")

(* As long as Wi-Fi is up the server returns to where clients can reach    *)
(* it, whatever the keep-alive requests.                                   *)
ServesAgain == <>[]ctx.start => []<>(ctx.state \in {"LISTEN", "READY"})
=============================================================================
