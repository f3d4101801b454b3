-------------------------- MODULE CmdServerProofs --------------------------
(* Theorems about the command server, for any descriptors and any number   *)
(* of keep-alive tries.                                                    *)
EXTENDS CmdServer, TLAPS

(* The state the server task is in, or on its way to.                      *)
Heading == IF At("sv", "change") THEN target ELSE ctx.state

(* What each point of the server task knows of its sockets.  The client's  *)
(* descriptor is given out while the listener's is in use: they differ.    *)
Owned == net.open = {ctx.socket, ctx.client_socket} \ {NoFd}
Distinct == ctx.socket = ctx.client_socket => ctx.socket = NoFd

ClientInv ==
    /\ Heading \in {"IDLE", "CREATE_SOC", "LISTEN", "CHECK_ERRORS"} =>
          pc.sv \in {"accepted", "activated", "watched"} \/ ctx.client_socket = NoFd
    /\ Heading \in {"READY", "PARSE_RESPONSE"} => ctx.client_socket # NoFd
    /\ ctx.state \in {"READY", "PARSE_RESPONSE"} => ctx.client_socket # NoFd
    /\ pc.sv \in {"accepted", "activated", "watched"} =>
          ctx.state = "LISTEN" /\ ctx.client_socket # NoFd
    /\ At("sv", "select") => ctx.state \in {"LISTEN", "READY"}
    /\ At("sv", "parsed") => ctx.state = "PARSE_RESPONSE"
    /\ At("sv", "close") => ctx.state = "CLOSE_SOC" /\ ctx.client_socket = NoFd

SocketInv == Owned /\ Distinct /\ ClientInv

(* keepAliveProcess sends, and counts, only while tries are left. *)
TriesInv ==
    /\ pc.ka \in {"send", "send_failed", "load"} => keep.try < TRY
    /\ At("ka", "store") => loaded < TRY

IInv == TypeOK /\ SocketInv /\ TriesInv

Others == KeepAliveTask \/ WifiCallback \/ DeadlinePasses \/ PeerChanges

(* What the other tasks, time and the client leave alone. *)
OthersFrame ==
    /\ ctx'.state = ctx.state /\ ctx'.socket = ctx.socket
    /\ ctx'.client_socket = ctx.client_socket
    /\ net'.open = net.open
    /\ pc'.sv = pc.sv /\ target' = target

-----------------------------------------------------------------------------
LEMMA InitIInv == Init => IInv
  <1> SUFFICES ASSUME Init PROVE IInv
    OBVIOUS
  <1>1. ctx \in Contexts /\ net \in Nets /\ keep \in Keeps /\ loaded \in 0..TRY
    BY TryAssumption DEF Init, Contexts, Nets, Keeps, States, Descriptors
  <1>2. pc \in [sv : Labels.sv, ka : Labels.ka] /\ target \in States
    BY DEF Init, Labels, States
  <1>3. SocketInv /\ TriesInv
    BY DEF Init, SocketInv, Owned, Distinct, ClientInv, Heading, TriesInv, At
  <1> QED BY <1>1, <1>2, <1>3 DEF IInv, TypeOK

LEMMA AcceptOK ==
    ASSUME NEW k \in Keeps
    PROVE  Accept(k) \in Keeps /\ Accept(k).try = 0
  <1>1. 0 \in 0..TRY
    BY TryAssumption
  <1> QED BY <1>1 DEF Keeps, Accept

(* The other tasks keep the types, the tries and the frame. *)
LEMMA OtherStep == TypeOK /\ TriesInv /\ Others => TypeOK' /\ TriesInv' /\ OthersFrame
  <1> SUFFICES ASSUME TypeOK, TriesInv, Others PROVE TypeOK' /\ TriesInv' /\ OthersFrame
    OBVIOUS
  <1> USE TryAssumption DEF At, Goto
  <1>1. CASE KeepAliveScan \/ SendCheck \/ SendFailed \/ KeepAliveGiveUp
             \/ ErrorDisconnects \/ ErrorNotConnected
    <2>1. pc' \in [sv : Labels.sv, ka : Labels.ka] /\ pc'.sv = pc.sv
      BY <1>1 DEF KeepAliveScan, SendCheck, SendFailed, KeepAliveGiveUp, ErrorDisconnects,
                  ErrorNotConnected, TypeOK, Labels
    <2>2. /\ ctx' \in Contexts /\ ctx'.state = ctx.state
          /\ ctx'.socket = ctx.socket /\ ctx'.client_socket = ctx.client_socket
      BY <1>1 DEF KeepAliveScan, SendCheck, SendFailed, KeepAliveGiveUp, ErrorDisconnects,
                  ErrorNotConnected, TypeOK, Contexts
    <2>3. keep' \in Keeps /\ keep'.try = keep.try
      BY <1>1 DEF KeepAliveScan, SendCheck, SendFailed, KeepAliveGiveUp, ErrorDisconnects,
                  ErrorNotConnected, TypeOK, Keeps
    <2>4. net' = net /\ target' = target /\ loaded' = loaded
      BY <1>1 DEF KeepAliveScan, SendCheck, SendFailed, KeepAliveGiveUp, ErrorDisconnects,
                  ErrorNotConnected
    <2>5. pc'.ka # "store" /\ (pc'.ka \in {"send", "send_failed", "load"} => keep.try < TRY)
      BY <1>1 DEF KeepAliveScan, SendCheck, SendFailed, KeepAliveGiveUp, ErrorDisconnects,
                  ErrorNotConnected, TriesInv, TriesLeft, TypeOK
    <2>6. TriesInv'
      BY <2>3, <2>5 DEF TriesInv
    <2> QED BY <2>1, <2>2, <2>3, <2>4, <2>6 DEF TypeOK, OthersFrame
  <1>2. CASE KeepAliveLoad
    BY <1>2 DEF KeepAliveLoad, TypeOK, Labels, Keeps, TriesInv, OthersFrame
  <1>3. CASE KeepAliveStore
    <2>1. loaded + 1 \in 0..TRY /\ 0 \in 0..TRY
      BY <1>3 DEF KeepAliveStore, TriesInv, TypeOK
    <2>2. keep' \in Keeps
      BY <1>3, <2>1 DEF KeepAliveStore, TypeOK, Keeps
    <2> QED BY <1>3, <2>1, <2>2 DEF KeepAliveStore, TypeOK, Labels, TriesInv, OthersFrame
  <1>4. CASE WifiCallback
    BY <1>4 DEF WifiCallback, TypeOK, Contexts, TriesInv, OthersFrame
  <1>5. CASE DeadlinePasses
    BY <1>5 DEF DeadlinePasses, TypeOK, Keeps, TriesInv, OthersFrame
  <1>6. CASE PeerChanges
    BY <1>6 DEF PeerChanges, TypeOK, Nets, TriesInv, OthersFrame
  <1> QED BY <1>1, <1>2, <1>3, <1>4, <1>5, <1>6 DEF Others, KeepAliveTask

LEMMA OthersKeepSocketInv == SocketInv /\ OthersFrame => SocketInv'
  BY DEF SocketInv, Owned, Distinct, ClientInv, Heading, At, OthersFrame

-----------------------------------------------------------------------------
LEMMA ServerTypes == TypeOK /\ TriesInv /\ ServerTask => TypeOK' /\ TriesInv'
  <1> SUFFICES ASSUME TypeOK, TriesInv, ServerTask PROVE TypeOK' /\ TriesInv'
    OBVIOUS
  <1>1. pc' \in [sv : Labels.sv, ka : Labels.ka] /\ pc'.ka = pc.ka
    BY DEF ServerTask, ChangeState, Idle, CreateSoc, CreateSocFails, BeforeSelect,
           SelectTimesOut, SelectFails, ListenAccept, KeepAliveStart, KeepAliveAccept, ListenDone,
           ReadyRead, ParseAccept, ParseDone, CloseClient, CloseListener, CheckErrors,
           change_state, Goto, TypeOK, Labels
  <1>2. target' \in States
    BY DEF ServerTask, ChangeState, Idle, CreateSoc, CreateSocFails, BeforeSelect,
           SelectTimesOut, SelectFails, ListenAccept, KeepAliveStart, KeepAliveAccept, ListenDone,
           ReadyRead, ParseAccept, ParseDone, CloseClient, CloseListener, CheckErrors,
           change_state, TypeOK, States
  <1>3. ctx' \in Contexts
    BY DEF ServerTask, ChangeState, Idle, CreateSoc, CreateSocFails, BeforeSelect,
           SelectTimesOut, SelectFails, ListenAccept, KeepAliveStart, KeepAliveAccept, ListenDone,
           ReadyRead, ParseAccept, ParseDone, CloseClient, CloseListener, CheckErrors,
           TypeOK, Contexts, Descriptors
  <1>4. net' \in Nets
    BY DEF ServerTask, ChangeState, Idle, CreateSoc, CreateSocFails, BeforeSelect,
           SelectTimesOut, SelectFails, ListenAccept, KeepAliveStart, KeepAliveAccept, ListenDone,
           ReadyRead, ParseAccept, ParseDone, CloseClient, CloseListener, CheckErrors, TypeOK, Nets
  <1>5. keep' \in Keeps /\ keep'.try \in {keep.try, 0}
    <2>1. keep' \in {keep, Accept(keep), [keep EXCEPT !.active = TRUE, !.error = FALSE]}
      BY DEF ServerTask, ChangeState, Idle, CreateSoc, CreateSocFails, BeforeSelect,
           SelectTimesOut, SelectFails, ListenAccept, KeepAliveStart, KeepAliveAccept, ListenDone,
           ReadyRead, ParseAccept, ParseDone, CloseClient, CloseListener, CheckErrors
    <2> QED BY <2>1, AcceptOK DEF TypeOK, Keeps
  <1>6. loaded' = loaded
    BY DEF ServerTask, ChangeState, Idle, CreateSoc, CreateSocFails, BeforeSelect,
           SelectTimesOut, SelectFails, ListenAccept, KeepAliveStart, KeepAliveAccept, ListenDone,
           ReadyRead, ParseAccept, ParseDone, CloseClient, CloseListener, CheckErrors
  <1>7. TriesInv'
    BY <1>1, <1>5, <1>6, TryAssumption DEF TriesInv, At
  <1> QED BY <1>1, <1>2, <1>3, <1>4, <1>5, <1>6, <1>7 DEF TypeOK

(* One step per action that gives out or closes a descriptor. *)
LEMMA ServerKeepsSocketInv == TypeOK /\ SocketInv /\ ServerTask => SocketInv'
  <1> SUFFICES ASSUME TypeOK, SocketInv, ServerTask PROVE SocketInv'
    OBVIOUS
  <1> USE FdsAssumption
          DEF SocketInv, ClientInv, Heading, At, Goto, Dispatch, change_state, TypeOK, Labels
  <1>1. CASE CreateSoc
    <2>1. PICK fd \in Fds \ net.open :
              ctx' = [ctx EXCEPT !.socket = fd] /\ net' = [net EXCEPT !.open = @ \union {fd}]
      BY <1>1 DEF CreateSoc
    <2>2. ctx.socket = NoFd /\ ctx.client_socket = NoFd
      BY <1>1 DEF CreateSoc
    <2>3. /\ ctx'.socket = fd /\ ctx'.client_socket = NoFd /\ ctx'.state = "CREATE_SOC"
          /\ net'.open = {fd} /\ fd # NoFd
      BY <1>1, <2>1, <2>2 DEF CreateSoc, Contexts, Nets, Owned
    <2>4. Owned' /\ Distinct'
      BY <2>3 DEF Owned, Distinct
    <2>5. ClientInv'
      BY <1>1, <2>3 DEF CreateSoc
    <2> QED BY <2>4, <2>5
  <1>2. CASE ListenAccept
    <2>1. PICK fd \in Fds \ net.open :
              /\ ctx' = [ctx EXCEPT !.client_socket = fd]
              /\ net' = [open |-> net.open \union {fd}, peer |-> "talking"]
      BY <1>2 DEF ListenAccept
    <2>2. ctx.client_socket = NoFd /\ ctx.state = "LISTEN" /\ fd # NoFd /\ fd # ctx.socket
      BY <1>2 DEF ListenAccept, Owned
    <2>3. /\ ctx'.socket = ctx.socket /\ ctx'.client_socket = fd /\ ctx'.state = "LISTEN"
          /\ net'.open = net.open \union {fd}
      BY <2>1, <2>2 DEF Contexts
    <2>4. Owned' /\ Distinct'
      BY <2>2, <2>3 DEF Owned, Distinct
    <2>5. ClientInv'
      BY <1>2, <2>2, <2>3 DEF ListenAccept
    <2> QED BY <2>4, <2>5
  <1>3. CASE CloseClient
    <2>1. /\ ctx'.socket = ctx.socket /\ ctx'.client_socket = NoFd /\ ctx'.state = "CLOSE_SOC"
          /\ net'.open = net.open \ {ctx.client_socket}
      BY <1>3 DEF CloseClient, Contexts
    <2>2. Owned' /\ Distinct'
      BY <2>1 DEF Owned, Distinct
    <2>3. ClientInv'
      BY <1>3, <2>1 DEF CloseClient
    <2> QED BY <2>2, <2>3
  <1>4. CASE CloseListener
    <2>1. /\ ctx'.socket = NoFd /\ ctx'.client_socket = NoFd /\ ctx'.state = "CLOSE_SOC"
          /\ net'.open = net.open \ {ctx.socket} /\ ctx.client_socket = NoFd
      BY <1>4 DEF CloseListener, Contexts, Nets
    <2>2. Owned' /\ Distinct'
      BY <2>1 DEF Owned, Distinct
    <2>3. ClientInv'
      BY <1>4, <2>1 DEF CloseListener
    <2> QED BY <2>2, <2>3
  <1>5. CASE ~(CreateSoc \/ ListenAccept \/ CloseClient \/ CloseListener)
    <2>1. ctx'.socket = ctx.socket /\ ctx'.client_socket = ctx.client_socket /\ net' = net
      BY <1>5 DEF ServerTask, ChangeState, Idle, CreateSocFails, BeforeSelect, SelectTimesOut,
                  SelectFails, KeepAliveStart, KeepAliveAccept, ListenDone, ReadyRead,
                  ParseAccept, ParseDone, CheckErrors, Contexts
    <2>2. Owned' /\ Distinct'
      BY <2>1 DEF Owned, Distinct
    <2>3. CASE ChangeState \/ Idle \/ CreateSocFails \/ BeforeSelect \/ SelectTimesOut
               \/ SelectFails
      BY <2>1, <2>2, <2>3 DEF ChangeState, Idle, CreateSocFails, BeforeSelect, SelectTimesOut,
                  SelectFails, Contexts
    <2>4. CASE KeepAliveStart \/ KeepAliveAccept \/ ListenDone \/ ReadyRead
               \/ ParseAccept \/ ParseDone \/ CheckErrors
      BY <2>1, <2>2, <2>4 DEF KeepAliveStart, KeepAliveAccept, ListenDone, ReadyRead,
                  ParseAccept, ParseDone, CheckErrors, Contexts
    <2> QED BY <1>5, <2>3, <2>4 DEF ServerTask
  <1> QED BY <1>1, <1>2, <1>3, <1>4, <1>5

LEMMA StepIInv == IInv /\ [Next]_vars => IInv'
  <1> SUFFICES ASSUME IInv, [Next]_vars PROVE IInv'
    OBVIOUS
  <1>1. CASE ServerTask
    BY <1>1, ServerTypes, ServerKeepsSocketInv DEF IInv
  <1>2. CASE Others
    BY <1>2, OtherStep, OthersKeepSocketInv DEF IInv
  <1>3. CASE UNCHANGED vars
    BY <1>3 DEF vars, IInv, TypeOK, SocketInv, Owned, Distinct, ClientInv, Heading, TriesInv, At
  <1> QED BY <1>1, <1>2, <1>3 DEF Next, Others

LEMMA Invariant == Spec => []IInv
  <1> QED BY InitIInv, StepIInv, PTL DEF Spec

-----------------------------------------------------------------------------
(* Types are kept; in particular keepAliveTry never exceeds KEEP_ALIVE_TRY, *)
(* although the server task and keepAliveProcess both write it.             *)
THEOREM TypeCorrect == Spec => []TypeOK
  <1>1. IInv => TypeOK
    BY DEF IInv
  <1> QED BY <1>1, Invariant, PTL

(* CLOSE_SOC closes both descriptors, so the server can be stopped and     *)
(* started, and its client replaced, without losing a socket.              *)
THEOREM SocketsAreOwned == Spec => []SocketsOwned
  <1>1. IInv => SocketsOwned
    BY DEF IInv, SocketInv, Owned, Distinct, ClientInv, SocketsOwned
  <1> QED BY <1>1, Invariant, PTL
=============================================================================
