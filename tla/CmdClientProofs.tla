-------------------------- MODULE CmdClientProofs --------------------------
(* Theorems about the command client, for any descriptors and any number   *)
(* of keep-alive tries.                                                    *)
EXTENDS CmdClient, TLAPS

(* What the client task knows of the socket and of the keep-alive at each  *)
(* of its points, although the request task may write CLOSE_SOC over       *)
(* ctx.state at any time.                                                  *)
Connected == ctx.socket \in Fds /\ net.open = {ctx.socket}
NoSocket == ctx.socket = NoFd /\ net.open = {}
Rest == NoSocket /\ ~keep.active

StateInv ==
    /\ At("cl", "loop") =>
          /\ ctx.state \in {"IDLE", "CREATE_SOC", "CHECK_ERRORS"} => Rest
          /\ ctx.state = "CONNECT_SERVER" => Connected /\ ~keep.active
          /\ ctx.state = "READY" => Connected
          /\ ctx.state = "CLOSE_SOC" => Connected \/ NoSocket
    /\ pc["cl"] \in {"idle_stop", "idle_ack", "idle_start"} =>
          ctx.state \in {"IDLE", "CLOSE_SOC"} /\ Rest
    /\ pc["cl"] \in {"connected", "activated", "set_ready"} =>
          ctx.state \in {"CONNECT_SERVER", "CLOSE_SOC"} /\ Connected
    /\ pc["cl"] \in {"closed", "keep_stop", "set_check"} =>
          ctx.state = "CLOSE_SOC" /\ net.open = {}
    /\ pc["cl"] \in {"keep_stop", "set_check"} => ctx.socket = NoFd
    /\ At("cl", "set_check") => ~keep.active

(* keepAliveProcess sends, and counts, only while tries are left.  What    *)
(* keepAliveAccept writes in between can only put the count back to 0.     *)
TriesInv ==
    /\ pc["ka"] \in {"send", "transmit", "sent", "load"} => keep.try < TRY
    /\ At("ka", "store") => loaded < TRY

IInv == TypeOK /\ StateInv /\ TriesInv

(* What the steps of the other tasks, of time and of the network leave     *)
(* alone, as far as StateInv can tell.                                     *)
OthersFrame ==
    /\ ctx'.state \in {ctx.state, "CLOSE_SOC"}
    /\ ctx'.socket = ctx.socket
    /\ keep'.active = keep.active
    /\ net'.open = net.open
    /\ pc'["cl"] = pc["cl"]

(* What the tasks other than keepAliveProcess do to its count. *)
TriesFrame ==
    /\ keep'.try \in {keep.try, 0}
    /\ loaded' = loaded
    /\ pc'["ka"] = pc["ka"]

Others ==
    \/ RequestTask \/ KeepAliveTask
    \/ WifiConnected \/ WifiStarted \/ WifiDisconnected \/ AppDisconnect \/ AppTryConnect
    \/ DeadlinePasses \/ LinkChanges

-----------------------------------------------------------------------------
PcOK ==
    /\ pc \in [Tasks -> UNION {Labels[t] : t \in Tasks}]
    /\ \A t \in Tasks : pc[t] \in Labels[t]

LEMMA InitIInv == Init => IInv
  <1> SUFFICES ASSUME Init PROVE IInv
    OBVIOUS
  <1>1. ctx \in Contexts /\ net \in Nets
    BY DEF Init, Contexts, Nets, States
  <1>2. keep \in Keeps /\ loaded \in 0..TRY
    BY TryAssumption DEF Init, Keeps
  <1>3. \A t \in Tasks : "loop" \in Labels[t]
    BY DEF Tasks, Labels
  <1>4. PcOK
    BY <1>3 DEF Init, PcOK
  <1>5. StateInv /\ TriesInv
    BY DEF Init, StateInv, TriesInv, At, Rest, NoSocket, Tasks
  <1> QED BY <1>1, <1>2, <1>4, <1>5 DEF Init, IInv, TypeOK, PcOK

(* A task that moves to one of its points leaves the other tasks alone.    *)
LEMMA GotoOK ==
    ASSUME TypeOK, NEW t \in Tasks, NEW l \in Labels[t], Goto(t, l)
    PROVE  PcOK' /\ pc'[t] = l /\ \A u \in Tasks \ {t} : pc'[u] = pc[u]
  BY DEF TypeOK, Goto, PcOK

LEMMA AcceptOK ==
    ASSUME NEW k \in Keeps
    PROVE  Accept(k) \in Keeps /\ Accept(k).active = k.active /\ Accept(k).try = 0
  <1>1. 0 \in 0..TRY
    BY TryAssumption
  <1> QED BY <1>1 DEF Keeps, Accept

(* A send by either task keeps the types, and leaves ctx and net alone.    *)
LEMMA SendStep ==
    ASSUME TypeOK, NEW t \in {"rq", "ka"},
           SendCheck(t) \/ SendTransmit(t) \/ SendAccept(t)
    PROVE  /\ TypeOK' /\ OthersFrame
           /\ t = "rq" => TriesFrame
           /\ t = "ka" /\ TriesInv => TriesInv'
  <1>1. ctx' = ctx /\ net' = net /\ (keep' = keep \/ keep' = Accept(keep))
    BY DEF SendCheck, SendTransmit, SendAccept
  <1>2. loaded' = loaded /\ selected' = selected /\ lastSendFailed' \in BOOLEAN
    BY DEF SendCheck, SendTransmit, SendAccept, SendReturns, local, TypeOK
  <1>3. keep' \in Keeps /\ keep'.active = keep.active /\ keep'.try \in {keep.try, 0}
    BY <1>1, AcceptOK DEF TypeOK
  <1>4. PICK l \in Labels[t] : Goto(t, l)
    <2>1. CASE t = "rq"
      BY <2>1 DEF SendCheck, SendTransmit, SendAccept, SendReturns, Labels
    <2>2. CASE t = "ka"
      BY <2>2 DEF SendCheck, SendTransmit, SendAccept, SendReturns, Labels
    <2> QED BY <2>1, <2>2
  <1>5. PcOK' /\ \A u \in Tasks \ {t} : pc'[u] = pc[u]
    <2>1. t \in Tasks
      BY DEF Tasks
    <2> QED BY <1>4, <2>1, GotoOK
  <1>6. TypeOK' /\ OthersFrame
    BY <1>1, <1>2, <1>3, <1>5 DEF TypeOK, PcOK, OthersFrame, Tasks
  <1>7. ASSUME t = "rq" PROVE TriesFrame
    BY <1>2, <1>3, <1>5, <1>7 DEF TriesFrame, Tasks
  <1>8. ASSUME t = "ka", TriesInv PROVE TriesInv'
    <2>1. pc["ka"] \in {"send", "transmit", "sent"}
      BY <1>8 DEF SendCheck, SendTransmit, SendAccept, At
    <2>2. pc'["ka"] # "store"
      BY <1>8 DEF SendCheck, SendTransmit, SendAccept, SendReturns, Goto, TypeOK, Tasks
    <2> QED BY <1>3, <1>8, <2>1, <2>2, TryAssumption DEF TriesInv, At
  <1> QED BY <1>6, <1>7, <1>8

LEMMA RequestStep == TypeOK /\ RequestTask => TypeOK' /\ OthersFrame /\ TriesFrame
  <1> SUFFICES ASSUME TypeOK, RequestTask PROVE TypeOK' /\ OthersFrame /\ TriesFrame
    OBVIOUS
  <1>1. CASE SendCheck("rq") \/ SendTransmit("rq") \/ SendAccept("rq")
    BY <1>1, SendStep
  <1>2. CASE ReadCheck \/ ReadFdSet \/ ReadSelect \/ ReadRecheck \/ ReadRecv \/ ReadAccept
    <2>1. ctx' = ctx \/ ctx' = [ctx EXCEPT !.state = "CLOSE_SOC"]
      BY <1>2 DEF ReadCheck, ReadFdSet, ReadSelect, ReadRecheck, ReadRecv, ReadAccept,
                  ReadFails, change_state
    <2>2. keep' = keep \/ keep' = Accept(keep)
      BY <1>2 DEF ReadCheck, ReadFdSet, ReadSelect, ReadRecheck, ReadRecv, ReadAccept
    <2>3. /\ net' = net /\ loaded' = loaded /\ lastSendFailed' = lastSendFailed
          /\ selected' \in {selected, ctx.socket}
      BY <1>2 DEF ReadCheck, ReadFdSet, ReadSelect, ReadRecheck, ReadRecv, ReadAccept, local
    <2>4. PICK l \in Labels["rq"] : Goto("rq", l)
      BY <1>2 DEF ReadCheck, ReadFdSet, ReadSelect, ReadRecheck, ReadRecv, ReadAccept,
                  ReadFails, Labels
    <2>5. PcOK' /\ pc'["cl"] = pc["cl"] /\ pc'["ka"] = pc["ka"]
      BY <2>4, GotoOK DEF Tasks
    <2>6. /\ ctx' \in Contexts
          /\ ctx'.state \in {ctx.state, "CLOSE_SOC"} /\ ctx'.socket = ctx.socket
      BY <2>1 DEF TypeOK, States, Contexts
    <2>7. keep' \in Keeps /\ keep'.active = keep.active /\ keep'.try \in {keep.try, 0}
      BY <2>2, AcceptOK DEF TypeOK
    <2>8. selected' \in Fds \union {NoFd}
      BY <2>3 DEF TypeOK, Contexts
    <2> QED BY <2>3, <2>5, <2>6, <2>7, <2>8 DEF TypeOK, PcOK, OthersFrame, TriesFrame
  <1> QED BY <1>1, <1>2 DEF RequestTask

LEMMA KeepAliveStep == TypeOK /\ TriesInv /\ KeepAliveTask => TypeOK' /\ OthersFrame /\ TriesInv'
  <1> SUFFICES ASSUME TypeOK, TriesInv, KeepAliveTask
               PROVE  TypeOK' /\ OthersFrame /\ TriesInv'
    OBVIOUS
  <1>1. CASE SendCheck("ka") \/ SendTransmit("ka") \/ SendAccept("ka")
    BY <1>1, SendStep
  <1>2. CASE KeepAliveScan \/ KeepAliveLoad \/ KeepAliveGiveUp \/ KeepAliveErrorCb
    <2>1. PICK l \in Labels["ka"] : Goto("ka", l)
      BY <1>2 DEF KeepAliveScan, KeepAliveLoad, KeepAliveGiveUp, KeepAliveErrorCb, Labels
    <2>2. PcOK' /\ pc'["cl"] = pc["cl"] /\ pc'["ka"] = l
      BY <2>1, GotoOK DEF Tasks
    <2>3. ctx' \in Contexts /\ ctx'.state = ctx.state /\ ctx'.socket = ctx.socket
      BY <1>2 DEF KeepAliveScan, KeepAliveLoad, KeepAliveGiveUp, KeepAliveErrorCb,
                  TypeOK, Contexts
    <2>4. keep' \in Keeps /\ keep'.active = keep.active /\ keep'.try = keep.try
      BY <1>2 DEF KeepAliveScan, KeepAliveLoad, KeepAliveGiveUp, KeepAliveErrorCb,
                  TypeOK, Keeps
    <2>5. /\ net' = net /\ selected' = selected /\ lastSendFailed' = lastSendFailed
          /\ loaded' \in 0..TRY
      BY <1>2 DEF KeepAliveScan, KeepAliveLoad, KeepAliveGiveUp, KeepAliveErrorCb, local,
                  TypeOK, Keeps
    <2>6. \/ pc'["ka"] = "send" /\ keep.try < TRY
          \/ pc'["ka"] = "store" /\ keep.try < TRY /\ loaded' = keep.try
          \/ pc'["ka"] \in {"give_up", "error_cb", "loop"}
      BY <1>2 DEF KeepAliveScan, KeepAliveLoad, KeepAliveGiveUp, KeepAliveErrorCb, Goto, At,
                  TriesInv, TriesLeft, TypeOK, Tasks
    <2>7. TriesInv'
      BY <2>4, <2>6 DEF TriesInv, At
    <2> QED BY <2>2, <2>3, <2>4, <2>5, <2>7 DEF TypeOK, PcOK, OthersFrame
  <1>3. CASE KeepAliveStore
    <2>1. PcOK' /\ pc'["cl"] = pc["cl"] /\ pc'["ka"] = "loop"
      BY <1>3, GotoOK DEF KeepAliveStore, Tasks, Labels
    <2>2. loaded + 1 \in 0..TRY /\ 0 \in 0..TRY
      BY <1>3, TryAssumption DEF KeepAliveStore, TriesInv, TypeOK
    <2>3. keep' \in Keeps /\ keep'.active = keep.active /\ loaded' \in 0..TRY
      BY <1>3, <2>2 DEF KeepAliveStore, TypeOK, Keeps
    <2> QED BY <1>3, <2>1, <2>3 DEF KeepAliveStore, TypeOK, PcOK, OthersFrame, TriesInv, At
  <1> QED BY <1>1, <1>2, <1>3 DEF KeepAliveTask

(* The callers of the module, time and the network. *)
LEMMA OtherStep == TypeOK /\ TriesInv /\ Others => TypeOK' /\ OthersFrame /\ TriesInv'
  <1> SUFFICES ASSUME TypeOK, TriesInv, Others PROVE TypeOK' /\ OthersFrame /\ TriesInv'
    OBVIOUS
  <1>1. CASE WifiConnected \/ WifiStarted \/ WifiDisconnected \/ AppDisconnect \/ AppTryConnect
             \/ DeadlinePasses \/ LinkChanges
    <2>1. pc' = pc \/ \E l \in Labels["wf"] : Goto("wf", l)
      BY <1>1 DEF WifiConnected, WifiStarted, WifiDisconnected, AppDisconnect, AppTryConnect,
                  DeadlinePasses, LinkChanges, Labels
    <2>2. PcOK' /\ pc'["cl"] = pc["cl"] /\ pc'["ka"] = pc["ka"]
      BY <2>1, GotoOK DEF Tasks, TypeOK, PcOK
    <2>3. ctx' \in Contexts /\ ctx'.state = ctx.state /\ ctx'.socket = ctx.socket
      BY <1>1 DEF WifiConnected, WifiStarted, WifiDisconnected, AppDisconnect, AppTryConnect,
                  DeadlinePasses, LinkChanges, TypeOK, Contexts
    <2>4. keep' \in Keeps /\ keep'.active = keep.active /\ keep'.try = keep.try
      BY <1>1 DEF WifiConnected, WifiStarted, WifiDisconnected, AppDisconnect, AppTryConnect,
                  DeadlinePasses, LinkChanges, TypeOK, Keeps
    <2>5. net' \in Nets /\ net'.open = net.open
      BY <1>1 DEF WifiConnected, WifiStarted, WifiDisconnected, AppDisconnect, AppTryConnect,
                  DeadlinePasses, LinkChanges, TypeOK, Nets
    <2>6. loaded' = loaded /\ selected' = selected /\ lastSendFailed' = lastSendFailed
      BY <1>1 DEF WifiConnected, WifiStarted, WifiDisconnected, AppDisconnect, AppTryConnect,
                  DeadlinePasses, LinkChanges, local
    <2>7. TypeOK' /\ OthersFrame
      BY <2>2, <2>3, <2>4, <2>5, <2>6 DEF TypeOK, PcOK, OthersFrame
    <2> QED BY <2>2, <2>4, <2>6, <2>7 DEF TriesInv, At
  <1>2. CASE RequestTask
    <2>1. TypeOK' /\ OthersFrame /\ TriesFrame
      BY <1>2, RequestStep
    <2> QED BY <2>1, TryAssumption DEF TriesInv, TriesFrame, At
  <1>3. CASE KeepAliveTask
    BY <1>3, KeepAliveStep
  <1> QED BY <1>1, <1>2, <1>3 DEF Others

-----------------------------------------------------------------------------
(* The other tasks keep StateInv: all they can do to it is CLOSE_SOC.      *)
LEMMA OthersKeepStateInv == TypeOK /\ StateInv /\ OthersFrame => StateInv'
  BY DEF TypeOK, Contexts, States, StateInv, OthersFrame, At, Rest, NoSocket, Connected

LEMMA ClientTypes == TypeOK /\ TriesInv /\ ClientTask => TypeOK' /\ TriesInv'
  <1> SUFFICES ASSUME TypeOK, TriesInv, ClientTask PROVE TypeOK' /\ TriesInv'
    OBVIOUS
  <1>1. pc' = pc \/ \E l \in Labels["cl"] : Goto("cl", l)
    BY DEF ClientTask, Idle, IdleStop, IdleAck, IdleStart, CreateSoc, CreateSocFails,
              ConnectServer, ConnectServerFails, KeepAliveStart, KeepAliveAccept, SetReady, Ready,
              CloseSoc, CloseForget, KeepAliveStop, SetCheck, CheckErrors, Labels
  <1>2. PcOK' /\ pc'["ka"] = pc["ka"]
    BY <1>1, GotoOK DEF Tasks, TypeOK, PcOK
  <1>3. ctx' \in Contexts
    BY DEF ClientTask, Idle, IdleStop, IdleAck, IdleStart, CreateSoc, CreateSocFails,
              ConnectServer, ConnectServerFails, KeepAliveStart, KeepAliveAccept, SetReady, Ready,
              CloseSoc, CloseForget, KeepAliveStop, SetCheck, CheckErrors,
              TypeOK, Contexts, States, change_state
  <1>4. keep' \in Keeps /\ keep'.try \in {keep.try, 0}
    <2>1. keep' \in {keep, [keep EXCEPT !.active = FALSE],
                    [keep EXCEPT !.active = TRUE, !.error = FALSE], Accept(keep)}
      BY DEF ClientTask, Idle, IdleStop, IdleAck, IdleStart, CreateSoc, CreateSocFails,
              ConnectServer, ConnectServerFails, KeepAliveStart, KeepAliveAccept, SetReady, Ready,
              CloseSoc, CloseForget, KeepAliveStop, SetCheck, CheckErrors
    <2> QED BY <2>1, AcceptOK DEF TypeOK, Keeps
  <1>5. net' \in Nets
    <2>1. CASE CreateSoc
      <3>1. net' = net \/ \E fd \in Fds : net' = [open |-> net.open \union {fd}, link |-> "dead"]
        BY <2>1 DEF CreateSoc
      <3>2. net.open \subseteq Fds
        BY DEF TypeOK, Nets
      <3> QED BY <3>1, <3>2 DEF TypeOK, Nets
    <2>2. CASE CloseSoc
      BY <2>2 DEF CloseSoc, TypeOK, Nets
    <2>3. CASE ConnectServer
      BY <2>3 DEF ConnectServer, TypeOK, Nets
    <2>4. CASE ~(CreateSoc \/ CloseSoc \/ ConnectServer)
      <3>1. net' = net
        BY <2>4 DEF ClientTask, Idle, IdleStop, IdleAck, IdleStart, CreateSocFails,
              ConnectServerFails, KeepAliveStart, KeepAliveAccept, SetReady, Ready,
              CloseForget, KeepAliveStop, SetCheck, CheckErrors
      <3> QED BY <3>1 DEF TypeOK
    <2> QED BY <2>1, <2>2, <2>3, <2>4
  <1>6. loaded' = loaded /\ selected' = selected /\ lastSendFailed' = lastSendFailed
    BY DEF ClientTask, Idle, IdleStop, IdleAck, IdleStart, CreateSoc, CreateSocFails,
              ConnectServer, ConnectServerFails, KeepAliveStart, KeepAliveAccept, SetReady, Ready,
              CloseSoc, CloseForget, KeepAliveStop, SetCheck, CheckErrors, local
  <1>7. TypeOK'
    BY <1>2, <1>3, <1>4, <1>5, <1>6 DEF TypeOK, PcOK
  <1>8. TriesInv'
    BY <1>2, <1>4, <1>6, TryAssumption DEF TriesInv, At
  <1> QED BY <1>7, <1>8

(* One step per group of actions of cmd_client_task. *)
LEMMA ClientKeepsStateInv == TypeOK /\ StateInv /\ ClientTask => StateInv'
  <1> SUFFICES ASSUME TypeOK, StateInv, ClientTask PROVE StateInv'
    OBVIOUS
  <1> USE FdsAssumption
          DEF StateInv, At, Goto, Dispatch, change_state, Rest, NoSocket, Connected,
              TypeOK, Tasks, Contexts, Nets, Keeps
  <1>1. CASE Idle \/ IdleStop \/ IdleAck \/ IdleStart
    BY <1>1 DEF Idle, IdleStop, IdleAck, IdleStart
  <1>2. CASE CreateSoc
    <2>1. At("cl", "loop") /\ ctx.state = "CREATE_SOC" /\ Rest
      BY <1>2 DEF CreateSoc
    <2>2. PICK fd \in Fds :
              /\ ctx' = [ctx EXCEPT !.socket = fd, !.state = "CONNECT_SERVER"]
              /\ net' = [open |-> net.open \union {fd}, link |-> "dead"]
      BY <1>2, <2>1 DEF CreateSoc
    <2>3. ctx'.socket = fd /\ ctx'.state = "CONNECT_SERVER"
      BY <2>2
    <2>4. net'.open = {fd}
      BY <2>1, <2>2
    <2>5. keep' = keep /\ pc' = pc
      BY <1>2 DEF CreateSoc
    <2> QED BY <2>1, <2>3, <2>4, <2>5
  <1>3. CASE CreateSocFails
    BY <1>3 DEF CreateSocFails
  <1>4. CASE ConnectServer \/ ConnectServerFails
    BY <1>4 DEF ConnectServer, ConnectServerFails
  <1>5. CASE KeepAliveStart \/ KeepAliveAccept
    BY <1>5 DEF KeepAliveStart, KeepAliveAccept, Accept
  <1>6. CASE SetReady \/ Ready
    BY <1>6 DEF SetReady, Ready
  <1>7. CASE CloseSoc
    BY <1>7 DEF CloseSoc
  <1>8. CASE CloseForget
    BY <1>8 DEF CloseForget
  <1>9. CASE KeepAliveStop
    BY <1>9 DEF KeepAliveStop
  <1>10. CASE SetCheck \/ CheckErrors
    BY <1>10 DEF SetCheck, CheckErrors
  <1> QED BY <1>1, <1>2, <1>3, <1>4, <1>5, <1>6, <1>7, <1>8, <1>9, <1>10 DEF ClientTask

LEMMA StepIInv == IInv /\ [Next]_vars => IInv'
  <1> SUFFICES ASSUME IInv, [Next]_vars PROVE IInv'
    OBVIOUS
  <1>1. CASE ClientTask
    BY <1>1, ClientTypes, ClientKeepsStateInv DEF IInv
  <1>2. CASE Others
    BY <1>2, OtherStep, OthersKeepStateInv DEF IInv
  <1>3. CASE UNCHANGED vars
    BY <1>3 DEF vars, local, IInv, TypeOK, StateInv, TriesInv, At, Rest, NoSocket, Connected
  <1> QED BY <1>1, <1>2, <1>3 DEF Next, Others

LEMMA Invariant == Spec => []IInv
  BY InitIInv, StepIInv, PTL DEF Spec

(* The context, the keep-alive and every task stay within their types; in  *)
(* particular keepAliveTry never passes KEEP_ALIVE_TRY.                    *)
THEOREM TypeCorrect == Spec => []TypeOK
  <1>1. IInv => TypeOK
    BY DEF IInv
  <1> QED BY Invariant, <1>1, PTL

(* No interleaving of the request task's CLOSE_SOC with the client task    *)
(* leaves a descriptor open that ctx.socket no longer names.               *)
THEOREM SocketsNeverLeak == Spec => []NoSocketLeak
  <1>1. IInv => NoSocketLeak
    BY DEF IInv, TypeOK, StateInv, NoSocketLeak, At, Rest, NoSocket, Connected, Labels, Tasks,
           Contexts, States
  <1> QED BY Invariant, <1>1, PTL

(* READY always has an open socket. *)
THEOREM ReadyIsConnected == Spec => []ReadyHasSocket
  <1>1. IInv => ReadyHasSocket
    BY DEF IInv, TypeOK, StateInv, ReadyHasSocket, At, Rest, NoSocket, Connected, Labels, Tasks,
           Contexts, States
  <1> QED BY Invariant, <1>1, PTL

(* A client at rest is not watched by the keep-alive. *)
THEOREM RestIsUnwatched == Spec => []NotWatchedAtRest
  <1>1. IInv => NotWatchedAtRest
    BY DEF IInv, TypeOK, StateInv, NotWatchedAtRest, At, Rest, NoSocket, Connected, Labels, Tasks,
           Contexts, States
  <1> QED BY Invariant, <1>1, PTL

-----------------------------------------------------------------------------
(* After a send that succeeded, keepAliveTry is 0 until keepAliveProcess   *)
(* counts it, and then 1: what the other tasks write is 0, too.            *)
FailInv ==
    ~lastSendFailed =>
        /\ pc["ka"] \in {"loop", "give_up", "error_cb"} => keep.try \in {0, 1}
        /\ At("ka", "load") => keep.try = 0
        /\ At("ka", "store") => loaded = 0

(* The tasks other than keepAliveProcess leave it where it is.             *)
LEMMA OtherTasksGoto ==
    ASSUME TypeOK,
           \/ ClientTask \/ RequestTask
           \/ WifiConnected \/ WifiStarted \/ WifiDisconnected \/ AppDisconnect \/ AppTryConnect
           \/ DeadlinePasses \/ LinkChanges
    PROVE  pc'["ka"] = pc["ka"]
  <1>1. CASE ClientTask
    <2>1. pc' = pc \/ \E l \in Labels["cl"] : Goto("cl", l)
      BY <1>1 DEF ClientTask, Idle, IdleStop, IdleAck, IdleStart, CreateSoc, CreateSocFails,
              ConnectServer, ConnectServerFails, KeepAliveStart, KeepAliveAccept, SetReady, Ready,
              CloseSoc, CloseForget, KeepAliveStop, SetCheck, CheckErrors, Labels
    <2> QED BY <2>1, GotoOK DEF Tasks
  <1>2. CASE RequestTask
    BY <1>2, RequestStep DEF TriesFrame
  <1>3. CASE \/ WifiConnected \/ WifiStarted \/ WifiDisconnected \/ AppDisconnect \/ AppTryConnect
             \/ DeadlinePasses \/ LinkChanges
    <2>1. pc' = pc \/ \E l \in Labels["wf"] : Goto("wf", l)
      BY <1>3 DEF WifiConnected, WifiStarted, WifiDisconnected, AppDisconnect, AppTryConnect,
                  DeadlinePasses, LinkChanges, Labels
    <2> QED BY <2>1, GotoOK DEF Tasks
  <1> QED BY <1>1, <1>2, <1>3

(* They can only take keepAliveTry back to 0.                              *)
LEMMA OthersKeepFailInv ==
    ASSUME TypeOK, FailInv,
           \/ ClientTask \/ RequestTask
           \/ WifiConnected \/ WifiStarted \/ WifiDisconnected \/ AppDisconnect \/ AppTryConnect
           \/ DeadlinePasses \/ LinkChanges
    PROVE  FailInv'
  <1>1. CASE ClientTask
    <2>1. keep' \in {keep, [keep EXCEPT !.active = FALSE],
                    [keep EXCEPT !.active = TRUE, !.error = FALSE], Accept(keep)}
      BY <1>1 DEF ClientTask, Idle, IdleStop, IdleAck, IdleStart, CreateSoc, CreateSocFails,
              ConnectServer, ConnectServerFails, KeepAliveStart, KeepAliveAccept, SetReady, Ready,
              CloseSoc, CloseForget, KeepAliveStop, SetCheck, CheckErrors
    <2>2. keep'.try \in {keep.try, 0}
      BY <2>1, AcceptOK DEF TypeOK, Keeps
    <2>3. loaded' = loaded /\ lastSendFailed' = lastSendFailed
      BY <1>1 DEF ClientTask, Idle, IdleStop, IdleAck, IdleStart, CreateSoc, CreateSocFails,
              ConnectServer, ConnectServerFails, KeepAliveStart, KeepAliveAccept, SetReady, Ready,
              CloseSoc, CloseForget, KeepAliveStop, SetCheck, CheckErrors, local
    <2> QED BY <1>1, <2>2, <2>3, OtherTasksGoto DEF FailInv, At
  <1>2. CASE RequestTask
    <2>1. TriesFrame
      BY <1>2, RequestStep
    <2>2. lastSendFailed' = lastSendFailed
      BY <1>2 DEF RequestTask, SendCheck, SendTransmit, SendAccept, SendReturns,
                  ReadCheck, ReadFdSet, ReadSelect, ReadRecheck, ReadRecv, ReadAccept, local
    <2> QED BY <2>1, <2>2 DEF TriesFrame, FailInv, At
  <1>3. CASE \/ WifiConnected \/ WifiStarted \/ WifiDisconnected \/ AppDisconnect \/ AppTryConnect
             \/ DeadlinePasses \/ LinkChanges
    <2>1. keep'.try = keep.try /\ loaded' = loaded /\ lastSendFailed' = lastSendFailed
      BY <1>3 DEF WifiConnected, WifiStarted, WifiDisconnected, AppDisconnect, AppTryConnect,
                  DeadlinePasses, LinkChanges, TypeOK, Keeps, local
    <2> QED BY <1>3, <2>1, OtherTasksGoto DEF FailInv, At
  <1> QED BY <1>1, <1>2, <1>3

LEMMA KeepAliveKeepsFailInv == TypeOK /\ FailInv /\ KeepAliveTask => FailInv'
  <1> SUFFICES ASSUME TypeOK, FailInv, KeepAliveTask PROVE FailInv'
    OBVIOUS
  <1> USE DEF FailInv, At, Goto, TypeOK, Tasks, Keeps
  <1>1. CASE KeepAliveScan
    BY <1>1 DEF KeepAliveScan, local
  <1>2. CASE SendCheck("ka")
    BY <1>2 DEF SendCheck, SendReturns, local
  <1>3. CASE SendTransmit("ka")
    BY <1>3 DEF SendTransmit, SendReturns, local
  <1>4. CASE SendAccept("ka")
    BY <1>4 DEF SendAccept, SendReturns, Accept
  <1>5. CASE KeepAliveLoad
    BY <1>5 DEF KeepAliveLoad
  <1>6. CASE KeepAliveStore
    BY <1>6 DEF KeepAliveStore
  <1>7. CASE KeepAliveGiveUp \/ KeepAliveErrorCb
    BY <1>7 DEF KeepAliveGiveUp, KeepAliveErrorCb, local
  <1> QED BY <1>1, <1>2, <1>3, <1>4, <1>5, <1>6, <1>7 DEF KeepAliveTask

LEMMA StepFailInv == IInv /\ FailInv /\ [Next]_vars => FailInv'
  <1> SUFFICES ASSUME TypeOK, FailInv, [Next]_vars PROVE FailInv'
    BY DEF IInv
  <1>1. CASE KeepAliveTask
    BY <1>1, KeepAliveKeepsFailInv
  <1>2. CASE UNCHANGED vars
    BY <1>2 DEF vars, local, FailInv, At
  <1> QED BY <1>1, <1>2, OthersKeepFailInv DEF Next

(* When it takes more than one try, the keep-alive reports an error only   *)
(* after a send that failed: for any other number of tries, and whatever   *)
(* the other tasks do to keepAliveTry while it is being counted.           *)
THEOREM ErrorsFollowFailures ==
    ASSUME TRY > 1
    PROVE  Spec => ErrorAfterFailedSend
  <1>1. Init => FailInv
    BY DEF Init, FailInv, At
  <1>2. IInv /\ FailInv /\ [Next]_vars =>
            [At("ka", "loop") /\ pc'["ka"] = "give_up" => lastSendFailed]_vars
    <2> SUFFICES ASSUME IInv, FailInv, [Next]_vars, vars' # vars,
                        At("ka", "loop"), pc'["ka"] = "give_up"
                 PROVE  lastSendFailed
      BY DEF IInv
    <2>0. pc["ka"] = "loop" /\ pc'["ka"] # pc["ka"] /\ TypeOK
      BY DEF At, IInv
    <2>1. KeepAliveScan
      <3>1. ~(ClientTask \/ RequestTask \/ WifiConnected \/ WifiStarted \/ WifiDisconnected
                \/ AppDisconnect \/ AppTryConnect \/ DeadlinePasses \/ LinkChanges)
        BY <2>0, OtherTasksGoto
      <3>2. KeepAliveTask
        BY <3>1 DEF Next
      <3> QED BY <2>0, <3>2 DEF KeepAliveTask, SendCheck, SendTransmit, SendAccept, KeepAliveLoad,
                                KeepAliveStore, KeepAliveGiveUp, KeepAliveErrorCb, At
    <2>2. ~ keep.try < TRY
      BY <2>1 DEF KeepAliveScan, TriesLeft, Goto, TypeOK, IInv, Tasks
    <2> QED BY <2>2, TryAssumption DEF FailInv, At
  <1> QED BY <1>1, <1>2, Invariant, StepFailInv, PTL DEF Spec, ErrorAfterFailedSend
=============================================================================
