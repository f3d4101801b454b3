--------------------------- MODULE WifiDrvProofs ---------------------------
(* Theorems about the Wi-Fi driver, for any limits and any event queue.    *)
EXTENDS WifiDrv, SequenceTheorems, TLAPS

(* Where the calls of the event task stop half way.                        *)
CallInv ==
    /\ At("connect") => ctx.state = "CONNECT"
    /\ At("stop") => ctx.state = "IDLE"
    /\ At("leave") \/ At("left") => ctx.state = "STOP"
    /\ wifi_type = "server" => ctx.state \notin {"CONNECT", "WAIT_CONNECT"}

(* CONNECT hands its count to WAIT_CONNECT, and WAIT_CONNECT's count does  *)
(* not come back.                                                          *)
CountInv ==
    ctx.connect_attemps <= (IF ctx.state = "WAIT_CONNECT" THEN MaxWaits ELSE MaxConnects) + 1

(* The queue has room for every event the current attempt can still post.  *)
RoomInv ==
    Len(events) + (CASE link = "joining" -> 2 [] link = "up" -> 1 [] link = "down" -> 0)
        <= MaxEvents

(* The callbacks were last told up from READY to the middle of STOP.       *)
ToldInv == told <=> In("READY") \/ In("STOP")

(* The station is off the network from esp_wifi_disconnect or -_stop to    *)
(* the next esp_wifi_connect, and in server mode.                          *)
OfflineInv ==
    (\/ ctx.state \in {"INIT", "IDLE", "CONNECT"} /\ ~At("stop")
     \/ At("left")
     \/ wifi_type = "server") => link = "down"

IInv == TypeOK /\ CallInv /\ CountInv /\ RoomInv /\ ToldInv /\ OfflineInv /\ LinkKnown

-----------------------------------------------------------------------------
(* The last of the posted events is the one that counts.                   *)
LEMMA AppendLast ==
    ASSUME NEW s \in Seq(BOOLEAN), NEW b \in BOOLEAN
    PROVE  /\ Append(s, b) \in Seq(BOOLEAN) /\ Append(s, b) # <<>>
           /\ Len(Append(s, b)) = Len(s) + 1
           /\ Append(s, b)[Len(Append(s, b))] = b
  OBVIOUS

LEMMA TailLast ==
    ASSUME NEW s \in Seq(BOOLEAN), s # <<>>
    PROVE  /\ Head(s) \in BOOLEAN /\ Tail(s) \in Seq(BOOLEAN)
           /\ Len(Tail(s)) = Len(s) - 1
           /\ Tail(s) = <<>> => Head(s) = s[Len(s)]
           /\ Tail(s) # <<>> => Tail(s)[Len(Tail(s))] = s[Len(s)]
  <1>1. /\ Head(s) \in BOOLEAN /\ Tail(s) \in Seq(BOOLEAN)
        /\ Len(Tail(s)) = Len(s) - 1
        /\ \A i \in 1..Len(Tail(s)) : Tail(s)[i] = s[i + 1]
    BY HeadTailProperties
  <1>2. Len(s) \in Nat /\ Len(s) # 0 /\ Head(s) = s[1]
    BY EmptySeq, HeadTailProperties
  <1>3. ASSUME Tail(s) = <<>> PROVE Len(s) = 1
    <2>1. Len(Tail(s)) = 0
      BY <1>3, EmptySeq
    <2> QED BY <2>1, <1>1, <1>2
  <1>4. Tail(s) # <<>> => Len(Tail(s)) \in 1..Len(Tail(s))
    BY <1>1, EmptySeq
  <1>5. Tail(s) # <<>> => Tail(s)[Len(Tail(s))] = s[Len(s)]
    BY <1>1, <1>2, <1>4
  <1> QED BY <1>1, <1>2, <1>3, <1>5

LEMMA InitIInv == Init => IInv
  <1> SUFFICES ASSUME Init PROVE IInv
    OBVIOUS
  <1> USE LimitsAssumption, EventsAssumption, TypesAssumption
  <1>1. TypeOK
    <2>1. events \in Seq(BOOLEAN) /\ Len(events) = 0
      BY EmptySeq DEF Init
    <2>2. ctx \in Contexts
      BY DEF Init, Contexts
    <2>3. Len(events) <= MaxEvents
      BY <2>1
    <2>4. /\ wifi_type \in Types /\ told \in BOOLEAN /\ radio \in BOOLEAN
          /\ link \in {"down", "joining", "up"}
          /\ pc \in [task : {"loop", "connect", "stop", "leave", "left"},
                     scan : {"idle", "start", "started"}]
      BY DEF Init
    <2> QED BY <2>1, <2>2, <2>3, <2>4 DEF TypeOK
  <1>2. CallInv /\ CountInv /\ ToldInv /\ OfflineInv
    BY DEF Init, CallInv, CountInv, ToldInv, OfflineInv, At, In
  <1>3. RoomInv
    BY DEF Init, RoomInv
  <1>4. LinkKnown
    BY DEF Init, LinkKnown, Believed
  <1> QED BY <1>1, <1>2, <1>3, <1>4 DEF IInv

(* esp_wifi_disconnect posts FALSE exactly when the station had a link.    *)
LEMMA LeaveStep ==
    ASSUME TypeOK, RoomInv, Leave
    PROVE  /\ link' = "down" /\ events' \in Seq(BOOLEAN) /\ Len(events') <= MaxEvents
           /\ RoomInv'
           /\ link # "down" => events' # <<>> /\ events'[Len(events')] = FALSE
           /\ link = "down" => events' = events
  <1>1. CASE link = "down"
    BY <1>1 DEF TypeOK, RoomInv, Leave
  <1>2. CASE link # "down"
    <2>1. /\ events' \in Seq(BOOLEAN) /\ events' # <<>> /\ Len(events') = Len(events) + 1
          /\ events'[Len(events')] = FALSE
      BY <1>2, AppendLast DEF TypeOK, Leave
    <2>2. Len(events) + 1 <= MaxEvents
      BY <1>2, EventsAssumption DEF TypeOK, RoomInv
    <2>3. link' = "down"
      BY DEF Leave
    <2>4. RoomInv'
      BY <2>1, <2>2, <2>3 DEF RoomInv
    <2> QED BY <1>2, <2>1, <2>2, <2>3, <2>4
  <1> QED BY <1>1, <1>2

(* What every step that leaves the station alone keeps.                    *)
LEMMA QuietStep ==
    ASSUME TypeOK, RoomInv, LinkKnown, link' = link, events' = events,
           wifi_type' = wifi_type,
           wifi_type = "client" => ctx'.connected = ctx.connected
    PROVE  RoomInv' /\ LinkKnown'
  BY DEF RoomInv, LinkKnown, Believed

-----------------------------------------------------------------------------
LEMMA NextIInv == IInv /\ [Next]_vars => IInv'
  <1> SUFFICES ASSUME IInv, [Next]_vars PROVE IInv'
    OBVIOUS
  <1> USE LimitsAssumption, EventsAssumption, TypesAssumption DEF IInv
  <1>1. CASE StateInit
    <2>1. TypeOK'
      BY <1>1 DEF StateInit, In, TypeOK, Contexts
    <2>2. CallInv' /\ CountInv' /\ ToldInv' /\ OfflineInv'
      BY <1>1 DEF StateInit, In, At, TypeOK, Contexts, CallInv, CountInv, ToldInv, OfflineInv
    <2>3. RoomInv' /\ LinkKnown'
      BY <1>1, QuietStep DEF StateInit, TypeOK, Contexts
    <2> QED BY <2>1, <2>2, <2>3
  <1>2. CASE Idle
    <2>1. TypeOK'
      BY <1>2 DEF Idle, In, TypeOK, Contexts, station
    <2>2. CallInv' /\ CountInv' /\ ToldInv' /\ OfflineInv'
      BY <1>2 DEF Idle, In, At, TypeOK, Contexts, station, CallInv, CountInv, ToldInv, OfflineInv
    <2>3. wifi_type = "client" => ctx'.connected = ctx.connected
      BY <1>2 DEF Idle, TypeOK, Contexts
    <2>4. RoomInv' /\ LinkKnown'
      BY <1>2, <2>3, QuietStep DEF Idle, station
    <2> QED BY <2>1, <2>2, <2>4
  <1>3. CASE Connect
    <2>1. TypeOK'
      BY <1>3 DEF Connect, In, Goto, TypeOK, Contexts
    <2>2. CallInv' /\ CountInv' /\ ToldInv' /\ OfflineInv'
      BY <1>3 DEF Connect, In, At, Goto, TypeOK, Contexts, CallInv, CountInv, ToldInv, OfflineInv
    <2>3. RoomInv' /\ LinkKnown'
      BY <1>3, QuietStep DEF Connect, TypeOK, Contexts
    <2> QED BY <2>1, <2>2, <2>3
  <1>4. CASE ConnectBegins
    <2>1. TypeOK'
      BY <1>4 DEF ConnectBegins, At, Goto, TypeOK, Contexts
    <2>2. CallInv' /\ CountInv' /\ ToldInv' /\ OfflineInv'
      BY <1>4 DEF ConnectBegins, In, At, Goto, TypeOK, Contexts, CallInv, CountInv, ToldInv,
                  OfflineInv
    <2>3. RoomInv'
      BY <1>4 DEF ConnectBegins, RoomInv
    <2>4. link = "down"
      BY <1>4 DEF ConnectBegins, At, CallInv, OfflineInv
    <2>5. ctx'.connected = ctx.connected
      BY <1>4 DEF ConnectBegins, TypeOK, Contexts
    <2>6. LinkKnown'
      BY <1>4, <2>4, <2>5 DEF ConnectBegins, LinkKnown, Believed
    <2> QED BY <2>1, <2>2, <2>3, <2>6
  <1>5. CASE ConnectFails
    <2>1. TypeOK' /\ CountInv'
      <3>1. /\ ctx.connect_attemps \in Nat /\ ctx.connect_attemps <= MaxConnects + 1
            /\ ctx \in Contexts
        BY <1>5 DEF ConnectFails, At, TypeOK, Contexts, CallInv, CountInv
      <3>2. /\ ctx'.connect_attemps \in Nat /\ ctx'.connect_attemps <= MaxConnects + 1
            /\ ctx'.state = "IDLE"
        <4>1. CASE ctx.connect_attemps > MaxConnects
          <5>1. ctx'.connect_attemps = 1 /\ ctx'.state = "IDLE"
            BY <1>5, <3>1, <4>1 DEF ConnectFails, Contexts
          <5> QED BY <5>1
        <4>2. CASE ~(ctx.connect_attemps > MaxConnects)
          <5>1. ctx'.connect_attemps = ctx.connect_attemps + 1 /\ ctx'.state = "IDLE"
            BY <1>5, <3>1, <4>2 DEF ConnectFails, Contexts
          <5> QED BY <3>1, <4>2, <5>1
        <4> QED BY <4>1, <4>2
      <3>3. ctx'.connect_attemps \in 0..MaxWaits + 1
        BY <3>2
      <3>4. ctx' \in Contexts
        BY <1>5, <3>1, <3>3 DEF ConnectFails, Contexts
      <3> QED BY <1>5, <3>2, <3>4 DEF ConnectFails, Goto, TypeOK, CountInv, station
    <2>2. CallInv' /\ ToldInv' /\ OfflineInv'
      BY <1>5 DEF ConnectFails, In, At, Goto, TypeOK, Contexts, station, CallInv, ToldInv,
                  OfflineInv
    <2>3. ctx'.connected = ctx.connected
      BY <1>5 DEF ConnectFails, TypeOK, Contexts
    <2>4. RoomInv' /\ LinkKnown'
      BY <1>5, <2>3, QuietStep DEF ConnectFails, station
    <2> QED BY <2>1, <2>2, <2>4
  <1>6. CASE WaitConnected \/ WaitAgain \/ WaitExpires
    <2>1. /\ ctx.connect_attemps \in Nat /\ ctx.state = "WAIT_CONNECT" /\ ctx \in Contexts
          /\ At("loop") /\ wifi_type = "client"
      BY <1>6 DEF WaitConnected, WaitAgain, WaitExpires, In, At, TypeOK, Contexts, CallInv
    <2>2. /\ ctx'.connect_attemps \in Nat
          /\ ctx'.state = "WAIT_CONNECT" => ctx'.connect_attemps <= MaxWaits + 1
          /\ ctx'.state # "WAIT_CONNECT" => ctx'.connect_attemps <= 1
          /\ ctx'.state \in {"WAIT_CONNECT", "START", "IDLE"}
          /\ ctx'.state = "IDLE" => pc'.task = "stop"
          /\ ctx'.state # "IDLE" => pc' = pc
      <3>1. CASE WaitConnected \/ WaitExpires
        <4>1. ctx'.connect_attemps \in {0, 1} /\ ctx'.state \in {"START", "IDLE"}
          BY <3>1, <2>1 DEF WaitConnected, WaitExpires, Contexts
        <4>2. /\ ctx'.state = "IDLE" => pc'.task = "stop"
              /\ ctx'.state # "IDLE" => pc' = pc
          BY <3>1, <2>1 DEF WaitConnected, WaitExpires, Goto, Contexts, TypeOK
        <4> QED BY <4>1, <4>2
      <3>2. CASE WaitAgain
        <4>1. /\ ctx.connect_attemps <= MaxWaits /\ pc' = pc
              /\ ctx'.connect_attemps = ctx.connect_attemps + 1 /\ ctx'.state = "WAIT_CONNECT"
          BY <3>2, <2>1 DEF WaitAgain, Contexts
        <4> QED BY <4>1, <2>1
      <3> QED BY <1>6, <3>1, <3>2
    <2>3. ctx'.connect_attemps \in 0..MaxWaits + 1
      BY <2>2
    <2>4. ctx' \in Contexts
      BY <1>6, <2>1, <2>3 DEF WaitConnected, WaitAgain, WaitExpires, Contexts
    <2>5. CountInv'
      BY <2>2 DEF CountInv
    <2>6. TypeOK'
      BY <1>6, <2>4 DEF WaitConnected, WaitAgain, WaitExpires, Goto, TypeOK, station
    <2>7. wifi_type' = wifi_type /\ told' = told /\ link' = link
      BY <1>6 DEF WaitConnected, WaitAgain, WaitExpires, station
    <2>8. CallInv' /\ ToldInv' /\ OfflineInv'
      BY <2>1, <2>2, <2>7 DEF In, At, CallInv, ToldInv, OfflineInv
    <2>9. ctx'.connected = ctx.connected
      BY <1>6 DEF WaitConnected, WaitAgain, WaitExpires, TypeOK, Contexts
    <2>10. RoomInv' /\ LinkKnown'
      BY <1>6, <2>9, QuietStep DEF WaitConnected, WaitAgain, WaitExpires, station
    <2> QED BY <2>5, <2>6, <2>8, <2>10
  <1>7. CASE RadioStops
    <2>1. /\ link' = "down" /\ events' \in Seq(BOOLEAN) /\ Len(events') <= MaxEvents
          /\ RoomInv'
          /\ link # "down" => events' # <<>> /\ events'[Len(events')] = FALSE
          /\ link = "down" => events' = events
      BY <1>7, LeaveStep DEF RadioStops
    <2>2. TypeOK'
      BY <1>7, <2>1 DEF RadioStops, Goto, TypeOK
    <2>3. CallInv' /\ CountInv' /\ ToldInv' /\ OfflineInv'
      BY <1>7, <2>1 DEF RadioStops, In, At, Goto, TypeOK, CallInv, CountInv, ToldInv, OfflineInv
    <2>4. LinkKnown'
      BY <1>7, <2>1 DEF RadioStops, LinkKnown, Believed
    <2> QED BY <2>1, <2>2, <2>3, <2>4
  <1>8. CASE Start \/ Ready
    <2>1. TypeOK'
      BY <1>8 DEF Start, Ready, TypeOK, Contexts, station
    <2>2. CallInv' /\ CountInv' /\ ToldInv' /\ OfflineInv'
      BY <1>8 DEF Start, Ready, In, At, TypeOK, Contexts, station, CallInv, CountInv, ToldInv,
                  OfflineInv
    <2>3. ctx'.connected = ctx.connected
      BY <1>8 DEF Start, Ready, TypeOK, Contexts
    <2>4. RoomInv' /\ LinkKnown'
      BY <1>8, <2>3, QuietStep DEF Start, Ready, station
    <2> QED BY <2>1, <2>2, <2>4
  <1>9. CASE StopTells
    <2>1. TypeOK'
      BY <1>9 DEF StopTells, Goto, TypeOK, station
    <2>2. CallInv' /\ CountInv' /\ ToldInv' /\ OfflineInv'
      BY <1>9 DEF StopTells, In, At, Goto, TypeOK, Contexts, station, CallInv, CountInv, ToldInv,
                  OfflineInv
    <2>3. RoomInv' /\ LinkKnown'
      BY <1>9, QuietStep DEF StopTells, station
    <2> QED BY <2>1, <2>2, <2>3
  <1>10. CASE StopLeaves
    <2>1. /\ link' = "down" /\ events' \in Seq(BOOLEAN) /\ Len(events') <= MaxEvents
          /\ RoomInv'
          /\ link # "down" => events' # <<>> /\ events'[Len(events')] = FALSE
          /\ link = "down" => events' = events
      BY <1>10, LeaveStep DEF StopLeaves
    <2>2. TypeOK'
      BY <1>10, <2>1 DEF StopLeaves, Goto, TypeOK, Contexts
    <2>3. CallInv' /\ CountInv' /\ ToldInv' /\ OfflineInv'
      BY <1>10, <2>1 DEF StopLeaves, In, At, Goto, TypeOK, Contexts, CallInv, CountInv, ToldInv,
                         OfflineInv
    <2>4. ctx'.connected = ctx.connected
      BY <1>10 DEF StopLeaves, TypeOK, Contexts
    <2>5. LinkKnown'
      BY <1>10, <2>1, <2>4 DEF StopLeaves, LinkKnown, Believed
    <2> QED BY <2>1, <2>2, <2>3, <2>5
  <1>11. CASE StopDone
    <2>1. TypeOK' /\ CountInv'
      BY <1>11 DEF StopDone, At, Goto, TypeOK, Contexts, CallInv, CountInv, station
    <2>2. CallInv' /\ ToldInv' /\ OfflineInv'
      BY <1>11 DEF StopDone, In, At, Goto, TypeOK, Contexts, station, CallInv, ToldInv, OfflineInv
    <2>3. RoomInv'
      BY <1>11 DEF StopDone, station, RoomInv
    <2>4. link = "down" /\ link' = link /\ events' = events /\ ctx'.connected = FALSE
          /\ wifi_type' = wifi_type
      BY <1>11 DEF StopDone, station, At, OfflineInv, TypeOK, Contexts
    <2>5. LinkKnown'
      BY <2>4 DEF LinkKnown, Believed
    <2> QED BY <2>1, <2>2, <2>3, <2>5
  <1>12. CASE Handle
    <2>1. /\ Head(events) \in BOOLEAN /\ events' \in Seq(BOOLEAN)
          /\ Len(events') = Len(events) - 1
          /\ events' = <<>> => Head(events) = events[Len(events)]
          /\ events' # <<>> => events'[Len(events')] = events[Len(events)]
      BY <1>12, TailLast DEF Handle, TypeOK
    <2>2. Len(events) \in Nat /\ Len(events') \in Nat
      BY <2>1 DEF TypeOK
    <2>3. TypeOK'
      BY <1>12, <2>1, <2>2 DEF Handle, TypeOK, Contexts
    <2>4. CallInv' /\ CountInv' /\ ToldInv' /\ OfflineInv'
      BY <1>12 DEF Handle, In, At, TypeOK, Contexts, CallInv, CountInv, ToldInv, OfflineInv
    <2>5. RoomInv'
      BY <1>12, <2>1, <2>2 DEF Handle, TypeOK, RoomInv
    <2>6. ctx'.connected = Head(events)
      BY <1>12 DEF Handle, TypeOK, Contexts
    <2>7. LinkKnown'
      BY <1>12, <2>1, <2>6 DEF Handle, LinkKnown, Believed
    <2> QED BY <2>3, <2>4, <2>5, <2>7
  <1>13. CASE AppConnect \/ AppDisconnect \/ ScanStarted
    <2>1. TypeOK'
      BY <1>13 DEF AppConnect, AppDisconnect, ScanStarted, TypeOK, Contexts, station
    <2>2. CallInv' /\ CountInv' /\ ToldInv' /\ OfflineInv'
      BY <1>13 DEF AppConnect, AppDisconnect, ScanStarted, In, At, TypeOK, Contexts, station,
                   CallInv, CountInv, ToldInv, OfflineInv
    <2>3. ctx'.connected = ctx.connected
      BY <1>13 DEF AppConnect, AppDisconnect, ScanStarted, TypeOK, Contexts
    <2>4. RoomInv' /\ LinkKnown'
      BY <1>13, <2>3, QuietStep DEF AppConnect, AppDisconnect, ScanStarted, station
    <2> QED BY <2>1, <2>2, <2>4
  <1>14. CASE ScanChecks \/ ScanStarts
    <2>1. TypeOK'
      BY <1>14 DEF ScanChecks, ScanStarts, TypeOK, station
    <2>2. CallInv' /\ CountInv' /\ ToldInv' /\ OfflineInv'
      BY <1>14 DEF ScanChecks, ScanStarts, In, At, TypeOK, station,
                   CallInv, CountInv, ToldInv, OfflineInv
    <2>3. RoomInv' /\ LinkKnown'
      BY <1>14, QuietStep DEF ScanChecks, ScanStarts, station
    <2> QED BY <2>1, <2>2, <2>3
  <1>15. CASE Joins
    <2>1. /\ events' \in Seq(BOOLEAN) /\ events' # <<>> /\ Len(events') = Len(events) + 1
          /\ events'[Len(events')] = TRUE
      BY <1>15, AppendLast DEF Joins, TypeOK
    <2>2. Len(events) + 2 <= MaxEvents
      BY <1>15 DEF Joins, RoomInv
    <2>3. TypeOK' /\ RoomInv'
      BY <1>15, <2>1, <2>2 DEF Joins, TypeOK, RoomInv
    <2>4. CallInv' /\ CountInv' /\ ToldInv' /\ OfflineInv'
      BY <1>15 DEF Joins, In, At, CallInv, CountInv, ToldInv, OfflineInv
    <2>5. LinkKnown'
      BY <1>15, <2>1 DEF Joins, LinkKnown, Believed
    <2> QED BY <2>3, <2>4, <2>5
  <1>16. CASE LosesLink
    <2>1. /\ link' = "down" /\ events' \in Seq(BOOLEAN) /\ Len(events') <= MaxEvents
          /\ RoomInv'
          /\ events' # <<>> /\ events'[Len(events')] = FALSE
      BY <1>16, LeaveStep DEF LosesLink
    <2>2. TypeOK'
      BY <1>16, <2>1 DEF LosesLink, TypeOK
    <2>3. CallInv' /\ CountInv' /\ ToldInv' /\ OfflineInv'
      BY <1>16, <2>1 DEF LosesLink, In, At, CallInv, CountInv, ToldInv, OfflineInv
    <2>4. LinkKnown'
      BY <1>16, <2>1 DEF LosesLink, LinkKnown, Believed
    <2> QED BY <2>1, <2>2, <2>3, <2>4
  <1>17. CASE UNCHANGED vars
    BY <1>17 DEF vars, TypeOK, CallInv, CountInv, RoomInv, ToldInv, OfflineInv, LinkKnown,
                 Believed, In, At
  <1> QED
    BY <1>1, <1>2, <1>3, <1>4, <1>5, <1>6, <1>7, <1>8, <1>9, <1>10, <1>11, <1>12, <1>13,
       <1>14, <1>15, <1>16, <1>17 DEF Next, EventTask

LEMMA Invariance == Spec => []IInv
  <1> QED BY InitIInv, NextIInv, PTL DEF Spec

(* The attempts counter that CONNECT and WAIT_CONNECT share stays within   *)
(* the larger limit, and the event queue within its length.                *)
THEOREM TypeCorrect == Spec => []TypeOK
  <1>1. IInv => TypeOK
    BY DEF IInv
  <1> QED BY Invariance, <1>1, PTL

(* ctx.connected, written by two tasks, ends equal to the state of the     *)
(* station once the posted events are handled.                             *)
THEOREM LinkIsKnown == Spec => []LinkKnown
  <1>1. IInv => LinkKnown
    BY DEF IInv
  <1> QED BY Invariance, <1>1, PTL

(* The station is off the network whenever the driver waits to be asked.   *)
THEOREM OfflineWhenIdle == Spec => []IdleIsOffline
  <1>1. IInv => IdleIsOffline
    BY DEF IInv, OfflineInv, IdleIsOffline, In, At
  <1> QED BY Invariance, <1>1, PTL

-----------------------------------------------------------------------------
(* Each step of the driver is a step of WifiService, or none.              *)
LEMMA StepImplements == IInv /\ [Next]_vars => [Service!Next]_<<told, ctx.connect_req>>
  <1> SUFFICES ASSUME IInv, [Next]_vars
               PROVE  \/ told' = told /\ ctx'.connect_req = ctx.connect_req
                      \/ Service!Next
    OBVIOUS
  <1> USE DEF IInv, TypeOK, Contexts
  <1>1. CASE StateInit \/ Idle \/ Connect \/ ConnectBegins
    BY <1>1 DEF StateInit, Idle, Connect, ConnectBegins
  <1>2. CASE ConnectFails \/ WaitConnected \/ WaitExpires
    <2>1. ~told
      BY <1>2 DEF ConnectFails, WaitConnected, WaitExpires, CallInv, ToldInv, In, At
    <2>2. told' = told /\ (ctx'.connect_req = ctx.connect_req \/ ctx'.connect_req = FALSE)
      BY <1>2 DEF ConnectFails, WaitConnected, WaitExpires
    <2> QED BY <2>1, <2>2 DEF Service!Next, Service!Settle
  <1>3. CASE WaitAgain \/ RadioStops \/ Ready \/ StopLeaves \/ StopDone
    BY <1>3 DEF WaitAgain, RadioStops, Ready, StopLeaves, StopDone
  <1>4. CASE Start
    <2>1. ~told /\ told' = TRUE /\ ctx'.connect_req = ctx.connect_req
      BY <1>4 DEF Start, ToldInv, In
    <2> QED BY <2>1 DEF Service!Next, Service!TellUp
  <1>5. CASE StopTells
    <2>1. told /\ told' = FALSE /\ ctx'.connect_req = ctx.connect_req
      BY <1>5 DEF StopTells, ToldInv, In
    <2> QED BY <2>1 DEF Service!Next, Service!TellDown
  <1>6. CASE AppConnect
    <2>1. told' = told /\ ctx'.connect_req = TRUE
      BY <1>6 DEF AppConnect
    <2> QED BY <2>1 DEF Service!Next, Service!Ask
  <1>7. CASE Handle \/ AppDisconnect \/ ScanChecks \/ ScanStarts \/ ScanStarted
             \/ Joins \/ LosesLink
    BY <1>7 DEF Handle, AppDisconnect, ScanChecks, ScanStarts, ScanStarted, Joins, LosesLink
  <1>8. CASE UNCHANGED vars
    BY <1>8 DEF vars
  <1> QED
    BY <1>1, <1>2, <1>3, <1>4, <1>5, <1>6, <1>7, <1>8 DEF Next, EventTask

(* The driver implements the steps of WifiService: callbacks alternate,    *)
(* and a request is settled only while they were last told down.           *)
THEOREM ImplementsService ==
    Spec => Service!Init /\ [][Service!Next]_<<told, ctx.connect_req>>
  <1>1. Init => Service!Init
    BY DEF Init, Service!Init
  <1> QED BY <1>1, Invariance, StepImplements, PTL DEF Spec
=============================================================================
