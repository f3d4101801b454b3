--------------------- MODULE HttpParametersClientProofs ---------------------
(***************************************************************************)
(* Proofs about the HTTP parameter client, for any callers, any heap and   *)
(* queue, any parameters and limits: who owns a request, whose URL is      *)
(* sent, and what a call that returns ERROR_CODE_OK has done.              *)
(***************************************************************************)
EXTENDS HttpParametersClient, SequenceTheorems, TLAPS

-----------------------------------------------------------------------------
(* The inductive invariant.                                                *)

(* The parts of RequestsOwned. *)
Owned ==
    \A a \in Addresses : InQueue(a) \/ Open(a) =>
        IF Waits(a) THEN At(a, "wait") /\ ~mem[a].given ELSE a \notin heap
OnePlace == \A a \in Addresses : ~(InQueue(a) /\ Open(a))
QueuedOnce == \A i, j \in 1 .. Len(queue) : queue[i] = queue[j] => i = j
NoLeak == \A b \in Blocks \ heap : InQueue(b) \/ Open(b) \/ BeingQueued(b)

(* A caller that sleeps does so on its own request; one that is about to   *)
(* queue a request has it on its stack or the heap, and nobody has woken   *)
(* it, or answered, yet.                                                   *)
Callings ==
    \A c \in Callers :
        /\ At(c, "wait") => caller[c].blk = c
        /\ At(c, "enqueue") => caller[c].blk \in {c} \union Blocks
        /\ At(c, "enqueue") /\ caller[c].blk = c => ~mem[c].given /\ mem[c].code = 0

(* A block that is about to be queued is allocated, is not yet anywhere    *)
(* else, and only one task is about to queue it.                           *)
Elsewhere(b) == b \in heap \/ InQueue(b) \/ Open(b)
Allocated == \A c \in Callers : At(c, "enqueue") /\ caller[c].blk \in Blocks => ~Elsewhere(caller[c].blk)
QueuedByOne ==
    \A c, d \in Callers :
        At(c, "enqueue") /\ At(d, "enqueue") /\ caller[c].blk = caller[d].blk => c = d
PingAllocated ==
    IF task.pc = "ping"
    THEN /\ task.blk \in Blocks /\ ~Elsewhere(task.blk)
         /\ \A c \in Callers : At(c, "enqueue") => caller[c].blk # task.blk
    ELSE task.blk = Ping

(* There is at most one connection, and none outside of the poll.  done is *)
(* set when it closes, and once it has closed the mutex has been given.    *)
OneConnection ==
    /\ \A a \in Addresses : Open(a) => task.pc = "poll"
    /\ \A a, b \in Addresses : Open(a) /\ Open(b) => a = b
    /\ \A a \in Addresses : done /\ Open(a) => conns[a].phase = "closing"
    /\ task.pc = "take" \/ (task.pc = "poll" /\ \A a \in Addresses : ~Open(a)) => mutex

(* All the time a call takes, it has seen what the server has.             *)
Seeing ==
    \A c \in Callers : ~At(c, "idle") =>
        /\ mem[caller[c].blk].param \in Params
        /\ server[mem[caller[c].blk].param] \in caller[c].seen

(* What was sent is what the request says; a positive answer means that    *)
(* the caller has seen the value; and so does a positive code.             *)
Sent ==
    \A a \in Addresses : conns[a].phase = "sent" =>
        conns[a].url = mem[a].param /\ conns[a].number = mem[a].number
Answered ==
    \A c \in Callers : conns[c].phase = "answered" =>
        /\ mem[c].kind = "get" => conns[c].number \in caller[c].seen
        /\ mem[c].kind = "set" /\ conns[c].code = 200 /\ mem[c].number < Half
              => mem[c].number \in caller[c].seen
Answers ==
    \A c \in Callers : At(c, "wait") /\ mem[c].code = 200 =>
        /\ mem[c].kind = "get" => \E v \in caller[c].seen : mem[c].number = Parse(v)
        /\ mem[c].kind = "set" /\ mem[c].number < Half => mem[c].number \in caller[c].seen

Ownership == Owned /\ OnePlace /\ QueuedOnce /\ NoLeak /\ Callings /\ Allocated /\ QueuedByOne /\ PingAllocated
Serving == UrlIsOwn /\ OneConnection /\ Seeing /\ Sent /\ Answered /\ Answers
IInv == TypeOK /\ Ownership /\ Serving

-----------------------------------------------------------------------------
(* The queue, the codes.                                                   *)

(* A request more in the queue.                                            *)
LEMMA AppendQueue ==
    ASSUME TypeOK, NEW x \in Addresses, queue' = Append(queue, x), Room
    PROVE  /\ queue' \in Seq(Addresses) /\ Len(queue') <= QueueSize
           /\ \A a \in Addresses : InQueue(a)' <=> InQueue(a) \/ a = x
           /\ QueuedOnce /\ ~InQueue(x) => QueuedOnce'
<1>1. queue \in Seq(Addresses) /\ Len(queue) \in Nat /\ QueueSize \in Nat
    BY QueueAssumption DEF TypeOK
<1>2. /\ queue' \in Seq(Addresses) /\ Len(queue') = Len(queue) + 1
      /\ \A i \in 1 .. Len(queue) : queue'[i] = queue[i]
      /\ queue'[Len(queue) + 1] = x
    BY <1>1, AppendProperties
<1>3. ASSUME NEW a \in Addresses PROVE InQueue(a)' <=> InQueue(a) \/ a = x
    BY <1>1, <1>2 DEF InQueue
<1>4. QueuedOnce /\ ~InQueue(x) => QueuedOnce'
    BY <1>1, <1>2 DEF InQueue, QueuedOnce
<1>. QED BY <1>1, <1>2, <1>3, <1>4 DEF Room

(* The oldest request less.                                                *)
LEMMA TailQueue ==
    ASSUME TypeOK, QueuedOnce, queue # << >>, queue' = Tail(queue)
    PROVE  /\ Head(queue) \in Addresses /\ InQueue(Head(queue))
           /\ queue' \in Seq(Addresses) /\ Len(queue') <= QueueSize
           /\ \A a \in Addresses : InQueue(a)' <=> InQueue(a) /\ a # Head(queue)
           /\ QueuedOnce'
<1>1. queue \in Seq(Addresses) /\ Len(queue) \in Nat /\ Len(queue) # 0 /\ QueueSize \in Nat
    BY QueueAssumption DEF TypeOK
<1>2. /\ Head(queue) \in Addresses /\ Head(queue) = queue[1]
      /\ queue' \in Seq(Addresses) /\ Len(queue') = Len(queue) - 1
      /\ \A i \in 1 .. Len(queue') : queue'[i] = queue[i + 1]
    BY <1>1, HeadTailProperties
<1>3. InQueue(Head(queue))
    BY <1>1, <1>2 DEF InQueue
<1>4. ASSUME NEW a \in Addresses PROVE InQueue(a)' <=> InQueue(a) /\ a # Head(queue)
    <2>1. InQueue(a)' => InQueue(a) /\ a # Head(queue)
        BY <1>1, <1>2 DEF InQueue, QueuedOnce
    <2>2. ASSUME InQueue(a), a # Head(queue) PROVE InQueue(a)'
        <3>1. PICK i \in 1 .. Len(queue) : queue[i] = a
            BY <2>2 DEF InQueue
        <3>2. i - 1 \in 1 .. Len(queue') /\ queue'[i - 1] = a
            BY <1>1, <1>2, <2>2, <3>1
        <3>. QED BY <3>2 DEF InQueue
    <2>. QED BY <2>1, <2>2
<1>5. QueuedOnce'
    BY <1>1, <1>2 DEF QueuedOnce
<1>. QED BY <1>1, <1>2, <1>3, <1>4, <1>5 DEF TypeOK

(* A queue that stays as it is.                                            *)
LEMMA SameQueue ==
    ASSUME UNCHANGED queue
    PROVE  /\ \A a \in Addresses : InQueue(a)' <=> InQueue(a)
           /\ QueuedOnce' <=> QueuedOnce
BY DEF InQueue, QueuedOnce

(* What is read of a number that was printed is a number.                  *)
LEMMA ParseType ==
    ASSUME NEW v \in Values
    PROVE  Parse(v) \in Values /\ Parse(v) \in Nat /\ Half \in Nat /\ (v < Half => Parse(v) = v)
BY ValuesAssumption DEF Parse

(* A request that nothing will read.                                       *)
LEMMA BlankType == Blank \in Requests
BY ValuesAssumption DEF Blank, Requests

(* The code of a response is one of four.                                  *)
LEMMA SetResponseType ==
    ASSUME TypeOK, NEW a \in Addresses, NEW code \in {0, 200, 400, 500}, SetResponse(a, code)
    PROVE  mem' \in [Addresses -> Requests]
<1>1. mem[a] \in Requests /\ mem' = [mem EXCEPT ![a] = [mem[a] EXCEPT !.code = code]]
    BY DEF SetResponse, TypeOK
<1>2. [mem[a] EXCEPT !.code = code] \in Requests
    BY <1>1 DEF Requests
<1>. QED BY <1>1, <1>2 DEF TypeOK

(* A request whose semaphore is given.                                     *)
LEMMA GivenType ==
    ASSUME NEW r \in Requests, NEW given \in BOOLEAN
    PROVE  [r EXCEPT !.given = given] \in Requests
BY DEF Requests

(* No connection.                                                          *)
LEMMA NoConnType == NoConn \in Connections
BY ValuesAssumption DEF NoConn, Connections

(* A handler that only moves its connection on.                            *)
LEMMA BecomeConn ==
    ASSUME TypeOK, NEW a \in Addresses, NEW phase \in {"connecting", "silent", "closing"}, Become(a, phase)
    PROVE  /\ conns' \in [Addresses -> Connections]
           /\ \A x \in Addresses \ {a} : conns'[x] = conns[x]
           /\ conns'[a].phase = phase
<1>1. [NoConn EXCEPT !.phase = phase] = [phase |-> phase, url |-> Ping, number |-> 0, code |-> 0]
    BY DEF NoConn
<1>2. [NoConn EXCEPT !.phase = phase] \in Connections
    BY <1>1, ValuesAssumption DEF Connections
<1>. QED BY <1>1, <1>2 DEF Become, TypeOK

(* The server answers on a connection.                                     *)
LEMMA AnswerConn ==
    ASSUME TypeOK, NEW a \in Addresses, NEW code \in {0, 200, 400}, NEW n \in Values,
           Answer(a, code, n)
    PROVE  /\ conns' \in [Addresses -> Connections]
           /\ \A x \in Addresses \ {a} : conns'[x] = conns[x]
           /\ conns'[a].phase = "answered" /\ conns'[a].code = code /\ conns'[a].number = n
<1>. DEFINE r == [NoConn EXCEPT !.phase = "answered", !.code = code, !.number = n]
<1>1. r \in Connections
    BY ValuesAssumption DEF NoConn, Connections
<1>2. r.phase = "answered" /\ r.code = code /\ r.number = n
    BY DEF NoConn
<1>. QED BY <1>1, <1>2 DEF Answer, TypeOK

(* The request of a caller that is about to queue it.                      *)
LEMMA AboutToQueue ==
    ASSUME IInv, NEW c \in Callers, At(c, "enqueue")
    PROVE  /\ caller[c].blk \in Addresses /\ ~InQueue(caller[c].blk) /\ ~Open(caller[c].blk)
           /\ IF Waits(caller[c].blk) THEN caller[c].blk = c /\ ~mem[c].given /\ mem[c].code = 0
                                      ELSE caller[c].blk \in Blocks \ heap
BY BlocksAssumption
DEF IInv, Ownership, Callings, Allocated, Elsewhere, Owned, At, Waits, Addresses

(* The server takes a value, and every call that is under way sees it.     *)
LEMMA ServerSets ==
    ASSUME TypeOK, Seeing, NEW p \in Params, NEW v \in Values, SetServer(p, v), UNCHANGED mem
    PROVE  /\ caller' \in [Callers -> CallerStates] /\ server' \in [Params -> Values]
           /\ \A c \in Callers :
                 /\ caller'[c].pc = caller[c].pc /\ caller'[c].blk = caller[c].blk
                 /\ caller[c].seen \subseteq caller'[c].seen
                 /\ ~At(c, "idle") /\ mem[caller[c].blk].param = p => v \in caller'[c].seen
           /\ Seeing'
<1>1. server' \in [Params -> Values] /\ server' = [server EXCEPT ![p] = v]
    BY DEF SetServer, TypeOK
<1>2. ASSUME NEW c \in Callers
      PROVE  caller'[c] = IF ~At(c, "idle") /\ mem[caller[c].blk].param = p
                          THEN [caller[c] EXCEPT !.seen = @ \union {v}] ELSE caller[c]
    BY DEF SetServer
<1>3. ASSUME NEW c \in Callers
      PROVE  /\ caller'[c] \in CallerStates
             /\ caller'[c].pc = caller[c].pc /\ caller'[c].blk = caller[c].blk
             /\ caller[c].seen \subseteq caller'[c].seen
             /\ ~At(c, "idle") /\ mem[caller[c].blk].param = p => v \in caller'[c].seen
    <2>1. caller[c] \in CallerStates
        BY DEF TypeOK
    <2>2. CASE ~At(c, "idle") /\ mem[caller[c].blk].param = p
        <3>1. caller'[c] = [pc |-> caller[c].pc, blk |-> caller[c].blk,
                            seen |-> caller[c].seen \union {v}, out |-> caller[c].out]
            BY <1>2, <2>1, <2>2 DEF CallerStates
        <3>2. caller[c].seen \union {v} \in SUBSET Values
            BY <2>1 DEF CallerStates
        <3>. QED BY <2>1, <3>1, <3>2 DEF CallerStates
    <2>3. CASE ~(~At(c, "idle") /\ mem[caller[c].blk].param = p)
        BY <1>2, <2>1, <2>3
    <2>. QED BY <2>2, <2>3
<1>4. caller' \in [Callers -> CallerStates]
    BY <1>3 DEF SetServer
<1>5. Seeing'
    BY <1>1, <1>3 DEF Seeing, At, TypeOK
<1>. QED BY <1>1, <1>3, <1>4, <1>5

(* Nothing is queued, connected or asked for at first.                     *)
LEMMA InitHolds == Init => IInv
<1>. SUFFICES ASSUME Init PROVE IInv
    OBVIOUS
<1>. USE DEF Init
<1>1. TypeOK
    <2>1. caller \in [Callers -> CallerStates] /\ task \in TaskStates
        BY DEF CallerStates, TaskStates, Idle, Receiving
    <2>2. mem \in [Addresses -> Requests] /\ conns \in [Addresses -> Connections]
        BY ValuesAssumption DEF Requests, Connections, NoConn, Blank, Ping
    <2>3. server \in [Params -> Values] /\ queue \in Seq(Addresses) /\ Len(queue) <= QueueSize
        BY QueueAssumption, ValuesAssumption
    <2>. QED BY <2>1, <2>2, <2>3 DEF TypeOK
<1>2. \A a \in Addresses : ~InQueue(a) /\ ~Open(a)
    BY DEF InQueue, Open, NoConn
<1>3. Ownership
    BY <1>2 DEF Ownership, Owned, OnePlace, QueuedOnce, NoLeak, Callings, Allocated, QueuedByOne,
           PingAllocated, At, Idle, Receiving
<1>4. Serving
    BY <1>2 DEF Serving, UrlIsOwn, OneConnection, Seeing, Sent, Answered, Answers, At, Idle, Receiving, NoConn, Addresses
<1>. QED BY <1>1, <1>3, <1>4 DEF IInv

-----------------------------------------------------------------------------
(* Every step keeps it.                                                    *)

(* Nothing but halted changes.                                             *)
LEMMA HaltingKeeps ==
    ASSUME IInv, halted' \in BOOLEAN,
           UNCHANGED <<calls, driver, server>>
    PROVE  IInv'
<1>. TypeOK /\ Ownership /\ Serving
    BY DEF IInv
<1>. USE DEF Ownership, Serving
<1>1. UNCHANGED <<caller, mem, heap, queue, task, url, done, mutex, conns, server>>
    BY DEF calls, driver
<1>2. QueuedOnce' /\ \A x \in Addresses : InQueue(x)' <=> InQueue(x)
    BY <1>1, SameQueue
<1>3. \A x \in Addresses : Open(x)' <=> Open(x)
    BY <1>1 DEF Open
<1>4. TypeOK'
    BY <1>1 DEF TypeOK
<1>5. Owned' /\ OnePlace' /\ NoLeak'
    BY <1>1, <1>2, <1>3 DEF At, Owned, OnePlace, NoLeak, BeingQueued, Addresses
<1>6. Callings' /\ Allocated' /\ QueuedByOne' /\ PingAllocated'
    BY <1>1, <1>2, <1>3
    DEF At, Callings, Addresses, Allocated, QueuedByOne, PingAllocated, Elsewhere
<1>7. UrlIsOwn' /\ OneConnection'
    BY <1>1, <1>2, <1>3 DEF At, UrlIsOwn, Open, OneConnection
<1>8. Seeing'
    BY <1>1, <1>2, <1>3 DEF At, Seeing
<1>9. Sent' /\ Answered' /\ Answers'
    BY <1>1, <1>2, <1>3 DEF At, Sent, Open, Answered, Owned, Addresses, Answers
<1>. QED BY <1>4, <1>5, <1>2, <1>6, <1>7, <1>8, <1>9 DEF IInv

(* A call makes its request: nothing knew of the address.                  *)
LEMMA CallKeeps ==
    ASSUME IInv, NEW c \in Callers, NEW k \in Kinds, NEW p \in Params, NEW v \in Values,
           Call(c, k, p, v), ~(k # "get" /\ v > ClientMax[p])
    PROVE  IInv'
<1>. TypeOK /\ Ownership /\ Serving
    BY DEF IInv
<1>. USE DEF Ownership, Serving
<1>1. PICK a \in IF k = "post" THEN heap ELSE {c} :
        /\ mem' = [mem EXCEPT ![a] = [kind |-> k, param |-> p, number |-> v, code |-> 0, given |-> FALSE]]
        /\ heap' = heap \ {a}
        /\ caller' = [caller EXCEPT ![c] = [pc |-> "enqueue", blk |-> a,
                                           seen |-> {server[p]}, out |-> {}]]
    BY DEF Call
<1>2. caller[c].pc = "idle" /\ UNCHANGED <<queue, task, url, done, mutex, conns, server, halted>>
    BY DEF Call, driver, At
<1>3. /\ a \in Addresses /\ ~InQueue(a) /\ ~Open(a)
      /\ IF a \in Callers THEN a = c ELSE a \in heap
      /\ \A d \in Callers \ {c} : ~At(d, "idle") => caller[d].blk \in Addresses \ {a}
      /\ task.pc = "ping" => task.blk # a
    BY <1>2, BlocksAssumption DEF TypeOK, CallerStates, Owned, Callings, Allocated, PingAllocated, Elsewhere, At, Waits, Addresses
<1>4. QueuedOnce' /\ \A x \in Addresses : InQueue(x)' <=> InQueue(x)
    BY SameQueue DEF Call
<1>5. \A x \in Addresses : Open(x)' <=> Open(x)
    BY DEF Call, driver, Open
<1>6. /\ \A x \in Addresses \ {a} : mem'[x] = mem[x]
      /\ mem'[a] = [kind |-> k, param |-> p, number |-> v, code |-> 0, given |-> FALSE]
      /\ \A d \in Callers \ {c} : caller'[d] = caller[d]
      /\ caller'[c] = [pc |-> "enqueue", blk |-> a, seen |-> {server[p]}, out |-> {}]
    BY <1>1, <1>3 DEF TypeOK
<1>7. TypeOK'
    <2>1. mem' \in [Addresses -> Requests]
        BY <1>1, <1>3 DEF TypeOK, Requests
    <2>2. caller' \in [Callers -> CallerStates]
        BY <1>1, <1>3 DEF TypeOK, CallerStates
    <2>. QED BY <1>1, <1>2, <2>1, <2>2 DEF TypeOK
<1>8. Owned' /\ OnePlace' /\ NoLeak'
    BY <1>1, <1>2, <1>3, <1>4, <1>5, <1>6
    DEF At, Waits, Owned, OnePlace, NoLeak, BeingQueued, Addresses
<1>9. Callings' /\ Allocated' /\ QueuedByOne' /\ PingAllocated'
    BY <1>1, <1>2, <1>3, <1>4, <1>5, <1>6
    DEF At, Waits, Callings, Addresses, Allocated, QueuedByOne, PingAllocated, Elsewhere
<1>10. UrlIsOwn' /\ OneConnection'
    BY <1>1, <1>2, <1>3, <1>4, <1>5, <1>6 DEF At, Waits, UrlIsOwn, Open, OneConnection
<1>11. Seeing'
    BY <1>1, <1>2, <1>3, <1>4, <1>5, <1>6 DEF At, Waits, Seeing
<1>12. Sent' /\ Answered' /\ Answers'
    BY <1>1, <1>2, <1>3, <1>4, <1>5, <1>6
    DEF At, Waits, Sent, Open, Answered, Owned, Addresses, Answers
<1>. QED BY <1>7, <1>8, <1>4, <1>9, <1>10, <1>11, <1>12 DEF IInv

(* The request of a caller goes to the queue, and the caller to sleep.     *)
LEMMA EnqueueKeeps ==
    ASSUME IInv, NEW c \in Callers, Enqueue(c)
    PROVE  IInv'
<1>. TypeOK /\ Ownership /\ Serving
    BY DEF IInv
<1>. USE DEF Ownership, Serving
<1>1. /\ caller[c].blk \in Addresses /\ ~InQueue(caller[c].blk) /\ ~Open(caller[c].blk)
      /\ caller[c].pc = "enqueue"
      /\ IF caller[c].blk \in Callers THEN caller[c].blk = c /\ ~mem[c].given /\ mem[c].code = 0
                                    ELSE caller[c].blk \in Blocks \ heap
    BY AboutToQueue DEF Enqueue, At, Waits
<1>2. /\ queue' \in Seq(Addresses) /\ Len(queue') <= QueueSize /\ QueuedOnce'
      /\ \A a \in Addresses : InQueue(a)' <=> InQueue(a) \/ a = caller[c].blk
    BY <1>1, AppendQueue DEF Enqueue
<1>3. \A x \in Addresses : Open(x)' <=> Open(x)
    BY DEF Enqueue, driver, Open
<1>4. /\ \A d \in Callers \ {c} : caller'[d] = caller[d]
      /\ caller'[c] = IF caller[c].blk = c THEN [caller[c] EXCEPT !.pc = "wait"] ELSE Idle
      /\ UNCHANGED <<mem, heap, task, url, done, mutex, conns, server, halted>>
    BY <1>1 DEF Enqueue, driver, TypeOK, Waits
<1>5. /\ caller'[c].pc = IF caller[c].blk = c THEN "wait" ELSE "idle"
      /\ caller[c].blk = c => caller'[c].blk = c /\ caller'[c].seen = caller[c].seen
    BY <1>1, <1>4 DEF Idle, TypeOK, CallerStates
<1>6. TypeOK'
    BY <1>1, <1>2 DEF Enqueue, driver, TypeOK, CallerStates, Idle
<1>7. Owned'
    BY <1>1, <1>2, <1>3, <1>4, <1>5 DEF At, Waits, Owned
<1>8. OnePlace'
    BY <1>1, <1>2, <1>3, <1>4, <1>5 DEF At, Waits, OnePlace
<1>9. NoLeak'
    BY <1>1, <1>2, <1>3, <1>4, <1>5 DEF At, Waits, NoLeak, BeingQueued, Addresses
<1>10. Callings'
    BY <1>1, <1>2, <1>3, <1>4, <1>5 DEF At, Waits, Callings, Addresses
<1>11. Allocated'
    BY <1>1, <1>2, <1>3, <1>4, <1>5
    DEF At, Waits, Allocated, QueuedByOne, PingAllocated, Elsewhere, Addresses
<1>12. QueuedByOne'
    BY <1>1, <1>2, <1>3, <1>4, <1>5 DEF At, Waits, QueuedByOne
<1>13. PingAllocated'
    BY <1>1, <1>2, <1>3, <1>4, <1>5 DEF At, Waits, PingAllocated, Elsewhere, Addresses
<1>14. UrlIsOwn' /\ OneConnection'
    BY <1>1, <1>2, <1>3, <1>4, <1>5 DEF At, Waits, UrlIsOwn, Open, OneConnection
<1>15. Seeing'
    BY <1>1, <1>2, <1>3, <1>4, <1>5 DEF At, Waits, Seeing
<1>16. Sent' /\ Answered' /\ Answers'
    BY <1>1, <1>2, <1>3, <1>4, <1>5
    DEF At, Waits, Sent, Open, Answered, Owned, Addresses, Answers
<1>. QED BY <1>6, <1>7, <1>8, <1>9, <1>2, <1>10, <1>11, <1>12, <1>13, <1>14, <1>15, <1>16 DEF IInv

(* A request that does not fit goes back to the heap.                      *)
LEMMA EnqueueFailsKeeps ==
    ASSUME IInv, NEW c \in Callers, EnqueueFails(c), ~Waits(caller[c].blk)
    PROVE  IInv'
<1>. TypeOK /\ Ownership /\ Serving
    BY DEF IInv
<1>. USE DEF Ownership, Serving
<1>1. /\ caller[c].blk \in Blocks \ heap /\ caller[c].pc = "enqueue"
      /\ ~InQueue(caller[c].blk) /\ ~Open(caller[c].blk)
      /\ \A d \in Callers \ {c} : ~At(d, "idle") => caller[d].blk \in Addresses \ {caller[c].blk}
    BY AboutToQueue, BlocksAssumption DEF EnqueueFails, At, Callings, QueuedByOne, Addresses, TypeOK, CallerStates
<1>2. QueuedOnce' /\ \A x \in Addresses : InQueue(x)' <=> InQueue(x)
    BY SameQueue DEF EnqueueFails
<1>3. \A x \in Addresses : Open(x)' <=> Open(x)
    BY DEF EnqueueFails, driver, Open
<1>4. /\ \A x \in Addresses \ {caller[c].blk} : mem'[x] = mem[x]
      /\ mem'[caller[c].blk] = Blank /\ heap' = heap \union {caller[c].blk}
      /\ \A d \in Callers \ {c} : caller'[d] = caller[d]
      /\ caller'[c] = Idle /\ caller'[c].pc = "idle"
      /\ UNCHANGED <<queue, task, url, done, mutex, conns, server, halted>>
    BY <1>1 DEF EnqueueFails, Free, driver, TypeOK, Addresses, Idle
<1>5. TypeOK'
    <2>1. mem' \in [Addresses -> Requests]
        BY BlankType DEF EnqueueFails, Free, TypeOK
    <2>2. caller' \in [Callers -> CallerStates]
        BY DEF EnqueueFails, TypeOK, CallerStates, Idle
    <2>. QED BY <1>1, <1>4, <2>1, <2>2 DEF TypeOK
<1>6. Owned' /\ OnePlace' /\ NoLeak'
    BY <1>1, <1>2, <1>3, <1>4, BlocksAssumption
    DEF At, Waits, Owned, OnePlace, NoLeak, BeingQueued, Addresses
<1>7. Callings' /\ Allocated' /\ QueuedByOne' /\ PingAllocated'
    BY <1>1, <1>2, <1>3, <1>4, BlocksAssumption
    DEF At, Waits, Callings, Addresses, Allocated, QueuedByOne, PingAllocated, Elsewhere
<1>8. UrlIsOwn' /\ OneConnection'
    BY <1>1, <1>2, <1>3, <1>4, BlocksAssumption DEF At, Waits, UrlIsOwn, Open, OneConnection
<1>9. Seeing'
    BY <1>1, <1>2, <1>3, <1>4, BlocksAssumption DEF At, Waits, Seeing
<1>10. Sent' /\ Answered' /\ Answers'
    BY <1>1, <1>2, <1>3, <1>4, BlocksAssumption
    DEF At, Waits, Sent, Open, Answered, Owned, Addresses, Answers
<1>. QED BY <1>5, <1>6, <1>2, <1>7, <1>8, <1>9, <1>10 DEF IInv

(* The task forgot the request before it woke the caller.                  *)
LEMMA ReturnKeeps ==
    ASSUME IInv, NEW c \in Callers, Return(c)
    PROVE  IInv'
<1>. TypeOK /\ Ownership /\ Serving
    BY DEF IInv
<1>. USE DEF Ownership, Serving
<1>1. /\ caller[c].pc = "wait" /\ c \in Addresses /\ ~InQueue(c) /\ ~Open(c)
      /\ \A d \in Callers \ {c} : ~At(d, "idle") => caller[d].blk \in Addresses \ {c}
    BY BlocksAssumption DEF Return, At, Owned, Waits, Callings, Addresses, TypeOK, CallerStates
<1>2. QueuedOnce' /\ \A x \in Addresses : InQueue(x)' <=> InQueue(x)
    BY SameQueue DEF Return
<1>3. \A x \in Addresses : Open(x)' <=> Open(x)
    BY DEF Return, driver, Open
<1>4. /\ \A x \in Addresses \ {c} : mem'[x] = mem[x]
      /\ mem'[c] = Blank
      /\ \A d \in Callers \ {c} : caller'[d] = caller[d]
      /\ caller'[c].pc = "idle"
      /\ UNCHANGED <<heap, queue, task, url, done, mutex, conns, server, halted>>
    BY <1>1 DEF Return, driver, TypeOK, Idle
<1>5. TypeOK'
    <2>1. mem' \in [Addresses -> Requests]
        BY BlankType DEF Return, TypeOK
    <2>2. caller' \in [Callers -> CallerStates]
        <3>1. mem[c].number \in Values
            BY <1>1 DEF TypeOK, Requests
        <3>2. Delivered(c) \in SUBSET Values
            BY <3>1 DEF Delivered
        <3>. QED BY <3>2 DEF Return, TypeOK, CallerStates, Idle
    <2>. QED BY <1>1, <1>4, <2>1, <2>2 DEF TypeOK
<1>6. Owned' /\ OnePlace' /\ NoLeak'
    BY <1>1, <1>2, <1>3, <1>4, BlocksAssumption
    DEF At, Waits, Owned, OnePlace, NoLeak, BeingQueued, Addresses
<1>7. Callings' /\ Allocated' /\ QueuedByOne' /\ PingAllocated'
    BY <1>1, <1>2, <1>3, <1>4, BlocksAssumption
    DEF At, Waits, Callings, Addresses, Allocated, QueuedByOne, PingAllocated, Elsewhere
<1>8. UrlIsOwn' /\ OneConnection'
    BY <1>1, <1>2, <1>3, <1>4, BlocksAssumption DEF At, Waits, UrlIsOwn, Open, OneConnection
<1>9. Seeing'
    BY <1>1, <1>2, <1>3, <1>4, BlocksAssumption DEF At, Waits, Seeing
<1>10. Sent' /\ Answered' /\ Answers'
    BY <1>1, <1>2, <1>3, <1>4, BlocksAssumption
    DEF At, Waits, Sent, Open, Answered, Owned, Addresses, Answers
<1>. QED BY <1>5, <1>6, <1>2, <1>7, <1>8, <1>9, <1>10 DEF IInv

(* The request leaves the queue for the one connection.                    *)
LEMMA ReceiveKeeps ==
    ASSUME IInv, Receive
    PROVE  IInv'
<1>. TypeOK /\ Ownership /\ Serving
    BY DEF IInv
<1>. USE DEF Ownership, Serving
<1>1. queue # << >> /\ task.pc = "receive" /\ task.blk = Ping
    BY DEF Receive, PingAllocated
<1>2. /\ Head(queue) \in Addresses /\ InQueue(Head(queue))
      /\ queue' \in Seq(Addresses) /\ Len(queue') <= QueueSize /\ QueuedOnce'
      /\ \A x \in Addresses : InQueue(x)' <=> InQueue(x) /\ x # Head(queue)
    BY <1>1, TailQueue DEF Receive
<1>3. task' \in TaskStates /\ task'.pc = "poll" /\ task'.blk = Ping
    BY <1>1 DEF Receive, TypeOK, TaskStates
<1>4. \A x \in Addresses : ~Open(x)
    BY <1>1 DEF OneConnection
<1>5. /\ conns' \in [Addresses -> Connections]
      /\ \A x \in Addresses \ {Head(queue)} : conns'[x] = conns[x]
      /\ conns'[Head(queue)].phase = "connecting"
    BY <1>2, ValuesAssumption DEF Receive, TypeOK, NoConn, Connections
<1>6. \A x \in Addresses : Open(x)' <=> x = Head(queue)
    BY <1>2, <1>4, <1>5 DEF Open
<1>7. url' = mem[Head(queue)].param /\ done' = FALSE /\ UNCHANGED <<caller, mem, heap, mutex, server, halted>>
    BY DEF Receive, Reset
<1>8. TypeOK'
    BY <1>2, <1>3, <1>5, <1>7 DEF TypeOK, Requests
<1>9. Owned' /\ OnePlace' /\ NoLeak'
    BY <1>1, <1>2, <1>3, <1>4, <1>5, <1>6, <1>7
    DEF At, Waits, Owned, OnePlace, NoLeak, BeingQueued, Addresses
<1>10. Callings' /\ Allocated' /\ QueuedByOne' /\ PingAllocated'
    BY <1>1, <1>2, <1>3, <1>4, <1>5, <1>6, <1>7
    DEF At, Waits, Callings, Addresses, Allocated, QueuedByOne, PingAllocated, Elsewhere
<1>11. UrlIsOwn' /\ OneConnection'
    BY <1>1, <1>2, <1>3, <1>4, <1>5, <1>6, <1>7 DEF At, Waits, UrlIsOwn, Open, OneConnection
<1>12. Seeing'
    BY <1>1, <1>2, <1>3, <1>4, <1>5, <1>6, <1>7 DEF At, Waits, Seeing
<1>13. Sent' /\ Answered' /\ Answers'
    BY <1>1, <1>2, <1>3, <1>4, <1>5, <1>6, <1>7
    DEF At, Waits, Sent, Open, Answered, Owned, Addresses, Answers
<1>. QED BY <1>8, <1>9, <1>2, <1>10, <1>11, <1>12, <1>13 DEF IInv

(* A block for the ping.                                                   *)
LEMMA KeepAliveKeeps ==
    ASSUME IInv, KeepAlive
    PROVE  IInv'
<1>. TypeOK /\ Ownership /\ Serving
    BY DEF IInv
<1>. USE DEF Ownership, Serving
<1>1. PICK b \in heap : task' = [pc |-> "ping", blk |-> b] /\ heap' = heap \ {b}
    BY DEF KeepAlive
<1>2. /\ task.pc = "receive" /\ b \in Blocks /\ b \in Addresses /\ ~InQueue(b) /\ ~Open(b)
      /\ \A d \in Callers : At(d, "enqueue") => caller[d].blk # b
    BY BlocksAssumption DEF KeepAlive, TypeOK, Owned, Waits, Allocated, Elsewhere, Addresses
<1>3. QueuedOnce' /\ \A x \in Addresses : InQueue(x)' <=> InQueue(x)
    BY SameQueue DEF KeepAlive
<1>4. \A x \in Addresses : Open(x)' <=> Open(x)
    BY DEF KeepAlive, Open
<1>5. UNCHANGED <<caller, mem, queue, url, done, mutex, conns, server, halted>>
    BY DEF KeepAlive
<1>6. TypeOK'
    BY <1>1, <1>2, <1>5 DEF TypeOK, TaskStates
<1>7. Owned' /\ OnePlace' /\ NoLeak'
    BY <1>1, <1>2, <1>3, <1>4, <1>5
    DEF At, Waits, Owned, OnePlace, NoLeak, BeingQueued, Addresses
<1>8. Callings' /\ Allocated' /\ QueuedByOne' /\ PingAllocated'
    BY <1>1, <1>2, <1>3, <1>4, <1>5
    DEF At, Waits, Callings, Addresses, Allocated, QueuedByOne, PingAllocated, Elsewhere
<1>9. UrlIsOwn' /\ OneConnection'
    BY <1>1, <1>2, <1>3, <1>4, <1>5 DEF At, Waits, UrlIsOwn, Open, OneConnection
<1>10. Seeing'
    BY <1>1, <1>2, <1>3, <1>4, <1>5 DEF At, Waits, Seeing
<1>11. Sent' /\ Answered' /\ Answers'
    BY <1>1, <1>2, <1>3, <1>4, <1>5
    DEF At, Waits, Sent, Open, Answered, Owned, Addresses, Answers
<1>. QED BY <1>6, <1>7, <1>3, <1>8, <1>9, <1>10, <1>11 DEF IInv

(* The ping is queued, or, when there is no room, freed.                   *)
LEMMA PingQueuedKeeps ==
    ASSUME IInv, PingEnqueue, Room
    PROVE  IInv'
<1>. TypeOK /\ Ownership /\ Serving
    BY DEF IInv
<1>. USE DEF Ownership, Serving
<1>1. /\ task.blk \in Blocks /\ task.blk \in Addresses /\ ~InQueue(task.blk) /\ ~Open(task.blk) /\ task.blk \notin heap
      /\ task.pc = "ping"
      /\ \A d \in Callers : ~At(d, "idle") => caller[d].blk \in Addresses \ {task.blk}
    BY BlocksAssumption DEF PingEnqueue, PingAllocated, Elsewhere, Addresses, Callings, TypeOK, CallerStates, At
<1>2. /\ queue' \in Seq(Addresses) /\ Len(queue') <= QueueSize /\ QueuedOnce'
      /\ \A x \in Addresses : InQueue(x)' <=> InQueue(x) \/ x = task.blk
    BY <1>1, AppendQueue DEF PingEnqueue
<1>3. \A x \in Addresses : Open(x)' <=> Open(x)
    BY DEF PingEnqueue, Open
<1>4. task' = Receiving /\ UNCHANGED <<caller, mem, heap, url, done, mutex, conns, server, halted>>
    BY DEF PingEnqueue
<1>5. TypeOK'
    BY <1>2, <1>4 DEF TypeOK, TaskStates, Receiving
<1>6. Owned' /\ OnePlace' /\ NoLeak'
    BY <1>1, <1>2, <1>3, <1>4, BlocksAssumption
    DEF At, Waits, Receiving, Owned, OnePlace, NoLeak, BeingQueued, Addresses
<1>7. Callings' /\ Allocated' /\ QueuedByOne' /\ PingAllocated'
    BY <1>1, <1>2, <1>3, <1>4, BlocksAssumption
    DEF At, Waits, Receiving, Callings, Addresses, Allocated, QueuedByOne, PingAllocated, Elsewhere
<1>8. UrlIsOwn' /\ OneConnection'
    BY <1>1, <1>2, <1>3, <1>4, BlocksAssumption
    DEF At, Waits, Receiving, UrlIsOwn, Open, OneConnection
<1>9. Seeing'
    BY <1>1, <1>2, <1>3, <1>4, BlocksAssumption DEF At, Waits, Receiving, Seeing
<1>10. Sent' /\ Answered' /\ Answers'
    BY <1>1, <1>2, <1>3, <1>4, BlocksAssumption
    DEF At, Waits, Receiving, Sent, Open, Answered, Owned, Addresses, Answers
<1>. QED BY <1>5, <1>6, <1>2, <1>7, <1>8, <1>9, <1>10 DEF IInv

LEMMA PingDroppedKeeps ==
    ASSUME IInv, PingEnqueue, ~Room
    PROVE  IInv'
<1>. TypeOK /\ Ownership /\ Serving
    BY DEF IInv
<1>. USE DEF Ownership, Serving
<1>1. /\ task.blk \in Blocks /\ task.blk \in Addresses /\ ~InQueue(task.blk) /\ ~Open(task.blk) /\ task.blk \notin heap
      /\ task.pc = "ping"
      /\ \A d \in Callers : ~At(d, "idle") => caller[d].blk \in Addresses \ {task.blk}
    BY BlocksAssumption DEF PingEnqueue, PingAllocated, Elsewhere, Addresses, Callings, TypeOK, CallerStates, At
<1>2. QueuedOnce' /\ \A x \in Addresses : InQueue(x)' <=> InQueue(x)
    BY SameQueue DEF PingEnqueue
<1>3. \A x \in Addresses : Open(x)' <=> Open(x)
    BY DEF PingEnqueue, Open
<1>4. /\ task' = Receiving /\ heap' = heap \union {task.blk}
      /\ mem' = [mem EXCEPT ![task.blk] = Blank] /\ \A x \in Addresses \ {task.blk} : mem'[x] = mem[x]
      /\ UNCHANGED <<caller, queue, url, done, mutex, conns, server, halted>>
    BY <1>1 DEF PingEnqueue, Free, TypeOK
<1>5. TypeOK'
    BY <1>1, <1>4, BlankType DEF TypeOK, TaskStates, Receiving
<1>6. Owned' /\ OnePlace' /\ NoLeak'
    BY <1>1, <1>2, <1>3, <1>4, BlocksAssumption
    DEF At, Waits, Receiving, Owned, OnePlace, NoLeak, BeingQueued, Addresses
<1>7. Callings' /\ Allocated' /\ QueuedByOne' /\ PingAllocated'
    BY <1>1, <1>2, <1>3, <1>4, BlocksAssumption
    DEF At, Waits, Receiving, Callings, Addresses, Allocated, QueuedByOne, PingAllocated, Elsewhere
<1>8. UrlIsOwn' /\ OneConnection'
    BY <1>1, <1>2, <1>3, <1>4, BlocksAssumption
    DEF At, Waits, Receiving, UrlIsOwn, Open, OneConnection
<1>9. Seeing'
    BY <1>1, <1>2, <1>3, <1>4, BlocksAssumption DEF At, Waits, Receiving, Seeing
<1>10. Sent' /\ Answered' /\ Answers'
    BY <1>1, <1>2, <1>3, <1>4, BlocksAssumption
    DEF At, Waits, Receiving, Sent, Open, Answered, Owned, Addresses, Answers
<1>. QED BY <1>5, <1>6, <1>2, <1>7, <1>8, <1>9, <1>10 DEF IInv

(* Once done, and nothing left to close, the mutex has been given.         *)
LEMMA PollReturnsKeeps ==
    ASSUME IInv, PollReturns
    PROVE  IInv'
<1>. TypeOK /\ Ownership /\ Serving
    BY DEF IInv
<1>. USE DEF Ownership, Serving
<1>1. /\ task.pc = "poll" /\ task'.pc = "take" /\ task'.blk = Ping /\ task' \in TaskStates
    BY DEF PollReturns, PingAllocated, TypeOK, TaskStates
<1>2. \A x \in Addresses : ~Open(x)
    BY DEF PollReturns, OneConnection
<1>3. QueuedOnce' /\ \A x \in Addresses : InQueue(x)' <=> InQueue(x)
    BY SameQueue DEF PollReturns, calls
<1>4. \A x \in Addresses : Open(x)' <=> Open(x)
    BY DEF PollReturns, Open
<1>5. UNCHANGED <<caller, mem, heap, queue, url, done, mutex, conns, server, halted>>
    BY DEF PollReturns, calls
<1>6. TypeOK'
    BY <1>1, <1>5 DEF TypeOK
<1>7. Owned' /\ OnePlace' /\ NoLeak'
    BY <1>1, <1>2, <1>3, <1>4, <1>5
    DEF At, Waits, Owned, OnePlace, NoLeak, BeingQueued, Addresses
<1>8. Callings' /\ Allocated' /\ QueuedByOne' /\ PingAllocated'
    BY <1>1, <1>2, <1>3, <1>4, <1>5
    DEF At, Waits, Callings, Addresses, Allocated, QueuedByOne, PingAllocated, Elsewhere
<1>9. UrlIsOwn' /\ OneConnection'
    BY <1>1, <1>2, <1>3, <1>4, <1>5 DEF At, Waits, UrlIsOwn, Open, OneConnection
<1>10. Seeing'
    BY <1>1, <1>2, <1>3, <1>4, <1>5 DEF At, Waits, Seeing
<1>11. Sent' /\ Answered' /\ Answers'
    BY <1>1, <1>2, <1>3, <1>4, <1>5
    DEF At, Waits, Sent, Open, Answered, Owned, Addresses, Answers
<1>. QED BY <1>6, <1>7, <1>3, <1>8, <1>9, <1>10, <1>11 DEF IInv

(* The mutex is taken when there is no connection.                         *)
LEMMA TakeKeeps ==
    ASSUME IInv, Take
    PROVE  IInv'
<1>. TypeOK /\ Ownership /\ Serving
    BY DEF IInv
<1>. USE DEF Ownership, Serving
<1>1. task.pc = "take" /\ task' = Receiving /\ task'.pc = "receive" /\ task'.blk = Ping
    BY DEF Take, Receiving
<1>2. QueuedOnce' /\ \A x \in Addresses : InQueue(x)' <=> InQueue(x)
    BY SameQueue DEF Take, calls
<1>3. \A x \in Addresses : Open(x)' <=> Open(x)
    BY DEF Take, Open
<1>4. mutex' = FALSE /\ UNCHANGED <<caller, mem, heap, queue, url, done, conns, server, halted>>
    BY DEF Take, calls
<1>5. TypeOK'
    BY <1>1, <1>4 DEF TypeOK, TaskStates, Receiving
<1>6. Owned' /\ OnePlace' /\ NoLeak'
    BY <1>1, <1>2, <1>3, <1>4 DEF At, Waits, Owned, OnePlace, NoLeak, BeingQueued, Addresses
<1>7. Callings' /\ Allocated' /\ QueuedByOne' /\ PingAllocated'
    BY <1>1, <1>2, <1>3, <1>4
    DEF At, Waits, Callings, Addresses, Allocated, QueuedByOne, PingAllocated, Elsewhere
<1>8. UrlIsOwn' /\ OneConnection'
    BY <1>1, <1>2, <1>3, <1>4 DEF At, Waits, UrlIsOwn, Open, OneConnection
<1>9. Seeing'
    BY <1>1, <1>2, <1>3, <1>4 DEF At, Waits, Seeing
<1>10. Sent' /\ Answered' /\ Answers'
    BY <1>1, <1>2, <1>3, <1>4 DEF At, Waits, Sent, Open, Answered, Owned, Addresses, Answers
<1>. QED BY <1>5, <1>6, <1>2, <1>7, <1>8, <1>9, <1>10 DEF IInv

(* The handlers of the one connection.                                     *)
LEMMA ConnectFailsKeeps ==
    ASSUME IInv, NEW a \in Addresses, ConnectFails(a)
    PROVE  IInv'
<1>. TypeOK /\ Ownership /\ Serving
    BY DEF IInv
<1>. USE DEF Ownership, Serving
<1>1. /\ task.pc = "poll" /\ Open(a) /\ ~InQueue(a) /\ \A x \in Addresses : Open(x) => x = a
      /\ IF a \in Callers THEN caller[a].pc = "wait" /\ ~mem[a].given ELSE a \in Blocks \ heap
    BY DEF ConnectFails, Event, Open, OneConnection, OnePlace, Owned, Waits, At, Addresses
<1>2. \A d \in Callers : ~At(d, "idle") => caller[d].blk \in Addresses
    BY DEF Callings, TypeOK, CallerStates, At, Addresses
<1>3. Become(a, "closing")
    BY DEF ConnectFails
<1>4. /\ conns' \in [Addresses -> Connections]
      /\ \A x \in Addresses \ {a} : conns'[x] = conns[x]
      /\ conns'[a].phase = "closing"
    BY <1>3, BecomeConn
<1>5. \A x \in Addresses : Open(x)' <=> Open(x)
    BY <1>1, <1>4 DEF Open
<1>6. QueuedOnce' /\ \A x \in Addresses : InQueue(x)' <=> InQueue(x)
    BY SameQueue DEF ConnectFails
<1>7. SetResponse(a, 500)
    BY DEF ConnectFails
<1>8. mem' \in [Addresses -> Requests]
    BY <1>7, SetResponseType
<1>9. UNCHANGED <<caller, heap, queue, task, url, done, mutex, server, halted>>
    BY DEF ConnectFails
<1>10. TypeOK'
    BY <1>4, <1>8, <1>9 DEF TypeOK
<1>11. Owned' /\ OnePlace' /\ NoLeak'
    BY <1>1, <1>2, <1>4, <1>5, <1>6, <1>7, <1>9
    DEF At, Waits, SetResponse, TypeOK, Requests, Owned, OnePlace, NoLeak, BeingQueued, Addresses
<1>12. Callings' /\ Allocated' /\ QueuedByOne' /\ PingAllocated'
    BY <1>1, <1>2, <1>4, <1>5, <1>6, <1>7, <1>9
    DEF At, Waits, SetResponse, TypeOK, Requests, Callings, Addresses, Allocated, QueuedByOne, PingAllocated, Elsewhere
<1>13. UrlIsOwn' /\ OneConnection'
    BY <1>1, <1>2, <1>4, <1>5, <1>6, <1>7, <1>9
    DEF At, Waits, SetResponse, TypeOK, Requests, UrlIsOwn, Open, OneConnection
<1>14. Seeing'
    BY <1>1, <1>2, <1>4, <1>5, <1>6, <1>7, <1>9
    DEF At, Waits, SetResponse, TypeOK, Requests, Seeing
<1>15. Sent' /\ Answered' /\ Answers'
    BY <1>1, <1>2, <1>4, <1>5, <1>6, <1>7, <1>9
    DEF At, Waits, SetResponse, TypeOK, Requests, Sent, Open, Answered, Owned, Addresses, Answers
<1>. QED BY <1>10, <1>11, <1>6, <1>12, <1>13, <1>14, <1>15 DEF IInv

LEMMA ConnectedKeeps ==
    ASSUME IInv, NEW a \in Addresses, Connected(a)
    PROVE  IInv'
<1>. TypeOK /\ Ownership /\ Serving
    BY DEF IInv
<1>. USE DEF Ownership, Serving
<1>1. /\ task.pc = "poll" /\ Open(a) /\ ~InQueue(a) /\ \A x \in Addresses : Open(x) => x = a
      /\ IF a \in Callers THEN caller[a].pc = "wait" /\ ~mem[a].given ELSE a \in Blocks \ heap
    BY DEF Connected, Event, Open, OneConnection, OnePlace, Owned, Waits, At, Addresses
<1>2. /\ conns' \in [Addresses -> Connections]
      /\ \A x \in Addresses \ {a} : conns'[x] = conns[x]
      /\ conns'[a].phase = "sent" /\ conns'[a].url = url /\ conns'[a].number = mem[a].number
      /\ conns[a].phase = "connecting"
    BY DEF Connected, Event, TypeOK, Connections, Requests
<1>3. \A x \in Addresses : Open(x)' <=> Open(x)
    BY <1>1, <1>2 DEF Open
<1>4. QueuedOnce' /\ \A x \in Addresses : InQueue(x)' <=> InQueue(x)
    BY SameQueue DEF Connected, calls
<1>5. UNCHANGED <<caller, mem, heap, queue, task, url, done, mutex, server, halted>>
    BY DEF Connected, calls
<1>6. TypeOK'
    BY <1>2, <1>5 DEF TypeOK
<1>7. Owned' /\ OnePlace' /\ NoLeak'
    BY <1>1, <1>2, <1>3, <1>4, <1>5
    DEF At, Waits, Owned, OnePlace, NoLeak, BeingQueued, Addresses
<1>8. Callings' /\ Allocated' /\ QueuedByOne' /\ PingAllocated'
    BY <1>1, <1>2, <1>3, <1>4, <1>5
    DEF At, Waits, Callings, Addresses, Allocated, QueuedByOne, PingAllocated, Elsewhere
<1>9. UrlIsOwn' /\ OneConnection'
    BY <1>1, <1>2, <1>3, <1>4, <1>5 DEF At, Waits, UrlIsOwn, Open, OneConnection
<1>10. Seeing'
    BY <1>1, <1>2, <1>3, <1>4, <1>5 DEF At, Waits, Seeing
<1>11. Answered' /\ Answers'
    BY <1>1, <1>2, <1>3, <1>4, <1>5 DEF At, Waits, Answered, Owned, Open, Addresses, Answers
<1>12. Sent'
    BY <1>1, <1>2, <1>3, <1>5 DEF Sent, UrlIsOwn, Open
<1>. QED BY <1>6, <1>7, <1>4, <1>8, <1>9, <1>10, <1>11, <1>12 DEF IInv

LEMMA HttpMsgKeeps ==
    ASSUME IInv, NEW a \in Addresses, HttpMsg(a)
    PROVE  IInv'
<1>. TypeOK /\ Ownership /\ Serving
    BY DEF IInv
<1>. USE DEF Ownership, Serving
<1>1. /\ task.pc = "poll" /\ Open(a) /\ ~InQueue(a) /\ \A x \in Addresses : Open(x) => x = a
      /\ IF a \in Callers THEN caller[a].pc = "wait" /\ ~mem[a].given ELSE a \in Blocks \ heap
    BY DEF HttpMsg, Event, Open, OneConnection, OnePlace, Owned, Waits, At, Addresses
<1>2. \A d \in Callers : ~At(d, "idle") => caller[d].blk \in Addresses
    BY DEF Callings, TypeOK, CallerStates, At, Addresses
<1>3. Become(a, "closing")
    BY DEF HttpMsg
<1>4. /\ conns' \in [Addresses -> Connections]
      /\ \A x \in Addresses \ {a} : conns'[x] = conns[x]
      /\ conns'[a].phase = "closing"
    BY <1>3, BecomeConn
<1>5. \A x \in Addresses : Open(x)' <=> Open(x)
    BY <1>1, <1>4 DEF Open
<1>6. QueuedOnce' /\ \A x \in Addresses : InQueue(x)' <=> InQueue(x)
    BY SameQueue DEF HttpMsg
<1>7. conns[a].phase = "answered" /\ conns[a].code \in {0, 200, 400} /\ conns[a].number \in Values
    BY DEF HttpMsg, Event, TypeOK, Connections
<1>8. /\ \A x \in Addresses \ {a} : mem'[x] = mem[x]
      /\ mem'[a].kind = mem[a].kind /\ mem'[a].param = mem[a].param /\ mem'[a].given = mem[a].given
      /\ mem'[a].code = conns[a].code
      /\ mem'[a].number = IF mem[a].kind = "get" /\ conns[a].code = 200
                         THEN Parse(conns[a].number) ELSE mem[a].number
    BY DEF HttpMsg, SetResponse, TypeOK, Requests
<1>9. mem' \in [Addresses -> Requests]
    BY <1>7, ParseType DEF HttpMsg, SetResponse, TypeOK, Requests
<1>10. halted' \in BOOLEAN
    <2>1. CASE conns[a].code = 200 /\ mem[a].kind = "get"
        <3>1. halted' = (Parse(conns[a].number) > ClientMax[mem[a].param])
            BY <2>1 DEF HttpMsg
        <3>. QED BY <3>1
    <2>2. CASE ~(conns[a].code = 200 /\ mem[a].kind = "get")
        BY <2>2 DEF HttpMsg, TypeOK
    <2>. QED BY <2>1, <2>2
<1>11. done' = TRUE /\ UNCHANGED <<caller, heap, queue, task, url, mutex, server>>
    BY DEF HttpMsg
<1>12. TypeOK'
    BY <1>4, <1>9, <1>10, <1>11 DEF TypeOK
<1>13. Owned' /\ OnePlace' /\ NoLeak'
    BY <1>1, <1>2, <1>4, <1>5, <1>6, <1>7, <1>8, <1>11
    DEF At, Waits, Owned, OnePlace, NoLeak, BeingQueued, Addresses
<1>14. Callings' /\ Allocated' /\ QueuedByOne' /\ PingAllocated'
    BY <1>1, <1>2, <1>4, <1>5, <1>6, <1>7, <1>8, <1>11
    DEF At, Waits, Callings, Addresses, Allocated, QueuedByOne, PingAllocated, Elsewhere
<1>15. UrlIsOwn' /\ OneConnection'
    BY <1>1, <1>2, <1>4, <1>5, <1>6, <1>7, <1>8, <1>11
    DEF At, Waits, UrlIsOwn, Open, OneConnection
<1>16. Seeing'
    BY <1>1, <1>2, <1>4, <1>5, <1>6, <1>7, <1>8, <1>11 DEF At, Waits, Seeing
<1>17. Sent' /\ Answered'
    BY <1>1, <1>2, <1>4, <1>5, <1>6, <1>7, <1>8, <1>11
    DEF At, Waits, Sent, Open, Answered, Owned, Addresses
<1>18. Answers'
    <2>. SUFFICES ASSUME NEW c \in Callers, caller[c].pc = "wait", mem'[c].code = 200
                  PROVE  /\ mem[c].kind = "get" => \E v \in caller[c].seen : mem'[c].number = Parse(v)
                         /\ mem[c].kind = "set" /\ mem'[c].number < Half => mem'[c].number \in caller[c].seen
        BY <1>11, <1>8 DEF Answers, At, Addresses
    <2>1. CASE c = a
        BY <1>7, <1>8, <2>1 DEF Answered
    <2>2. CASE c # a
        BY <1>8, <2>2 DEF Answers, At, Addresses
    <2>. QED BY <2>1, <2>2
<1>. QED BY <1>12, <1>13, <1>6, <1>14, <1>15, <1>16, <1>17, <1>18 DEF IInv

LEMMA ConnectionEndsKeeps ==
    ASSUME IInv, NEW a \in Addresses, ConnectionEnds(a)
    PROVE  IInv'
<1>. TypeOK /\ Ownership /\ Serving
    BY DEF IInv
<1>. USE DEF Ownership, Serving
<1>1. /\ task.pc = "poll" /\ Open(a) /\ ~InQueue(a) /\ \A x \in Addresses : Open(x) => x = a
      /\ IF a \in Callers THEN caller[a].pc = "wait" /\ ~mem[a].given ELSE a \in Blocks \ heap
    BY DEF ConnectionEnds, Event, Open, OneConnection, OnePlace, Owned, Waits, At, Addresses
<1>2. \A d \in Callers : ~At(d, "idle") => caller[d].blk \in Addresses
    BY DEF Callings, TypeOK, CallerStates, At, Addresses
<1>3. Become(a, "closing")
    BY DEF ConnectionEnds
<1>4. /\ conns' \in [Addresses -> Connections]
      /\ \A x \in Addresses \ {a} : conns'[x] = conns[x]
      /\ conns'[a].phase = "closing"
    BY <1>3, BecomeConn
<1>5. \A x \in Addresses : Open(x)' <=> Open(x)
    BY <1>1, <1>4 DEF Open
<1>6. QueuedOnce' /\ \A x \in Addresses : InQueue(x)' <=> InQueue(x)
    BY SameQueue DEF ConnectionEnds
<1>7. mem' = [mem EXCEPT ![a].code = 500] \/ UNCHANGED mem
    BY DEF ConnectionEnds, SetResponse
<1>8. mem' \in [Addresses -> Requests]
    <2>1. CASE mem' = [mem EXCEPT ![a].code = 500]
        BY <2>1 DEF TypeOK, Requests
    <2>2. CASE UNCHANGED mem
        BY <2>2 DEF TypeOK
    <2>. QED BY <1>7, <2>1, <2>2
<1>9. /\ \A x \in Addresses \ {a} : mem'[x] = mem[x]
      /\ mem'[a].kind = mem[a].kind /\ mem'[a].param = mem[a].param /\ mem'[a].given = mem[a].given
      /\ mem'[a].number = mem[a].number /\ mem'[a].code \in {mem[a].code, 500}
    <2>1. CASE mem' = [mem EXCEPT ![a].code = 500]
        BY <2>1 DEF TypeOK, Requests
    <2>2. CASE UNCHANGED mem
        BY <2>2
    <2>. QED BY <1>7, <2>1, <2>2
<1>10. UNCHANGED <<caller, heap, queue, task, url, done, mutex, server, halted>>
    BY DEF ConnectionEnds
<1>11. TypeOK'
    BY <1>4, <1>8, <1>10 DEF TypeOK
<1>12. Owned' /\ OnePlace' /\ NoLeak'
    BY <1>1, <1>2, <1>4, <1>5, <1>6, <1>9, <1>10
    DEF At, Waits, Owned, OnePlace, NoLeak, BeingQueued, Addresses
<1>13. Callings' /\ Allocated' /\ QueuedByOne' /\ PingAllocated'
    BY <1>1, <1>2, <1>4, <1>5, <1>6, <1>9, <1>10
    DEF At, Waits, Callings, Addresses, Allocated, QueuedByOne, PingAllocated, Elsewhere
<1>14. UrlIsOwn' /\ OneConnection'
    BY <1>1, <1>2, <1>4, <1>5, <1>6, <1>9, <1>10
    DEF At, Waits, UrlIsOwn, Open, OneConnection
<1>15. Seeing'
    BY <1>1, <1>2, <1>4, <1>5, <1>6, <1>9, <1>10 DEF At, Waits, Seeing
<1>16. Sent' /\ Answered' /\ Answers'
    BY <1>1, <1>2, <1>4, <1>5, <1>6, <1>9, <1>10
    DEF At, Waits, Sent, Open, Answered, Owned, Addresses, Answers
<1>. QED BY <1>11, <1>12, <1>6, <1>13, <1>14, <1>15, <1>16 DEF IInv

(* The connection is gone, and its request with it.                        *)
LEMMA CloseKeeps ==
    ASSUME IInv, NEW a \in Addresses, Close(a)
    PROVE  IInv'
<1>. TypeOK /\ Ownership /\ Serving
    BY DEF IInv
<1>. USE DEF Ownership, Serving
<1>1. /\ task.pc = "poll" /\ Open(a) /\ ~InQueue(a) /\ \A x \in Addresses : Open(x) => x = a
      /\ IF a \in Callers THEN caller[a].pc = "wait" /\ ~mem[a].given ELSE a \in Blocks \ heap
    BY DEF Close, Event, Open, OneConnection, OnePlace, Owned, Waits, At, Addresses
<1>2. \A d \in Callers : ~At(d, "idle") => caller[d].blk \in Addresses
    BY DEF Callings, TypeOK, CallerStates, At, Addresses
<1>3. /\ conns' \in [Addresses -> Connections]
      /\ \A x \in Addresses \ {a} : conns'[x] = conns[x]
      /\ conns'[a].phase = "none"
    BY NoConnType DEF Close, TypeOK, NoConn
<1>4. \A x \in Addresses : ~Open(x)'
    BY <1>1, <1>3 DEF Open
<1>5. QueuedOnce' /\ \A x \in Addresses : InQueue(x)' <=> InQueue(x)
    BY SameQueue DEF Close
<1>6. /\ mem' \in [Addresses -> Requests] /\ \A x \in Addresses \ {a} : mem'[x] = mem[x]
      /\ IF a \in Callers
         THEN /\ UNCHANGED heap
              /\ mem'[a].code = mem[a].code /\ mem'[a].kind = mem[a].kind
              /\ mem'[a].number = mem[a].number /\ mem'[a].param = mem[a].param
         ELSE heap' = heap \union {a}
    <2>1. CASE a \in Callers
        <3>1. mem' = [mem EXCEPT ![a].given = TRUE] /\ UNCHANGED heap
            BY <2>1 DEF Close, Release, Waits
        <3>2. [mem[a] EXCEPT !.given = TRUE] \in Requests
            BY GivenType DEF TypeOK
        <3>. QED BY <2>1, <3>1, <3>2 DEF TypeOK, Requests
    <2>2. CASE a \notin Callers
        BY <2>2, BlankType DEF Close, Release, Free, Waits, TypeOK
    <2>. QED BY <2>1, <2>2
<1>7. mutex' = TRUE /\ done' = TRUE /\ UNCHANGED <<caller, queue, task, url, server, halted>>
    BY DEF Close
<1>8. a \notin Callers => \A d \in Callers : ~At(d, "idle") => caller[d].blk # a
    BY <1>1 DEF Callings, Allocated, Elsewhere, At, TypeOK, CallerStates
<1>9. TypeOK'
    BY <1>1, <1>3, <1>6, <1>7 DEF TypeOK
<1>10. Owned' /\ OnePlace' /\ NoLeak'
    BY <1>1, <1>2, <1>3, <1>4, <1>5, <1>6, <1>7, <1>8, BlocksAssumption
    DEF At, Waits, Owned, OnePlace, NoLeak, BeingQueued, Addresses
<1>11. Callings' /\ Allocated' /\ QueuedByOne' /\ PingAllocated'
    BY <1>1, <1>2, <1>3, <1>4, <1>5, <1>6, <1>7, <1>8, BlocksAssumption
    DEF At, Waits, Callings, Addresses, Allocated, QueuedByOne, PingAllocated, Elsewhere
<1>12. UrlIsOwn' /\ OneConnection'
    BY <1>1, <1>2, <1>3, <1>4, <1>5, <1>6, <1>7, <1>8, BlocksAssumption
    DEF At, Waits, UrlIsOwn, Open, OneConnection
<1>13. Seeing'
    BY <1>1, <1>2, <1>3, <1>4, <1>5, <1>6, <1>7, <1>8, BlocksAssumption
    DEF At, Waits, Seeing
<1>14. Sent' /\ Answered' /\ Answers'
    BY <1>1, <1>2, <1>3, <1>4, <1>5, <1>6, <1>7, <1>8, BlocksAssumption
    DEF At, Waits, Sent, Open, Answered, Owned, Addresses, Answers
<1>. QED BY <1>9, <1>10, <1>5, <1>11, <1>12, <1>13, <1>14 DEF IInv

(* The server.                                                             *)
LEMMA ServerFallsSilentKeeps ==
    ASSUME IInv, NEW a \in Addresses, ServerFallsSilent(a)
    PROVE  IInv'
<1>. TypeOK /\ Ownership /\ Serving
    BY DEF IInv
<1>. USE DEF Ownership, Serving
<1>1. conns[a].phase = "sent" /\ Open(a)
    BY DEF ServerFallsSilent, Open
<1>2. Become(a, "silent")
    BY DEF ServerFallsSilent
<1>3. /\ conns' \in [Addresses -> Connections]
      /\ \A x \in Addresses \ {a} : conns'[x] = conns[x]
      /\ conns'[a].phase = "silent"
    BY <1>2, BecomeConn
<1>4. \A x \in Addresses : Open(x)' <=> Open(x)
    BY <1>1, <1>3 DEF Open
<1>5. QueuedOnce' /\ \A x \in Addresses : InQueue(x)' <=> InQueue(x)
    BY SameQueue DEF ServerFallsSilent, calls
<1>6. UNCHANGED <<caller, mem, heap, queue, task, url, done, mutex, server, halted>>
    BY DEF ServerFallsSilent, calls
<1>7. TypeOK'
    BY <1>3, <1>6 DEF TypeOK
<1>8. Owned' /\ OnePlace' /\ NoLeak'
    BY <1>1, <1>3, <1>4, <1>5, <1>6
    DEF At, Waits, Owned, OnePlace, NoLeak, BeingQueued, Addresses
<1>9. Callings' /\ Allocated' /\ QueuedByOne' /\ PingAllocated'
    BY <1>1, <1>3, <1>4, <1>5, <1>6
    DEF At, Waits, Callings, Addresses, Allocated, QueuedByOne, PingAllocated, Elsewhere
<1>10. UrlIsOwn' /\ OneConnection'
    BY <1>1, <1>3, <1>4, <1>5, <1>6 DEF At, Waits, UrlIsOwn, Open, OneConnection
<1>11. Seeing'
    BY <1>1, <1>3, <1>4, <1>5, <1>6 DEF At, Waits, Seeing
<1>12. Sent' /\ Answered' /\ Answers'
    BY <1>1, <1>3, <1>4, <1>5, <1>6
    DEF At, Waits, Sent, Open, Answered, Owned, Addresses, Answers
<1>. QED BY <1>7, <1>8, <1>5, <1>9, <1>10, <1>11, <1>12 DEF IInv

LEMMA ServerChangesKeeps ==
    ASSUME IInv, ServerChanges
    PROVE  IInv'
<1>. TypeOK /\ Ownership /\ Serving
    BY DEF IInv
<1>. USE DEF Ownership, Serving
<1>1. UNCHANGED <<mem, heap, queue, task, url, done, mutex, conns, halted>>
    BY DEF ServerChanges, driver
<1>2. PICK p \in Params, v \in Values : SetServer(p, v)
    BY DEF ServerChanges
<1>3. /\ caller' \in [Callers -> CallerStates] /\ server' \in [Params -> Values]
      /\ \A c \in Callers :
            /\ caller'[c].pc = caller[c].pc /\ caller'[c].blk = caller[c].blk
            /\ caller[c].seen \subseteq caller'[c].seen
      /\ Seeing'
    <2>1. mem' = mem
        BY <1>1
    <2>5. caller' \in [Callers -> CallerStates] /\ server' \in [Params -> Values]
        BY <1>2, <2>1, ServerSets
    <2>6. Seeing'
        BY <1>2, <2>1, ServerSets
    <2>7. ASSUME NEW c \in Callers PROVE caller'[c].pc = caller[c].pc /\ caller'[c].blk = caller[c].blk
        BY <1>2, <2>1, ServerSets
    <2>8. ASSUME NEW c \in Callers PROVE caller[c].seen \subseteq caller'[c].seen
        BY <1>2, <2>1, ServerSets
    <2>. QED BY <2>5, <2>6, <2>7, <2>8
<1>4. \A x \in Addresses : Open(x)' <=> Open(x)
    BY <1>1 DEF Open
<1>5. QueuedOnce' /\ \A x \in Addresses : InQueue(x)' <=> InQueue(x)
    BY <1>1, SameQueue
<1>6. TypeOK'
    BY <1>1, <1>3 DEF TypeOK
<1>7. Owned' /\ OnePlace' /\ NoLeak'
    BY <1>1, <1>3, <1>4, <1>5
    DEF At, Waits, Owned, OnePlace, NoLeak, BeingQueued, Addresses
<1>8. Callings' /\ Allocated' /\ QueuedByOne' /\ PingAllocated'
    BY <1>1, <1>3, <1>4, <1>5
    DEF At, Waits, Callings, Addresses, Allocated, QueuedByOne, PingAllocated, Elsewhere
<1>9. UrlIsOwn' /\ OneConnection'
    BY <1>1, <1>3, <1>4, <1>5 DEF At, Waits, UrlIsOwn, Open, OneConnection
<1>10. Sent' /\ Answered' /\ Answers'
    BY <1>1, <1>3, <1>4, <1>5
    DEF At, Waits, Sent, Open, Answered, Owned, Addresses, Answers
<1>. QED BY <1>6, <1>7, <1>5, <1>8, <1>9, <1>3, <1>10 DEF IInv

LEMMA ServerAnswersKeeps ==
    ASSUME IInv, NEW a \in Addresses, ServerAnswers(a)
    PROVE  IInv'
<1>. TypeOK /\ Ownership /\ Serving
    BY DEF IInv
<1>. USE DEF Ownership, Serving
<1>1. conns[a].phase = "sent" /\ Open(a) /\ conns[a].url \in Params \union {Ping}
    BY DEF ServerAnswers, Open, TypeOK, Connections
<1>2. UNCHANGED <<mem, heap, queue, task, url, done, mutex, halted>>
    BY DEF ServerAnswers
<1>3. conns[a].url = mem[a].param /\ conns[a].number = mem[a].number /\ mem[a].number \in Values
    BY <1>1 DEF Sent, TypeOK, Requests
<1>4. a \in Callers => /\ caller[a].pc = "wait" /\ caller[a].blk = a /\ mem[a].param \in Params
                        /\ server[mem[a].param] \in caller[a].seen
    BY <1>1 DEF Owned, Waits, At, Callings, Seeing
<1>5. /\ conns' \in [Addresses -> Connections]
      /\ \A x \in Addresses \ {a} : conns'[x] = conns[x]
      /\ conns'[a].phase = "answered"
      /\ caller' \in [Callers -> CallerStates] /\ server' \in [Params -> Values]
      /\ \A c \in Callers :
            /\ caller'[c].pc = caller[c].pc /\ caller'[c].blk = caller[c].blk
            /\ caller[c].seen \subseteq caller'[c].seen
      /\ Seeing'
      /\ a \in Callers =>
            /\ mem[a].kind = "get" => conns'[a].number \in caller'[a].seen
            /\ mem[a].kind = "set" /\ conns'[a].code = 200 /\ mem[a].number < Half
                  => mem[a].number \in caller'[a].seen
    <2>0. mem' = mem
        BY <1>2
    <2>1. CASE conns[a].url = Ping
        <3>1. /\ Answer(a, 200, 0)
              /\ UNCHANGED <<caller, server>>
            BY <2>1, PingAssumption DEF ServerAnswers, Ping
        <3>2. a \notin Callers
            BY <2>1, <1>3, <1>4, PingAssumption DEF Ping
        <3>3. /\ conns' \in [Addresses -> Connections]
              /\ \A x \in Addresses \ {a} : conns'[x] = conns[x]
              /\ conns'[a].phase = "answered" /\ conns'[a].code = 200 /\ conns'[a].number = 0
            BY <3>1, ValuesAssumption, AnswerConn
        <3>4. /\ caller' \in [Callers -> CallerStates] /\ server' \in [Params -> Values]
              /\ caller' = caller /\ Seeing'
            BY <2>0, <3>1 DEF TypeOK, Seeing, At
        <3>. QED BY <3>2, <3>3, <3>4
    <2>2. CASE conns[a].url \in Params /\ mem[a].kind = "get"
        <3>1. /\ Answer(a, 200, server[conns[a].url])
              /\ UNCHANGED <<caller, server>>
            BY <2>2, PingAssumption DEF ServerAnswers, Ping
        <3>2. server[conns[a].url] \in Values
            BY <2>2 DEF TypeOK
        <3>3. /\ conns' \in [Addresses -> Connections]
              /\ \A x \in Addresses \ {a} : conns'[x] = conns[x]
              /\ conns'[a].phase = "answered" /\ conns'[a].code = 200 /\ conns'[a].number = server[conns[a].url]
            BY <3>1, <3>2, AnswerConn
        <3>4. /\ caller' \in [Callers -> CallerStates] /\ server' \in [Params -> Values]
              /\ caller' = caller /\ Seeing'
            BY <2>0, <3>1 DEF TypeOK, Seeing, At
        <3>. QED BY <2>2, <1>3, <1>4, <3>3, <3>4
    <2>3. CASE conns[a].url \in Params /\ mem[a].kind # "get"
        <3>. DEFINE p == conns[a].url
                    v == Parse(conns[a].number)
        <3>1. Answer(a, Status(v <= ServerMax[p]), 0)
            BY <2>3, PingAssumption DEF ServerAnswers, Ping
        <3>2. IF v <= ServerMax[p] THEN SetServer(p, v) ELSE UNCHANGED <<caller, server>>
            BY <2>3, PingAssumption DEF ServerAnswers, Ping
        <3>3. v \in Values /\ (mem[a].number < Half => v = mem[a].number)
            BY <1>3, ParseType
        <3>7. Status(v <= ServerMax[p]) \in {0, 200, 400}
            BY DEF Status
        <3>6. /\ conns' \in [Addresses -> Connections]
              /\ \A x \in Addresses \ {a} : conns'[x] = conns[x]
              /\ conns'[a].phase = "answered" /\ conns'[a].code = Status(v <= ServerMax[p]) /\ conns'[a].number = 0
            BY <3>1, <3>7, ValuesAssumption, AnswerConn
        <3>4. CASE v <= ServerMax[p]
            <4>1. Status(v <= ServerMax[p]) = 200
                BY <3>4 DEF Status
            <4>2. SetServer(p, v)
                BY <3>2, <3>4
            <4>. HIDE DEF v
            <4>3. /\ caller' \in [Callers -> CallerStates] /\ server' \in [Params -> Values]
                  /\ \A c \in Callers :
                        /\ caller'[c].pc = caller[c].pc /\ caller'[c].blk = caller[c].blk
                        /\ caller[c].seen \subseteq caller'[c].seen
                        /\ ~At(c, "idle") /\ mem[caller[c].blk].param = p => v \in caller'[c].seen
                  /\ Seeing'
                BY <2>0, <2>3, <3>3, <4>2, ServerSets
            <4>. QED BY <2>3, <1>3, <1>4, <3>3, <3>6, <4>3 DEF At
        <3>5. CASE ~(v <= ServerMax[p])
            <4>1. Status(v <= ServerMax[p]) = 400 /\ UNCHANGED <<caller, server>>
                BY <3>2, <3>5 DEF Status
            <4>2. /\ caller' \in [Callers -> CallerStates] /\ server' \in [Params -> Values]
                  /\ caller' = caller /\ Seeing'
                BY <2>0, <4>1 DEF TypeOK, Seeing, At
            <4>. QED BY <2>3, <3>6, <4>1, <4>2
        <3>. QED BY <3>4, <3>5
    <2>. QED BY <1>1, <2>1, <2>2, <2>3
<1>6. \A x \in Addresses : Open(x)' <=> Open(x)
    BY <1>1, <1>5 DEF Open
<1>7. QueuedOnce' /\ \A x \in Addresses : InQueue(x)' <=> InQueue(x)
    BY <1>2, SameQueue
<1>8. TypeOK'
    BY <1>2, <1>5 DEF TypeOK
<1>9. Owned' /\ OnePlace' /\ NoLeak'
    BY <1>1, <1>2, <1>5, <1>6, <1>7
    DEF At, Waits, Owned, OnePlace, NoLeak, BeingQueued, Addresses
<1>10. Callings' /\ Allocated' /\ QueuedByOne' /\ PingAllocated'
    BY <1>1, <1>2, <1>5, <1>6, <1>7
    DEF At, Waits, Callings, Addresses, Allocated, QueuedByOne, PingAllocated, Elsewhere
<1>11. UrlIsOwn' /\ OneConnection'
    BY <1>1, <1>2, <1>5, <1>6, <1>7 DEF At, Waits, UrlIsOwn, Open, OneConnection
<1>12. Sent' /\ Answered' /\ Answers'
    BY <1>1, <1>2, <1>5, <1>6, <1>7
    DEF At, Waits, Sent, Open, Answered, Owned, Addresses, Answers
<1>. QED BY <1>8, <1>9, <1>7, <1>10, <1>11, <1>5, <1>12 DEF IInv

(* Each step is one of these, or the assertion that fails.                 *)
LEMMA NextKeeps == IInv /\ [Next]_vars => IInv'
<1>. SUFFICES ASSUME IInv, [Next]_vars PROVE IInv'
    OBVIOUS
<1>. TypeOK
    BY DEF IInv
<1>1. ASSUME NEW c \in Callers, CallerStep(c) PROVE IInv'
    <2>1. CASE EnqueueFails(c) /\ Waits(caller[c].blk)
        <3>1. halted' = TRUE /\ UNCHANGED <<calls, driver, server>>
            BY <2>1 DEF EnqueueFails, calls
        <3>. QED BY <3>1, HaltingKeeps
    <2>. QED BY <1>1, <2>1, EnqueueKeeps, EnqueueFailsKeeps, ReturnKeeps DEF CallerStep
<1>2. ASSUME NEW c \in Callers, NEW k \in Kinds, NEW p \in Params, NEW v \in Values, Call(c, k, p, v)
      PROVE  IInv'
    <2>1. CASE k # "get" /\ v > ClientMax[p]
        <3>1. halted' = TRUE /\ UNCHANGED <<calls, driver, server>>
            BY <1>2, <2>1 DEF Call, calls
        <3>. QED BY <3>1, HaltingKeeps
    <2>2. CASE ~(k # "get" /\ v > ClientMax[p])
        BY <1>2, <2>2, CallKeeps
    <2>. QED BY <2>1, <2>2
<1>3. CASE Receive \/ KeepAlive \/ PingEnqueue \/ PollReturns \/ Take
    BY <1>3, ReceiveKeeps, KeepAliveKeeps, PingQueuedKeeps, PingDroppedKeeps, PollReturnsKeeps, TakeKeeps
<1>4. ASSUME NEW a \in Addresses,
             ConnectFails(a) \/ Connected(a) \/ HttpMsg(a) \/ ConnectionEnds(a) \/ Close(a)
      PROVE  IInv'
    BY <1>4, ConnectFailsKeeps, ConnectedKeeps, HttpMsgKeeps, ConnectionEndsKeeps, CloseKeeps
<1>5. ASSUME NEW a \in Addresses, ServerAnswers(a) \/ ServerFallsSilent(a) PROVE IInv'
    BY <1>5, ServerAnswersKeeps, ServerFallsSilentKeeps
<1>6. CASE ServerChanges
    BY <1>6, ServerChangesKeeps
<1>7. CASE UNCHANGED vars
    <2>1. UNCHANGED <<calls, driver, server>> /\ halted' \in BOOLEAN
        BY <1>7 DEF vars, calls, driver, TypeOK
    <2>. QED BY <2>1, HaltingKeeps
<1>. QED BY <1>1, <1>2, <1>3, <1>4, <1>5, <1>6, <1>7 DEF Next, TaskStep

(* The invariant holds all the time.                                       *)
LEMMA Invariance == Spec => []IInv
BY InitHolds, NextKeeps, PTL DEF Spec

-----------------------------------------------------------------------------
(* What it is for.                                                         *)

(* Calls, requests, connections and the task keep their types, whatever    *)
(* the server answers and in whatever order connections end.               *)
THEOREM TypeCorrect == Spec => []TypeOK
<1>1. IInv => TypeOK
    BY DEF IInv
<1>. QED BY <1>1, Invariance, PTL

(* A request in the queue or on a connection is never that of a call which *)
(* has returned, nor freed; it is in one place; and no block is lost.      *)
THEOREM RequestsAreOwned == Spec => []RequestsOwned
<1>1. IInv => RequestsOwned
    BY DEF IInv, Ownership, Owned, OnePlace, QueuedOnce, NoLeak, RequestsOwned
<1>. QED BY <1>1, Invariance, PTL

(* The one request_url is always that of the request about to be sent, for *)
(* any number of callers.                                                  *)
THEOREM UrlsAreOwn == Spec => []UrlIsOwn
<1>1. IInv => UrlIsOwn
    BY DEF IInv, Serving
<1>. QED BY <1>1, Invariance, PTL

(* _task has the mutex to itself when it takes it: the connection whose    *)
(* closing it polled for has given it.                                     *)
THEOREM NeverStuck == Spec => []NeverStuckOnMutex
<1>1. IInv => NeverStuckOnMutex
    BY DEF IInv, Serving, OneConnection, NeverStuckOnMutex
<1>. QED BY <1>1, Invariance, PTL

(* A waiting "set" that returns ERROR_CODE_OK did reach the server, for    *)
(* any server that refuses what is above its limits, and answers or not.   *)
THEOREM SetsAreApplied == Spec => SetIsApplied
<1>1. IInv /\ [Next]_vars =>
        [\A c \in Callers :
           Return(c) /\ mem[c].kind = "set" /\ Ok(c) /\ mem[c].number < Half
           => mem[c].number \in caller[c].seen]_vars
    BY DEF IInv, Serving, Answers, Return, Ok
<1>. QED BY <1>1, Invariance, PTL DEF Spec, SetIsApplied

(* A "get" that returns ERROR_CODE_OK has fetched what str2int reads of a  *)
(* value the server had for that parameter during the call: that is what   *)
(* the client's own table has been given, and *value nothing else (the     *)
(* code gives it nothing at all).                                          *)
THEOREM GetsAreFresh == Spec => GetIsFresh
<1>1. ASSUME IInv, NEW c \in Callers, Return(c), mem[c].kind = "get", Ok(c)
      PROVE  mem[c].number \in Fresh(c) /\ caller'[c].out \subseteq Fresh(c)
    <2>1. mem[c].number \in Fresh(c)
        BY <1>1 DEF IInv, Serving, Answers, Return, Ok, Fresh
    <2>2. Delivered(c) = {}
        BY <1>1 DEF Delivered
    <2>3. caller'[c].out = {}
        BY <1>1, <2>2 DEF Return, Idle, IInv, TypeOK
    <2>. QED BY <2>1, <2>3
<1>2. IInv /\ [Next]_vars =>
        [\A c \in Callers :
           Return(c) /\ mem[c].kind = "get" /\ Ok(c)
           => mem[c].number \in Fresh(c) /\ caller'[c].out \subseteq Fresh(c)]_vars
    BY <1>1
<1>. QED BY <1>2, Invariance, PTL DEF Spec, GetIsFresh
=============================================================================
