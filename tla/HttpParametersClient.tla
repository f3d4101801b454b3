------------------------ MODULE HttpParametersClient ------------------------
(***************************************************************************)
(* Remote access to the parameters of the server over HTTP: the calls of   *)
(* mongoose_drv/http_parameters_client.c, the task that serves them, and   *)
(* the server's handlers (mongoose_drv/parameters_api.c).                  *)
(*                                                                         *)
(* A call that waits queues the address of a request on its own stack and  *)
(* sleeps on the semaphore in it; a call that does not wait, and the ping  *)
(* of the task, queue a copy from the heap.  The task takes a request,     *)
(* writes its URL to the one request_url, opens a connection and polls     *)
(* mongoose until done is set.                                             *)
(*                                                                         *)
(* mongoose is external.  mg_mgr_poll runs the handlers of its             *)
(* connections one by one, and closes what is draining or has failed       *)
(* before it returns.  A string parameter is served as a number is, except *)
(* that its SET leaves the client's own copy alone: it is left out.  The   *)
(* client's own table (Parameters models it) is written and not read here, *)
(* and only asked whether it accepts a value.                              *)
(***************************************************************************)
EXTENDS Integers, Sequences

CONSTANTS
    Callers,        \* the tasks that use the client
    Blocks,         \* bound: requests the heap has room for
    QueueSize,      \* 16, the length of request_queue
    Params,         \* the parameters
    Values,         \* uint32 values
    Half,           \* 2^31: "%ld" prints what is not below it as negative
    ClientMax,      \* .max_value of each parameter, on the client
    ServerMax       \* ... and on the server

ASSUME QueueAssumption == QueueSize \in Nat \ {0}
ASSUME ValuesAssumption == Values \subseteq Nat /\ 0 \in Values /\ Half \in Nat
ASSUME BlocksAssumption == Callers \intersect Blocks = {}
ASSUME PingAssumption == "ping" \notin Params \union Callers \union Blocks
ASSUME MaxAssumption == ClientMax \in [Params -> Values] /\ ServerMax \in [Params -> Values]

VARIABLES
    caller,     \* where each caller is, the values the server had for its parameter during
                \* the call (seen), and what the last call wrote to *value: {} is nothing (out)
    mem,        \* the requests, by address: a caller's is on its stack
    heap,       \* the free blocks
    queue,      \* request_queue
    task,       \* where _task is, and the ping it is about to queue
    url,        \* request_url: the parameter it names
    done,       \* done
    mutex,      \* mutex has been given
    conns,      \* the connections of mgr, by the request in fn_data
    server,     \* the parameters of the server
    halted      \* an assert has failed, or free was given an address on a stack

vars == <<caller, mem, heap, queue, task, url, done, mutex, conns, server, halted>>

Addresses == Callers \union Blocks
Ping == "ping"
NoConn == [phase |-> "none", url |-> Ping, number |-> 0, code |-> 0]
Blank == [kind |-> Ping, param |-> Ping, number |-> 0, code |-> 0, given |-> FALSE]
Idle == [pc |-> "idle", blk |-> Ping, seen |-> {}, out |-> {}]
Receiving == [pc |-> "receive", blk |-> Ping]

Init ==
    /\ caller = [c \in Callers |-> Idle]
    /\ mem = [a \in Addresses |-> Blank] /\ heap = Blocks
    /\ queue = << >> /\ task = Receiving
    /\ url = Ping /\ done = FALSE /\ mutex = TRUE
    /\ conns = [a \in Addresses |-> NoConn]
    /\ server = [p \in Params |-> 0]
    /\ halted = FALSE

(* What str2int reads of what "%ld" printed: it stops at a minus sign. *)
Parse(v) == IF v < Half THEN v ELSE 0

At(c, l) == caller[c].pc = l

(* What a freed request, or one on a stack that has been left, holds is    *)
(* never read.                                                             *)
Free(b) == heap' = heap \union {b} /\ mem' = [mem EXCEPT ![b] = Blank]
Waits(a) == a \in Callers

-----------------------------------------------------------------------------
(* The calls.  "set" and "get" wait; "post" is SetU32ValueDontWait.        *)

calls == <<caller, mem, heap, queue>>
driver == <<task, url, done, mutex, conns>>

(* A "set" and a "post" store the value in the client's own table first:   *)
(* above its limit, an assert fails.                                       *)
Call(c, k, p, v) ==
    /\ At(c, "idle")
    /\ IF k # "get" /\ v > ClientMax[p]
       THEN halted' = TRUE /\ UNCHANGED <<caller, mem, heap>>
       ELSE \E a \in IF k = "post" THEN heap ELSE {c} :
              /\ mem' = [mem EXCEPT ![a] = [kind |-> k, param |-> p, number |-> v,
                                            code |-> 0, given |-> FALSE]]
              /\ heap' = heap \ {a}
              /\ caller' = [caller EXCEPT ![c] = [pc |-> "enqueue", blk |-> a,
                                                 seen |-> {server[p]}, out |-> {}]]
              /\ UNCHANGED halted
    /\ UNCHANGED <<queue, driver, server>>

(* Mutant: the queue takes one more than it holds.                         *)
Room_OneMore == Len(queue) <= QueueSize

Room == Len(queue) < QueueSize

(* Mutant: the URL is written by the caller, when the request is queued.   *)
Enqueue_SetsUrl(c) ==
    /\ At(c, "enqueue") /\ Room
    /\ queue' = Append(queue, caller[c].blk)
    /\ caller' = [caller EXCEPT ![c] = IF Waits(@.blk) THEN [@ EXCEPT !.pc = "wait"] ELSE Idle]
    /\ url' = mem[caller[c].blk].param
    /\ UNCHANGED <<mem, heap, task, done, mutex, conns, server, halted>>

Enqueue(c) ==
    /\ At(c, "enqueue") /\ Room
    /\ queue' = Append(queue, caller[c].blk)
    /\ caller' = [caller EXCEPT ![c] = IF Waits(@.blk) THEN [@ EXCEPT !.pc = "wait"] ELSE Idle]
    /\ UNCHANGED <<mem, heap, driver, server, halted>>

(* The queue stays full for ten ticks: the request is freed, wherever it   *)
(* is.                                                                     *)
EnqueueFails(c) ==
    /\ At(c, "enqueue") /\ ~Room
    /\ IF Waits(caller[c].blk)
       THEN halted' = TRUE /\ UNCHANGED <<caller, mem, heap>>
       ELSE /\ Free(caller[c].blk)
            /\ caller' = [caller EXCEPT ![c] = Idle]
            /\ UNCHANGED halted
    /\ UNCHANGED <<queue, driver, server>>

Ok(c) == mem[c].code = 200

(* result && value != NULL: result is an error_code_t, and ERROR_CODE_OK   *)
(* is 0.  The value is handed out when the get has failed.                 *)
Delivered(c) == IF mem[c].kind = "get" /\ ~Ok(c) THEN {mem[c].number} ELSE {}

Return(c) ==
    /\ At(c, "wait") /\ mem[c].given
    /\ caller' = [caller EXCEPT ![c] = [Idle EXCEPT !.out = Delivered(c)]]
    /\ mem' = [mem EXCEPT ![c] = Blank]
    /\ UNCHANGED <<heap, queue, driver, server, halted>>

-----------------------------------------------------------------------------
(* _task.                                                                  *)

(* Mutant: done keeps the value the last request left in it.               *)
Reset_Missing == done' = done

Reset == done' = FALSE

Receive ==
    /\ task.pc = "receive" /\ queue # << >>
    /\ task' = [task EXCEPT !.pc = "poll"]
    /\ queue' = Tail(queue)
    /\ url' = mem[Head(queue)].param
    /\ Reset
    /\ conns' = [conns EXCEPT ![Head(queue)] = [NoConn EXCEPT !.phase = "connecting"]]
    /\ UNCHANGED <<caller, mem, heap, mutex, server, halted>>

(* Nothing was queued for 3.5 seconds. *)
KeepAlive ==
    /\ task.pc = "receive" /\ queue = << >>
    /\ \E b \in heap :
          /\ task' = [pc |-> "ping", blk |-> b]
          /\ heap' = heap \ {b}
    /\ UNCHANGED <<caller, mem, queue, url, done, mutex, conns, server, halted>>

PingEnqueue ==
    /\ task.pc = "ping"
    /\ task' = Receiving
    /\ IF Room
       THEN queue' = Append(queue, task.blk) /\ UNCHANGED <<mem, heap>>
       ELSE Free(task.blk) /\ UNCHANGED queue
    /\ UNCHANGED <<caller, url, done, mutex, conns, server, halted>>

PollReturns ==
    /\ task.pc = "poll" /\ done
    /\ \A a \in Addresses : conns[a].phase # "closing"
    /\ task' = [task EXCEPT !.pc = "take"]
    /\ UNCHANGED <<calls, url, done, mutex, conns, server, halted>>

Take ==
    /\ task.pc = "take" /\ mutex
    /\ mutex' = FALSE
    /\ task' = Receiving
    /\ UNCHANGED <<calls, url, done, conns, server, halted>>

-----------------------------------------------------------------------------
(* fn, the handler of connection a, called by mg_mgr_poll.                 *)

Event(a, phase) == task.pc = "poll" /\ conns[a].phase = phase
Become(a, phase) == conns' = [conns EXCEPT ![a] = [NoConn EXCEPT !.phase = phase]]
SetResponse(a, code) == mem' = [mem EXCEPT ![a].code = code]

(* Refused, or no answer in 1.5 seconds; the 504 of the time-out is        *)
(* replaced by the 500 of the error it raises.                             *)
ConnectFails(a) ==
    /\ Event(a, "connecting") /\ Become(a, "closing")
    /\ SetResponse(a, 500)
    /\ UNCHANGED <<caller, heap, queue, task, url, done, mutex, server, halted>>

(* _post_message: what is sent names the parameter of request_url.         *)
Connected(a) ==
    /\ Event(a, "connecting")
    /\ conns' = [conns EXCEPT ![a] = [phase |-> "sent", url |-> url, number |-> mem[a].number, code |-> 0]]
    /\ UNCHANGED <<calls, task, url, done, mutex, server, halted>>

(* The answer to a "get" is stored in the client's own table, or fails an  *)
(* assert.                                                                 *)
HttpMsg(a) ==
    /\ Event(a, "answered") /\ Become(a, "closing")
    /\ LET code == conns[a].code
           number == Parse(conns[a].number)
           p == mem[a].param
       IN IF code = 200 /\ mem[a].kind = "get"
          THEN /\ mem' = [mem EXCEPT ![a].code = code, ![a].number = number]
               /\ halted' = (number > ClientMax[p])
          ELSE SetResponse(a, code) /\ UNCHANGED halted
    /\ done' = TRUE
    /\ UNCHANGED <<caller, heap, queue, task, url, mutex, server>>

(* The connection breaks, or the server closes it without an answer.       *)
ConnectionEnds(a) ==
    /\ Event(a, "sent") \/ Event(a, "answered")
    /\ Become(a, "closing")
    /\ SetResponse(a, 500) \/ UNCHANGED mem
    /\ UNCHANGED <<caller, heap, queue, task, url, done, mutex, server, halted>>

(* Mutants: the copy on the heap is not freed; only a positive answer      *)
(* gives the semaphore.                                                    *)
Release_NotFreed(a) ==
    /\ mem' = IF Waits(a) THEN [mem EXCEPT ![a].given = TRUE] ELSE mem
    /\ UNCHANGED heap
Release_OnlyOk(a) ==
    IF Waits(a)
    THEN mem' = [mem EXCEPT ![a].given = (mem[a].code = 200)] /\ UNCHANGED heap
    ELSE Free(a)

(* The caller is woken, or the copy on the heap freed. *)
Release(a) ==
    IF Waits(a)
    THEN mem' = [mem EXCEPT ![a].given = TRUE] /\ UNCHANGED heap
    ELSE Free(a)

Close(a) ==
    /\ Event(a, "closing")
    /\ Release(a)
    /\ conns' = [conns EXCEPT ![a] = NoConn]
    /\ mutex' = TRUE /\ done' = TRUE
    /\ UNCHANGED <<caller, queue, task, url, server, halted>>

-----------------------------------------------------------------------------
(* The server.                                                             *)

SetServer(p, v) ==
    /\ server' = [server EXCEPT ![p] = v]
    /\ caller' = [c \in Callers |->
                     IF ~At(c, "idle") /\ mem[caller[c].blk].param = p
                     THEN [caller[c] EXCEPT !.seen = @ \union {v}] ELSE caller[c]]

(* Mutant: a value that is refused is answered with 200.                   *)
Status_AlwaysOk(accepted) == 200

Status(accepted) == IF accepted THEN 200 ELSE 400

Answer(a, code, n) ==
    conns' = [conns EXCEPT ![a] = [NoConn EXCEPT !.phase = "answered", !.code = code, !.number = n]]

(* _parameters_parse_cb and _ping_parse_cb. *)
ServerAnswers(a) ==
    LET p == conns[a].url
        v == Parse(conns[a].number)
    IN /\ conns[a].phase = "sent"
       /\ \/ /\ p = Ping
             /\ Answer(a, 200, 0) /\ UNCHANGED <<caller, server>>
          \/ /\ p \in Params /\ mem[a].kind = "get"
             /\ Answer(a, 200, server[p]) /\ UNCHANGED <<caller, server>>
          \/ /\ p \in Params /\ mem[a].kind # "get"
             /\ Answer(a, Status(v <= ServerMax[p]), 0)
             /\ IF v <= ServerMax[p] THEN SetServer(p, v) ELSE UNCHANGED <<caller, server>>
       /\ UNCHANGED <<mem, heap, queue, task, url, done, mutex, halted>>

(* The server's parameters also change on their own. *)
ServerChanges ==
    /\ \E p \in Params, v \in Values :
          v <= ServerMax[p] /\ v # server[p] /\ SetServer(p, v)
    /\ UNCHANGED <<mem, heap, queue, driver, halted>>

(* The server is gone and the connection, with nothing to send, never      *)
(* learns of it: only the wait for a connection has a limit.               *)
ServerFallsSilent(a) ==
    /\ conns[a].phase = "sent" /\ Become(a, "silent")
    /\ UNCHANGED <<calls, task, url, done, mutex, server, halted>>

Kinds == {"set", "get", "post"}

CallerStep(c) == Enqueue(c) \/ EnqueueFails(c) \/ Return(c)

TaskStep ==
    \/ Receive \/ KeepAlive \/ PingEnqueue \/ PollReturns \/ Take
    \/ \E a \in Addresses : ConnectFails(a) \/ Connected(a) \/ HttpMsg(a) \/ ConnectionEnds(a) \/ Close(a)

Next ==
    /\ ~halted
    /\ \/ \E c \in Callers :
             \/ CallerStep(c)
             \/ \E k \in Kinds, p \in Params, v \in Values : (k = "get" => v = 0) /\ Call(c, k, p, v)
       \/ TaskStep
       \/ \E a \in Addresses : ServerAnswers(a) \/ ServerFallsSilent(a)
       \/ ServerChanges

(* The tasks run, and the server answers if it has not fallen silent. *)
Fairness ==
    /\ WF_vars(~halted /\ TaskStep)
    /\ \A c \in Callers : WF_vars(~halted /\ CallerStep(c))
    /\ \A a \in Addresses : WF_vars(~halted /\ ServerAnswers(a))

Spec == Init /\ [][Next]_vars /\ Fairness

-----------------------------------------------------------------------------
Requests == [kind : Kinds \union {Ping}, param : Params \union {Ping}, number : Values,
             code : {0, 200, 400, 500}, given : BOOLEAN]
Connections == [phase : {"none", "connecting", "sent", "silent", "answered", "closing"},
                url : Params \union {Ping}, number : Values, code : {0, 200, 400}]

CallerStates == [pc : {"idle", "enqueue", "wait"}, blk : Addresses \union {Ping},
                 seen : SUBSET Values, out : SUBSET Values]
TaskStates == [pc : {"receive", "ping", "poll", "take"}, blk : Blocks \union {Ping}]

TypeOK ==
    /\ caller \in [Callers -> CallerStates]
    /\ mem \in [Addresses -> Requests] /\ heap \subseteq Blocks
    /\ queue \in Seq(Addresses) /\ Len(queue) <= QueueSize
    /\ task \in TaskStates
    /\ url \in Params \union {Ping} /\ done \in BOOLEAN /\ mutex \in BOOLEAN
    /\ conns \in [Addresses -> Connections]
    /\ server \in [Params -> Values]
    /\ halted \in BOOLEAN

InQueue(a) == \E i \in 1 .. Len(queue) : queue[i] = a
Open(a) == conns[a].phase # "none"
BeingQueued(a) == task = [pc |-> "ping", blk |-> a] \/ \E c \in Callers : At(c, "enqueue") /\ caller[c].blk = a

(* A request that is queued or on a connection is there: its caller sleeps *)
(* on it, or its block is allocated.  It is in one place, and no block is  *)
(* allocated that nobody will free.                                        *)
RequestsOwned ==
    /\ \A a \in Addresses : InQueue(a) \/ Open(a) =>
          IF Waits(a) THEN At(a, "wait") /\ ~mem[a].given ELSE a \notin heap
    /\ \A a \in Addresses : ~(InQueue(a) /\ Open(a))
    /\ \A i, j \in 1 .. Len(queue) : queue[i] = queue[j] => i = j
    /\ \A b \in Blocks \ heap : InQueue(b) \/ Open(b) \/ BeingQueued(b)

(* _task never waits for the mutex: only its own polling could give it.    *)
NeverStuckOnMutex == task.pc = "take" => mutex

(* The one request_url is that of the connection which is about to send    *)
(* it: no request is sent to the parameter of another.                     *)
UrlIsOwn == \A a \in Addresses : conns[a].phase = "connecting" => url = mem[a].param

(* A waiting "set" that returns ERROR_CODE_OK did reach the server, unless *)
(* its value was printed as a negative number.                             *)
SetIsApplied ==
    [][\A c \in Callers :
         Return(c) /\ mem[c].kind = "set" /\ Ok(c) /\ mem[c].number < Half
         => mem[c].number \in caller[c].seen]_vars

(* What the caller of a "get" may read: what str2int makes of the values   *)
(* that the server had during the call.                                    *)
Fresh(c) == {Parse(v) : v \in caller[c].seen}

(* A "get" that returns ERROR_CODE_OK has stored in the client's own table *)
(* (HttpMsg) a value the server had for that parameter during the call,    *)
(* and has handed out no other.                                            *)
GetIsFresh ==
    [][\A c \in Callers :
         Return(c) /\ mem[c].kind = "get" /\ Ok(c)
         => mem[c].number \in Fresh(c) /\ caller'[c].out \subseteq Fresh(c)]_vars

(* "Get U32 value" (http_parameters_client.h): a "get" that returns        *)
(* ERROR_CODE_OK gives its caller the value it has fetched.                *)
GetDelivers ==
    [][\A c \in Callers :
         Return(c) /\ mem[c].kind = "get" /\ Ok(c)
         => caller'[c].out = {mem[c].number}]_vars

(* A call that waits returns, unless the server fell silent after it       *)
(* accepted a connection.                                                  *)
EveryCallReturns ==
    \A c \in Callers :
        At(c, "wait") ~> (~At(c, "wait") \/ halted \/ \E a \in Addresses : conns[a].phase = "silent")
=============================================================================
