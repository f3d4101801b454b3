---------------------------- MODULE CmdClientReq ----------------------------
(***************************************************************************)
(* Remote access to the parameters of the server: the calls of             *)
(* backend/cmd_client_req.c, the request task that serves them, and the    *)
(* server's answers (backend/parse_cmd.c).                                 *)
(*                                                                         *)
(* A call takes a message from the heap, queues its address and sleeps on  *)
(* the semaphore of the message.  The request task sends one message at a  *)
(* time and reads until a frame with the number of the request, the        *)
(* deadline or an error ends it.  cmdClientSend and cmdClientRead are      *)
(* reduced to their results; CmdClient models them.                        *)
(*                                                                         *)
(* A message stands for its three buffers and its semaphore.  cmdClient-   *)
(* GetString has the control of cmdClientGetValue and is a "get" too.  The *)
(* time-out of a "get" and a "set" is not 0.  TCP keeps bytes in order but *)
(* not frames together: the server's frames arrive in two halves, and all  *)
(* fields are in the first.  Results are OK or FAIL, which stands for every *)
(* other code; the client's own table (Parameters models it) is only asked *)
(* whether it accepts a value.                                             *)
(***************************************************************************)
EXTENDS Integers, Sequences, FiniteSets

CONSTANTS
    Callers,            \* the tasks that use the client
    Blocks,             \* messages the heap has room for
    QueueSize,          \* QUEUE_SIZE
    MaxCalls,           \* bound: request numbers handed out
    Params, Values,     \* the parameters and their values
    ClientAccepts,      \* <<p, v>> that parameters_setValue accepts on the client
    ServerAccepts,      \* ... and on the server
    InitTable           \* the parameters of the server at the start

NoBlock == "none"

ASSUME BlocksAssumption == Blocks # {} /\ QueueSize \in Nat \ {0} /\ MaxCalls \in Nat
ASSUME NamesAssumption == NoBlock \notin Blocks
ASSUME CallersAssumption == IsFiniteSet(Callers)
ASSUME TableAssumption ==
    /\ Params # {} /\ InitTable \in [Params -> Values]
    /\ ClientAccepts \subseteq Params \X Values /\ ServerAccepts \subseteq Params \X Values

VARIABLES
    caller,     \* what each caller is doing, and the values the server had for its
                \* parameter during the call (seen)
    heap,       \* the free messages
    mem,        \* the contents of every message, free or not
    number,     \* ctx.request_number
    queue,      \* ctx.msg_queue
    rq,         \* the request task
    net,        \* the connection and the two streams on it
    table,      \* the parameters of the server
    halted,     \* an assert of _prepare_msg has failed
    raced       \* an increment of ctx.request_number has been lost

vars == <<caller, heap, mem, number, queue, rq, net, table, halted, raced>>

Kinds == {"get", "set", "post"}       \* post: cmdClientSetValueWithoutResp
Nothing == [cmd |-> "none", num |-> 0]     \* what a frame without its head reads as

Asleep == [pc |-> "receive", blk |-> NoBlock, late |-> FALSE, wait |-> "bounded", buf |-> << >>]

Idle == [pc |-> "idle", blk |-> NoBlock, num |-> 0, seen |-> {}]
Blank == [kind |-> "get", num |-> 0, param |-> CHOOSE p \in Params : TRUE,
          value |-> CHOOSE v \in Values : TRUE, result |-> "OK", done |-> FALSE, rx |-> Nothing]

Init ==
    /\ caller = [c \in Callers |-> Idle]
    /\ heap = Blocks /\ mem = [b \in Blocks |-> Blank]
    /\ number = 0 /\ queue = << >> /\ rq = Asleep
    /\ net = [link |-> "up", toServer |-> << >>, toClient |-> << >>]
    /\ table = InitTable
    /\ halted = FALSE /\ raced = FALSE

-----------------------------------------------------------------------------
(* The callers.                                                            *)

At(c, l) == caller[c].pc = l
Goto(c, l) == caller' = [caller EXCEPT ![c].pc = l]
Msg(c) == mem[caller[c].blk]

Return(c) == caller' = [caller EXCEPT ![c] = Idle]

(* A freed message keeps its result, the only field that is read again. *)
Free(c) ==
    /\ heap' = heap \union {caller[c].blk}
    /\ mem' = [mem EXCEPT ![caller[c].blk] = [Blank EXCEPT !.result = Msg(c).result]]

(* The message is cleared, so its result reads ERROR_CODE_OK; the receive  *)
(* buffer is not, but no old bytes in it carry the number of this request. *)
(* The number is ctx.request_number++, a load and a store: this is the     *)
(* load.                                                                   *)
Call(c, k, p, v) ==
    /\ At(c, "idle")
    /\ number + Cardinality({d \in Callers : At(d, "store")}) < MaxCalls
    /\ IF k = "get" THEN v = InitTable[p] ELSE <<p, v>> \in ClientAccepts
    /\ IF heap = {}
       THEN halted' = TRUE /\ UNCHANGED <<caller, heap, mem>>
       ELSE \E b \in heap :
              /\ heap' = heap \ {b}
              /\ mem' = [mem EXCEPT ![b] = [Blank EXCEPT !.kind = k, !.param = p, !.value = v]]
              /\ caller' = [caller EXCEPT ![c] = [pc |-> "store", blk |-> b, num |-> number,
                                                 seen |-> {table[p]}]]
              /\ UNCHANGED halted
    /\ UNCHANGED <<number, queue, rq, net, table, raced>>

(* A set of a bad index, or of a value that the client's own table rejects, *)
(* is not sent, and takes no message.  (A get of a bad index and a post    *)
(* that is rejected return ERROR_CODE_FAIL at once and change nothing.)    *)
SetRefused(c) ==
    /\ At(c, "idle")
    /\ \E p \in Params, v \in Values : <<p, v>> \notin ClientAccepts
    /\ Goto(c, "refused")
    /\ UNCHANGED <<heap, mem, number, queue, rq, net, table, halted, raced>>

(* return false: the caller reads it as ERROR_CODE_OK, which is 0. *)
ReturnsRefused(c) ==
    /\ At(c, "refused") /\ Return(c)
    /\ UNCHANGED <<heap, mem, number, queue, rq, net, table, halted, raced>>

(* Mutant: requests share a number.                                      *)
NextNumber_Same(n) == n

NextNumber(n) == n + 1

StoreNumber(c) ==
    /\ At(c, "store") /\ Goto(c, "enqueue")
    /\ number' = NextNumber(caller[c].num)
    /\ raced' = (raced \/ number # caller[c].num)
    /\ mem' = [mem EXCEPT ![caller[c].blk].num = caller[c].num]
    /\ UNCHANGED <<heap, queue, rq, net, table, halted>>

(* Mutant: the queue takes one more than it holds.                       *)
Room_OneMore == Len(queue) <= QueueSize

Room == Len(queue) < QueueSize

Enqueue(c) ==
    /\ At(c, "enqueue")
    /\ IF Room
       THEN queue' = Append(queue, caller[c].blk) /\ Goto(c, "wait") /\ UNCHANGED <<heap, mem>>
       ELSE Free(c) /\ Return(c) /\ UNCHANGED queue
    /\ UNCHANGED <<number, rq, net, table, halted, raced>>

(* Mutant: the caller waits with a limit.                                *)
Woken_GivesUp(c) == At(c, "wait") /\ (Msg(c).done \/ rq.late)

(* The semaphore is waited for without a limit. *)
Woken(c) == At(c, "wait") /\ Msg(c).done

(* What was received answers the request of this message. *)
Matches(m) ==
    /\ m.rx.num = m.num
    /\ m.rx.cmd = "ANSWER"
    /\ m.rx.kind = m.kind /\ m.rx.param = m.param

(* _cleanup_msg( msg ); return msg->result: the result is read in the next *)
(* step, from a message another call may have taken meanwhile.             *)
FreesFirst(c) ==
    /\ Woken(c)
    /\ Msg(c).kind = "post" \/ (Msg(c).kind = "get" /\ Msg(c).result # "OK")
    /\ Free(c) /\ Goto(c, "freed")
    /\ UNCHANGED <<number, queue, rq, net, table, halted, raced>>

ReturnsFreed(c) ==
    /\ At(c, "freed") /\ Return(c)
    /\ UNCHANGED <<heap, mem, number, queue, rq, net, table, halted, raced>>

(* The value received is returned, and stored in the client's table. *)
GetSucceeds(c) ==
    Matches(Msg(c)) /\ <<Msg(c).param, Msg(c).rx.val>> \in ClientAccepts
GetReturns(c) ==
    /\ Woken(c) /\ Msg(c).kind = "get" /\ Msg(c).result = "OK"
    /\ Free(c) /\ Return(c)
    /\ UNCHANGED <<number, queue, rq, net, table, halted, raced>>

(* msg->result < 0 is never true: after a failure, whatever is in the      *)
(* receive buffer is examined.  A positive answer returns without          *)
(* _cleanup_msg.                                                           *)
SetSucceeds(c) == Matches(Msg(c)) /\ Msg(c).rx.val = "POSITIVE"
SetReturns(c) ==
    /\ Woken(c) /\ Msg(c).kind = "set"
    /\ IF SetSucceeds(c) THEN UNCHANGED <<heap, mem>> ELSE Free(c)
    /\ Return(c)
    /\ UNCHANGED <<number, queue, rq, net, table, halted, raced>>

Progress(c) ==
    \/ StoreNumber(c) \/ Enqueue(c)
    \/ FreesFirst(c) \/ ReturnsFreed(c) \/ GetReturns(c) \/ SetReturns(c)
    \/ ReturnsRefused(c)

-----------------------------------------------------------------------------
(* The request task, _requests_process.                                    *)

Current == mem[rq.blk]
others == <<caller, heap, number, table, halted, raced>>

(* Mutant: only a positive answer gives the semaphore.                   *)
Finish_OnlyOk(r, rx) ==
    /\ mem' = [mem EXCEPT ![rq.blk] = [@ EXCEPT !.result = r, !.done = (r = "OK"), !.rx = rx]]
    /\ rq' = Asleep

(* The result is stored and the semaphore given. *)
Finish(r, rx) ==
    /\ mem' = [mem EXCEPT ![rq.blk] = [@ EXCEPT !.result = r, !.done = TRUE, !.rx = rx]]
    /\ rq' = Asleep
Fail == Finish("FAIL", Nothing)

Receive ==
    /\ rq.pc = "receive" /\ queue # << >>
    /\ rq' = [Asleep EXCEPT !.pc = "send", !.blk = Head(queue)]
    /\ queue' = Tail(queue)
    /\ UNCHANGED <<mem, net, others>>

Request == [num |-> Current.num, kind |-> Current.kind, param |-> Current.param,
            value |-> Current.value]

Send ==
    /\ rq.pc = "send"
    /\ IF net.link = "down"
       THEN Fail
       ELSE IF Current.kind = "post"
            THEN Finish("OK", Nothing)
            ELSE rq' = [rq EXCEPT !.pc = "read"] /\ UNCHANGED mem
    /\ net' = IF net.link = "up" THEN [net EXCEPT !.toServer = Append(@, Request)] ELSE net
    /\ UNCHANGED <<queue, others>>

(* timeout - xTaskGetTickCount() wraps when the deadline has passed since  *)
(* it was last compared: the wait that follows has no end.                 *)
ReadStart ==
    /\ rq.pc = "read"
    /\ IF net.link = "down"
       THEN Fail
       ELSE /\ rq' = [rq EXCEPT !.pc = "select", !.wait = IF rq.late THEN "endless" ELSE "bounded"]
            /\ UNCHANGED mem
    /\ UNCHANGED <<queue, net, others>>

(* One half or two are read, never more than fill the buffer.  A deadline  *)
(* that has passed wins over a complete frame.                             *)
ReadData ==
    /\ rq.pc = "select"
    /\ \E n \in 1 .. (2 - Len(rq.buf)) :
          /\ n <= Len(net.toClient)
          /\ net' = [net EXCEPT !.toClient = SubSeq(@, n + 1, Len(@))]
          /\ LET buf == rq.buf \o SubSeq(net.toClient, 1, n)
             IN IF rq.late
                THEN Fail
                ELSE /\ rq' = [rq EXCEPT !.buf = buf, !.pc = IF Len(buf) = 2 THEN "packet" ELSE "read"]
                     /\ UNCHANGED mem
    /\ UNCHANGED <<queue, others>>

(* The server has closed: read returns 0, and the loop goes round. *)
ReadNothing ==
    /\ rq.pc = "select" /\ net.link = "eof" /\ net.toClient = << >>
    /\ IF rq.late
       THEN Fail
       ELSE rq' = [rq EXCEPT !.pc = "read"] /\ UNCHANGED mem
    /\ UNCHANGED <<queue, net, others>>

ReadFails ==
    /\ rq.pc = "select"
    /\ net.link = "down" \/ (rq.late /\ rq.wait = "bounded")
    /\ Fail
    /\ UNCHANGED <<queue, net, others>>

(* What was read is a frame of 64 bytes, aligned or not. *)
Accepted(f) == f.num = Current.num

Packet ==
    /\ rq.pc = "packet"
    /\ IF Accepted(rq.buf[1])
       THEN Finish("OK", rq.buf[1])
       ELSE IF rq.late
            THEN Fail
            ELSE rq' = [rq EXCEPT !.pc = "read", !.buf = << >>] /\ UNCHANGED mem
    /\ UNCHANGED <<queue, net, others>>

DeadlinePasses ==
    /\ rq.pc # "receive" /\ ~rq.late
    /\ rq' = [rq EXCEPT !.late = TRUE]
    /\ UNCHANGED <<mem, queue, net, others>>

RequestTask == Receive \/ Send \/ ReadStart \/ ReadData \/ ReadNothing \/ ReadFails \/ Packet

-----------------------------------------------------------------------------
(* The server, and the network.                                            *)

client == <<heap, mem, number, queue, rq, halted, raced>>

SetServer(p, v) ==
    /\ table' = [table EXCEPT ![p] = v]
    /\ caller' = [c \in Callers |->
                     IF caller[c].blk # NoBlock /\ Msg(c).param = p
                     THEN [caller[c] EXCEPT !.seen = @ \union {v}] ELSE caller[c]]

Answer(f, v) == << [cmd |-> "ANSWER", num |-> f.num, kind |-> f.kind, param |-> f.param, val |-> v],
                   Nothing >>

(* Mutant: only POST_DATA reaches the parameters.                        *)
Applies_DataOnly(f) == f.kind = "post" /\ <<f.param, f.value>> \in ServerAccepts

Applies(f) == <<f.param, f.value>> \in ServerAccepts

(* _parse_server *)
ServerHandles ==
    /\ net.toServer # << >>
    /\ LET f == Head(net.toServer)
           result == IF f.kind = "get" THEN table[f.param]
                     ELSE IF <<f.param, f.value>> \in ServerAccepts THEN "POSITIVE" ELSE "NEGATIVE"
       IN /\ IF f.kind # "get" /\ Applies(f)
             THEN SetServer(f.param, f.value)
             ELSE UNCHANGED <<table, caller>>
          /\ net' = [net EXCEPT !.toServer = Tail(@),
                                !.toClient = IF f.kind = "post" THEN @ ELSE @ \o Answer(f, result)]
    /\ UNCHANGED client

(* parse_server_buffer drops a frame that was not read in one piece. *)
ServerLoses ==
    /\ net.toServer # << >>
    /\ net' = [net EXCEPT !.toServer = Tail(@)]
    /\ UNCHANGED <<client, table, caller>>

(* The server's parameters also change on their own. *)
ServerChanges ==
    /\ \E pv \in ServerAccepts : table[pv[1]] # pv[2] /\ SetServer(pv[1], pv[2])
    /\ UNCHANGED <<client, net>>

ServerCloses ==
    /\ net.link = "up"
    /\ net' = [net EXCEPT !.link = "eof", !.toServer = << >>]
    /\ UNCHANGED <<client, table, caller>>

LinkLost ==
    /\ net.link # "down"
    /\ net' = [link |-> "down", toServer |-> << >>, toClient |-> << >>]
    /\ UNCHANGED <<client, table, caller>>

LinkRestored ==
    /\ net.link = "down"
    /\ net' = [net EXCEPT !.link = "up"]
    /\ UNCHANGED <<client, table, caller>>

Next ==
    /\ ~halted
    /\ \/ \E c \in Callers :
             \/ Progress(c) \/ SetRefused(c)
             \/ \E k \in Kinds, p \in Params, v \in Values : Call(c, k, p, v)
       \/ RequestTask \/ DeadlinePasses
       \/ ServerHandles \/ ServerLoses \/ ServerChanges
       \/ ServerCloses \/ LinkLost \/ LinkRestored

(* The request task and the callers are scheduled, and time passes. *)
Fairness ==
    /\ WF_vars(~halted /\ RequestTask) /\ WF_vars(~halted /\ DeadlinePasses)
    /\ \A c \in Callers : WF_vars(~halted /\ Progress(c))

Spec == Init /\ [][Next]_vars /\ Fairness

-----------------------------------------------------------------------------
Results == {"OK", "FAIL"}
Frames == [cmd : {"ANSWER"}, num : 0 .. MaxCalls, kind : Kinds, param : Params,
           val : Values \union {"POSITIVE", "NEGATIVE"}] \union {Nothing}
Messages == [kind : Kinds, num : 0 .. MaxCalls, param : Params, value : Values,
             result : Results, done : BOOLEAN, rx : Frames]
Requests == [num : 0 .. MaxCalls, kind : Kinds, param : Params, value : Values]
Addresses == Blocks \union {NoBlock}
CallerStates == [pc : {"idle", "refused", "store", "enqueue", "wait", "freed"},
                 blk : Addresses, num : 0 .. MaxCalls, seen : SUBSET Values]
TaskStates == [pc : {"receive", "send", "read", "select", "packet"}, blk : Addresses,
               late : BOOLEAN, wait : {"bounded", "endless"}, buf : Seq(Frames)]
Links == [link : {"up", "eof", "down"}, toServer : Seq(Requests), toClient : Seq(Frames)]

TypeOK ==
    /\ caller \in [Callers -> CallerStates]
    /\ \A c \in Callers : caller[c].blk = NoBlock <=> At(c, "idle") \/ At(c, "refused")
    /\ heap \subseteq Blocks /\ number \in 0 .. MaxCalls
    /\ mem \in [Blocks -> Messages]
    /\ queue \in Seq(Blocks) /\ Len(queue) <= QueueSize
    /\ rq \in TaskStates /\ Len(rq.buf) <= 2
    /\ net \in Links
    /\ table \in [Params -> Values]
    /\ halted \in BOOLEAN /\ raced \in BOOLEAN

(* The request task never works on a message its caller has given back:    *)
(* what is queued or being processed belongs to a caller that sleeps on    *)
(* it, is not finished, and is there once.                                 *)
Pending == {queue[i] : i \in 1 .. Len(queue)} \union ({rq.blk} \ {NoBlock})
NoDanglingMessage ==
    /\ \A b \in Pending :
          b \notin heap /\ ~mem[b].done /\ \E c \in Callers : At(c, "wait") /\ caller[c].blk = b
    /\ Cardinality(Pending) = Len(queue) + (IF rq.blk = NoBlock THEN 0 ELSE 1)

(* A value fetched from the server is one the server had during the call:  *)
(* never the late answer to an earlier request, nor bytes of two frames.   *)
(* This needs every request to have a number of its own (raced).           *)
GetIsFresh ==
    [][\A c \in Callers : GetReturns(c) /\ GetSucceeds(c) /\ ~raced
          => Msg(c).rx.val \in caller[c].seen]_vars

(* All the ways in which a set returns ERROR_CODE_OK. *)
SetReturnsOk(c) == ReturnsRefused(c) \/ (SetReturns(c) /\ SetSucceeds(c))

(* A set that returns ERROR_CODE_OK did reach the server, unless it is one *)
(* that cmdClientSetValue refused itself: that one also returns            *)
(* ERROR_CODE_OK, and nothing was sent.                                    *)
SetIsApplied ==
    [][\A c \in Callers : SetReturnsOk(c) /\ ~raced
          => At(c, "refused") \/ Msg(c).value \in caller[c].seen]_vars

(* A call that waits for its answer returns, whatever the server and the   *)
(* connection do, unless the request task has computed an endless wait.    *)
EveryCallReturns ==
    \A c \in Callers : At(c, "wait") ~> (~At(c, "wait") \/ rq.wait = "endless" \/ halted)

(* assert( msg ): there is always a message for a call, as long as the     *)
(* heap has one for every caller and one to spare.                         *)
AssertMsg == ~halted
=============================================================================
