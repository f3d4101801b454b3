------------------------- MODULE CmdClientReqProofs -------------------------
(***************************************************************************)
(* Proofs about the calls of cmd_client_req.c, for any callers, any heap   *)
(* and queue, any parameters and any connection: who owns a message, and   *)
(* what a call that returns ERROR_CODE_OK has done.                        *)
(***************************************************************************)
EXTENDS CmdClientReq, SequenceTheorems, FiniteSetTheorems, TLAPS

-----------------------------------------------------------------------------
(* The inductive invariant.                                                *)

(* Who has a message: from _prepare_msg until it is freed or forgotten.    *)
Owns(c) == caller[c].pc \in {"store", "enqueue", "wait"}
Numbered(c) == caller[c].pc \in {"enqueue", "wait"}
SleepsOn(b) == \E c \in Callers : At(c, "wait") /\ caller[c].blk = b

InQueue(b) == \E i \in 1 .. Len(queue) : queue[i] = b

(* A message has one owner, and is not in the heap.  Until it is queued    *)
(* nobody gives its semaphore.                                             *)
OneOwner ==
    \A c, d \in Callers : Owns(c) /\ Owns(d) /\ caller[c].blk = caller[d].blk => c = d
NotFree == \A c \in Callers : Owns(c) => caller[c].blk \in Blocks \ heap
NotYetDone == \A c \in Callers : Owns(c) /\ ~At(c, "wait") => ~mem[caller[c].blk].done

(* What is queued or being processed is what a caller sleeps on.           *)
Queued == \A b \in Blocks : InQueue(b) => SleepsOn(b) /\ ~mem[b].done /\ b # rq.blk
QueuedOnce == \A i, j \in 1 .. Len(queue) : queue[i] = queue[j] => i = j
Processed == rq.blk # NoBlock => SleepsOn(rq.blk) /\ ~mem[rq.blk].done

(* Where the request task is.                                              *)
Working ==
    /\ rq.pc = "receive" <=> rq.blk = NoBlock
    /\ rq.pc = "packet" => Len(rq.buf) = 2
    /\ rq.pc \in {"send", "read", "select"} => Len(rq.buf) < 2

(* The number a caller has read can still be stored.                       *)
NumberLeft == \A c \in Callers : At(c, "store") => caller[c].num < MaxCalls

(* All the time a call takes, it has seen what the server has.             *)
Seeing == \A c \in Callers : Owns(c) => table[Msg(c).param] \in caller[c].seen

Ownership == OneOwner /\ NotFree /\ NotYetDone /\ Queued /\ QueuedOnce /\ Processed

-----------------------------------------------------------------------------
(* What holds until an increment of the number is lost.                    *)

ElementsOf(s) == {s[i] : i \in 1 .. Len(s)}

(* A number is that of one call.                                           *)
Distinct ==
    /\ \A c \in Callers : Numbered(c) => Msg(c).num < number
    /\ \A c, d \in Callers : Numbered(c) /\ Numbered(d) /\ Msg(c).num = Msg(d).num => c = d

(* A request with the number of a call is the request of that call.        *)
IsRequestOf(f, m) == f.kind = m.kind /\ f.param = m.param /\ f.value = m.value
GoodRequest(f) ==
    /\ f.num < number
    /\ \A c \in Callers : Numbered(c) /\ Msg(c).num = f.num => IsRequestOf(f, Msg(c))

(* What an answer says of a call it answers: a value the server had, or    *)
(* that it took the one it was sent.                                       *)
TrueOf(f, m, seen) ==
    f.kind = m.kind /\ f.param = m.param =>
        /\ m.kind = "get" => f.val \in seen
        /\ m.kind = "set" /\ f.val = "POSITIVE" => m.value \in seen
GoodAnswer(f) ==
    f.cmd = "ANSWER" =>
        /\ f.num < number
        /\ \A c \in Callers : Numbered(c) /\ Msg(c).num = f.num => TrueOf(f, Msg(c), caller[c].seen)

GoodRequests == \A f \in ElementsOf(net.toServer) : GoodRequest(f)
GoodAnswers == \A f \in ElementsOf(net.toClient) \union ElementsOf(rq.buf) : GoodAnswer(f)
GoodResults ==
    \A c \in Callers : At(c, "wait") /\ Msg(c).done /\ Matches(Msg(c))
        => TrueOf(Msg(c).rx, Msg(c), caller[c].seen)

Answering == ~raced => Distinct /\ GoodRequests /\ GoodAnswers /\ GoodResults

IInv == TypeOK /\ Ownership /\ Working /\ NumberLeft /\ Seeing /\ Answering

-----------------------------------------------------------------------------
(* Sequences, and what they hold.                                          *)

LEMMA ElementsOfAppend ==
    ASSUME NEW S, NEW s \in Seq(S), NEW e \in S
    PROVE  Append(s, e) \in Seq(S) /\ ElementsOf(Append(s, e)) \subseteq ElementsOf(s) \union {e}
<1>1. /\ Append(s, e) \in Seq(S) /\ Len(Append(s, e)) = Len(s) + 1 /\ Len(s) \in Nat
      /\ \A i \in 1 .. Len(s) : Append(s, e)[i] = s[i]
      /\ Append(s, e)[Len(s) + 1] = e
    BY AppendProperties
<1>. QED BY <1>1 DEF ElementsOf

LEMMA ElementsOfTail ==
    ASSUME NEW S, NEW s \in Seq(S), s # << >>
    PROVE  /\ Tail(s) \in Seq(S) /\ ElementsOf(Tail(s)) \subseteq ElementsOf(s)
           /\ Head(s) \in S /\ Head(s) \in ElementsOf(s)
<1>1. /\ Head(s) \in S /\ Tail(s) \in Seq(S) /\ Len(Tail(s)) = Len(s) - 1 /\ Len(s) \in Nat
      /\ Len(s) # 0 /\ Head(s) = s[1]
      /\ \A i \in 1 .. Len(Tail(s)) : Tail(s)[i] = s[i + 1]
    BY HeadTailProperties
<1>. QED BY <1>1 DEF ElementsOf

LEMMA ElementsOfConcat ==
    ASSUME NEW S, NEW s \in Seq(S), NEW t \in Seq(S)
    PROVE  /\ s \o t \in Seq(S) /\ Len(s \o t) = Len(s) + Len(t)
           /\ ElementsOf(s \o t) \subseteq ElementsOf(s) \union ElementsOf(t)
<1>1. /\ s \o t \in Seq(S) /\ Len(s \o t) = Len(s) + Len(t) /\ Len(s) \in Nat /\ Len(t) \in Nat
      /\ \A i \in 1 .. Len(s) + Len(t) : (s \o t)[i] = IF i <= Len(s) THEN s[i] ELSE t[i - Len(s)]
    BY ConcatProperties
<1>2. ASSUME NEW i \in 1 .. Len(s) + Len(t)
      PROVE  (s \o t)[i] \in ElementsOf(s) \union ElementsOf(t)
    <2>1. CASE i <= Len(s)
        BY <1>1, <2>1 DEF ElementsOf
    <2>2. CASE i > Len(s)
        <3>1. i - Len(s) \in 1 .. Len(t) /\ (s \o t)[i] = t[i - Len(s)]
            BY <1>1, <2>2
        <3>. QED BY <3>1 DEF ElementsOf
    <2>. QED BY <1>1, <2>1, <2>2
<1>. QED BY <1>1, <1>2 DEF ElementsOf

(* A piece of a sequence.                                                  *)
LEMMA ElementsOfPiece ==
    ASSUME NEW S, NEW s \in Seq(S), NEW m \in 1 .. Len(s) + 1, NEW n \in 0 .. Len(s)
    PROVE  /\ SubSeq(s, m, n) \in Seq(S)
           /\ Len(SubSeq(s, m, n)) = IF m <= n THEN n - m + 1 ELSE 0
           /\ ElementsOf(SubSeq(s, m, n)) \subseteq ElementsOf(s)
<1>1. Len(s) \in Nat /\ m \in Int /\ n \in Int /\ \A i \in m .. n : s[i] \in S
    BY ElementOfSeq
<1>2. /\ SubSeq(s, m, n) \in Seq(S)
      /\ Len(SubSeq(s, m, n)) = IF m <= n THEN n - m + 1 ELSE 0
      /\ \A i \in 1 .. n - m + 1 : SubSeq(s, m, n)[i] = s[m + i - 1]
    BY <1>1, SubSeqProperties
<1>3. ASSUME NEW i \in 1 .. Len(SubSeq(s, m, n)) PROVE SubSeq(s, m, n)[i] \in ElementsOf(s)
    <2>1. i \in 1 .. n - m + 1 /\ m + i - 1 \in 1 .. Len(s)
        BY <1>1, <1>2
    <2>. QED BY <1>2, <2>1 DEF ElementsOf
<1>. QED BY <1>2, <1>3 DEF ElementsOf

(* A sequence without repetitions has as many elements as it is long.      *)
LEMMA ElementsOfOnce ==
    ASSUME NEW S, NEW s \in Seq(S), \A i, j \in 1 .. Len(s) : s[i] = s[j] => i = j
    PROVE  IsFiniteSet(ElementsOf(s)) /\ Cardinality(ElementsOf(s)) = Len(s)
<1>. DEFINE f == [i \in 1 .. Len(s) |-> s[i]]
<1>1. f \in Bijection(1 .. Len(s), ElementsOf(s))
    BY DEF Bijection, Injection, Surjection, IsInjective, ElementsOf
<1>2. ExistsBijection(1 .. Len(s), ElementsOf(s))
    BY <1>1 DEF ExistsBijection
<1>3. ASSUME NEW n \in Nat PROVE IsFiniteSet(1 .. n) /\ Cardinality(1 .. n) = n
    <2>1. IsFiniteSet(1 .. n) /\ Cardinality(1 .. n) = IF 1 > n THEN 0 ELSE n - 1 + 1
        BY FS_Interval
    <2>. QED BY <2>1
<1>4. IsFiniteSet(1 .. Len(s)) /\ Cardinality(1 .. Len(s)) = Len(s)
    BY <1>3, LenProperties
<1>. QED BY <1>2, <1>4, FS_Bijection

-----------------------------------------------------------------------------
(* The queue, the messages, the calls.                                     *)

(* A message more in the queue.                                            *)
LEMMA AppendQueue ==
    ASSUME TypeOK, NEW x \in Blocks, queue' = Append(queue, x), Room
    PROVE  /\ queue' \in Seq(Blocks) /\ Len(queue') <= QueueSize
           /\ \A b \in Blocks : InQueue(b)' <=> InQueue(b) \/ b = x
           /\ QueuedOnce /\ ~InQueue(x) => QueuedOnce'
<1>1. queue \in Seq(Blocks) /\ Len(queue) \in Nat /\ QueueSize \in Nat
    BY BlocksAssumption DEF TypeOK
<1>2. /\ queue' \in Seq(Blocks) /\ Len(queue') = Len(queue) + 1
      /\ \A i \in 1 .. Len(queue) : queue'[i] = queue[i]
      /\ queue'[Len(queue) + 1] = x
    BY <1>1, AppendProperties
<1>3. ASSUME NEW b \in Blocks PROVE InQueue(b)' <=> InQueue(b) \/ b = x
    BY <1>1, <1>2 DEF InQueue
<1>4. QueuedOnce /\ ~InQueue(x) => QueuedOnce'
    BY <1>1, <1>2 DEF InQueue, QueuedOnce
<1>. QED BY <1>1, <1>2, <1>3, <1>4 DEF Room

(* The oldest message less.                                                *)
LEMMA TailQueue ==
    ASSUME TypeOK, QueuedOnce, queue # << >>, queue' = Tail(queue)
    PROVE  /\ Head(queue) \in Blocks /\ InQueue(Head(queue))
           /\ queue' \in Seq(Blocks) /\ Len(queue') <= QueueSize
           /\ \A b \in Blocks : InQueue(b)' => InQueue(b) /\ b # Head(queue)
           /\ QueuedOnce'
<1>1. queue \in Seq(Blocks) /\ Len(queue) \in Nat /\ Len(queue) # 0 /\ QueueSize \in Nat
    BY BlocksAssumption DEF TypeOK
<1>2. /\ Head(queue) \in Blocks /\ Head(queue) = queue[1]
      /\ queue' \in Seq(Blocks) /\ Len(queue') = Len(queue) - 1
      /\ \A i \in 1 .. Len(queue') : queue'[i] = queue[i + 1]
    BY <1>1, HeadTailProperties
<1>3. InQueue(Head(queue))
    BY <1>1, <1>2 DEF InQueue
<1>4. ASSUME NEW b \in Blocks, InQueue(b)' PROVE InQueue(b) /\ b # Head(queue)
    BY <1>1, <1>2, <1>4 DEF InQueue, QueuedOnce
<1>5. QueuedOnce'
    BY <1>1, <1>2 DEF QueuedOnce
<1>. QED BY <1>1, <1>2, <1>3, <1>4, <1>5 DEF TypeOK

(* A queue that stays as it is.                                            *)
LEMMA SameQueue ==
    ASSUME UNCHANGED queue
    PROVE  (\A b \in Blocks : InQueue(b)' <=> InQueue(b)) /\ (QueuedOnce => QueuedOnce')
BY DEF InQueue, QueuedOnce

(* A message as _prepare_msg clears it.                                    *)
LEMMA BlankType ==
    /\ Blank \in Messages /\ Blank.num = 0 /\ ~Blank.done /\ Nothing \in Frames
    /\ \A k \in Kinds, p \in Params, v \in Values :
          [Blank EXCEPT !.kind = k, !.param = p, !.value = v] \in Messages
    /\ \A r \in Results : [Blank EXCEPT !.result = r] \in Messages
<1>1. \E p \in Params : TRUE
    BY TableAssumption
<1>2. \E v \in Values : TRUE
    BY <1>1, TableAssumption
<1>3. (CHOOSE p \in Params : TRUE) \in Params /\ (CHOOSE v \in Values : TRUE) \in Values
    BY <1>1, <1>2
<1>4. 0 \in 0 .. MaxCalls /\ Nothing \in Frames
    BY BlocksAssumption DEF Frames
<1>. QED BY <1>3, <1>4 DEF Blank, Messages, Results, Kinds

(* A caller that sleeps has the message to itself.                         *)
LEMMA OwnMessage ==
    ASSUME TypeOK, Ownership, NEW c \in Callers, Owns(c)
    PROVE  /\ caller[c].blk \in Blocks /\ caller[c].blk \notin heap
           /\ Msg(c) \in Messages
           /\ \A d \in Callers \ {c} : Owns(d) => caller[d].blk # caller[c].blk
           /\ ~At(c, "wait") \/ Msg(c).done => ~InQueue(caller[c].blk) /\ rq.blk # caller[c].blk
<1>1. caller[c].blk \in Blocks \ heap
    BY DEF Ownership, NotFree
<1>2. \A d \in Callers : Owns(d) /\ caller[d].blk = caller[c].blk => d = c
    BY DEF Ownership, OneOwner
<1>3. SleepsOn(caller[c].blk) => At(c, "wait")
    BY <1>2 DEF SleepsOn, At, Owns
<1>4. ~At(c, "wait") \/ Msg(c).done => ~InQueue(caller[c].blk) /\ rq.blk # caller[c].blk
    BY <1>1, <1>3, NamesAssumption DEF Ownership, Queued, Processed, Msg
<1>. QED BY <1>1, <1>2, <1>4 DEF TypeOK, Msg

(* The caller's part of the state when the others go on.                   *)
LEMMA SetCaller ==
    ASSUME TypeOK, NEW c \in Callers, NEW r \in CallerStates, caller' = [caller EXCEPT ![c] = r]
    PROVE  /\ caller' \in [Callers -> CallerStates]
           /\ caller'[c] = r /\ \A d \in Callers \ {c} : caller'[d] = caller[d]
BY DEF TypeOK

(* The message of one caller changes.                                      *)
LEMMA SetMessage ==
    ASSUME TypeOK, NEW b \in Blocks, NEW m \in Messages, mem' = [mem EXCEPT ![b] = m]
    PROVE  /\ mem' \in [Blocks -> Messages]
           /\ mem'[b] = m /\ \A x \in Blocks \ {b} : mem'[x] = mem[x]
BY DEF TypeOK

(* A message is given back.                                                *)
LEMMA FreeMessage ==
    ASSUME TypeOK, NEW c \in Callers, caller[c].blk \in Blocks, Free(c)
    PROVE  /\ mem' \in [Blocks -> Messages]
           /\ \A x \in Blocks \ {caller[c].blk} : mem'[x] = mem[x]
           /\ heap' = heap \union {caller[c].blk}
<1>1. Msg(c).result \in Results
    BY DEF TypeOK, Messages, Msg
<1>2. [Blank EXCEPT !.result = Msg(c).result] \in Messages
    BY <1>1, BlankType
<1>. QED BY <1>2, SetMessage DEF Free

-----------------------------------------------------------------------------
(* What keeps the answers good.                                            *)

(* No call gets a number, and what a call asked for stays.                 *)
SameRequest(m, n) == n.kind = m.kind /\ n.num = m.num /\ n.param = m.param /\ n.value = m.value
CallsGoOn ==
    /\ number' = number
    /\ \A c \in Callers : Numbered(c)' =>
          Numbered(c) /\ SameRequest(Msg(c), Msg(c)') /\ caller[c].seen \subseteq caller'[c].seen

(* No call gets an answer.                                                 *)
NoResultCame ==
    \A c \in Callers : At(c, "wait")' /\ Msg(c)'.done =>
        \/ Msg(c)'.rx.cmd # "ANSWER"
        \/ At(c, "wait") /\ Msg(c).done /\ Msg(c)'.rx = Msg(c).rx

LEMMA TrueOfGrows ==
    ASSUME NEW f, NEW m, NEW n, NEW S, NEW T, TrueOf(f, m, S), SameRequest(m, n), S \subseteq T
    PROVE  TrueOf(f, n, T)
BY DEF TrueOf, SameRequest

LEMMA RequestStaysGood ==
    ASSUME CallsGoOn, NEW f, GoodRequest(f)
    PROVE  GoodRequest(f)'
BY DEF CallsGoOn, GoodRequest, IsRequestOf, SameRequest

LEMMA AnswerStaysGood ==
    ASSUME CallsGoOn, NEW f, GoodAnswer(f)
    PROVE  GoodAnswer(f)'
<1>. SUFFICES ASSUME f.cmd = "ANSWER",
                     NEW c \in Callers, Numbered(c)', Msg(c)'.num = f.num
              PROVE  TrueOf(f, Msg(c), caller[c].seen)'
    BY DEF CallsGoOn, GoodAnswer
<1>1. Numbered(c) /\ SameRequest(Msg(c), Msg(c)') /\ caller[c].seen \subseteq caller'[c].seen
    BY DEF CallsGoOn
<1>2. TrueOf(f, Msg(c), caller[c].seen)
    BY <1>1 DEF GoodAnswer, SameRequest
<1>3. TrueOf(f, Msg(c)', caller'[c].seen)
    BY <1>1, <1>2, TrueOfGrows
<1>. QED BY <1>3 DEF TrueOf

LEMMA DistinctStays ==
    ASSUME CallsGoOn, Distinct
    PROVE  Distinct'
BY DEF CallsGoOn, Distinct, SameRequest

LEMMA ResultsStayGood ==
    ASSUME CallsGoOn, NoResultCame, GoodResults
    PROVE  GoodResults'
<1>. SUFFICES ASSUME NEW c \in Callers, At(c, "wait")', Msg(c)'.done, Matches(Msg(c)')
              PROVE  TrueOf(Msg(c)'.rx, Msg(c)', caller'[c].seen)
    BY DEF GoodResults, TrueOf, Matches
<1>1. Numbered(c)'
    BY DEF Numbered, At
<1>2. SameRequest(Msg(c), Msg(c)') /\ caller[c].seen \subseteq caller'[c].seen
    BY <1>1 DEF CallsGoOn
<1>3. At(c, "wait") /\ Msg(c).done /\ Msg(c)'.rx = Msg(c).rx
    BY DEF NoResultCame, Matches
<1>4. Matches(Msg(c))
    BY <1>2, <1>3 DEF Matches, SameRequest
<1>5. TrueOf(Msg(c).rx, Msg(c), caller[c].seen)
    BY <1>3, <1>4 DEF GoodResults
<1>. QED BY <1>2, <1>3, <1>5, TrueOfGrows

(* What is in the streams is good, when nothing new is in them.            *)
StreamsShrink ==
    /\ ElementsOf(net'.toServer) \subseteq ElementsOf(net.toServer)
    /\ ElementsOf(net'.toClient) \union ElementsOf(rq'.buf)
          \subseteq ElementsOf(net.toClient) \union ElementsOf(rq.buf)

LEMMA AnsweringStays ==
    ASSUME Answering, CallsGoOn, NoResultCame, StreamsShrink, raced' = raced
    PROVE  Answering'
<1>. SUFFICES ASSUME ~raced PROVE Distinct' /\ GoodRequests' /\ GoodAnswers' /\ GoodResults'
    BY DEF Answering
<1>1. Distinct' /\ GoodResults'
    BY DistinctStays, ResultsStayGood DEF Answering
<1>2. GoodRequests'
    BY RequestStaysGood DEF Answering, GoodRequests, StreamsShrink, ElementsOf
<1>3. GoodAnswers'
    BY AnswerStaysGood DEF Answering, GoodAnswers, StreamsShrink, ElementsOf
<1>. QED BY <1>1, <1>2, <1>3

-----------------------------------------------------------------------------
(* Every step keeps the invariant: the calls.                              *)

(* The streams, the request task and the server do not change.             *)
LEMMA StreamsStand == UNCHANGED <<net, rq>> => StreamsShrink
BY DEF StreamsShrink

(* A call takes a message that nothing points to.                          *)
LEMMA CallKeeps ==
    ASSUME IInv, NEW c \in Callers, NEW k \in Kinds, NEW p \in Params, NEW v \in Values,
           Call(c, k, p, v), heap # {}
    PROVE  IInv'
<1>. TypeOK /\ Ownership /\ Working /\ NumberLeft /\ Seeing /\ Answering
    BY DEF IInv
<1>1. PICK b \in heap :
         /\ heap' = heap \ {b}
         /\ mem' = [mem EXCEPT ![b] = [Blank EXCEPT !.kind = k, !.param = p, !.value = v]]
         /\ caller' = [caller EXCEPT ![c] = [pc |-> "store", blk |-> b, num |-> number,
                                             seen |-> {table[p]}]]
         /\ UNCHANGED halted
    BY DEF Call
<1>2. UNCHANGED <<number, queue, rq, net, table, raced, halted>> /\ At(c, "idle") /\ b \in Blocks
    BY <1>1 DEF Call, TypeOK
<1>3. number < MaxCalls /\ number \in 0 .. MaxCalls
    <2>1. IsFiniteSet({d \in Callers : At(d, "store")})
        BY CallersAssumption, FS_Subset
    <2>2. Cardinality({d \in Callers : At(d, "store")}) \in Nat
        BY <2>1, FS_CardinalityType
    <2>3. number + Cardinality({d \in Callers : At(d, "store")}) < MaxCalls /\ number \in 0 .. MaxCalls
        BY DEF Call, TypeOK
    <2>. QED BY <2>2, <2>3, BlocksAssumption
<1>4. /\ [Blank EXCEPT !.kind = k, !.param = p, !.value = v] \in Messages
      /\ [Blank EXCEPT !.kind = k, !.param = p, !.value = v].param = p
      /\ [Blank EXCEPT !.kind = k, !.param = p, !.value = v].done = FALSE
    BY BlankType DEF Blank
<1>5. /\ mem' \in [Blocks -> Messages] /\ mem'[b].param = p /\ ~mem'[b].done
      /\ \A x \in Blocks \ {b} : mem'[x] = mem[x]
    BY <1>1, <1>2, <1>4, SetMessage
<1>6. [pc |-> "store", blk |-> b, num |-> number, seen |-> {table[p]}] \in CallerStates
    BY <1>2, <1>3 DEF CallerStates, TypeOK, Addresses
<1>7. /\ caller' \in [Callers -> CallerStates] /\ \A d \in Callers \ {c} : caller'[d] = caller[d]
      /\ caller'[c].pc = "store" /\ caller'[c].blk = b /\ caller'[c].num = number
      /\ caller'[c].seen = {table[p]}
    BY <1>1, <1>6, SetCaller
<1>8. \A d \in Callers \ {c} : Owns(d) => caller[d].blk # b /\ caller[d].blk \in Blocks
    BY <1>1 DEF Ownership, NotFree
<1>9. ~InQueue(b) /\ rq.blk # b
    BY <1>1, <1>2, NamesAssumption DEF Ownership, NotFree, Queued, Processed, SleepsOn, Owns, At
<1>10. TypeOK'
    BY <1>1, <1>2, <1>5, <1>7, NamesAssumption DEF TypeOK, At
<1>11. OneOwner' /\ NotFree' /\ NotYetDone'
    BY <1>1, <1>2, <1>5, <1>7, <1>8 DEF Ownership, OneOwner, NotFree, NotYetDone, Owns, At
<1>12. \A x \in Blocks : SleepsOn(x) => SleepsOn(x)'
    BY <1>2, <1>7 DEF SleepsOn, At
<1>13. Queued' /\ QueuedOnce' /\ Processed'
    BY <1>2, <1>5, <1>9, <1>12, SameQueue DEF Ownership, Queued, Processed, TypeOK, TaskStates, Addresses
<1>14. Working' /\ NumberLeft'
    BY <1>2, <1>3, <1>7 DEF Working, NumberLeft, At
<1>15. Seeing'
    BY <1>2, <1>5, <1>7, <1>8 DEF Seeing, Owns, Msg
<1>16. CallsGoOn /\ NoResultCame
    BY <1>2, <1>5, <1>7, <1>8 DEF CallsGoOn, NoResultCame, SameRequest, Numbered, Owns, At, Msg
<1>17. Answering'
    BY <1>2, <1>16, StreamsStand, AnsweringStays
<1>. QED BY <1>10, <1>11, <1>13, <1>14, <1>15, <1>17 DEF IInv, Ownership

(* The number is stored: it is new, or an increment has been lost.         *)
LEMMA StoreNumberKeeps ==
    ASSUME IInv, NEW c \in Callers, StoreNumber(c)
    PROVE  IInv'
<1>. TypeOK /\ Ownership /\ Working /\ NumberLeft /\ Seeing /\ Answering
    BY DEF IInv
<1>. DEFINE b == caller[c].blk  n == caller[c].num
<1>1. /\ At(c, "store") /\ caller' = [caller EXCEPT ![c].pc = "enqueue"]
      /\ number' = n + 1 /\ raced' = (raced \/ number # n)
      /\ mem' = [mem EXCEPT ![b].num = n]
      /\ UNCHANGED <<heap, queue, rq, net, table, halted>>
    BY DEF StoreNumber, Goto, NextNumber
<1>2. /\ b \in Blocks /\ b \notin heap /\ Msg(c) \in Messages /\ Owns(c)
      /\ \A d \in Callers \ {c} : Owns(d) => caller[d].blk # b
      /\ ~InQueue(b) /\ rq.blk # b
    BY <1>1, OwnMessage DEF Owns, At
<1>3. n \in 0 .. MaxCalls /\ n < MaxCalls /\ MaxCalls \in Nat
    BY <1>1, BlocksAssumption DEF NumberLeft, TypeOK, CallerStates
<1>4. caller[c] \in CallerStates
    BY DEF TypeOK
<1>5. [caller[c] EXCEPT !.pc = "enqueue"] \in CallerStates
    BY <1>4 DEF CallerStates
<1>6. /\ caller' \in [Callers -> CallerStates] /\ \A d \in Callers \ {c} : caller'[d] = caller[d]
      /\ caller'[c].pc = "enqueue" /\ caller'[c].blk = b /\ caller'[c].num = n
      /\ caller'[c].seen = caller[c].seen
    <2>1. caller' = [caller EXCEPT ![c] = [caller[c] EXCEPT !.pc = "enqueue"]]
        BY <1>1
    <2>. QED BY <1>4, <1>5, <2>1, SetCaller DEF CallerStates
<1>7. mem[b] \in Messages /\ [mem[b] EXCEPT !.num = n] \in Messages
    BY <1>2, <1>3 DEF Messages, Msg
<1>8. /\ mem' \in [Blocks -> Messages] /\ \A x \in Blocks \ {b} : mem'[x] = mem[x]
      /\ mem'[b].num = n /\ mem'[b].kind = mem[b].kind /\ mem'[b].param = mem[b].param
      /\ mem'[b].value = mem[b].value /\ mem'[b].done = mem[b].done
    <2>1. mem' = [mem EXCEPT ![b] = [mem[b] EXCEPT !.num = n]]
        BY <1>1
    <2>. QED BY <1>2, <1>7, <2>1, SetMessage DEF Messages
<1>. HIDE DEF b, n
<1>9. TypeOK'
    BY <1>1, <1>2, <1>3, <1>6, <1>8, NamesAssumption DEF TypeOK, At
<1>10. OneOwner' /\ NotFree' /\ NotYetDone'
    BY <1>1, <1>2, <1>6, <1>8 DEF Ownership, OneOwner, NotFree, NotYetDone, Owns, At, b
<1>11. \A x \in Blocks : SleepsOn(x) => SleepsOn(x)'
    BY <1>1, <1>6 DEF SleepsOn, At
<1>12. Queued' /\ QueuedOnce' /\ Processed'
    BY <1>1, <1>2, <1>8, <1>11, SameQueue DEF Ownership, Queued, Processed, TypeOK, TaskStates, Addresses
<1>13. Working' /\ NumberLeft'
    BY <1>1, <1>6 DEF Working, NumberLeft, At
<1>14. Seeing'
    BY <1>1, <1>2, <1>6, <1>8 DEF Seeing, Owns, Msg, NotFree, Ownership, b
<1>15. Answering'
    <2>. SUFFICES ASSUME ~raced' PROVE Distinct' /\ GoodRequests' /\ GoodAnswers' /\ GoodResults'
        BY DEF Answering
    <2>1. ~raced /\ number = n /\ number' = number + 1 /\ number \in Nat
        <3>1. ~raced /\ number = n
            BY <1>1, Zenon
        <3>. QED BY <1>1, <1>3, <3>1
    <2>2. Distinct /\ GoodRequests /\ GoodAnswers /\ GoodResults
        BY <2>1 DEF Answering
    <2>3. \A d \in Callers \ {c} : Numbered(d)' =>
              /\ Numbered(d) /\ Msg(d)' = Msg(d) /\ caller'[d].seen = caller[d].seen
              /\ Msg(d).num \in Nat /\ Msg(d).num < number
        <3>. SUFFICES ASSUME NEW d \in Callers \ {c}, Numbered(d)'
                      PROVE  /\ Numbered(d) /\ Msg(d)' = Msg(d) /\ caller'[d].seen = caller[d].seen
                             /\ Msg(d).num \in Nat /\ Msg(d).num < number
            OBVIOUS
        <3>1. Numbered(d) /\ Owns(d) /\ caller'[d] = caller[d]
            BY <1>6 DEF Numbered, Owns
        <3>2. caller[d].blk \in Blocks \ {b} /\ Msg(d) \in Messages
            BY <1>2, <3>1, OwnMessage
        <3>3. Msg(d).num \in Nat
            BY <1>3, <3>2 DEF Messages
        <3>. QED BY <1>8, <2>2, <3>1, <3>2, <3>3 DEF Msg, Distinct
    <2>4. Msg(c)'.num = number
        BY <1>6, <1>8, <2>1 DEF Msg
    <2>5. Distinct'
        <3>1. \A d \in Callers : Numbered(d)' => Msg(d)'.num < number'
            BY <2>1, <2>3, <2>4
        <3>2. \A d, e \in Callers : Numbered(d)' /\ Numbered(e)' /\ Msg(d)'.num = Msg(e)'.num => d = e
            BY <2>1, <2>2, <2>3, <2>4 DEF Distinct
        <3>. QED BY <3>1, <3>2 DEF Distinct
    <2>6. ASSUME NEW f \in Requests, GoodRequest(f) PROVE GoodRequest(f)'
        <3>1. f.num \in Nat /\ f.num < number
            BY <1>3, <2>6 DEF GoodRequest, Requests
        <3>. QED BY <2>1, <2>3, <2>4, <2>6, <3>1 DEF GoodRequest
    <2>7. ASSUME NEW f \in Frames, GoodAnswer(f) PROVE GoodAnswer(f)'
        <3>. SUFFICES ASSUME f.cmd = "ANSWER" PROVE GoodAnswer(f)'
            BY DEF GoodAnswer
        <3>1. f.num \in Nat /\ f.num < number
            BY <1>3, <2>7 DEF GoodAnswer, Frames, Nothing
        <3>. QED BY <2>1, <2>3, <2>4, <2>7, <3>1 DEF GoodAnswer, TrueOf
    <2>8. GoodRequests'
        <3>1. net'.toServer = net.toServer /\ \A f \in ElementsOf(net.toServer) : f \in Requests
            BY <1>1, ElementOfSeq DEF TypeOK, Links, ElementsOf
        <3>. QED BY <2>2, <2>6, <3>1 DEF GoodRequests, ElementsOf
    <2>9. GoodAnswers'
        <3>1. /\ net'.toClient = net.toClient /\ rq' = rq
              /\ \A f \in ElementsOf(net.toClient) \union ElementsOf(rq.buf) : f \in Frames
            BY <1>1, ElementOfSeq DEF TypeOK, Links, TaskStates, ElementsOf
        <3>. QED BY <2>2, <2>7, <3>1 DEF GoodAnswers, ElementsOf
    <2>10. GoodResults'
        BY <1>6, <2>2, <2>3 DEF GoodResults, At, Numbered, Matches, TrueOf
    <2>. QED BY <2>5, <2>8, <2>9, <2>10
<1>. QED BY <1>9, <1>10, <1>12, <1>13, <1>14, <1>15 DEF IInv, Ownership

(* The semaphore is waited for, and the queue had room.                    *)
LEMMA EnqueueKeeps ==
    ASSUME IInv, NEW c \in Callers, Enqueue(c), Room
    PROVE  IInv'
<1>. TypeOK /\ Ownership /\ Working /\ NumberLeft /\ Seeing /\ Answering
    BY DEF IInv
<1>. DEFINE b == caller[c].blk
<1>1. /\ At(c, "enqueue") /\ caller' = [caller EXCEPT ![c].pc = "wait"]
      /\ queue' = Append(queue, b)
      /\ UNCHANGED <<heap, mem, number, rq, net, table, halted, raced>>
    BY DEF Enqueue, Goto
<1>2. /\ b \in Blocks /\ Owns(c) /\ ~InQueue(b) /\ rq.blk # b /\ ~mem[b].done
    BY <1>1, OwnMessage DEF Owns, At, Ownership, NotYetDone
<1>3. caller[c] \in CallerStates
    BY DEF TypeOK
<1>4. [caller[c] EXCEPT !.pc = "wait"] \in CallerStates
    BY <1>3 DEF CallerStates
<1>5. /\ caller' \in [Callers -> CallerStates] /\ \A d \in Callers \ {c} : caller'[d] = caller[d]
      /\ caller'[c].pc = "wait" /\ caller'[c].blk = b /\ caller'[c].num = caller[c].num
      /\ caller'[c].seen = caller[c].seen
    <2>1. caller' = [caller EXCEPT ![c] = [caller[c] EXCEPT !.pc = "wait"]]
        BY <1>1
    <2>. QED BY <1>3, <1>4, <2>1, SetCaller DEF CallerStates
<1>6. /\ queue' \in Seq(Blocks) /\ Len(queue') <= QueueSize
      /\ \A x \in Blocks : InQueue(x)' <=> InQueue(x) \/ x = b
      /\ QueuedOnce'
    BY <1>1, <1>2, AppendQueue DEF Ownership
<1>. HIDE DEF b
<1>7. TypeOK'
    BY <1>1, <1>2, <1>5, <1>6, NamesAssumption DEF TypeOK, At
<1>8. OneOwner' /\ NotFree' /\ NotYetDone'
    BY <1>1, <1>2, <1>5 DEF Ownership, OneOwner, NotFree, NotYetDone, Owns, At, b
<1>9. \A x \in Blocks : SleepsOn(x) \/ x = b => SleepsOn(x)'
    BY <1>1, <1>5 DEF SleepsOn, At
<1>10. Queued' /\ Processed'
    BY <1>1, <1>2, <1>6, <1>9 DEF Ownership, Queued, Processed, TypeOK, TaskStates, Addresses
<1>11. Working' /\ NumberLeft'
    BY <1>1, <1>5 DEF Working, NumberLeft, At
<1>12. Seeing'
    BY <1>1, <1>2, <1>5 DEF Seeing, Owns, Msg, b
<1>13. CallsGoOn
    BY <1>1, <1>5 DEF CallsGoOn, SameRequest, Numbered, At, Msg, b
<1>14. NoResultCame
    BY <1>1, <1>2, <1>5 DEF NoResultCame, At, Msg
<1>15. Answering'
    BY <1>1, <1>13, <1>14, StreamsStand, AnsweringStays
<1>. QED BY <1>6, <1>7, <1>8, <1>10, <1>11, <1>12, <1>15 DEF IInv, Ownership

(* A caller goes, and its message with it, or not: nobody else points to   *)
(* it.                                                                     *)
LEMMA LeavingKeeps ==
    ASSUME IInv, NEW c \in Callers, Owns(c), ~InQueue(caller[c].blk), rq.blk # caller[c].blk,
           Return(c) \/ Goto(c, "freed"),
           Free(c) \/ UNCHANGED <<heap, mem>>,
           UNCHANGED <<number, queue, rq, net, table, halted, raced>>
    PROVE  IInv'
<1>. TypeOK /\ Ownership /\ Working /\ NumberLeft /\ Seeing /\ Answering
    BY DEF IInv
<1>. DEFINE b == caller[c].blk
<1>1. /\ b \in Blocks /\ \A d \in Callers \ {c} : Owns(d) => caller[d].blk \in Blocks \ {b}
    BY OwnMessage
<1>2. /\ mem' \in [Blocks -> Messages] /\ \A x \in Blocks \ {b} : mem'[x] = mem[x]
      /\ heap' \subseteq heap \union {b} /\ heap \subseteq heap' /\ heap' \subseteq Blocks
    <2>1. CASE Free(c)
        BY <1>1, <2>1, FreeMessage DEF TypeOK
    <2>2. CASE UNCHANGED <<heap, mem>>
        BY <2>2 DEF TypeOK
    <2>. QED BY <2>1, <2>2
<1>3. /\ caller' \in [Callers -> CallerStates] /\ \A d \in Callers \ {c} : caller'[d] = caller[d]
      /\ caller'[c].pc \in {"idle", "freed"}
      /\ caller'[c].blk = NoBlock <=> caller'[c].pc = "idle"
    <2>1. caller[c] \in CallerStates /\ b # NoBlock
        BY <1>1, NamesAssumption DEF TypeOK
    <2>2. CASE Return(c)
        <3>1. Idle \in CallerStates /\ Idle.pc = "idle" /\ Idle.blk = NoBlock
            BY BlocksAssumption DEF Idle, CallerStates, Addresses
        <3>. QED BY <2>2, <3>1, SetCaller DEF Return
    <2>3. CASE Goto(c, "freed")
        <3>1. /\ [caller[c] EXCEPT !.pc = "freed"] \in CallerStates
              /\ [caller[c] EXCEPT !.pc = "freed"].pc = "freed"
              /\ [caller[c] EXCEPT !.pc = "freed"].blk = b
            BY <2>1 DEF CallerStates
        <3>2. caller' = [caller EXCEPT ![c] = [caller[c] EXCEPT !.pc = "freed"]]
            BY <2>3 DEF Goto
        <3>. QED BY <2>1, <3>1, <3>2, SetCaller
    <2>. QED BY <2>2, <2>3
<1>. HIDE DEF b
<1>4. TypeOK'
    BY <1>1, <1>2, <1>3 DEF TypeOK, At
<1>5. OneOwner' /\ NotFree' /\ NotYetDone'
    BY <1>1, <1>2, <1>3 DEF Ownership, OneOwner, NotFree, NotYetDone, Owns, At
<1>6. \A x \in Blocks \ {b} : SleepsOn(x) => SleepsOn(x)'
    BY <1>3 DEF SleepsOn, At, b
<1>7. Queued' /\ QueuedOnce' /\ Processed'
    BY <1>1, <1>2, <1>6, SameQueue DEF Ownership, Queued, Processed, TypeOK, TaskStates, Addresses, b
<1>8. Working' /\ NumberLeft'
    BY <1>3 DEF Working, NumberLeft, At
<1>9. Seeing'
    BY <1>1, <1>2, <1>3 DEF Seeing, Owns, Msg
<1>10. CallsGoOn /\ NoResultCame
    BY <1>1, <1>2, <1>3 DEF CallsGoOn, NoResultCame, SameRequest, Numbered, Owns, At, Msg
<1>11. Answering'
    BY <1>10, StreamsStand, AnsweringStays
<1>. QED BY <1>4, <1>5, <1>7, <1>8, <1>9, <1>11 DEF IInv, Ownership

(* What a call does without a message changes nothing: it returns after it *)
(* has freed it, or is refused before it has one.                          *)
LEMMA WithoutMessageKeeps ==
    ASSUME IInv, NEW c \in Callers, ReturnsFreed(c) \/ SetRefused(c) \/ ReturnsRefused(c)
    PROVE  IInv'
<1>. TypeOK /\ Ownership /\ Working /\ NumberLeft /\ Seeing /\ Answering
    BY DEF IInv
<1>1. /\ At(c, "freed") \/ At(c, "idle") \/ At(c, "refused")
      /\ UNCHANGED <<heap, mem, number, queue, rq, net, table, halted, raced>>
    BY DEF ReturnsFreed, SetRefused, ReturnsRefused
<1>2. Idle \in CallerStates /\ Idle.pc = "idle" /\ Idle.blk = NoBlock
    BY BlocksAssumption DEF Idle, CallerStates, Addresses
<1>3. /\ caller' \in [Callers -> CallerStates] /\ \A d \in Callers \ {c} : caller'[d] = caller[d]
      /\ caller'[c].pc \in {"idle", "refused"} /\ caller'[c].blk = NoBlock
    <2>1. CASE Return(c)
        BY <1>2, <2>1, SetCaller DEF Return
    <2>2. CASE At(c, "idle") /\ Goto(c, "refused")
        <3>1. caller[c] \in CallerStates /\ caller[c].blk = NoBlock
            BY <2>2 DEF TypeOK
        <3>2. /\ [caller[c] EXCEPT !.pc = "refused"] \in CallerStates
              /\ [caller[c] EXCEPT !.pc = "refused"].pc = "refused"
              /\ [caller[c] EXCEPT !.pc = "refused"].blk = NoBlock
            BY <3>1 DEF CallerStates
        <3>3. caller' = [caller EXCEPT ![c] = [caller[c] EXCEPT !.pc = "refused"]]
            BY <2>2 DEF Goto
        <3>. QED BY <3>2, <3>3, SetCaller
    <2>. QED BY <2>1, <2>2 DEF ReturnsFreed, SetRefused, ReturnsRefused
<1>4. TypeOK'
    BY <1>1, <1>3 DEF TypeOK, At
<1>5. OneOwner' /\ NotFree' /\ NotYetDone'
    BY <1>1, <1>3 DEF Ownership, OneOwner, NotFree, NotYetDone, Owns, At
<1>6. \A x \in Blocks : SleepsOn(x) => SleepsOn(x)'
    BY <1>1, <1>3 DEF SleepsOn, At
<1>7. Queued' /\ QueuedOnce' /\ Processed'
    BY <1>1, <1>6, SameQueue DEF Ownership, Queued, Processed, TypeOK, TaskStates, Addresses
<1>8. Working' /\ NumberLeft'
    BY <1>1, <1>3 DEF Working, NumberLeft, At
<1>9. Seeing'
    BY <1>1, <1>3 DEF Seeing, Owns, Msg
<1>10. CallsGoOn /\ NoResultCame
    BY <1>1, <1>3 DEF CallsGoOn, NoResultCame, SameRequest, Numbered, Owns, At, Msg
<1>11. Answering'
    BY <1>1, <1>10, StreamsStand, AnsweringStays
<1>. QED BY <1>4, <1>5, <1>7, <1>8, <1>9, <1>11 DEF IInv, Ownership

(* A step of a call that is under way.                                     *)
LEMMA ProgressKeeps ==
    ASSUME IInv, NEW c \in Callers, Progress(c)
    PROVE  IInv'
<1>1. CASE StoreNumber(c)
    BY <1>1, StoreNumberKeeps
<1>2. CASE Enqueue(c)
    <2>1. CASE Room
        BY <1>2, <2>1, EnqueueKeeps
    <2>2. CASE ~Room
        <3>1. Free(c) /\ Return(c) /\ UNCHANGED <<queue, number, rq, net, table, halted, raced>>
            BY <1>2, <2>2 DEF Enqueue
        <3>2. Owns(c) /\ ~InQueue(caller[c].blk) /\ rq.blk # caller[c].blk
            BY <1>2, OwnMessage DEF Enqueue, Owns, At, IInv
        <3>. QED BY <3>1, <3>2, LeavingKeeps
    <2>. QED BY <2>1, <2>2
<1>3. CASE ReturnsFreed(c) \/ ReturnsRefused(c)
    BY <1>3, WithoutMessageKeeps
<1>4. CASE FreesFirst(c) \/ GetReturns(c) \/ SetReturns(c)
    <2>1. Woken(c) /\ (Return(c) \/ Goto(c, "freed")) /\ (Free(c) \/ UNCHANGED <<heap, mem>>)
          /\ UNCHANGED <<number, queue, rq, net, table, halted, raced>>
        BY <1>4 DEF FreesFirst, GetReturns, SetReturns
    <2>2. Owns(c) /\ ~InQueue(caller[c].blk) /\ rq.blk # caller[c].blk
        BY <2>1, OwnMessage DEF Woken, Owns, At, IInv
    <2>. QED BY <2>1, <2>2, LeavingKeeps
<1>. QED BY <1>1, <1>2, <1>3, <1>4 DEF Progress

-----------------------------------------------------------------------------
(* The request task.                                                       *)

(* What a step leaves in the streams is good.                              *)
StreamsGood ==
    ~raced => /\ \A f \in ElementsOf(net'.toServer) : GoodRequest(f)
              /\ \A f \in ElementsOf(net'.toClient) : GoodAnswer(f)

LEMMA StreamsStayGood ==
    ASSUME Answering, net' = net
    PROVE  StreamsGood
BY DEF Answering, StreamsGood, GoodRequests, GoodAnswers

(* The oldest message of the queue is taken: its caller still sleeps.      *)
LEMMA ReceiveKeeps ==
    ASSUME IInv, Receive
    PROVE  IInv'
<1>. TypeOK /\ Ownership /\ Working /\ NumberLeft /\ Seeing /\ Answering
    BY DEF IInv
<1>1. /\ rq.pc = "receive" /\ queue # << >> /\ queue' = Tail(queue)
      /\ rq' = [Asleep EXCEPT !.pc = "send", !.blk = Head(queue)]
      /\ UNCHANGED <<mem, net, caller, heap, number, table, halted, raced>>
    BY DEF Receive, others
<1>2. /\ Head(queue) \in Blocks /\ InQueue(Head(queue))
      /\ queue' \in Seq(Blocks) /\ Len(queue') <= QueueSize
      /\ \A b \in Blocks : InQueue(b)' => InQueue(b) /\ b # Head(queue)
      /\ QueuedOnce'
    BY <1>1, TailQueue DEF Ownership
<1>3. rq' = [pc |-> "send", blk |-> Head(queue), late |-> FALSE, wait |-> "bounded", buf |-> << >>]
    BY <1>1 DEF Asleep
<1>4. /\ rq' \in TaskStates /\ rq'.pc = "send" /\ rq'.blk = Head(queue) /\ rq'.buf = << >>
      /\ rq'.blk # NoBlock
    BY <1>2, <1>3, NamesAssumption DEF TaskStates, Addresses
<1>5. TypeOK'
    BY <1>1, <1>2, <1>4 DEF TypeOK, At
<1>6. OneOwner' /\ NotFree' /\ NotYetDone'
    BY <1>1 DEF Ownership, OneOwner, NotFree, NotYetDone, Owns, At
<1>7. \A x : SleepsOn(x) => SleepsOn(x)'
    BY <1>1 DEF SleepsOn, At
<1>8. Queued' /\ Processed'
    BY <1>1, <1>2, <1>4, <1>7 DEF Ownership, Queued, Processed
<1>9. Working' /\ NumberLeft' /\ Seeing'
    BY <1>1, <1>4 DEF Working, NumberLeft, Seeing, At, Owns, Msg
<1>10. CallsGoOn /\ NoResultCame
    BY <1>1 DEF CallsGoOn, NoResultCame, SameRequest, Numbered, At, Msg
<1>11. StreamsShrink
    BY <1>1, <1>4 DEF StreamsShrink, ElementsOf
<1>12. Answering'
    BY <1>1, <1>10, <1>11, AnsweringStays
<1>. QED BY <1>2, <1>5, <1>6, <1>8, <1>9, <1>12 DEF IInv, Ownership

(* The request ends, with an answer that is good or with none.             *)
LEMMA FinishKeeps ==
    ASSUME IInv, rq.blk # NoBlock, NEW r \in Results, NEW rx \in Frames, Finish(r, rx),
           net' \in Links, UNCHANGED <<queue, others>>, StreamsGood, ~raced => GoodAnswer(rx)
    PROVE  IInv'
<1>. TypeOK /\ Ownership /\ Working /\ NumberLeft /\ Seeing /\ Answering
    BY DEF IInv
<1>1. UNCHANGED <<caller, heap, number, table, halted, raced, queue>> /\ rq' = Asleep
    BY DEF others, Finish
<1>2. rq.blk \in Blocks /\ mem[rq.blk] \in Messages
    BY DEF TypeOK, TaskStates, Addresses
<1>3. /\ mem' \in [Blocks -> Messages] /\ \A x \in Blocks \ {rq.blk} : mem'[x] = mem[x]
      /\ SameRequest(mem[rq.blk], mem'[rq.blk]) /\ mem'[rq.blk].rx = rx
    <2>. DEFINE m == [mem[rq.blk] EXCEPT !.result = r, !.done = TRUE, !.rx = rx]
    <2>1. m \in Messages /\ SameRequest(mem[rq.blk], m) /\ m.rx = rx
        BY <1>2 DEF Messages, SameRequest
    <2>2. mem' = [mem EXCEPT ![rq.blk] = m]
        BY DEF Finish
    <2>. QED BY <1>2, <2>1, <2>2, SetMessage
<1>4. rq' \in TaskStates /\ rq'.pc = "receive" /\ rq'.blk = NoBlock /\ rq'.buf = << >>
    BY <1>1 DEF Asleep, TaskStates, Addresses
<1>5. TypeOK'
    BY <1>1, <1>3, <1>4 DEF TypeOK, At
<1>6. \E c \in Callers : At(c, "wait") /\ caller[c].blk = rq.blk
    BY DEF Ownership, Processed, SleepsOn
<1>7. OneOwner' /\ NotFree' /\ NotYetDone'
    BY <1>1, <1>3, <1>6 DEF Ownership, OneOwner, NotFree, NotYetDone, Owns, At
<1>8. Queued' /\ QueuedOnce' /\ Processed'
    BY <1>1, <1>3, <1>4, SameQueue, NamesAssumption DEF Ownership, Queued, Processed, SleepsOn, At
<1>9. Working' /\ NumberLeft'
    BY <1>1, <1>4 DEF Working, NumberLeft, At
<1>10. \A c \in Callers : Owns(c) => SameRequest(Msg(c), Msg(c)')
    BY <1>1, <1>2, <1>3 DEF Msg, SameRequest, Ownership, NotFree
<1>11. Seeing'
    BY <1>1, <1>10 DEF Seeing, Owns, SameRequest
<1>12. CallsGoOn
    BY <1>1, <1>10 DEF CallsGoOn, Numbered, Owns
<1>13. Answering'
    <2>. SUFFICES ASSUME ~raced PROVE Distinct' /\ GoodRequests' /\ GoodAnswers' /\ GoodResults'
        BY <1>1 DEF Answering
    <2>1. Distinct'
        BY <1>12, DistinctStays DEF Answering
    <2>2. GoodRequests'
        BY <1>12, RequestStaysGood DEF StreamsGood, GoodRequests, ElementsOf
    <2>3. GoodAnswers'
        <3>1. ElementsOf(rq.buf)' = {}
            BY <1>4 DEF ElementsOf
        <3>. QED BY <1>12, <3>1, AnswerStaysGood DEF StreamsGood, GoodAnswers, ElementsOf
    <2>4. GoodResults'
        <3>. SUFFICES ASSUME NEW c \in Callers, At(c, "wait")', Msg(c)'.done, Matches(Msg(c)')
                      PROVE  TrueOf(Msg(c)'.rx, Msg(c)', caller'[c].seen)
            BY DEF GoodResults, TrueOf, Matches
        <3>1. At(c, "wait") /\ Owns(c) /\ Numbered(c) /\ caller' = caller /\ caller[c].blk \in Blocks
            BY <1>1 DEF At, Owns, Numbered, Ownership, NotFree
        <3>2. SameRequest(Msg(c), Msg(c)')
            BY <1>10, <3>1
        <3>3. CASE caller[c].blk = rq.blk
            <4>1. Msg(c)'.rx = rx
                BY <1>3, <3>1, <3>3 DEF Msg
            <4>2. TrueOf(rx, Msg(c), caller[c].seen)
                BY <3>1, <3>2, <4>1 DEF GoodAnswer, Matches, SameRequest
            <4>. QED BY <3>1, <3>2, <4>1, <4>2, TrueOfGrows
        <3>4. CASE caller[c].blk # rq.blk
            <4>1. Msg(c)' = Msg(c)
                BY <1>3, <3>1, <3>4 DEF Msg
            <4>. QED BY <3>1, <4>1 DEF Answering, GoodResults
        <3>. QED BY <3>3, <3>4
    <2>. QED BY <2>1, <2>2, <2>3, <2>4
<1>. QED BY <1>5, <1>7, <1>8, <1>9, <1>11, <1>13 DEF IInv, Ownership

LEMMA FailKeeps ==
    ASSUME IInv, rq.blk # NoBlock, Fail, net' \in Links, UNCHANGED <<queue, others>>, StreamsGood
    PROVE  IInv'
<1>1. "FAIL" \in Results /\ Nothing \in Frames /\ GoodAnswer(Nothing)
    BY DEF Results, Frames, GoodAnswer, Nothing
<1>. QED BY <1>1, FinishKeeps DEF Fail

(* The request goes on.                                                    *)
LEMMA MovingOnKeeps ==
    ASSUME IInv, rq' \in TaskStates, rq'.blk = rq.blk, Len(rq'.buf) <= 2, Working',
           net' \in Links, UNCHANGED <<mem, queue, others>>, StreamsGood,
           ~raced => \A f \in ElementsOf(rq'.buf) : GoodAnswer(f)
    PROVE  IInv'
<1>. TypeOK /\ Ownership /\ Working /\ NumberLeft /\ Seeing /\ Answering
    BY DEF IInv
<1>1. UNCHANGED <<caller, heap, mem, number, table, halted, raced, queue>>
    BY DEF others
<1>2. TypeOK'
    BY <1>1 DEF TypeOK, At
<1>3. OneOwner' /\ NotFree' /\ NotYetDone'
    BY <1>1 DEF Ownership, OneOwner, NotFree, NotYetDone, Owns, At
<1>4. Queued' /\ QueuedOnce' /\ Processed'
    BY <1>1, SameQueue DEF Ownership, Queued, Processed, SleepsOn, At
<1>5. NumberLeft' /\ Seeing'
    BY <1>1 DEF NumberLeft, Seeing, At, Owns, Msg
<1>6. CallsGoOn /\ NoResultCame
    BY <1>1 DEF CallsGoOn, NoResultCame, SameRequest, Numbered, At, Msg
<1>7. Answering'
    <2>. SUFFICES ASSUME ~raced PROVE Distinct' /\ GoodRequests' /\ GoodAnswers' /\ GoodResults'
        BY <1>1 DEF Answering
    <2>1. Distinct' /\ GoodResults'
        BY <1>6, DistinctStays, ResultsStayGood DEF Answering
    <2>2. GoodRequests'
        BY <1>6, RequestStaysGood DEF StreamsGood, GoodRequests, ElementsOf
    <2>3. GoodAnswers'
        BY <1>6, AnswerStaysGood DEF StreamsGood, GoodAnswers, ElementsOf
    <2>. QED BY <2>1, <2>2, <2>3
<1>. QED BY <1>2, <1>3, <1>4, <1>5, <1>7 DEF IInv, Ownership

(* What is in the streams and the buffer.                                  *)
LEMMA Streams ==
    ASSUME IInv
    PROVE  /\ net.toServer \in Seq(Requests) /\ net.toClient \in Seq(Frames) /\ rq.buf \in Seq(Frames)
           /\ net.link \in {"up", "eof", "down"} /\ rq \in TaskStates /\ net \in Links
           /\ ~raced => /\ \A f \in ElementsOf(net.toServer) : GoodRequest(f)
                        /\ \A f \in ElementsOf(net.toClient) : GoodAnswer(f)
                        /\ \A f \in ElementsOf(rq.buf) : GoodAnswer(f)
BY DEF IInv, TypeOK, Links, TaskStates, Answering, GoodRequests, GoodAnswers

(* The request that is sent is that of the caller that sleeps on it.       *)
LEMMA RequestIsGood ==
    ASSUME IInv, rq.blk # NoBlock
    PROVE  Request \in Requests /\ (~raced => GoodRequest(Request))
<1>. TypeOK /\ Ownership /\ Answering
    BY DEF IInv
<1>1. Current \in Messages
    BY DEF TypeOK, TaskStates, Addresses, Current
<1>2. Request \in Requests
    BY <1>1 DEF Request, Requests, Messages
<1>3. PICK c \in Callers : At(c, "wait") /\ caller[c].blk = rq.blk
    BY DEF Ownership, Processed, SleepsOn
<1>4. Numbered(c) /\ Msg(c) = Current
    BY <1>3 DEF Numbered, At, Msg, Current
<1>5. ASSUME ~raced PROVE GoodRequest(Request)
    <2>1. Request.num = Msg(c).num /\ Request.num < number
        BY <1>4, <1>5 DEF Request, Answering, Distinct
    <2>2. ASSUME NEW d \in Callers, Numbered(d), Msg(d).num = Request.num
          PROVE  IsRequestOf(Request, Msg(d))
        <3>1. d = c
            BY <1>4, <1>5, <2>1, <2>2 DEF Answering, Distinct
        <3>. QED BY <1>4, <3>1 DEF IsRequestOf, Request
    <2>. QED BY <2>1, <2>2 DEF GoodRequest
<1>. QED BY <1>2, <1>5

(* The task between two steps: it reads, or has a packet.                  *)
LEMMA Moved ==
    ASSUME rq \in TaskStates, rq.blk # NoBlock,
           NEW pc \in {"read", "select", "packet"}, NEW wait \in {"bounded", "endless"},
           NEW buf \in Seq(Frames), Len(buf) <= 2, pc = "packet" <=> Len(buf) = 2,
           rq' = [pc |-> pc, blk |-> rq.blk, late |-> rq.late, wait |-> wait, buf |-> buf]
    PROVE  /\ rq' \in TaskStates /\ rq'.blk = rq.blk /\ rq'.buf = buf /\ Working'
<1>1. Len(buf) \in Nat
    BY LenProperties
<1>2. rq'.pc = pc /\ rq'.blk = rq.blk /\ rq'.buf = buf
    OBVIOUS
<1>3. rq' \in TaskStates
    BY DEF TaskStates
<1>4. Len(rq'.buf) = Len(buf)
    BY <1>2
<1>5. pc # "packet" => Len(buf) # 2
    OBVIOUS
<1>6. (rq'.pc = "receive" <=> rq'.blk = NoBlock) /\ (rq'.pc = "packet" => Len(rq'.buf) = 2)
    BY <1>2, <1>4
<1>7. rq'.pc \in {"send", "read", "select"} => Len(rq'.buf) < 2
    BY <1>1, <1>2, <1>4, <1>5
<1>. QED BY <1>2, <1>3, <1>6, <1>7 DEF Working

LEMMA SendKeeps ==
    ASSUME IInv, Send
    PROVE  IInv'
<1>. TypeOK /\ Working /\ Answering
    BY DEF IInv
<1>1. /\ rq.pc = "send" /\ rq.blk # NoBlock /\ UNCHANGED <<queue, others>> /\ Len(rq.buf) < 2
      /\ net' = IF net.link = "up" THEN [net EXCEPT !.toServer = Append(@, Request)] ELSE net
    BY DEF Send, Working
<1>2. Request \in Requests /\ (~raced => GoodRequest(Request))
    BY <1>1, RequestIsGood
<1>3. net' \in Links /\ StreamsGood
    <2>1. CASE net.link = "up"
        <3>1. /\ Append(net.toServer, Request) \in Seq(Requests)
              /\ ElementsOf(Append(net.toServer, Request)) \subseteq ElementsOf(net.toServer) \union {Request}
            BY <1>2, Streams, ElementsOfAppend
        <3>2. net' = [link |-> net.link, toServer |-> Append(net.toServer, Request), toClient |-> net.toClient]
            BY <1>1, <2>1, Streams DEF Links
        <3>3. net' \in Links
            BY <3>1, <3>2, Streams DEF Links
        <3>4. net'.toServer = Append(net.toServer, Request) /\ net'.toClient = net.toClient
            BY <3>2
        <3>5. StreamsGood
            BY <1>2, <3>1, <3>4, Streams DEF StreamsGood
        <3>. QED BY <3>3, <3>5
    <2>2. CASE net.link # "up"
        BY <1>1, <2>2, Streams, StreamsStayGood
    <2>. QED BY <2>1, <2>2
<1>4. CASE net.link = "down"
    BY <1>1, <1>3, <1>4, FailKeeps DEF Send
<1>5. CASE net.link # "down" /\ Current.kind = "post"
    <2>1. Finish("OK", Nothing) /\ "OK" \in Results /\ Nothing \in Frames /\ GoodAnswer(Nothing)
        BY <1>5 DEF Send, Results, Frames, Nothing, GoodAnswer
    <2>. QED BY <1>1, <1>3, <2>1, FinishKeeps
<1>6. CASE net.link # "down" /\ Current.kind # "post"
    <2>1. rq' = [rq EXCEPT !.pc = "read"] /\ UNCHANGED mem
        BY <1>6 DEF Send
    <2>2. rq' = [pc |-> "read", blk |-> rq.blk, late |-> rq.late, wait |-> rq.wait, buf |-> rq.buf]
        BY <2>1, Streams DEF TaskStates
    <2>3. /\ Len(rq.buf) <= 2 /\ ("read" = "packet" <=> Len(rq.buf) = 2)
          /\ rq.wait \in {"bounded", "endless"} /\ "read" \in {"read", "select", "packet"}
        <3>1. Len(rq.buf) \in Nat
            BY Streams, LenProperties
        <3>2. rq.wait \in {"bounded", "endless"}
            BY Streams DEF TaskStates
        <3>3. Len(rq.buf) < 2
            BY <1>1, Zenon
        <3>. QED BY <3>1, <3>2, <3>3
    <2>4. rq' \in TaskStates /\ rq'.blk = rq.blk /\ rq'.buf = rq.buf /\ Working'
        BY <1>1, <2>2, <2>3, Streams, Moved
    <2>. QED BY <1>1, <1>3, <2>1, <2>3, <2>4, Streams, MovingOnKeeps
<1>. QED BY <1>4, <1>5, <1>6

(* The connection is looked at, and read from.                             *)
LEMMA ReadKeeps ==
    ASSUME IInv, ReadStart \/ ReadNothing \/ ReadFails
    PROVE  IInv'
<1>. TypeOK /\ Working /\ Answering
    BY DEF IInv
<1>1. rq.blk # NoBlock /\ UNCHANGED <<queue, net, others>> /\ Len(rq.buf) < 2
    BY DEF ReadStart, ReadNothing, ReadFails, Working
<1>2. net' \in Links /\ StreamsGood
    BY <1>1, Streams, StreamsStayGood
<1>3. CASE Fail
    BY <1>1, <1>2, <1>3, FailKeeps
<1>4. CASE ~Fail
    <2>1. PICK pc \in {"read", "select"}, wait \in {"bounded", "endless"} :
             rq' = [rq EXCEPT !.pc = pc, !.wait = wait] /\ UNCHANGED mem
        <3>1. CASE ReadStart
            BY <1>4, <3>1 DEF ReadStart
        <3>2. CASE ReadNothing
            <4>1. rq' = [rq EXCEPT !.pc = "read", !.wait = rq.wait] /\ UNCHANGED mem
                BY <1>4, <3>2, Streams DEF ReadNothing, TaskStates
            <4>. QED BY <4>1, Streams DEF TaskStates
        <3>. QED BY <1>4, <3>1, <3>2 DEF ReadFails
    <2>2. rq' = [pc |-> pc, blk |-> rq.blk, late |-> rq.late, wait |-> wait, buf |-> rq.buf]
        BY <2>1, Streams DEF TaskStates
    <2>3. Len(rq.buf) <= 2 /\ (pc = "packet" <=> Len(rq.buf) = 2)
        <3>1. Len(rq.buf) \in Nat
            BY Streams, LenProperties
        <3>. QED BY <1>1, <3>1
    <2>4. rq' \in TaskStates /\ rq'.blk = rq.blk /\ rq'.buf = rq.buf /\ Working'
        BY <1>1, <2>2, <2>3, Streams, Moved
    <2>. QED BY <1>1, <1>2, <2>1, <2>3, <2>4, Streams, MovingOnKeeps
<1>. QED BY <1>3, <1>4

LEMMA ReadDataKeeps ==
    ASSUME IInv, ReadData
    PROVE  IInv'
<1>. TypeOK /\ Working /\ Answering
    BY DEF IInv
<1>1. PICK n \in 1 .. (2 - Len(rq.buf)) :
         /\ n <= Len(net.toClient)
         /\ net' = [net EXCEPT !.toClient = SubSeq(@, n + 1, Len(@))]
         /\ LET buf == rq.buf \o SubSeq(net.toClient, 1, n)
            IN IF rq.late
               THEN Fail
               ELSE /\ rq' = [rq EXCEPT !.buf = buf, !.pc = IF Len(buf) = 2 THEN "packet" ELSE "read"]
                    /\ UNCHANGED mem
    BY DEF ReadData
<1>2. rq.pc = "select" /\ rq.blk # NoBlock /\ UNCHANGED <<queue, others>> /\ Len(rq.buf) < 2
    BY DEF ReadData, Working
<1>. DEFINE s == net.toClient  rest == SubSeq(s, n + 1, Len(s))  read == SubSeq(s, 1, n)
            buf == rq.buf \o read
<1>3. Len(rq.buf) \in Nat /\ Len(s) \in Nat /\ n \in 0 .. Len(s) /\ 1 \in 1 .. Len(s) + 1 /\ n + 1 \in 1 .. Len(s) + 1
    BY <1>1, <1>2, Streams, LenProperties
<1>4. rest \in Seq(Frames) /\ ElementsOf(rest) \subseteq ElementsOf(s)
    BY <1>3, Streams, ElementsOfPiece
<1>5. read \in Seq(Frames) /\ ElementsOf(read) \subseteq ElementsOf(s) /\ Len(read) = n
    <2>1. n >= 1 /\ n - 1 + 1 = n
        BY <1>1, <1>3
    <2>. QED BY <1>3, <2>1, Streams, ElementsOfPiece
<1>. HIDE DEF rest, read
<1>6. buf \in Seq(Frames) /\ Len(buf) = Len(rq.buf) + n
      /\ ElementsOf(buf) \subseteq ElementsOf(rq.buf) \union ElementsOf(s)
    BY <1>5, Streams, ElementsOfConcat
<1>. HIDE DEF buf
<1>7. Len(buf) <= 2 /\ Len(buf) \in Nat
    BY <1>1, <1>3, <1>6
<1>8. net' = [link |-> net.link, toServer |-> net.toServer, toClient |-> rest]
    BY <1>1, Streams DEF Links, rest
<1>9. net' \in Links /\ net'.toServer = net.toServer /\ net'.toClient = rest
    BY <1>4, <1>8, Streams DEF Links
<1>10. StreamsGood
    BY <1>4, <1>9, Streams DEF StreamsGood
<1>11. CASE rq.late
    BY <1>1, <1>2, <1>9, <1>10, <1>11, FailKeeps
<1>12. CASE ~rq.late
    <2>. DEFINE pc == IF Len(buf) = 2 THEN "packet" ELSE "read"
    <2>1. rq' = [rq EXCEPT !.buf = buf, !.pc = pc] /\ UNCHANGED mem
        BY <1>1, <1>12 DEF buf, read
    <2>2. rq' = [pc |-> pc, blk |-> rq.blk, late |-> rq.late, wait |-> rq.wait, buf |-> buf]
        BY <2>1, Streams DEF TaskStates
    <2>3. pc \in {"read", "select", "packet"} /\ (pc = "packet" <=> Len(buf) = 2)
          /\ rq.wait \in {"bounded", "endless"}
        BY Streams DEF TaskStates
    <2>. HIDE DEF pc
    <2>4. rq' \in TaskStates /\ rq'.blk = rq.blk /\ rq'.buf = buf /\ Working'
        BY <1>2, <1>6, <1>7, <2>2, <2>3, Streams, Moved
    <2>5. ~raced => \A f \in ElementsOf(rq'.buf) : GoodAnswer(f)
        BY <1>6, <2>4, Streams
    <2>. QED BY <1>2, <1>7, <1>9, <1>10, <2>1, <2>4, <2>5, MovingOnKeeps
<1>. QED BY <1>11, <1>12

(* What was read ends the request when it has its number.                  *)
LEMMA PacketKeeps ==
    ASSUME IInv, Packet
    PROVE  IInv'
<1>. TypeOK /\ Working /\ Answering
    BY DEF IInv
<1>1. rq.pc = "packet" /\ rq.blk # NoBlock /\ UNCHANGED <<queue, net, others>> /\ Len(rq.buf) = 2
    BY DEF Packet, Working
<1>2. net' \in Links /\ StreamsGood
    BY <1>1, Streams, StreamsStayGood
<1>3. rq.buf[1] \in Frames /\ (~raced => GoodAnswer(rq.buf[1]))
    <2>1. 1 \in 1 .. Len(rq.buf)
        BY <1>1
    <2>. QED BY <2>1, Streams, ElementOfSeq DEF ElementsOf
<1>4. CASE Accepted(rq.buf[1])
    <2>1. Finish("OK", rq.buf[1]) /\ "OK" \in Results
        BY <1>4 DEF Packet, Results
    <2>. QED BY <1>1, <1>2, <1>3, <2>1, FinishKeeps
<1>5. CASE ~Accepted(rq.buf[1]) /\ rq.late
    BY <1>1, <1>2, <1>5, FailKeeps DEF Packet
<1>6. CASE ~Accepted(rq.buf[1]) /\ ~rq.late
    <2>1. rq' = [rq EXCEPT !.pc = "read", !.buf = << >>] /\ UNCHANGED mem
        BY <1>6 DEF Packet
    <2>2. rq' = [pc |-> "read", blk |-> rq.blk, late |-> rq.late, wait |-> rq.wait, buf |-> << >>]
        BY <2>1, Streams DEF TaskStates
    <2>3. /\ << >> \in Seq(Frames) /\ Len(<< >>) <= 2 /\ ("read" = "packet" <=> Len(<< >>) = 2)
          /\ rq.wait \in {"bounded", "endless"} /\ "read" \in {"read", "select", "packet"}
        BY Streams DEF TaskStates
    <2>4. rq' \in TaskStates /\ rq'.blk = rq.blk /\ rq'.buf = << >> /\ Working'
        BY <1>1, <2>2, <2>3, Streams, Moved
    <2>5. ElementsOf(rq'.buf) = {}
        BY <2>4 DEF ElementsOf
    <2>. QED BY <1>1, <1>2, <2>1, <2>3, <2>4, <2>5, MovingOnKeeps
<1>. QED BY <1>4, <1>5, <1>6

LEMMA DeadlinePassesKeeps ==
    ASSUME IInv, DeadlinePasses
    PROVE  IInv'
<1>. TypeOK /\ Working /\ Answering
    BY DEF IInv
<1>1. UNCHANGED <<mem, queue, net, others>> /\ rq' = [rq EXCEPT !.late = TRUE]
    BY DEF DeadlinePasses
<1>2. net' \in Links /\ StreamsGood
    BY <1>1, Streams, StreamsStayGood
<1>3. /\ rq' \in TaskStates /\ rq'.pc = rq.pc /\ rq'.blk = rq.blk /\ rq'.buf = rq.buf
    BY <1>1, Streams DEF TaskStates
<1>4. Working' /\ Len(rq'.buf) <= 2
    BY <1>3 DEF Working, TypeOK
<1>. QED BY <1>1, <1>2, <1>3, <1>4, Streams, MovingOnKeeps

LEMMA RequestTaskKeeps ==
    ASSUME IInv, RequestTask
    PROVE  IInv'
BY ReceiveKeeps, SendKeeps, ReadKeeps, ReadDataKeeps, PacketKeeps DEF RequestTask

-----------------------------------------------------------------------------
(* The server and the network.                                             *)

(* The calls see what the server does, and stay where they are.            *)
CallersSee ==
    /\ caller' \in [Callers -> CallerStates] /\ table' \in [Params -> Values]
    /\ \A c \in Callers :
          /\ caller'[c].pc = caller[c].pc /\ caller'[c].blk = caller[c].blk
          /\ caller'[c].num = caller[c].num /\ caller[c].seen \subseteq caller'[c].seen

LEMMA ServerKeeps ==
    ASSUME IInv, UNCHANGED client, CallersSee, Seeing', net' \in Links,
           ~raced => /\ \A f \in ElementsOf(net'.toServer) : GoodRequest(f)
                     /\ \A f \in ElementsOf(net'.toClient) : GoodAnswer(f) \/ GoodAnswer(f)'
    PROVE  IInv'
<1>. TypeOK /\ Ownership /\ Working /\ NumberLeft /\ Seeing /\ Answering
    BY DEF IInv
<1>1. UNCHANGED <<heap, mem, number, queue, rq, halted, raced>>
    BY DEF client
<1>2. TypeOK'
    BY <1>1 DEF TypeOK, CallersSee, At
<1>3. OneOwner' /\ NotFree' /\ NotYetDone'
    BY <1>1 DEF Ownership, OneOwner, NotFree, NotYetDone, CallersSee, Owns, At
<1>4. \A x : SleepsOn(x) => SleepsOn(x)'
    BY DEF SleepsOn, CallersSee, At
<1>5. Queued' /\ QueuedOnce' /\ Processed'
    BY <1>1, <1>4, SameQueue DEF Ownership, Queued, Processed
<1>6. Working' /\ NumberLeft'
    BY <1>1 DEF Working, NumberLeft, CallersSee, At
<1>7. CallsGoOn /\ NoResultCame
    BY <1>1 DEF CallsGoOn, NoResultCame, CallersSee, SameRequest, Numbered, At, Msg
<1>8. Answering'
    <2>. SUFFICES ASSUME ~raced PROVE Distinct' /\ GoodRequests' /\ GoodAnswers' /\ GoodResults'
        BY <1>1 DEF Answering
    <2>1. Distinct' /\ GoodResults'
        BY <1>7, DistinctStays, ResultsStayGood DEF Answering
    <2>2. GoodRequests'
        BY <1>7, RequestStaysGood DEF GoodRequests, ElementsOf
    <2>3. \A f \in ElementsOf(rq'.buf) : GoodAnswer(f)
        BY <1>1 DEF Answering, GoodAnswers
    <2>4. GoodAnswers'
        BY <1>7, <2>3, AnswerStaysGood DEF GoodAnswers, ElementsOf
    <2>. QED BY <2>1, <2>2, <2>4
<1>. QED BY <1>2, <1>3, <1>5, <1>6, <1>8 DEF IInv, Ownership

(* Nothing but the network changes.                                        *)
LEMMA NetworkKeeps ==
    ASSUME IInv, UNCHANGED <<client, table, caller>>, net' \in Links, StreamsGood
    PROVE  IInv'
<1>1. CallersSee
    BY DEF CallersSee, IInv, TypeOK
<1>2. Seeing'
    BY DEF IInv, Seeing, Owns, Msg, client
<1>. QED BY <1>1, <1>2, ServerKeeps DEF StreamsGood

(* The server takes a value, and every call about it sees that.            *)
LEMMA ServerTakes ==
    ASSUME IInv, NEW p \in Params, NEW v \in Values, SetServer(p, v), UNCHANGED mem
    PROVE  /\ CallersSee /\ Seeing'
           /\ \A c \in Callers : Owns(c) /\ Msg(c).param = p => v \in caller'[c].seen
<1>. TypeOK /\ Ownership /\ Seeing
    BY DEF IInv
<1>1. table' \in [Params -> Values] /\ table' = [table EXCEPT ![p] = v]
    BY DEF SetServer, TypeOK
<1>2. ASSUME NEW c \in Callers
      PROVE  /\ caller'[c] \in CallerStates
             /\ caller'[c].pc = caller[c].pc /\ caller'[c].blk = caller[c].blk
             /\ caller'[c].num = caller[c].num /\ caller[c].seen \subseteq caller'[c].seen
             /\ Owns(c) /\ Msg(c).param = p => v \in caller'[c].seen
    <2>1. caller[c] \in CallerStates
        BY DEF TypeOK
    <2>2. CASE caller[c].blk # NoBlock /\ Msg(c).param = p
        <3>1. caller'[c] = [caller[c] EXCEPT !.seen = @ \union {v}]
            BY <2>2 DEF SetServer
        <3>2. caller'[c] = [pc |-> caller[c].pc, blk |-> caller[c].blk, num |-> caller[c].num,
                            seen |-> caller[c].seen \union {v}]
            BY <2>1, <3>1 DEF CallerStates
        <3>3. caller[c].seen \union {v} \in SUBSET Values
            BY <2>1 DEF CallerStates
        <3>. QED BY <2>1, <3>2, <3>3 DEF CallerStates
    <2>3. CASE ~(caller[c].blk # NoBlock /\ Msg(c).param = p)
        <3>1. caller'[c] = caller[c]
            BY <2>3 DEF SetServer
        <3>2. ~(Owns(c) /\ Msg(c).param = p)
            BY <2>3, OwnMessage, NamesAssumption
        <3>. QED BY <2>1, <3>1, <3>2
    <2>. QED BY <2>2, <2>3
<1>3. caller' \in [Callers -> CallerStates]
    BY <1>2 DEF SetServer
<1>4. CallersSee
    BY <1>1, <1>2, <1>3 DEF CallersSee
<1>5. Seeing'
    <2>. SUFFICES ASSUME NEW c \in Callers, Owns(c)' PROVE table'[Msg(c)'.param] \in caller'[c].seen
        BY DEF Seeing
    <2>1. Owns(c) /\ Msg(c)' = Msg(c)
        BY <1>2 DEF Owns, Msg
    <2>2. Msg(c).param \in Params
        BY <2>1, OwnMessage DEF Messages
    <2>3. CASE Msg(c).param = p
        BY <1>1, <1>2, <2>1, <2>3 DEF TypeOK
    <2>4. CASE Msg(c).param # p
        BY <1>1, <1>2, <2>1, <2>2, <2>4 DEF TypeOK, Seeing
    <2>. QED BY <2>3, <2>4
<1>. QED BY <1>2, <1>4, <1>5

(* The answer of the server is true of the call whose request it is.       *)
LEMMA ServerHandlesKeeps ==
    ASSUME IInv, ServerHandles
    PROVE  IInv'
<1>. TypeOK /\ Ownership /\ Seeing /\ Answering
    BY DEF IInv
<1>. DEFINE f == Head(net.toServer)
            result == IF f.kind = "get" THEN table[f.param]
                      ELSE IF <<f.param, f.value>> \in ServerAccepts THEN "POSITIVE" ELSE "NEGATIVE"
            a == [cmd |-> "ANSWER", num |-> f.num, kind |-> f.kind, param |-> f.param, val |-> result]
            toClient == IF f.kind = "post" THEN net.toClient ELSE net.toClient \o << a, Nothing >>
<1>1. /\ net.toServer # << >> /\ UNCHANGED client
      /\ IF f.kind # "get" /\ Applies(f) THEN SetServer(f.param, f.value) ELSE UNCHANGED <<table, caller>>
      /\ net' = [net EXCEPT !.toServer = Tail(@),
                            !.toClient = IF f.kind = "post" THEN @ ELSE @ \o << a, Nothing >>]
    BY DEF ServerHandles, Answer
<1>2. /\ Tail(net.toServer) \in Seq(Requests) /\ f \in Requests /\ f \in ElementsOf(net.toServer)
      /\ ElementsOf(Tail(net.toServer)) \subseteq ElementsOf(net.toServer)
    BY <1>1, Streams, ElementsOfTail
<1>3. /\ f.num \in 0 .. MaxCalls /\ f.kind \in Kinds /\ f.param \in Params /\ f.value \in Values
    BY <1>2 DEF Requests
<1>. HIDE DEF f
<1>4. result \in Values \union {"POSITIVE", "NEGATIVE"}
    BY <1>3 DEF TypeOK
<1>. HIDE DEF result
<1>5. a \in Frames /\ Nothing \in Frames
    BY <1>3, <1>4 DEF Frames
<1>6. a.cmd = "ANSWER" /\ a.num = f.num /\ a.kind = f.kind /\ a.param = f.param /\ a.val = result
    OBVIOUS
<1>. HIDE DEF a
<1>7. << a, Nothing >> \in Seq(Frames) /\ ElementsOf(<< a, Nothing >>) = {a, Nothing}
    <2>1. Len(<< a, Nothing >>) = 2 /\ << a, Nothing >>[1] = a /\ << a, Nothing >>[2] = Nothing
        OBVIOUS
    <2>2. << a, Nothing >> \in Seq(Frames)
        BY <1>5
    <2>. QED BY <2>1, <2>2 DEF ElementsOf
<1>8. toClient \in Seq(Frames) /\ ElementsOf(toClient) \subseteq ElementsOf(net.toClient) \union {a, Nothing}
    <2>1. CASE f.kind = "post"
        BY <2>1, Streams
    <2>2. CASE f.kind # "post"
        BY <1>7, <2>2, Streams, ElementsOfConcat
    <2>. QED BY <2>1, <2>2
<1>9. net' = [link |-> net.link, toServer |-> Tail(net.toServer), toClient |-> toClient]
    BY <1>1, Streams DEF Links
<1>. HIDE DEF toClient
<1>10. net' \in Links /\ net'.toServer = Tail(net.toServer) /\ net'.toClient = toClient
    BY <1>2, <1>8, <1>9, Streams DEF Links
<1>11. UNCHANGED <<heap, mem, number, queue, rq, halted, raced>>
    BY <1>1 DEF client
<1>12. /\ CallersSee /\ Seeing'
       /\ f.kind # "get" /\ Applies(f) =>
             \A c \in Callers : Owns(c) /\ Msg(c).param = f.param => f.value \in caller'[c].seen
    <2>1. CASE f.kind # "get" /\ Applies(f)
        BY <1>1, <1>3, <1>11, <2>1, ServerTakes
    <2>2. CASE ~(f.kind # "get" /\ Applies(f))
        <3>1. UNCHANGED <<table, caller>>
            BY <1>1, <2>2
        <3>2. CallersSee
            BY <3>1 DEF CallersSee, TypeOK
        <3>3. Seeing'
            BY <1>11, <3>1 DEF Seeing, Owns, Msg
        <3>. QED BY <2>2, <3>2, <3>3
    <2>. QED BY <2>1, <2>2
<1>13. ASSUME ~raced, NEW g, g = a PROVE GoodAnswer(g)'
    <2>1. GoodRequest(f)
        BY <1>2, <1>13, Streams
    <2>2. g.num < number'
        BY <1>6, <1>13, <1>11, <2>1 DEF GoodRequest
    <2>3. ASSUME NEW c \in Callers, Numbered(c)', Msg(c)'.num = g.num,
                 g.kind = Msg(c)'.kind, g.param = Msg(c)'.param
          PROVE  /\ Msg(c)'.kind = "get" => g.val \in caller'[c].seen
                 /\ Msg(c)'.kind = "set" /\ g.val = "POSITIVE" => Msg(c)'.value \in caller'[c].seen
        <3>1. Numbered(c) /\ Owns(c) /\ Msg(c)' = Msg(c) /\ caller[c].seen \subseteq caller'[c].seen
            BY <1>11, <1>12, <2>3 DEF CallersSee, Numbered, Owns, Msg
        <3>2. IsRequestOf(f, Msg(c))
            BY <1>6, <1>13, <2>1, <2>3, <3>1 DEF GoodRequest
        <3>3. table[Msg(c).param] \in caller'[c].seen
            BY <3>1 DEF Seeing
        <3>4. CASE Msg(c).kind = "get"
            BY <1>6, <1>13, <3>1, <3>2, <3>3, <3>4 DEF IsRequestOf, result
        <3>5. CASE Msg(c).kind = "set"
            <4>1. g.val = "POSITIVE" => Applies(f)
                BY <1>6, <1>13, <3>2, <3>5 DEF IsRequestOf, result, Applies
            <4>. QED BY <1>12, <3>1, <3>2, <3>5, <4>1 DEF IsRequestOf
        <3>. QED BY <3>1, <3>4, <3>5
    <2>4. \A c \in Callers : Numbered(c)' /\ Msg(c)'.num = g.num => TrueOf(g, Msg(c)', caller'[c].seen)
        BY <2>3 DEF TrueOf
    <2>. QED BY <2>2, <2>4 DEF GoodAnswer, TrueOf
<1>14. ~raced => /\ \A g \in ElementsOf(net'.toServer) : GoodRequest(g)
                 /\ \A g \in ElementsOf(net'.toClient) : GoodAnswer(g) \/ GoodAnswer(g)'
    <2>. SUFFICES ASSUME ~raced
                  PROVE  /\ \A g \in ElementsOf(net'.toServer) : GoodRequest(g)
                         /\ \A g \in ElementsOf(net'.toClient) : GoodAnswer(g) \/ GoodAnswer(g)'
        OBVIOUS
    <2>1. \A g \in ElementsOf(net'.toServer) : GoodRequest(g)
        BY <1>2, <1>10, Streams
    <2>2. GoodAnswer(Nothing)
        BY DEF GoodAnswer, Nothing
    <2>3. ASSUME NEW g \in ElementsOf(net'.toClient) PROVE GoodAnswer(g) \/ GoodAnswer(g)'
        <3>1. g \in ElementsOf(net.toClient) \/ g = a \/ g = Nothing
            BY <1>8, <1>10
        <3>. QED BY <1>13, <2>2, <3>1, Streams
    <2>. QED BY <2>1, <2>3
<1>. QED BY <1>1, <1>10, <1>12, <1>14, ServerKeeps

(* Frames are dropped, the connection is closed, lost, made again.         *)
LEMMA NetKeeps ==
    ASSUME IInv, ServerLoses \/ ServerCloses \/ LinkLost \/ LinkRestored
    PROVE  IInv'
<1>. Answering
    BY DEF IInv
<1>1. UNCHANGED <<client, table, caller>>
    BY DEF ServerLoses, ServerCloses, LinkLost, LinkRestored
<1>2. << >> \in Seq(Requests) /\ << >> \in Seq(Frames) /\ ElementsOf(<< >>) = {}
    BY DEF ElementsOf
<1>3. PICK l \in {"up", "eof", "down"}, q \in Seq(Requests), s \in Seq(Frames) :
         /\ net' = [link |-> l, toServer |-> q, toClient |-> s]
         /\ ElementsOf(q) \subseteq ElementsOf(net.toServer)
         /\ ElementsOf(s) \subseteq ElementsOf(net.toClient)
    <2>1. CASE ServerLoses
        <3>1. Tail(net.toServer) \in Seq(Requests)
              /\ ElementsOf(Tail(net.toServer)) \subseteq ElementsOf(net.toServer)
            BY <2>1, Streams, ElementsOfTail DEF ServerLoses
        <3>2. net' = [link |-> net.link, toServer |-> Tail(net.toServer), toClient |-> net.toClient]
            BY <2>1, Streams DEF ServerLoses, Links
        <3>. QED BY <3>1, <3>2, Streams
    <2>2. CASE ServerCloses
        <3>1. net' = [link |-> "eof", toServer |-> << >>, toClient |-> net.toClient]
            BY <2>2, Streams DEF ServerCloses, Links
        <3>. QED BY <1>2, <3>1, Streams
    <2>3. CASE LinkLost
        BY <1>2, <2>3 DEF LinkLost
    <2>4. CASE LinkRestored
        <3>1. net' = [link |-> "up", toServer |-> net.toServer, toClient |-> net.toClient]
            BY <2>4, Streams DEF LinkRestored, Links
        <3>. QED BY <3>1, Streams
    <2>. QED BY <2>1, <2>2, <2>3, <2>4
<1>4. net' \in Links /\ net'.toServer = q /\ net'.toClient = s
    BY <1>3 DEF Links
<1>5. StreamsGood
    BY <1>3, <1>4, Streams DEF StreamsGood
<1>. QED BY <1>1, <1>4, <1>5, NetworkKeeps

LEMMA ServerChangesKeeps ==
    ASSUME IInv, ServerChanges
    PROVE  IInv'
<1>. Answering
    BY DEF IInv
<1>1. PICK pv \in ServerAccepts : SetServer(pv[1], pv[2])
    BY DEF ServerChanges
<1>2. pv[1] \in Params /\ pv[2] \in Values
    BY TableAssumption
<1>3. UNCHANGED <<client, net, mem>>
    BY DEF ServerChanges, client
<1>4. CallersSee /\ Seeing'
    BY <1>1, <1>2, <1>3, ServerTakes
<1>. QED BY <1>3, <1>4, Streams, StreamsStayGood, ServerKeeps DEF StreamsGood

-----------------------------------------------------------------------------
(* The invariant of the specification.                                     *)

(* The call that fails the assertion changes nothing, and it is the last.  *)
LEMMA HaltingKeeps ==
    ASSUME IInv, halted' \in BOOLEAN,
           UNCHANGED <<caller, heap, mem, number, queue, rq, net, table, raced>>
    PROVE  IInv'
<1>. TypeOK /\ Ownership /\ Working /\ NumberLeft /\ Seeing /\ Answering
    BY DEF IInv
<1>1. TypeOK' /\ Working' /\ NumberLeft' /\ Seeing'
    BY DEF TypeOK, Working, NumberLeft, Seeing, At, Owns, Msg
<1>2. OneOwner' /\ NotFree' /\ NotYetDone'
    BY DEF Ownership, OneOwner, NotFree, NotYetDone, Owns, At
<1>3. Queued' /\ QueuedOnce' /\ Processed'
    BY SameQueue DEF Ownership, Queued, Processed, SleepsOn, At
<1>4. CallsGoOn /\ NoResultCame
    BY DEF CallsGoOn, NoResultCame, SameRequest, Numbered, At, Msg
<1>5. Answering'
    BY <1>4, StreamsStand, AnsweringStays
<1>. QED BY <1>1, <1>2, <1>3, <1>5 DEF IInv, Ownership

LEMMA InitHolds == Init => IInv
<1>. SUFFICES ASSUME Init PROVE IInv
    OBVIOUS
<1>. USE DEF Init
<1>1. TypeOK
    <2>1. caller \in [Callers -> CallerStates] /\ rq \in TaskStates /\ Len(rq.buf) <= 2
        BY BlocksAssumption DEF CallerStates, TaskStates, Idle, Asleep, Addresses
    <2>2. mem \in [Blocks -> Messages]
        BY BlankType
    <2>3. net \in Links /\ table \in [Params -> Values]
        BY TableAssumption DEF Links
    <2>4. queue \in Seq(Blocks) /\ Len(queue) <= QueueSize /\ number \in 0 .. MaxCalls
        BY BlocksAssumption
    <2>. QED BY <2>1, <2>2, <2>3, <2>4 DEF TypeOK, At, Idle
<1>2. \A c \in Callers : caller[c].pc = "idle"
    BY DEF Idle
<1>3. Ownership
    BY <1>2 DEF Ownership, OneOwner, NotFree, NotYetDone, Queued, QueuedOnce, Processed, Owns, At,
                InQueue, Asleep
<1>4. Working /\ NumberLeft /\ Seeing
    BY <1>2 DEF Working, NumberLeft, Seeing, Owns, At, Asleep
<1>5. Answering
    <2>1. net.toServer = << >> /\ net.toClient = << >> /\ rq.buf = << >> /\ ElementsOf(<< >>) = {}
        BY DEF Asleep, ElementsOf
    <2>. QED BY <1>2, <2>1 DEF Answering, Distinct, GoodRequests, GoodAnswers, GoodResults, Numbered, At
<1>. QED BY <1>1, <1>3, <1>4, <1>5 DEF IInv

LEMMA NextKeeps == IInv /\ [Next]_vars => IInv'
<1>. SUFFICES ASSUME IInv, [Next]_vars PROVE IInv'
    OBVIOUS
<1>1. ASSUME NEW c \in Callers, Progress(c) PROVE IInv'
    BY <1>1, ProgressKeeps
<1>2. ASSUME NEW c \in Callers, NEW k \in Kinds, NEW p \in Params, NEW v \in Values, Call(c, k, p, v)
      PROVE  IInv'
    <2>1. CASE heap = {}
        BY <1>2, <2>1, HaltingKeeps DEF Call
    <2>2. CASE heap # {}
        BY <1>2, <2>2, CallKeeps
    <2>. QED BY <2>1, <2>2
<1>3. CASE RequestTask \/ DeadlinePasses
    BY <1>3, RequestTaskKeeps, DeadlinePassesKeeps
<1>4. CASE ServerHandles \/ ServerChanges
    BY <1>4, ServerHandlesKeeps, ServerChangesKeeps
<1>5. CASE ServerLoses \/ ServerCloses \/ LinkLost \/ LinkRestored
    BY <1>5, NetKeeps
<1>6. CASE UNCHANGED vars
    <2>1. halted' \in BOOLEAN /\ UNCHANGED <<caller, heap, mem, number, queue, rq, net, table, raced>>
        BY <1>6 DEF vars, IInv, TypeOK
    <2>. QED BY <2>1, HaltingKeeps
<1>7. ASSUME NEW c \in Callers, SetRefused(c) PROVE IInv'
    BY <1>7, WithoutMessageKeeps
<1>. QED BY <1>1, <1>2, <1>3, <1>4, <1>5, <1>6, <1>7 DEF Next

(* Every part of IInv holds in every reachable state.                      *)
LEMMA Invariance == Spec => []IInv
BY InitHolds, NextKeeps, PTL DEF Spec

-----------------------------------------------------------------------------
(* What it is for.                                                         *)

(* Callers, messages, the request task and the two streams keep their      *)
(* types, and the queue never holds more than it has room for.             *)
THEOREM TypeCorrect == Spec => []TypeOK
<1>1. IInv => TypeOK
    BY DEF IInv
<1>. QED BY <1>1, Invariance, PTL

(* What the request task works on, or will, is never a message that its    *)
(* caller has given back, for any number of callers and messages, although *)
(* it is queued by address.                                                *)
THEOREM MessagesAreOwned == Spec => []NoDanglingMessage
<1>1. IInv => NoDanglingMessage
    <2>. SUFFICES ASSUME IInv PROVE NoDanglingMessage
        OBVIOUS
    <2>. TypeOK /\ Ownership
        BY DEF IInv
    <2>1. queue \in Seq(Blocks) /\ rq.blk \in Blocks \union {NoBlock} /\ NoBlock \notin Blocks
        BY NamesAssumption DEF TypeOK, TaskStates, Addresses
    <2>2. ElementsOf(queue) \subseteq Blocks /\ \A b \in ElementsOf(queue) : InQueue(b)
        BY <2>1, ElementOfSeq DEF ElementsOf, InQueue
    <2>3. Pending = ElementsOf(queue) \union ({rq.blk} \ {NoBlock})
        BY DEF Pending, ElementsOf
    <2>4. ASSUME NEW b \in Pending
          PROVE  b \notin heap /\ ~mem[b].done /\ \E c \in Callers : At(c, "wait") /\ caller[c].blk = b
        <3>1. SleepsOn(b) /\ ~mem[b].done
            BY <2>2, <2>3 DEF Ownership, Queued, Processed
        <3>. QED BY <3>1 DEF SleepsOn, Ownership, NotFree, Owns, At
    <2>5. IsFiniteSet(ElementsOf(queue)) /\ Cardinality(ElementsOf(queue)) = Len(queue)
        BY <2>1, ElementsOfOnce DEF Ownership, QueuedOnce
    <2>6. Cardinality(Pending) = Len(queue) + (IF rq.blk = NoBlock THEN 0 ELSE 1)
        <3>1. CASE rq.blk = NoBlock
            <4>1. Pending = ElementsOf(queue)
                BY <2>3, <3>1
            <4>2. Len(queue) \in Nat
                BY <2>1, LenProperties
            <4>. QED BY <2>5, <3>1, <4>1, <4>2
        <3>2. CASE rq.blk # NoBlock
            <4>1. Pending = ElementsOf(queue) \union {rq.blk}
                BY <2>3, <3>2
            <4>2. rq.blk \notin ElementsOf(queue)
                BY <2>2 DEF Ownership, Queued
            <4>. QED BY <2>5, <3>2, <4>1, <4>2, FS_AddElement
        <3>. QED BY <3>1, <3>2
    <2>. QED BY <2>4, <2>6 DEF NoDanglingMessage
<1>. QED BY <1>1, Invariance, PTL

(* cmdClientGetValue never returns the late answer to another request, nor *)
(* bytes of two frames: what it returns the server had during the call,    *)
(* unless two requests have one number.                                    *)
THEOREM GetsAreFresh == Spec => GetIsFresh
<1>1. IInv /\ [Next]_vars =>
        [\A c \in Callers : GetReturns(c) /\ GetSucceeds(c) /\ ~raced
          => Msg(c).rx.val \in caller[c].seen]_vars
    BY DEF IInv, Answering, GoodResults, GetReturns, GetSucceeds, Woken, Matches, TrueOf
<1>. QED BY <1>1, Invariance, PTL DEF Spec, GetIsFresh

(* Whenever cmdClientSetValue returns ERROR_CODE_OK, the server has had    *)
(* the value, unless two requests have one number, or the client's own     *)
(* table has refused the value: the call that sent nothing returns         *)
(* ERROR_CODE_OK as well, and is the only one that does.                   *)
THEOREM SetsAreApplied == Spec => SetIsApplied
<1>1. IInv /\ [Next]_vars =>
        [\A c \in Callers : SetReturnsOk(c) /\ ~raced
          => At(c, "refused") \/ Msg(c).value \in caller[c].seen]_vars
    BY DEF IInv, Answering, GoodResults, SetReturnsOk, ReturnsRefused, SetReturns, SetSucceeds, Woken,
           Matches, TrueOf
<1>. QED BY <1>1, Invariance, PTL DEF Spec, SetIsApplied

-----------------------------------------------------------------------------
(* Where the messages go.                                                  *)

Owned(b) == \E c \in Callers : Owns(c) /\ caller[c].blk = b
OfSuccessfulSet(m) == m.kind = "set" /\ m.done /\ Matches(m) /\ m.rx.val = "POSITIVE"

(* A message that is not free has an owner, or is one that                 *)
(* cmdClientSetValue returned without freeing it: no other call, no        *)
(* failure and no late answer ever loses a message.                        *)
OnlySetsLeak == \A b \in Blocks \ heap : Owned(b) \/ OfSuccessfulSet(mem[b])

(* A step that changes only messages that keep their owner.                *)
LEMMA OwnersGoOn ==
    ASSUME OnlySetsLeak, heap' = heap,
           \A b \in Blocks : Owned(b) => Owned(b)',
           \A b \in Blocks : Owned(b) \/ mem'[b] = mem[b]
    PROVE  OnlySetsLeak'
BY DEF OnlySetsLeak, OfSuccessfulSet, Matches

LEMMA CallLeaksNothing ==
    ASSUME IInv, OnlySetsLeak, NEW c \in Callers, NEW k \in Kinds, NEW p \in Params, NEW v \in Values,
           Call(c, k, p, v)
    PROVE  OnlySetsLeak'
<1>. TypeOK /\ At(c, "idle")
    BY DEF IInv, Call
<1>1. CASE heap = {}
    BY <1>1, OwnersGoOn DEF Call, Owned, Owns
<1>2. CASE heap # {}
    <2>1. PICK b \in heap :
            /\ heap' = heap \ {b}
            /\ mem' = [mem EXCEPT ![b] = [Blank EXCEPT !.kind = k, !.param = p, !.value = v]]
            /\ caller' = [caller EXCEPT ![c] = [pc |-> "store", blk |-> b, num |-> number,
                                               seen |-> {table[p]}]]
        BY <1>2 DEF Call
    <2>2. \A x \in Blocks \ {b} : mem'[x] = mem[x]
        BY <2>1 DEF TypeOK
    <2>3. \A d \in Callers \ {c} : caller'[d] = caller[d]
        BY <2>1 DEF TypeOK
    <2>4. caller'[c].pc = "store" /\ caller'[c].blk = b
        BY <2>1 DEF TypeOK
    <2>5. Owned(b)' /\ \A x \in Blocks : Owned(x) => Owned(x)'
        BY <2>3, <2>4 DEF Owned, Owns, At
    <2>. QED BY <2>1, <2>2, <2>5 DEF OnlySetsLeak, OfSuccessfulSet, Matches
<1>. QED BY <1>1, <1>2

(* A call that is over has freed its message, or has set a value.          *)
LEMMA LeavingLeaksSets ==
    ASSUME IInv, OnlySetsLeak, NEW c \in Callers, Owns(c),
           Return(c) \/ Goto(c, "freed"),
           Free(c) \/ (OfSuccessfulSet(Msg(c)) /\ UNCHANGED <<heap, mem>>)
    PROVE  OnlySetsLeak'
<1>. TypeOK /\ Ownership
    BY DEF IInv
<1>. DEFINE b == caller[c].blk
<1>1. b \in Blocks
    BY OwnMessage
<1>2. \A d \in Callers \ {c} : caller'[d] = caller[d]
    BY DEF Return, Goto, TypeOK
<1>3. \A x \in Blocks \ {b} : Owned(x) => Owned(x)'
    BY <1>2 DEF Owned, Owns
<1>4. CASE Free(c)
    <2>1. heap' = heap \union {b} /\ \A x \in Blocks \ {b} : mem'[x] = mem[x]
        BY <1>1, <1>4, FreeMessage
    <2>. HIDE DEF b
    <2>. QED BY <1>3, <2>1 DEF OnlySetsLeak, OfSuccessfulSet, Matches
<1>5. CASE OfSuccessfulSet(Msg(c)) /\ UNCHANGED <<heap, mem>>
    <2>1. OfSuccessfulSet(mem[b])
        BY <1>5 DEF Msg
    <2>. HIDE DEF b
    <2>. QED BY <1>3, <1>5, <2>1 DEF OnlySetsLeak, OfSuccessfulSet, Matches
<1>. QED BY <1>4, <1>5

LEMMA WithoutMessageLeaksNothing ==
    ASSUME IInv, OnlySetsLeak, NEW c \in Callers, ReturnsFreed(c) \/ SetRefused(c) \/ ReturnsRefused(c)
    PROVE  OnlySetsLeak'
<1>1. ~Owns(c) /\ heap' = heap /\ mem' = mem /\ \A d \in Callers \ {c} : caller'[d] = caller[d]
    BY DEF ReturnsFreed, SetRefused, ReturnsRefused, Return, Goto, Owns, At, IInv, TypeOK
<1>2. \A b \in Blocks : Owned(b) => Owned(b)'
    BY <1>1 DEF Owned, Owns
<1>. QED BY <1>1, <1>2, OwnersGoOn

LEMMA ProgressLeaksSets ==
    ASSUME IInv, OnlySetsLeak, NEW c \in Callers, Progress(c)
    PROVE  OnlySetsLeak'
<1>. TypeOK
    BY DEF IInv
<1>1. ASSUME NEW l \in {"store", "enqueue", "wait"}, Owns(c), Goto(c, l), heap' = heap,
             \A b \in Blocks : b = caller[c].blk \/ mem'[b] = mem[b]
      PROVE  OnlySetsLeak'
    <2>1. \A d \in Callers : Owns(d) => Owns(d)' /\ caller'[d].blk = caller[d].blk
        BY <1>1 DEF Owns, Goto, TypeOK
    <2>2. \A b \in Blocks : Owned(b) => Owned(b)'
        BY <2>1 DEF Owned
    <2>3. \A b \in Blocks : Owned(b) \/ mem'[b] = mem[b]
        BY <1>1 DEF Owned
    <2>. QED BY <1>1, <2>2, <2>3, OwnersGoOn
<1>2. CASE StoreNumber(c)
    <2>1. Owns(c) /\ Goto(c, "enqueue") /\ heap' = heap
        BY <1>2 DEF StoreNumber, Owns, At
    <2>2. \A b \in Blocks : b = caller[c].blk \/ mem'[b] = mem[b]
        BY <1>2 DEF StoreNumber, TypeOK
    <2>. QED BY <1>1, <2>1, <2>2
<1>3. CASE Enqueue(c)
    <2>1. Owns(c)
        BY <1>3 DEF Enqueue, Owns, At
    <2>2. CASE Room
        BY <1>1, <1>3, <2>1, <2>2 DEF Enqueue
    <2>3. CASE ~Room
        BY <1>3, <2>1, <2>3, LeavingLeaksSets DEF Enqueue
    <2>. QED BY <2>2, <2>3
<1>4. CASE ReturnsFreed(c) \/ ReturnsRefused(c)
    BY <1>4, WithoutMessageLeaksNothing
<1>5. CASE FreesFirst(c) \/ GetReturns(c) \/ SetReturns(c)
    <2>1. Owns(c) /\ (Return(c) \/ Goto(c, "freed"))
        BY <1>5 DEF FreesFirst, GetReturns, SetReturns, Woken, Owns, At
    <2>2. Free(c) \/ (OfSuccessfulSet(Msg(c)) /\ UNCHANGED <<heap, mem>>)
        BY <1>5 DEF FreesFirst, GetReturns, SetReturns, SetSucceeds, Woken, OfSuccessfulSet
    <2>. QED BY <2>1, <2>2, LeavingLeaksSets
<1>. QED BY <1>2, <1>3, <1>4, <1>5 DEF Progress

(* The request task writes to the message it works on, which has an owner. *)
LEMMA TasksLeakNothing ==
    ASSUME IInv, OnlySetsLeak, RequestTask \/ DeadlinePasses
    PROVE  OnlySetsLeak'
<1>. TypeOK /\ Ownership /\ Working
    BY DEF IInv
<1>1. caller' = caller /\ heap' = heap
    BY DEF RequestTask, Receive, Send, ReadStart, ReadData, ReadNothing, ReadFails, Packet,
           DeadlinePasses, others
<1>2. mem' = mem \/ (rq.pc # "receive" /\ \E r, rx : Finish(r, rx))
    BY DEF RequestTask, Receive, Send, ReadStart, ReadData, ReadNothing, ReadFails, Packet,
           DeadlinePasses, Fail
<1>3. \A b \in Blocks : Owned(b) => Owned(b)'
    BY <1>1 DEF Owned, Owns
<1>4. rq.pc # "receive" => Owned(rq.blk)
    BY DEF Working, Ownership, Processed, SleepsOn, Owned, Owns, At
<1>5. \A b \in Blocks : Owned(b) \/ mem'[b] = mem[b]
    BY <1>2, <1>4 DEF Finish, TypeOK
<1>. QED BY <1>1, <1>3, <1>5, OwnersGoOn

LEMMA ServerLeaksNothing ==
    ASSUME IInv, OnlySetsLeak,
           \/ ServerHandles \/ ServerLoses \/ ServerChanges
           \/ ServerCloses \/ LinkLost \/ LinkRestored
    PROVE  OnlySetsLeak'
<1>1. heap' = heap /\ mem' = mem
    BY DEF ServerHandles, ServerLoses, ServerChanges, ServerCloses, LinkLost, LinkRestored, client
<1>2. \A c \in Callers : caller'[c].pc = caller[c].pc /\ caller'[c].blk = caller[c].blk
    <2>1. caller' = caller \/ \E p, v : SetServer(p, v)
        BY DEF ServerHandles, ServerLoses, ServerChanges, ServerCloses, LinkLost, LinkRestored
    <2>2. ASSUME NEW p, NEW v, SetServer(p, v), NEW c \in Callers
          PROVE  caller'[c].pc = caller[c].pc /\ caller'[c].blk = caller[c].blk
        <3>1. caller[c] \in CallerStates
            BY DEF IInv, TypeOK
        <3>. QED BY <2>2, <3>1 DEF SetServer, CallerStates
    <2>. QED BY <2>1, <2>2
<1>3. \A b \in Blocks : Owned(b) => Owned(b)'
    BY <1>2 DEF Owned, Owns
<1>. QED BY <1>1, <1>3, OwnersGoOn

(* Whatever happens to the requests and to the connection, every message   *)
(* that no call has and that is not free is one with which                 *)
(* cmdClientSetValue returned ERROR_CODE_OK: when the assert of            *)
(* _prepare_msg fails, every message is in use or is one of those.         *)
THEOREM LeaksAreSets == Spec => []OnlySetsLeak
<1>1. Init => OnlySetsLeak
    BY DEF Init, OnlySetsLeak
<1>2. IInv /\ OnlySetsLeak /\ [Next]_vars => OnlySetsLeak'
    <2>. SUFFICES ASSUME IInv, OnlySetsLeak, [Next]_vars PROVE OnlySetsLeak'
        OBVIOUS
    <2>1. CASE UNCHANGED vars
        BY <2>1, OwnersGoOn DEF vars, Owned, Owns
    <2>. QED BY <2>1, CallLeaksNothing, ProgressLeaksSets, WithoutMessageLeaksNothing, TasksLeakNothing,
               ServerLeaksNothing DEF Next
<1>. QED BY <1>1, <1>2, Invariance, PTL DEF Spec
=============================================================================
