----------------------------- MODULE RingBuffer -----------------------------
(***************************************************************************)
(* The ring buffer of drv/ringBuff.c between one producer and one consumer *)
(* that share it without a lock.  head and tail are counters of a word     *)
(* that only ever grow and wrap at Wrap; the mask makes the place in the   *)
(* buffer of them.  A call checks, copies the element byte by byte, here   *)
(* as two halves, and then counts; the other task may run in between.      *)
(***************************************************************************)
EXTENDS Integers

CONSTANTS
    Data,       \* the values of half an element
    Wrap,       \* 2^32
    Sizes,      \* the n_elem that callers give to ring_buffer_init
    None        \* no element

VARIABLES
    n_elem, head, tail,     \* the fields of ring_buffer_t
    buf,        \* its memory, two halves for each element
    prod,       \* the producer: where it is, its data, what its last call returned
    cons        \* the consumer: where it is, what it has copied, what its last call gave

ringVars == <<n_elem, head, tail, buf, prod, cons>>

(* ((n - 1) & n) == 0: 0, or a power of 2. *)
Accepts(n) == n = 0 \/ \E k \in 0 .. n : n = 2 ^ k

ASSUME WrapAssumption == Wrap \in Nat \ {0}
ASSUME SizesAssumption == Sizes \subseteq 0 .. Wrap - 1 /\ \A n \in Sizes : Accepts(n) /\ n > 0 => Wrap % n = 0

Slots == 0 .. n_elem - 1
Elements == [low : Data \union {None}, high : Data \union {None}]
Nothing == [low |-> None, high |-> None]

RingInit ==
    /\ n_elem \in {n \in Sizes : Accepts(n)}
    /\ head = 0 /\ tail = 0
    /\ buf = [s \in Slots |-> Nothing]
    /\ prod = [pc |-> "idle", data |-> None, err |-> 0]
    /\ cons = [pc |-> "idle", low |-> None, high |-> None, got |-> Nothing]

count == (head - tail) % Wrap

(* i & (n_elem - 1), for a power of 2. *)
offset(i) == i % n_elem

(* Mutant: the difference of the counters does not wrap with them.         *)
ring_buffer_full_NoWrap == head - tail = n_elem

ring_buffer_full == count = n_elem
ring_buffer_empty == count = 0

-----------------------------------------------------------------------------
(* ring_buffer_put.                                                        *)

PutStarts ==
    /\ prod.pc = "idle" /\ ~ring_buffer_full
    /\ \E d \in Data : prod' = [prod EXCEPT !.pc = "low", !.data = d]
    /\ UNCHANGED <<n_elem, head, tail, buf, cons>>

PutRefused ==
    /\ prod.pc = "idle" /\ ring_buffer_full
    /\ prod' = [prod EXCEPT !.err = -1]
    /\ UNCHANGED <<n_elem, head, tail, buf, cons>>

PutLow ==
    /\ prod.pc = "low" /\ prod' = [prod EXCEPT !.pc = "high"]
    /\ buf' = [buf EXCEPT ![offset(head)].low = prod.data]
    /\ UNCHANGED <<n_elem, head, tail, cons>>

PutHigh ==
    /\ prod.pc = "high" /\ prod' = [prod EXCEPT !.pc = "count"]
    /\ buf' = [buf EXCEPT ![offset(head)].high = prod.data]
    /\ UNCHANGED <<n_elem, head, tail, cons>>

PutCounts ==
    /\ prod.pc = "count" /\ prod' = [pc |-> "idle", data |-> None, err |-> 0]
    /\ head' = (head + 1) % Wrap
    /\ UNCHANGED <<n_elem, tail, buf, cons>>

-----------------------------------------------------------------------------
(* ring_buffer_get.                                                        *)

GetStarts ==
    /\ cons.pc = "idle" /\ ~ring_buffer_empty
    /\ cons' = [cons EXCEPT !.pc = "low"]
    /\ UNCHANGED <<n_elem, head, tail, buf, prod>>

GetRefused ==
    /\ cons.pc = "idle" /\ ring_buffer_empty
    /\ cons' = [cons EXCEPT !.got = Nothing]
    /\ UNCHANGED <<n_elem, head, tail, buf, prod>>

GetLow ==
    /\ cons.pc = "low" /\ cons' = [cons EXCEPT !.pc = "high", !.low = buf[offset(tail)].low]
    /\ UNCHANGED <<n_elem, head, tail, buf, prod>>

GetHigh ==
    /\ cons.pc = "high" /\ cons' = [cons EXCEPT !.pc = "count", !.high = buf[offset(tail)].high]
    /\ UNCHANGED <<n_elem, head, tail, buf, prod>>

GetCounts ==
    /\ cons.pc = "count"
    /\ cons' = [pc |-> "idle", low |-> None, high |-> None, got |-> [low |-> cons.low, high |-> cons.high]]
    /\ tail' = (tail + 1) % Wrap
    /\ UNCHANGED <<n_elem, head, buf, prod>>

RingNext ==
    \/ PutStarts \/ PutRefused \/ PutLow \/ PutHigh \/ PutCounts
    \/ GetStarts \/ GetRefused \/ GetLow \/ GetHigh \/ GetCounts

RingSpec == RingInit /\ [][RingNext]_ringVars

-----------------------------------------------------------------------------
RingTypeOK ==
    /\ n_elem \in {n \in Sizes : Accepts(n)}
    /\ head \in 0 .. Wrap - 1 /\ tail \in 0 .. Wrap - 1
    /\ buf \in [Slots -> Elements]
    /\ prod \in [pc : {"idle", "low", "high", "count"}, data : Data \union {None}, err : {0, -1}]
    /\ cons \in [pc : {"idle", "low", "high", "count"}, low : Data \union {None},
                 high : Data \union {None}, got : Elements]

(* What has been put and not yet got, the oldest first. *)
contents == [i \in 1 .. count |-> buf[offset(tail + (i - 1))]]

Queue == INSTANCE BoundedQueue
    WITH Elements <- {[low |-> d, high |-> d] : d \in Data}, None <- Nothing,
         room <- n_elem, queue <- contents, put <- prod.err, got <- cons.got

(* Two tasks without a lock see a queue: no element is lost, doubled,      *)
(* overtaken or got half written, also where the counters wrap.            *)
QueueSpec == Queue!Spec
=============================================================================
