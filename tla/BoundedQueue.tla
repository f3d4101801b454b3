---------------------------- MODULE BoundedQueue ----------------------------
(***************************************************************************)
(* What drv/ringBuff.c promises to its two users: a queue with room for    *)
(* Room elements.  put appends the element or is refused because there is  *)
(* no room, get takes the oldest one or is refused because there is none;  *)
(* each does so in a single step.                                          *)
(***************************************************************************)
EXTENDS Integers, Sequences

CONSTANTS
    Elements,   \* what may be put
    None        \* nothing was got

VARIABLES
    room,       \* how many elements there is room for
    queue,
    put,        \* what the last put returned
    got         \* what the last get copied out

vars == <<room, queue, put, got>>

Init == room \in Nat /\ queue = <<>> /\ put = 0 /\ got = None

Put ==
    /\ Len(queue) < room
    /\ \E e \in Elements : queue' = Append(queue, e)
    /\ put' = 0
    /\ UNCHANGED <<room, got>>

PutRefused ==
    /\ Len(queue) = room
    /\ put' = -1
    /\ UNCHANGED <<room, queue, got>>

Get ==
    /\ queue # <<>>
    /\ got' = Head(queue) /\ queue' = Tail(queue)
    /\ UNCHANGED <<room, put>>

GetRefused ==
    /\ queue = <<>>
    /\ got' = None
    /\ UNCHANGED <<room, queue, put>>

Next == Put \/ PutRefused \/ Get \/ GetRefused

Spec == Init /\ [][Next]_vars
=============================================================================
