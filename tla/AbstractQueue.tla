---------------------------- MODULE AbstractQueue ----------------------------
(***************************************************************************)
(* What a work queue promises its users: per queue, the work that has been *)
(* enqueued is called once, in the order in which it was enqueued.         *)
(***************************************************************************)
EXTENDS Sequences

CONSTANTS
    Queue,   \* the queues
    Work     \* the items of work

VARIABLE
    waiting  \* per queue, the work that has been enqueued and not called

vars == waiting

Outstanding == UNION {{waiting[k][i] : i \in DOMAIN waiting[k]} : k \in Queue}

Init == waiting = [k \in Queue |-> <<>>]

Enqueue(w, k) ==
    /\ w \notin Outstanding
    /\ waiting' = [waiting EXCEPT ![k] = Append(@, w)]

Call(k) ==
    /\ waiting[k] # <<>>
    /\ waiting' = [waiting EXCEPT ![k] = Tail(@)]

Next == \E k \in Queue : Call(k) \/ \E w \in Work : Enqueue(w, k)

Spec == Init /\ [][Next]_vars
=============================================================================
