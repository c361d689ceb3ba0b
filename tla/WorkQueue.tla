------------------------------ MODULE WorkQueue ------------------------------
(***************************************************************************)
(* Work queues (sys/kern/subr_workqueue.c), one queue and one worker per   *)
(* CPU: created, used and destroyed.  Work is linked through a field of    *)
(* its own, and a worker takes the whole list at once, so that the list it *)
(* runs, the queue that is filled meanwhile and the work that a callback   *)
(* enqueues again all share that field.                                    *)
(*                                                                         *)
(* Every section under q_mutex is one action.  From the users of work      *)
(* queues the model takes that work is not enqueued again before it has    *)
(* been called, and that a queue is destroyed when all has been called;    *)
(* the last callbacks may still be running then.                           *)
(*                                                                         *)
(* A definition marked "Slip" is the one that follows it with a plausible  *)
(* mistake: the properties are shown to reject it.                         *)
(***************************************************************************)
EXTENDS Naturals, Sequences, FiniteSets

CONSTANTS
    CPU,       \* the CPUs, each with a queue (WQ_PERCPU)
    Work,      \* the users' work
    ExitWork,  \* wqe_wk of workqueue_finiqueue()
    NULL

WorkQueueAssumption ==
    /\ IsFiniteSet(CPU) /\ IsFiniteSet(Work)
    /\ ExitWork \notin Work /\ NULL \notin Work \cup CPU /\ NULL # ExitWork

VARIABLES
    state,     \* of the queue: "none", "live", "destroying" or "freed"
    wq_func,   \* the function to call: "callback" or "exit"
    wk_next,   \* the link in each item of work
    q_first,   \* per queue, the first item
    q_last,    \* per queue, the last item, NULL for an empty queue
    q_cv,      \* per queue, who waits: "worker" or "destroyer"
    worker,    \* where each queue's worker is; "gone": q_worker is NULL
    wk,        \* the item each worker calls
    next,      \* the item each worker will call next
    fini,      \* the queue that workqueue_finiqueue() is at, NULL if none
    queued     \* the users' work that is not to be enqueued

vars == <<state, wq_func, wk_next, q_first, q_last, q_cv, worker, wk, next,
          fini, queued>>

-----------------------------------------------------------------------------
\* cv_signal(&q->q_cv): one of those who wait, if any.
Signal(k) ==
    \/ q_cv[k] = {} /\ UNCHANGED <<q_cv, worker>>
    \/ \E x \in q_cv[k] :
          /\ q_cv' = [q_cv EXCEPT ![k] = @ \ {x}]
          /\ worker' = [worker EXCEPT ![k] = IF x = "worker" THEN "look" ELSE @]

\* SIMPLEQ_INSERT_TAIL()
InsertTail(k, w) ==
    /\ q_first' = [q_first EXCEPT ![k] = IF @ = NULL THEN w ELSE @]
    /\ q_last' = [q_last EXCEPT ![k] = w]
    /\ wk_next' = [x \in DOMAIN wk_next |-> CASE x = w -> NULL
                                              [] x = q_last[k] /\ x # w -> w
                                              [] OTHER -> wk_next[x]]

-----------------------------------------------------------------------------
\* workqueue_create(): a worker for every CPU, or, if one cannot be created,
\* for some, which are destroyed again.
Create ==
    /\ state = "none"
    /\ \E S \in SUBSET CPU :
          /\ worker' = [k \in CPU |-> IF k \in S THEN "look" ELSE "gone"]
          /\ state' = IF S = CPU THEN "live" ELSE "destroying"
          /\ wq_func' = IF S = CPU THEN "callback" ELSE "exit"
    /\ UNCHANGED <<wk_next, q_first, q_last, q_cv, wk, next, fini, queued>>

\* Slip: the worker is not told.
EnqueueSilently(w, k) ==
    /\ state = "live"
    /\ w \notin queued
    /\ queued' = queued \cup {w}
    /\ InsertTail(k, w)
    /\ UNCHANGED <<state, wq_func, q_cv, worker, wk, next, fini>>

\* workqueue_enqueue(), by an LWP or a callback.
Enqueue(w, k) ==
    /\ state = "live"
    /\ w \notin queued
    /\ queued' = queued \cup {w}
    /\ InsertTail(k, w)
    /\ Signal(k)
    /\ UNCHANGED <<state, wq_func, wk, next, fini>>

-----------------------------------------------------------------------------
\* workqueue_worker() finds its queue empty.
WorkerWait(k) ==
    /\ worker[k] = "look"
    /\ q_first[k] = NULL
    /\ worker' = [worker EXCEPT ![k] = "wait"]
    /\ q_cv' = [q_cv EXCEPT ![k] = @ \cup {"worker"}]
    /\ UNCHANGED <<state, wq_func, wk_next, q_first, q_last, wk, next, fini,
                   queued>>

\* It takes the whole list.
WorkerTake(k) ==
    /\ worker[k] = "look"
    /\ q_first[k] # NULL
    /\ next' = [next EXCEPT ![k] = q_first[k]]
    /\ q_first' = [q_first EXCEPT ![k] = NULL]
    /\ q_last' = [q_last EXCEPT ![k] = NULL]
    /\ worker' = [worker EXCEPT ![k] = "runlist"]
    /\ UNCHANGED <<state, wq_func, wk_next, q_cv, wk, fini, queued>>

\* Where a worker is when it has called wq_func for w.  To workqueue_exit()
\* the work of a user is a structure that it is not.
Called(w) ==
    IF wq_func = "callback" THEN "callback"
    ELSE IF w = ExitWork THEN "exit" ELSE "wild"

\* workqueue_runlist(): the link is read before the function is called.
RunNext(k) ==
    /\ worker[k] = "runlist"
    /\ next[k] # NULL
    /\ wk' = [wk EXCEPT ![k] = next[k]]
    /\ next' = [next EXCEPT ![k] = wk_next[next[k]]]
    /\ worker' = [worker EXCEPT ![k] = Called(next[k])]
    /\ queued' = queued \ {next[k]}
    /\ UNCHANGED <<state, wq_func, wk_next, q_first, q_last, q_cv, fini>>

\* Slip: the link is read when the callback has returned.
CallbackReturnsLate(k) ==
    /\ worker[k] = "callback"
    /\ next' = [next EXCEPT ![k] = wk_next[wk[k]]]
    /\ wk' = [wk EXCEPT ![k] = NULL]
    /\ worker' = [worker EXCEPT ![k] = "runlist"]
    /\ UNCHANGED <<state, wq_func, wk_next, q_first, q_last, q_cv, fini, queued>>

\* The callback returns.
CallbackReturns(k) ==
    /\ worker[k] = "callback"
    /\ wk' = [wk EXCEPT ![k] = NULL]
    /\ worker' = [worker EXCEPT ![k] = "runlist"]
    /\ UNCHANGED <<state, wq_func, wk_next, q_first, q_last, q_cv, next, fini,
                   queued>>

\* The end of the list.
RunEnd(k) ==
    /\ worker[k] = "runlist"
    /\ next[k] = NULL
    /\ worker' = [worker EXCEPT ![k] = "look"]
    /\ UNCHANGED <<state, wq_func, wk_next, q_first, q_last, q_cv, wk, next,
                   fini, queued>>

-----------------------------------------------------------------------------
\* Slip: only what the assertion of workqueue_finiqueue() looks at.
DestroyIfQueuesEmpty ==
    /\ state = "live"
    /\ \A k \in CPU : q_first[k] = NULL
    /\ state' = "destroying"
    /\ wq_func' = "exit"
    /\ UNCHANGED <<wk_next, q_first, q_last, q_cv, worker, wk, next, fini, queued>>

\* workqueue_destroy(), when all work has been called.
Destroy ==
    /\ state = "live"
    /\ queued = {}
    /\ state' = "destroying"
    /\ wq_func' = "exit"
    /\ UNCHANGED <<wk_next, q_first, q_last, q_cv, worker, wk, next, fini, queued>>

\* workqueue_finiqueue() enqueues its work and waits for the worker to go.
Finiqueue(k) ==
    /\ state = "destroying" /\ fini = NULL
    /\ worker[k] # "gone"
    /\ fini' = k
    /\ InsertTail(k, ExitWork)
    /\ \/ /\ q_cv[k] = {}
          /\ q_cv' = [q_cv EXCEPT ![k] = {"destroyer"}]
          /\ UNCHANGED worker
       \/ /\ "worker" \in q_cv[k]
          /\ q_cv' = [q_cv EXCEPT ![k] = {"destroyer"}]
          /\ worker' = [worker EXCEPT ![k] = "look"]
    /\ UNCHANGED <<state, wq_func, wk, next, queued>>

\* Slip: the destroyer is not told.
ExitSilently(k) ==
    /\ worker[k] = "exit"
    /\ worker' = [worker EXCEPT ![k] = "gone"]
    /\ wk' = [wk EXCEPT ![k] = NULL]
    /\ UNCHANGED <<state, wq_func, wk_next, q_first, q_last, q_cv, next, fini,
                   queued>>

\* workqueue_exit(): only the destroyer can be waiting now.
Exit(k) ==
    /\ worker[k] = "exit"
    /\ worker' = [worker EXCEPT ![k] = "gone"]
    /\ wk' = [wk EXCEPT ![k] = NULL]
    /\ IF q_cv[k] = {} THEN UNCHANGED q_cv
       ELSE \E x \in q_cv[k] : q_cv' = [q_cv EXCEPT ![k] = @ \ {x}]
    /\ UNCHANGED <<state, wq_func, wk_next, q_first, q_last, next, fini, queued>>

\* The destroyer wakes and finds q_worker NULL, or waits again.
FiniqueueAgain(k) ==
    /\ fini = k
    /\ "destroyer" \notin q_cv[k]
    /\ IF worker[k] = "gone"
       THEN fini' = NULL /\ UNCHANGED q_cv
       ELSE q_cv' = [q_cv EXCEPT ![k] = @ \cup {"destroyer"}] /\ UNCHANGED fini
    /\ UNCHANGED <<state, wq_func, wk_next, q_first, q_last, worker, wk, next,
                   queued>>

\* kmem_free()
Free ==
    /\ state = "destroying" /\ fini = NULL
    /\ \A k \in CPU : worker[k] = "gone"
    /\ state' = "freed"
    /\ UNCHANGED <<wq_func, wk_next, q_first, q_last, q_cv, worker, wk, next,
                   fini, queued>>

-----------------------------------------------------------------------------
Init ==
    /\ state = "none"
    /\ wq_func = "callback"
    /\ wk_next = [w \in Work \cup {ExitWork} |-> NULL]
    /\ q_first = [k \in CPU |-> NULL]
    /\ q_last = [k \in CPU |-> NULL]
    /\ q_cv = [k \in CPU |-> {}]
    /\ worker = [k \in CPU |-> "gone"]
    /\ wk = [k \in CPU |-> NULL]
    /\ next = [k \in CPU |-> NULL]
    /\ fini = NULL
    /\ queued = {}

Worker(k) ==
    \/ WorkerWait(k) \/ WorkerTake(k) \/ RunNext(k) \/ CallbackReturns(k)
    \/ RunEnd(k) \/ Exit(k)

Destroyer == Free \/ \E k \in CPU : Finiqueue(k) \/ FiniqueueAgain(k)

Next ==
    \/ Create \/ Destroy \/ Destroyer
    \/ \E k \in CPU : Worker(k) \/ \E w \in Work : Enqueue(w, k)

Spec == Init /\ [][Next]_vars

(***************************************************************************)
(* Workers and the destroyer go on when they can, and callbacks return.    *)
(***************************************************************************)
FairSpec ==
    /\ Spec
    /\ \A k \in CPU : WF_vars(Worker(k))
    /\ WF_vars(Destroyer)

-----------------------------------------------------------------------------
\* The type invariant.
TypeOK ==
    LET Item == Work \cup {ExitWork, NULL}
    IN  /\ state \in {"none", "live", "destroying", "freed"}
        /\ wq_func \in {"callback", "exit"}
        /\ wk_next \in [Work \cup {ExitWork} -> Item]
        /\ q_first \in [CPU -> Item] /\ q_last \in [CPU -> Item]
        /\ q_cv \in [CPU -> SUBSET {"worker", "destroyer"}]
        /\ worker \in [CPU -> {"gone", "look", "wait", "runlist", "callback",
                               "exit", "wild"}]
        /\ wk \in [CPU -> Item] /\ next \in [CPU -> Item]
        /\ fini \in CPU \cup {NULL}
        /\ queued \in SUBSET Work

\* The items linked from an item on; a list that is longer than there are
\* items goes round in circles.
Chain(first) ==
    LET N == Cardinality(Work) + 2
        at[n \in 0..N] == IF n = 0 THEN first
                          ELSE IF at[n - 1] = NULL THEN NULL
                          ELSE wk_next[at[n - 1]]
    IN  [n \in 1..Cardinality({i \in 0..N : at[i] # NULL}) |-> at[n - 1]]

Users(s) == SelectSeq(s, LAMBDA w : w # ExitWork)

(***************************************************************************)
(* The links implement a queue: the list a worker still has to run,        *)
(* followed by the one that is being filled, is the work enqueued and not  *)
(* called, in order.  Nothing is lost, called twice or overtaken, although *)
(* a callback may enqueue its work again while the list is being run.      *)
(***************************************************************************)
Fifo == INSTANCE AbstractQueue WITH
            Queue <- CPU,
            waiting <- [k \in CPU |->
                           Users(Chain(next[k])) \o Users(Chain(q_first[k]))]

ImplementsQueue == Fifo!Spec

(***************************************************************************)
(* A worker exits for the destroyer's work only, when its queue is empty,  *)
(* and nobody but the destroyer waits for it; when the memory is freed all *)
(* workers are gone.                                                       *)
(***************************************************************************)
ExitIsLast ==
    /\ TypeOK
    /\ \A k \in CPU :
          /\ worker[k] # "wild"
          /\ worker[k] = "exit" =>
                /\ wk[k] = ExitWork /\ fini = k
                /\ q_first[k] = NULL /\ next[k] = NULL
                /\ "worker" \notin q_cv[k]
          /\ state = "freed" => worker[k] = "gone" /\ q_cv[k] = {}

(***************************************************************************)
(* Work that is enqueued is called, and workqueue_destroy() returns.       *)
(***************************************************************************)
IsCalled(w) == w \in queued ~> w \notin queued

WorkIsCalled == \A w \in Work : IsCalled(w)

DestroyReturns == state = "destroying" ~> state = "freed"
=============================================================================
