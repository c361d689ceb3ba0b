-------------------------------- MODULE Select --------------------------------
(***************************************************************************)
(* select() and poll() (sys/kern/sys_select.c).                            *)
(*                                                                         *)
(* An LWP polls its objects one after the other, leaving its name in the   *)
(* selinfo of each, and sleeps on the queue of the CPU it started on if it *)
(* found nothing.  A selinfo has room for one name; further LWPs are       *)
(* recorded as collisions, by CPU.  The object's lock is held by the       *)
(* driver in selrecord() and selnotify(), the lock of the CPU's selcpu     *)
(* where an LWP is put to sleep, woken or taken out of the records.        *)
(*                                                                         *)
(* A section under sc_lock is one action, except in selclear(), which      *)
(* clears one record after the other while selrecord() reads them without  *)
(* that lock.  The list l_selwait is linked through sel_chain as in the    *)
(* code.  All LWPs select on all objects.  knotes are left out.            *)
(*                                                                         *)
(* A definition marked "Slip" is the one that follows it with a plausible  *)
(* mistake: the properties are shown to reject it.                         *)
(***************************************************************************)
EXTENDS Naturals, FiniteSets

CONSTANTS
    LWP,
    Obj,          \* the objects that are polled, each with its selinfo
    CPU,
    None,
    Destroyable,  \* the objects that may be destroyed
    Smp,          \* FALSE: nobody runs between two stores of selrecord()
    MaxColl       \* bound: collisions notified on a CPU

SelectAssumption ==
    /\ Destroyable \subseteq Obj
    /\ Smp \in BOOLEAN
    /\ MaxColl \in Nat
    /\ None \notin LWP \cup Obj \cup CPU

VARIABLES
    pc,         \* where each LWP is
    todo,       \* the objects it has still to poll in this scan
    obj,        \* the object it polls, or the next record of its selclear()
    other,      \* sel_lwp as read by its selrecord()
    ncoll,      \* sc_ncoll as read before the scan
    found,      \* the scan found something (error || *retval)
    selflag,    \* l_selflag
    selcpu,     \* l_selcpu
    selwait,    \* l_selwait, the first record of the list
    asleep,     \* the LWPs on the sleep queues
    sel_lwp, sel_cpu, sel_chain, sel_collision,
    ready,      \* the object has something for those who poll it
    live,       \* not destroyed
    lock,       \* the object's lock: free, or the driver's place in selnotify(),
                \* or the LWP that polls it
    mask,       \* the collisions that selnotify() has still to go through
    sc_ncoll, sc_lock

lwpvars == <<pc, todo, obj, other, ncoll, found, selcpu>>
objvars == <<ready, live, lock, mask>>
recvars == <<selwait, sel_lwp, sel_cpu, sel_chain, sel_collision>>
cpuvars == <<selflag, asleep, sc_ncoll, sc_lock>>
vars == <<lwpvars, objvars, recvars, cpuvars>>

Free == "free"

-----------------------------------------------------------------------------
(* selcommon() and pollcommon() *)

Start(l, c) ==
    /\ pc[l] = "idle"
    /\ selcpu' = [selcpu EXCEPT ![l] = c]
    /\ selwait' = [selwait EXCEPT ![l] = None]
    /\ pc' = [pc EXCEPT ![l] = "flag"]
    /\ UNCHANGED <<todo, obj, other, ncoll, found, objvars, cpuvars,
                   sel_lwp, sel_cpu, sel_chain, sel_collision>>

\* The two come in this order in selcommon().
SetFlag(l) ==
    /\ pc[l] = "flag"
    /\ selflag' = [selflag EXCEPT ![l] = "SCANNING"]
    /\ pc' = [pc EXCEPT ![l] = "ncoll"]
    /\ UNCHANGED <<todo, obj, other, ncoll, found, selcpu, objvars, recvars,
                   asleep, sc_ncoll, sc_lock>>

ReadNcoll(l) ==
    /\ pc[l] = "ncoll"
    /\ ncoll' = [ncoll EXCEPT ![l] = sc_ncoll[selcpu[l]]]
    /\ todo' = [todo EXCEPT ![l] = Obj]
    /\ found' = [found EXCEPT ![l] = FALSE]
    /\ pc' = [pc EXCEPT ![l] = "scan"]
    /\ UNCHANGED <<obj, other, selcpu, objvars, recvars, cpuvars>>

\* fd_getfile() finds the descriptor closed: EBADF, or POLLNVAL.
PollClosed(l, o) ==
    /\ pc[l] = "scan" /\ o \in todo[l]
    /\ ~live[o]
    /\ todo' = [todo EXCEPT ![l] = @ \ {o}]
    /\ found' = [found EXCEPT ![l] = TRUE]
    /\ UNCHANGED <<pc, obj, other, ncoll, selcpu, objvars, recvars, cpuvars>>

PollReady(l, o) ==
    /\ pc[l] = "scan" /\ o \in todo[l]
    /\ live[o] /\ lock[o] = Free
    /\ ready[o]
    /\ todo' = [todo EXCEPT ![l] = @ \ {o}]
    /\ found' = [found EXCEPT ![l] = TRUE]
    /\ UNCHANGED <<pc, obj, other, ncoll, selcpu, objvars, recvars, cpuvars>>

\* Nothing yet: the driver calls selrecord(), which reads sel_lwp.
PollRecord(l, o) ==
    /\ pc[l] = "scan" /\ o \in todo[l]
    /\ live[o] /\ lock[o] = Free
    /\ ~ready[o]
    /\ todo' = [todo EXCEPT ![l] = @ \ {o}]
    /\ lock' = [lock EXCEPT ![o] = "polled"]
    /\ obj' = [obj EXCEPT ![l] = o]
    /\ other' = [other EXCEPT ![l] = sel_lwp[o]]
    /\ pc' = [pc EXCEPT ![l] = "record"]
    /\ UNCHANGED <<ncoll, found, selcpu, ready, live, mask, recvars, cpuvars>>

\* The locals of selrecord() go out of scope.
EndRecord(l) ==
    /\ obj' = [obj EXCEPT ![l] = None]
    /\ other' = [other EXCEPT ![l] = None]

RecordClaimed(l) ==
    /\ pc[l] = "record" /\ other[l] = l
    /\ lock' = [lock EXCEPT ![obj[l]] = Free]
    /\ pc' = [pc EXCEPT ![l] = "scan"]
    /\ EndRecord(l)
    /\ UNCHANGED <<todo, ncoll, found, selcpu, ready, live, mask,
                   recvars, cpuvars>>

RecordCollision(l) ==
    /\ pc[l] = "record" /\ other[l] \notin {l, None}
    /\ sel_collision' = [sel_collision EXCEPT ![obj[l]] = @ \cup {selcpu[l]}]
    /\ lock' = [lock EXCEPT ![obj[l]] = Free]
    /\ pc' = [pc EXCEPT ![l] = "scan"]
    /\ EndRecord(l)
    /\ UNCHANGED <<todo, ncoll, found, selcpu, ready, live, mask,
                   selwait, sel_lwp, sel_cpu, sel_chain, cpuvars>>

\* SLIST_INSERT_HEAD() is a store to the record and one to the list's head.
RecordClaim(l) ==
    /\ pc[l] = "record" /\ other[l] = None
    /\ sel_lwp' = [sel_lwp EXCEPT ![obj[l]] = l]
    /\ sel_chain' = [sel_chain EXCEPT ![obj[l]] = selwait[l]]
    /\ sel_cpu' = [sel_cpu EXCEPT ![obj[l]] = selcpu[l]]
    /\ IF Smp
       THEN /\ pc' = [pc EXCEPT ![l] = "insert"]
            /\ UNCHANGED <<selwait, lock, obj, other>>
       ELSE /\ selwait' = [selwait EXCEPT ![l] = obj[l]]
            /\ lock' = [lock EXCEPT ![obj[l]] = Free]
            /\ pc' = [pc EXCEPT ![l] = "scan"]
            /\ EndRecord(l)
    /\ UNCHANGED <<todo, ncoll, found, selcpu, ready, live, mask,
                   sel_collision, cpuvars>>

RecordInsert(l) ==
    /\ pc[l] = "insert"
    /\ selwait' = [selwait EXCEPT ![l] = obj[l]]
    /\ lock' = [lock EXCEPT ![obj[l]] = Free]
    /\ pc' = [pc EXCEPT ![l] = "scan"]
    /\ EndRecord(l)
    /\ UNCHANGED <<todo, ncoll, found, selcpu, ready, live, mask,
                   sel_lwp, sel_cpu, sel_chain, sel_collision, cpuvars>>

\* The scan found something, or there is no time left.
ScanEnds(l) ==
    /\ pc[l] = "scan" /\ todo[l] = {}
    /\ pc' = [pc EXCEPT ![l] = "clear"]
    /\ UNCHANGED <<todo, obj, other, ncoll, found, selcpu, objvars, recvars,
                   cpuvars>>

\* Something has happened during the scan: continue.
Rescan(l) ==
    /\ pc[l] = "scan" /\ todo[l] = {} /\ ~found[l]
    /\ sc_lock[selcpu[l]] = None
    /\ selflag[l] # "SCANNING" \/ sc_ncoll[selcpu[l]] # ncoll[l]
    /\ pc' = [pc EXCEPT ![l] = "flag"]
    /\ UNCHANGED <<todo, obj, other, ncoll, found, selcpu, objvars, recvars,
                   cpuvars>>

\* Slip: a collision notified during the scan is missed.
BlockColl(l) ==
    /\ pc[l] = "scan" /\ todo[l] = {} /\ ~found[l]
    /\ sc_lock[selcpu[l]] = None
    /\ selflag[l] = "SCANNING"
    /\ selflag' = [selflag EXCEPT ![l] = "BLOCKING"]
    /\ asleep' = asleep \cup {l}
    /\ pc' = [pc EXCEPT ![l] = "block"]
    /\ UNCHANGED <<todo, obj, other, ncoll, found, selcpu, objvars, recvars,
                   sc_ncoll, sc_lock>>

\* Slip: a wake-up during the scan is missed.
BlockFlag(l) ==
    /\ pc[l] = "scan" /\ todo[l] = {} /\ ~found[l]
    /\ sc_lock[selcpu[l]] = None
    /\ sc_ncoll[selcpu[l]] = ncoll[l]
    /\ selflag' = [selflag EXCEPT ![l] = "BLOCKING"]
    /\ asleep' = asleep \cup {l}
    /\ pc' = [pc EXCEPT ![l] = "block"]
    /\ UNCHANGED <<todo, obj, other, ncoll, found, selcpu, objvars, recvars,
                   sc_ncoll, sc_lock>>

Block(l) ==
    /\ pc[l] = "scan" /\ todo[l] = {} /\ ~found[l]
    /\ sc_lock[selcpu[l]] = None
    /\ selflag[l] = "SCANNING" /\ sc_ncoll[selcpu[l]] = ncoll[l]
    /\ selflag' = [selflag EXCEPT ![l] = "BLOCKING"]
    /\ asleep' = asleep \cup {l}
    /\ pc' = [pc EXCEPT ![l] = "block"]
    /\ UNCHANGED <<todo, obj, other, ncoll, found, selcpu, objvars, recvars,
                   sc_ncoll, sc_lock>>

\* Woken by selnotify(): sleepq_block() returns 0.
Woken(l) ==
    /\ pc[l] = "block" /\ l \notin asleep
    /\ pc' = [pc EXCEPT ![l] = "flag"]
    /\ UNCHANGED <<todo, obj, other, ncoll, found, selcpu, objvars, recvars,
                   cpuvars>>

\* sleepq_block() returns for a timeout or a signal.
Interrupted(l) ==
    /\ pc[l] = "block"
    /\ l \in asleep => sc_lock[selcpu[l]] = None
    /\ asleep' = asleep \ {l}
    /\ pc' = [pc EXCEPT ![l] = "clear"]
    /\ UNCHANGED <<todo, obj, other, ncoll, found, selcpu, objvars, recvars,
                   selflag, sc_ncoll, sc_lock>>

-----------------------------------------------------------------------------
(* selclear() *)

\* The locals of the scan are dead from here on.
ClearEnter(l) ==
    /\ pc[l] = "clear"
    /\ sc_lock[selcpu[l]] = None
    /\ sc_lock' = [sc_lock EXCEPT ![selcpu[l]] = l]
    /\ obj' = [obj EXCEPT ![l] = selwait[l]]
    /\ pc' = [pc EXCEPT ![l] = "clearing"]
    /\ todo' = [todo EXCEPT ![l] = {}]
    /\ ncoll' = [ncoll EXCEPT ![l] = 0]
    /\ found' = [found EXCEPT ![l] = FALSE]
    /\ UNCHANGED <<other, selcpu, objvars, recvars,
                   selflag, asleep, sc_ncoll>>

ClearOne(l) ==
    /\ pc[l] = "clearing" /\ obj[l] # None
    /\ obj' = [obj EXCEPT ![l] = sel_chain[obj[l]]]
    /\ sel_lwp' = [sel_lwp EXCEPT ![obj[l]] = None]
    /\ UNCHANGED <<pc, todo, other, ncoll, found, selcpu, objvars, cpuvars,
                   selwait, sel_cpu, sel_chain, sel_collision>>

ClearExit(l) ==
    /\ pc[l] = "clearing" /\ obj[l] = None
    /\ sc_lock' = [sc_lock EXCEPT ![selcpu[l]] = None]
    /\ pc' = [pc EXCEPT ![l] = "idle"]
    /\ UNCHANGED <<todo, obj, other, ncoll, found, selcpu, objvars, recvars,
                   selflag, asleep, sc_ncoll>>

-----------------------------------------------------------------------------
(* The drivers *)

\* An event: the driver takes its lock and calls selnotify(), which looks
\* whether there is a named waiter.
Event(o) ==
    /\ live[o] /\ lock[o] = Free
    /\ \A c \in CPU : sc_ncoll[c] < MaxColl
    /\ ready' = [ready EXCEPT ![o] = TRUE]
    /\ lock' = [lock EXCEPT ![o] = IF sel_lwp[o] # None THEN "named" ELSE "mask"]
    /\ UNCHANGED <<lwpvars, live, mask, recvars, cpuvars>>

\* The part of selnotify() under the lock of the named waiter's selcpu.
NotifyNamed(o) ==
    LET sc == sel_cpu[o]
        l == sel_lwp[o]
    IN  /\ lock[o] = "named"
        /\ sc_lock[sc] = None
        /\ IF l # None
           THEN /\ selflag' = [selflag EXCEPT ![l] = "RESET"]
                /\ asleep' = IF selflag[l] = "BLOCKING" /\ selcpu[l] = sc
                             THEN asleep \ {l} ELSE asleep
           ELSE UNCHANGED <<selflag, asleep>>
        /\ lock' = [lock EXCEPT ![o] = "mask"]
        /\ UNCHANGED <<lwpvars, ready, live, mask, recvars, sc_ncoll, sc_lock>>

NotifyMask(o) ==
    /\ lock[o] = "mask"
    /\ mask' = [mask EXCEPT ![o] = sel_collision[o]]
    /\ sel_collision' = [sel_collision EXCEPT ![o] = {}]
    /\ lock' = [lock EXCEPT ![o] = IF sel_collision[o] = {} THEN Free ELSE "coll"]
    /\ UNCHANGED <<lwpvars, ready, live, selwait, sel_lwp, sel_cpu, sel_chain,
                   cpuvars>>

\* One round of the loop over the CPUs with collisions.
NotifyCollision(o, c) ==
    /\ lock[o] = "coll" /\ c \in mask[o]
    /\ sc_lock[c] = None
    /\ sc_ncoll' = [sc_ncoll EXCEPT ![c] = @ + 1]
    /\ asleep' = {l \in asleep : selcpu[l] # c}
    /\ mask' = [mask EXCEPT ![o] = @ \ {c}]
    /\ lock' = [lock EXCEPT ![o] = IF mask[o] = {c} THEN Free ELSE "coll"]
    /\ UNCHANGED <<lwpvars, ready, live, recvars, selflag, sc_lock>>

\* Somebody reads what there was.
Consume(o) ==
    /\ live[o] /\ lock[o] = Free /\ ready[o]
    /\ ready' = [ready EXCEPT ![o] = FALSE]
    /\ UNCHANGED <<lwpvars, live, lock, mask, recvars, cpuvars>>

\* The list without o: SLIST_REMOVE()
RemoveFrom(l, o) ==
    IF selwait[l] = o
    THEN /\ selwait' = [selwait EXCEPT ![l] = sel_chain[o]]
         /\ UNCHANGED sel_chain
    ELSE /\ sel_chain' = [x \in Obj |-> IF sel_chain[x] = o /\ sel_lwp[x] = l
                                        THEN sel_chain[o] ELSE sel_chain[x]]
         /\ UNCHANGED selwait

\* Slip: the record stays on the list.
DestroyKeeps(o) ==
    /\ o \in Destroyable /\ live[o] /\ lock[o] = Free
    /\ \/ sel_lwp[o] = None /\ UNCHANGED recvars
       \/ /\ sel_lwp[o] # None
          /\ sc_lock[sel_cpu[o]] = None
          /\ sel_lwp' = [sel_lwp EXCEPT ![o] = None]
          /\ UNCHANGED <<selwait, sel_chain, sel_cpu, sel_collision>>
    /\ live' = [live EXCEPT ![o] = FALSE]
    /\ UNCHANGED <<lwpvars, ready, lock, mask, cpuvars>>

\* The last descriptor is closed: nobody polls the object any more, and the
\* driver calls seldestroy().
Destroy(o) ==
    /\ o \in Destroyable /\ live[o] /\ lock[o] = Free
    /\ \/ sel_lwp[o] = None /\ UNCHANGED recvars
       \/ /\ sel_lwp[o] # None
          /\ sc_lock[sel_cpu[o]] = None
          /\ RemoveFrom(sel_lwp[o], o)
          /\ sel_lwp' = [sel_lwp EXCEPT ![o] = None]
          /\ UNCHANGED <<sel_cpu, sel_collision>>
    /\ live' = [live EXCEPT ![o] = FALSE]
    /\ UNCHANGED <<lwpvars, ready, lock, mask, cpuvars>>

-----------------------------------------------------------------------------
Init ==
    /\ pc = [l \in LWP |-> "idle"]
    /\ todo = [l \in LWP |-> {}]
    /\ obj = [l \in LWP |-> None]
    /\ other = [l \in LWP |-> None]
    /\ ncoll = [l \in LWP |-> 0]
    /\ found = [l \in LWP |-> FALSE]
    /\ selflag = [l \in LWP |-> "RESET"]
    /\ selcpu = [l \in LWP |-> None]
    /\ selwait = [l \in LWP |-> None]
    /\ asleep = {}
    /\ sel_lwp = [o \in Obj |-> None]
    /\ sel_cpu = [o \in Obj |-> None]
    /\ sel_chain = [o \in Obj |-> None]
    /\ sel_collision = [o \in Obj |-> {}]
    /\ ready = [o \in Obj |-> FALSE]
    /\ live = [o \in Obj |-> TRUE]
    /\ lock = [o \in Obj |-> Free]
    /\ mask = [o \in Obj |-> {}]
    /\ sc_ncoll = [c \in CPU |-> 0]
    /\ sc_lock = [c \in CPU |-> None]

\* What an LWP in select() does by itself.
Step(l) ==
    \/ SetFlag(l) \/ ReadNcoll(l)
    \/ \E o \in Obj : PollClosed(l, o) \/ PollReady(l, o) \/ PollRecord(l, o)
    \/ RecordClaimed(l) \/ RecordCollision(l)
    \/ RecordClaim(l) \/ RecordInsert(l)
    \/ ScanEnds(l) \/ Rescan(l) \/ Block(l) \/ Woken(l)
    \/ ClearEnter(l) \/ ClearOne(l) \/ ClearExit(l)

Notify(o) ==
    \/ NotifyNamed(o) \/ NotifyMask(o)
    \/ \E c \in CPU : NotifyCollision(o, c)

Next ==
    \/ \E l \in LWP : \/ Step(l) \/ Interrupted(l)
                      \/ \E c \in CPU : Start(l, c)
    \/ \E o \in Obj : Event(o) \/ Notify(o) \/ Consume(o) \/ Destroy(o)

Spec == Init /\ [][Next]_vars

(***************************************************************************)
(* The scheduler runs an LWP in the kernel.  A driver whose lock is taken  *)
(* now and then, or a spin mutex, is had in the end: strong fairness.      *)
(***************************************************************************)
LiveSpec ==
    /\ Spec
    /\ \A l \in LWP : SF_vars(Step(l))
    /\ \A o \in Obj : SF_vars(Notify(o))

-----------------------------------------------------------------------------
(***************************************************************************)
(* No event is lost: when an LWP sleeps in select() none of its objects    *)
(* has anything for it, unless the driver is still about to wake it up.    *)
(* And the driver at work on a named waiter has the lock that the waiter   *)
(* sleeps under, so it is woken in the state it was seen in.               *)
(***************************************************************************)
NoEventLost ==
    \A l \in asleep, o \in Obj :
        live[o] /\ ready[o] =>
            \/ lock[o] = "named" /\ sel_lwp[o] = l /\ sel_cpu[o] = selcpu[l]
            \/ lock[o] \in {"named", "mask"} /\ selcpu[l] \in sel_collision[o]
            \/ lock[o] = "coll" /\ selcpu[l] \in mask[o]

(***************************************************************************)
(* selclear() goes through records that exist and that name the LWP, with  *)
(* its CPU (the two KASSERTs), and leaves none behind: an LWP that is not  *)
(* in select() is named by no record, so that nothing can touch it later.  *)
(***************************************************************************)
RecordsExact ==
    /\ \A l \in LWP :
          pc[l] = "clearing" /\ obj[l] # None =>
              /\ live[obj[l]]
              /\ sel_lwp[obj[l]] = l
              /\ sel_cpu[obj[l]] = selcpu[l]
    /\ \A o \in Obj : sel_lwp[o] # None => pc[sel_lwp[o]] # "idle"

(***************************************************************************)
(* An LWP in select() returns if one of its objects stays ready, whatever  *)
(* collisions with other LWPs there are.                                   *)
(***************************************************************************)
SelectReturns ==
    \A l \in LWP, o \in Obj :
        <>[](ready[o] /\ live[o]) => []<>(pc[l] = "idle")
=============================================================================
