---------------------------- MODULE CalloutWheel -----------------------------
(***************************************************************************)
(* When callouts run: the timing wheel of sys/kern/kern_timeout.c on one   *)
(* CPU.  There are four wheels of 2^WHEELBITS buckets and a worklist; the  *)
(* hardware clock moves the buckets whose time has come to the worklist,   *)
(* and the softclock runs what is due there and puts the rest into the     *)
(* bucket for its time.  Times are words of 4 * WHEELBITS bits that wrap,  *)
(* compared by the sign of their difference, as the code's 32-bit words    *)
(* with WHEELBITS = 8.                                                     *)
(*                                                                         *)
(* Queues are sets: the order within a bucket does not matter here.  left  *)
(* is not state of the code: it counts the ticks to the time asked for,    *)
(* without wrapping, so that the properties need no modular arithmetic.    *)
(*                                                                         *)
(* A definition marked "Slip" is the one that follows it with a plausible  *)
(* mistake: the properties are shown to reject it.                         *)
(***************************************************************************)
EXTENDS Integers

CONSTANTS
    Callout,    \* the callouts
    WHEELBITS,  \* log2 of the size of a wheel
    Delays,     \* bound: the times to_ticks that are asked for
    MaxLate     \* bound: how many ticks the softclock may be behind

WheelAssumption ==
    /\ WHEELBITS \in Nat \ {0}
    /\ Delays \subseteq 0..(2^(4*WHEELBITS - 1) - 1)
    /\ MaxLate \in 1..(2^(4*WHEELBITS - 1) - 1)

VARIABLES
    cc_ticks,  \* the time
    c_time,    \* per callout, when it is due
    place,     \* per callout, where it is: Idle, Todo or a bucket
    fired,     \* per callout, CALLOUT_FIRED
    left       \* per callout, the ticks to the time asked for

vars == <<cc_ticks, c_time, place, fired, left>>

-----------------------------------------------------------------------------
WHEELSIZE == 2^WHEELBITS
WordSize == 2^(4*WHEELBITS)
Time == 0..(WordSize - 1)

\* The difference of two words, as a signed integer.
Diff(a, b) ==
    LET d == (a - b) % WordSize
    IN  IF d < WordSize \div 2 THEN d ELSE d - WordSize

MASKWHEEL(wheel, time) == (time \div WHEELSIZE^wheel) % WHEELSIZE

Bucket == (0..3) \X (0..(WHEELSIZE - 1))
\* A callout that is on no queue, and one on cc_todo.
Idle == <<"idle">>
Todo == <<"todo">>

\* Slip: the wheel is one too coarse for short times.
BUCKET_COARSE(rel, abs) ==
    LET w == CASE rel <= WHEELSIZE \div 2 -> 0
               [] rel > WHEELSIZE \div 2 /\ rel <= WHEELSIZE^2 -> 1
               [] rel > WHEELSIZE^2 /\ rel <= WHEELSIZE^3 -> 2
               [] OTHER -> 3
    IN  <<w, MASKWHEEL(w, abs)>>

\* BUCKET(): the finest wheel that goes round in no less than rel ticks.
BUCKET(rel, abs) ==
    LET w == CASE rel <= WHEELSIZE -> 0
               [] rel > WHEELSIZE /\ rel <= WHEELSIZE^2 -> 1
               [] rel > WHEELSIZE^2 /\ rel <= WHEELSIZE^3 -> 2
               [] OTHER -> 3
    IN  <<w, MASKWHEEL(w, abs)>>

\* Slip: the last wheel is forgotten.
MovedButLast(ticks) ==
    {<<w, MASKWHEEL(w, ticks)>> :
        w \in {v \in 0..2 : \A u \in 0..(v - 1) : MASKWHEEL(u, ticks) = 0}}

\* The buckets that callout_hardclock() moves at a time: one of the first
\* wheel, and the next of each wheel whenever the one before comes round.
Moved(ticks) ==
    {<<w, MASKWHEEL(w, ticks)>> :
        w \in {v \in 0..3 : \A u \in 0..(v - 1) : MASKWHEEL(u, ticks) = 0}}

-----------------------------------------------------------------------------
\* Slip: a pending callout is always left in place.
ScheduleInPlace(c, to_ticks) ==
    /\ c_time' = [c_time EXCEPT ![c] = (to_ticks + cc_ticks) % WordSize]
    /\ left' = [left EXCEPT ![c] = to_ticks]
    /\ place' = [place EXCEPT ![c] = IF @ = Idle THEN Todo ELSE @]
    /\ fired' = [fired EXCEPT ![c] = FALSE]
    /\ UNCHANGED cc_ticks

\* Slip: the time is kept in a wider word than the clock.
ScheduleWide(c, to_ticks) ==
    /\ c_time' = [c_time EXCEPT ![c] = to_ticks + cc_ticks]
    /\ left' = [left EXCEPT ![c] = to_ticks]
    /\ place' = [place EXCEPT ![c] = Todo]
    /\ fired' = [fired EXCEPT ![c] = FALSE]
    /\ UNCHANGED cc_ticks

\* callout_schedule_locked(): a pending callout is left in place if it is
\* moved to a later time.
Schedule(c, to_ticks) ==
    /\ c_time' = [c_time EXCEPT ![c] = (to_ticks + cc_ticks) % WordSize]
    /\ left' = [left EXCEPT ![c] = to_ticks]
    /\ place' = [place EXCEPT ![c] =
                    IF @ # Idle /\ Diff(c_time'[c], c_time[c]) >= 0
                    THEN @ ELSE Todo]
    /\ fired' = [fired EXCEPT ![c] = FALSE]
    /\ UNCHANGED cc_ticks

\* callout_stop(), callout_halt(): off whatever queue it is on.
Stop(c) ==
    /\ place' = [place EXCEPT ![c] = Idle]
    /\ fired' = [fired EXCEPT ![c] = FALSE]
    /\ left' = [left EXCEPT ![c] = 0]
    /\ UNCHANGED <<cc_ticks, c_time>>

\* The softclock is scheduled and runs before it is MaxLate behind.
SoftclockInTime ==
    \A c \in Callout : place[c] = Todo => left[c] > -MaxLate

\* callout_hardclock()
Hardclock ==
    /\ SoftclockInTime
    /\ cc_ticks' = (cc_ticks + 1) % WordSize
    /\ left' = [c \in Callout |-> IF place[c] = Idle THEN left[c]
                                                     ELSE left[c] - 1]
    /\ place' = [c \in Callout |-> IF place[c] \in Moved(cc_ticks') THEN Todo
                                                            ELSE place[c]]
    /\ UNCHANGED <<c_time, fired>>

\* Slip: whatever is on the worklist is taken to be due.
SoftclockDueAlways(c) ==
    /\ place[c] = Todo
    /\ place' = [place EXCEPT ![c] = Idle]
    /\ fired' = [fired EXCEPT ![c] = TRUE]
    /\ UNCHANGED <<cc_ticks, c_time, left>>

\* callout_softclock() runs a callout that is due ...
SoftclockRun(c) ==
    /\ place[c] = Todo
    /\ Diff(c_time[c], cc_ticks) <= 0
    /\ place' = [place EXCEPT ![c] = Idle]
    /\ fired' = [fired EXCEPT ![c] = TRUE]
    /\ UNCHANGED <<cc_ticks, c_time, left>>

\* ... and puts one that is not into its bucket.
SoftclockInsert(c) ==
    /\ place[c] = Todo
    /\ Diff(c_time[c], cc_ticks) > 0
    /\ place' = [place EXCEPT ![c] =
                    BUCKET(Diff(c_time[c], cc_ticks), c_time[c])]
    /\ UNCHANGED <<cc_ticks, c_time, fired, left>>

-----------------------------------------------------------------------------
Init ==
    /\ cc_ticks = 0
    /\ c_time = [c \in Callout |-> 0]
    /\ place = [c \in Callout |-> Idle]
    /\ fired = [c \in Callout |-> FALSE]
    /\ left = [c \in Callout |-> 0]

Next ==
    \/ Hardclock
    \/ \E c \in Callout :
          \/ \E t \in Delays : Schedule(c, t)
          \/ Stop(c)
          \/ SoftclockRun(c) \/ SoftclockInsert(c)

Spec == Init /\ [][Next]_vars

-----------------------------------------------------------------------------
\* The type invariant.
TypeOK ==
    /\ cc_ticks \in Time
    /\ c_time \in [Callout -> Time]
    /\ place \in [Callout -> {Idle, Todo} \cup Bucket]
    /\ fired \in [Callout -> BOOLEAN]
    /\ left \in [Callout -> (-MaxLate)..(WordSize \div 2 - 1)]

(***************************************************************************)
(* No callout is late because of the wheel: when its time comes, by        *)
(* whatever way it got into its bucket and whatever the clock's wrapping   *)
(* does, it is on the worklist that the softclock will look at.            *)
(***************************************************************************)
DueOnWorklist ==
    \A c \in Callout : place[c] # Idle /\ left[c] <= 0 => place[c] = Todo

(***************************************************************************)
(* No callout runs before its time: it may come to the worklist early,     *)
(* from a coarse wheel or because it was moved to a later time.            *)
(***************************************************************************)
NeverEarly == \A c \in Callout : fired[c] => left[c] <= 0
=============================================================================
