---------------------------- MODULE TimeCounter -----------------------------
(***************************************************************************)
(* Time counters (sys/kern/kern_tc.c).  The time is read without a lock    *)
(* from a ring of time hands: a reader copies from the current hand and    *)
(* starts again if the generation of that hand has changed.  tc_windup()   *)
(* fills in the next hand of the ring and makes it the current one, at     *)
(* every clock tick and whenever the counter is replaced.                  *)
(*                                                                         *)
(* The uptime is counted in units, "Second" of them a second: counter c    *)
(* moves every Period[c] units and has Mask[c] + 1 values.  "now" is the   *)
(* true uptime.  A reader, and tc_windup(), take one step for each access  *)
(* to memory that the others can tell apart.  UTC, the adjustments of NTP  *)
(* and PPS are left out, and so is the dummy counter of the early boot:    *)
(* Init is the state in which the first counter has been attached, and     *)
(* that counter (at32clock, for AVR32) is never detached.                  *)
(*                                                                         *)
(* On one processor (MP = FALSE) the holder of timecounter_lock, which is  *)
(* at IPL_HIGH, is not interleaved with readers.                           *)
(*                                                                         *)
(* A definition marked "Slip" is the one that follows it with a plausible  *)
(* mistake: the properties are shown to reject it.                         *)
(***************************************************************************)
EXTENDS Integers, Sequences, SequencesExt

CONSTANTS
    Reader,   \* the LWPs that read the time
    Counter,  \* the struct timecounters
    First,    \* the one that is attached to begin with
    Period, Mask, Quality,  \* of each counter; Quality as its driver sets it
    Second,   \* units of time in a second
    Tick,     \* units between two clock interrupts that call tc_windup()
    Late,     \* by how many units such a call may be late
    Hands,    \* the length of the ring, 10 in the code
    MP,       \* is there more than one processor?
    Ops,      \* the operations besides the clock tick, of
              \* "init", "detach", "sysctl", "choice", "bad"
    MaxNow    \* bound: how long the system is watched

TimeCounterAssumption ==
    /\ First \in Counter /\ Quality[First] >= 0
    /\ Hands >= 2
    /\ MP \in BOOLEAN
    /\ Ops \subseteq {"init", "detach", "sysctl", "choice", "bad"}

VARIABLES
    now,               \* the true uptime
    due,               \* when the next clock interrupt is
    wound,             \* when the counter was read for the current hand
    hands, timehands,  \* the ring, and the index of the current hand
    timecounter,       \* the counter that is wanted
    timecounters,      \* the list of the counters
    tc_quality,        \* their qualities
    timecounter_mods, timecounter_bad,
    wind,              \* the holder of the lock that winds up
    reader,            \* what each reader does
    choice,            \* the sysctl that lists the counters
    failing,           \* the counters in the middle of tc_gonebad()
    gone,              \* the counters tc_detach() has been called for
    steps, lost,       \* changes of counter, and units lost in them
    replaced,          \* history: counters that a sysctl has replaced and
                       \* tc_windup() has not yet
    forced,            \* history: was a bad counter asked for by a sysctl?
    high               \* the latest time any reader has returned

clock == <<now, due, wound>>
ring == <<hands, timehands>>
conf == <<timecounter, timecounters, tc_quality, timecounter_mods,
          timecounter_bad, failing, gone>>
byhand == <<replaced, forced>>
hist == <<steps, lost, byhand>>
vars == <<clock, ring, conf, hist, wind, reader, choice, high>>

Registered == ToSet(timecounters)
Idle == [pc |-> "idle", delta |-> 0, ncount |-> 0, ogen |-> 0, at |-> 0,
         change |-> FALSE]
Unlocked == wind.pc = "idle" /\ choice.pc \notin {"locked", "next"}

-----------------------------------------------------------------------------
\* The hardware counter; Scale is th_scale of a hand that uses it.
tc_get_timecount(c) == (now \div Period[c]) % (Mask[c] + 1)
Scale(c) == Period[c]

tc_delta(h) == (tc_get_timecount(h.counter) - h.count) % (Mask[h.counter] + 1)

\* Generations count up from 1; no behaviour within MaxNow wraps them.
NextGen(g) == g + 1

\* th = tho->th_next
New == (timehands + 1) % Hands

-----------------------------------------------------------------------------
(* Readers: binuptime() and getbinuptime(). *)

Read(r, rec) == reader' = [reader EXCEPT ![r] = rec]
MayRead == MP \/ wind.pc = "idle"

\* th = timehands
Start(r, get) ==
    /\ MayRead
    /\ reader[r].pc = "idle"
    /\ Read(r, [pc |-> "gen", get |-> get, th |-> timehands, gen |-> 0,
                bt |-> 0, at |-> 0, floor |-> high])
    /\ UNCHANGED <<clock, ring, conf, hist, wind, choice, high>>

\* gen = th->th_generation
Gen(r) ==
    /\ MayRead
    /\ reader[r].pc = "gen"
    /\ Read(r, [reader[r] EXCEPT !.pc = "offset",
                                 !.gen = hands[reader[r].th].gen])
    /\ UNCHANGED <<clock, ring, conf, hist, wind, choice, high>>

\* *bt = th->th_offset
Offset(r) ==
    /\ MayRead
    /\ reader[r].pc = "offset"
    /\ Read(r, [reader[r] EXCEPT !.pc = IF reader[r].get THEN "check" ELSE "count",
                                 !.bt = hands[reader[r].th].offset,
                                 !.at = now])
    /\ UNCHANGED <<clock, ring, conf, hist, wind, choice, high>>

\* bintime_addx(bt, th->th_scale * tc_delta(th))
Count(r) ==
    LET h == hands[reader[r].th] IN
    /\ MayRead
    /\ reader[r].pc = "count"
    /\ Read(r, [reader[r] EXCEPT !.pc = "check",
                                 !.bt = @ + h.scale * tc_delta(h),
                                 !.at = now])
    /\ UNCHANGED <<clock, ring, conf, hist, wind, choice, high>>

\* Slip: a hand that is being filled in is not told from one that is not.
UnchangedZero(r) == reader[r].gen = hands[reader[r].th].gen

\* while (gen == 0 || gen != th->th_generation)
Unchanged(r) ==
    /\ reader[r].gen # 0
    /\ reader[r].gen = hands[reader[r].th].gen

Check(r) ==
    /\ MayRead
    /\ reader[r].pc = "check"
    /\ \/ /\ Unchanged(r)
          /\ Read(r, [reader[r] EXCEPT !.pc = "done"])
          /\ high' = IF reader[r].bt > high THEN reader[r].bt ELSE high
       \/ /\ ~Unchanged(r)
          /\ Read(r, [reader[r] EXCEPT !.pc = "gen", !.th = timehands])
          /\ UNCHANGED high
    /\ UNCHANGED <<clock, ring, conf, hist, wind, choice>>

\* The caller has its result.
Return(r) ==
    /\ reader[r].pc = "done"
    /\ Read(r, [pc |-> "idle"])
    /\ UNCHANGED <<clock, ring, conf, hist, wind, choice, high>>

-----------------------------------------------------------------------------
(* tc_windup(), with timecounter_lock held. *)

Wind(p) == wind' = [wind EXCEPT !.pc = p]

\* The generation of the next hand is zeroed ...
WindZero ==
    /\ wind.pc = "zero"
    /\ wind' = [wind EXCEPT !.pc = "copy", !.ogen = hands[New].gen]
    /\ hands' = [hands EXCEPT ![New].gen = 0]
    /\ UNCHANGED <<clock, timehands, conf, hist, reader, choice, high>>

\* ... the current hand copied to it, without the generation ...
WindCopy ==
    /\ wind.pc = "copy"
    /\ Wind("delta")
    /\ hands' = [hands EXCEPT ![New] = [hands[timehands] EXCEPT !.gen = 0]]
    /\ UNCHANGED <<clock, timehands, conf, hist, reader, choice, high>>

\* ... the current counter read ...
WindDelta ==
    /\ wind.pc = "delta"
    /\ wind' = [wind EXCEPT !.pc = "ncount", !.delta = tc_delta(hands[New]),
                            !.at = now]
    /\ UNCHANGED <<clock, ring, conf, hist, reader, choice, high>>

\* ... and the new one, when it changes.
WindNcount ==
    /\ wind.pc = "ncount"
    /\ LET change == hands[New].counter # timecounter IN
       /\ wind' = [wind EXCEPT !.pc = "count", !.change = change,
                      !.ncount = IF change
                                 THEN tc_get_timecount(timecounter) ELSE 0]
       /\ steps' = IF change THEN steps + 1 ELSE steps
       /\ lost' = IF change THEN lost + (now - wind.at) ELSE lost
    /\ UNCHANGED <<clock, ring, conf, byhand, reader, choice, high>>

\* Slip: the sum is not masked.
WindCountUnmasked ==
    /\ wind.pc = "count"
    /\ Wind("offset")
    /\ hands' = [hands EXCEPT ![New].count = @ + wind.delta]
    /\ UNCHANGED <<clock, timehands, conf, hist, reader, choice, high>>

\* The count, then the time, move on by the difference.
WindCount ==
    /\ wind.pc = "count"
    /\ Wind("offset")
    /\ hands' = [hands EXCEPT ![New].count =
                    (@ + wind.delta) % (Mask[hands[New].counter] + 1)]
    /\ UNCHANGED <<clock, timehands, conf, hist, reader, choice, high>>

WindOffset ==
    /\ wind.pc = "offset"
    /\ Wind("change")
    /\ hands' = [hands EXCEPT ![New].offset =
                    @ + hands[New].scale * wind.delta]
    /\ UNCHANGED <<clock, timehands, conf, hist, reader, choice, high>>

\* Slip: the scale of the old counter is kept.
WindChangeScale ==
    /\ wind.pc = "change"
    /\ Wind("gen")
    /\ hands' = IF wind.change
                THEN [hands EXCEPT ![New].counter = timecounter,
                                   ![New].count = wind.ncount]
                ELSE hands
    /\ UNCHANGED <<clock, timehands, conf, hist, reader, choice, high>>

WindChange ==
    /\ wind.pc = "change"
    /\ Wind("gen")
    /\ hands' = IF wind.change
                THEN [hands EXCEPT ![New].counter = timecounter,
                                   ![New].count = wind.ncount,
                                   ![New].scale = Scale(timecounter)]
                ELSE hands
    /\ UNCHANGED <<clock, timehands, conf, hist, reader, choice, high>>

\* Slip: the old generation is put back.
WindGenSame ==
    /\ wind.pc = "gen"
    /\ Wind("live")
    /\ hands' = [hands EXCEPT ![New].gen = wind.ogen]
    /\ UNCHANGED <<clock, timehands, conf, hist, reader, choice, high>>

\* The hand is consistent again, and gets a new generation ...
WindGen ==
    /\ wind.pc = "gen"
    /\ Wind("live")
    /\ hands' = [hands EXCEPT ![New].gen = NextGen(wind.ogen)]
    /\ UNCHANGED <<clock, timehands, conf, hist, reader, choice, high>>

\* ... it is made the current one ...
WindLive ==
    /\ wind.pc = "live"
    /\ Wind("force")
    /\ timehands' = New
    /\ wound' = wind.at
    /\ replaced' = {}
    /\ UNCHANGED <<now, due, hands, conf, steps, lost, forced, reader, choice,
                   high>>

\* ... and readers of the old one are made to start again.
WindForce ==
    /\ wind.pc = "force"
    /\ wind' = Idle
    /\ LET tho == (timehands + Hands - 1) % Hands
       IN hands' = [hands EXCEPT ![tho].gen = NextGen(@)]
    /\ UNCHANGED <<clock, timehands, conf, hist, reader, choice, high>>

tc_windup ==
    \/ WindZero \/ WindCopy \/ WindDelta \/ WindNcount \/ WindCount
    \/ WindOffset \/ WindChange \/ WindGen \/ WindLive \/ WindForce

-----------------------------------------------------------------------------
(* The callers of tc_windup(), and the list of counters. *)

Frequency(c) == Second \div Period[c]

\* Slip: the counter's frequency is compared, not how often it overflows.
TooNarrowNot(c) == Frequency(c) \div Second > Second \div Tick

\* tc_init() does not trust a counter that overflows within a tick, with a
\* margin of 10%.
TooNarrow(c) ==
    ((Frequency(c) \div Mask[c]) * 11) \div 10 > Second \div Tick

Better(c, d, q) ==
    \/ q[c] > q[d]
    \/ q[c] = q[d] /\ Frequency(c) > Frequency(d)

\* tc_init()
tc_init(c) ==
    LET q == [tc_quality EXCEPT
                 ![c] = IF TooNarrow(c) /\ @ >= 0 THEN -2000 ELSE @]
        use == q[c] >= 0 /\ Better(c, timecounter, q)
    IN
    /\ "init" \in Ops
    /\ Unlocked
    /\ c \notin Registered \cup gone
    /\ tc_quality' = q
    /\ timecounters' = <<c>> \o timecounters
    /\ timecounter_mods' = timecounter_mods + 1
    /\ timecounter' = IF use THEN c ELSE timecounter
    /\ forced' = (forced /\ ~use)
    /\ IF use THEN Wind("zero") ELSE UNCHANGED wind
    /\ UNCHANGED <<clock, ring, steps, lost, replaced, timecounter_bad, failing,
                   gone, reader, choice, high>>

\* tc_pick(): the first of the best.
tc_pick(list) ==
    LET best(i) == \A j \in 1 .. Len(list) :
                      /\ ~Better(list[j], list[i], tc_quality)
                      /\ j < i => Better(list[i], list[j], tc_quality)
    IN list[CHOOSE i \in 1 .. Len(list) : best(i)]

\* Slip: the hands are not wound up.
tc_detach_only(c) ==
    LET list == SelectSeq(timecounters, LAMBDA d : d # c) IN
    /\ "detach" \in Ops
    /\ Unlocked
    /\ c \in Registered \ {First}
    /\ timecounters' = list
    /\ timecounter' = IF timecounter = c THEN tc_pick(list) ELSE timecounter
    /\ timecounter_mods' = timecounter_mods + 1
    /\ gone' = gone \cup {c}
    /\ forced' = (forced /\ timecounter # c)
    /\ UNCHANGED <<clock, ring, steps, lost, replaced, tc_quality,
                   timecounter_bad, failing, wind, reader, choice, high>>

\* tc_detach()
tc_detach(c) ==
    LET list == SelectSeq(timecounters, LAMBDA d : d # c) IN
    /\ "detach" \in Ops
    /\ Unlocked
    /\ c \in Registered \ {First}
    /\ timecounters' = list
    /\ IF timecounter = c
       THEN timecounter' = tc_pick(list) /\ Wind("zero")
       ELSE UNCHANGED <<timecounter, wind>>
    /\ timecounter_mods' = timecounter_mods + 1
    /\ gone' = gone \cup {c}
    /\ forced' = (forced /\ timecounter # c)
    /\ UNCHANGED <<clock, ring, steps, lost, replaced, tc_quality,
                   timecounter_bad, failing, reader, choice, high>>

\* sysctl kern.timecounter.hardware: the hands are not wound up.
sysctl_kern_timecounter_hardware(c) ==
    /\ "sysctl" \in Ops
    /\ Unlocked
    /\ c \in Registered \ {timecounter}
    /\ timecounter' = c
    /\ replaced' = replaced \cup {timecounter}
    /\ forced' = (tc_quality[c] < 0)
    /\ UNCHANGED <<clock, ring, steps, lost, timecounters, tc_quality,
                   timecounter_mods, timecounter_bad, failing, gone, wind,
                   reader, choice, high>>

\* Slip: the quality is lowered after the count.
GoneBadLate(c) ==
    \/ /\ "bad" \in Ops
       /\ c \in Registered \ failing /\ tc_quality[c] >= 0
       /\ timecounter_bad' = timecounter_bad + 1
       /\ failing' = failing \cup {c}
       /\ UNCHANGED <<clock, ring, hist, timecounter, timecounters,
                      tc_quality, timecounter_mods, gone, wind, reader,
                      choice, high>>
    \/ /\ c \in failing
       /\ tc_quality' = [tc_quality EXCEPT ![c] = -100]
       /\ failing' = failing \ {c}
       /\ UNCHANGED <<clock, ring, hist, timecounter, timecounters,
                      timecounter_bad, timecounter_mods, gone, wind, reader,
                      choice, high>>

\* tc_gonebad(), without the lock: the quality is lowered, then the counter
\* of bad counters incremented.
tc_gonebad(c) ==
    \/ /\ "bad" \in Ops
       /\ c \in Registered \ failing /\ tc_quality[c] >= 0
       /\ tc_quality' = [tc_quality EXCEPT ![c] = -100]
       /\ failing' = failing \cup {c}
       /\ UNCHANGED <<clock, ring, hist, timecounter, timecounters,
                      timecounter_mods, timecounter_bad, gone, wind, reader,
                      choice, high>>
    \/ /\ c \in failing
       /\ timecounter_bad' = timecounter_bad + 1
       /\ failing' = failing \ {c}
       /\ UNCHANGED <<clock, ring, hist, timecounter, timecounters,
                      tc_quality, timecounter_mods, gone, wind, reader,
                      choice, high>>

\* tc_ticktock(), from the clock interrupt.
tc_ticktock ==
    /\ Unlocked
    /\ now >= due
    /\ due' = due + Tick
    /\ timecounter_bad' = 0
    /\ IF timecounter_bad # 0 /\ tc_quality[timecounter] < 0
       THEN timecounter' = tc_pick(timecounters) /\ forced' = FALSE
       ELSE UNCHANGED <<timecounter, forced>>
    /\ Wind("zero")
    /\ UNCHANGED <<now, wound, ring, steps, lost, replaced, timecounters,
                   tc_quality, timecounter_mods, failing, gone, reader, choice,
                   high>>

-----------------------------------------------------------------------------
(* sysctl kern.timecounter.choice: the lock is left for each copyout(). *)

ChoiceStart ==
    /\ "choice" \in Ops
    /\ Unlocked
    /\ choice.pc = "idle"
    /\ choice' = [pc |-> "locked", tc |-> timecounters[1], mods |-> 0]
    /\ UNCHANGED <<clock, ring, conf, hist, wind, reader, high>>

ChoiceCopy ==
    /\ choice.pc = "locked"
    /\ choice' = [choice EXCEPT !.pc = "copyout", !.mods = timecounter_mods]
    /\ UNCHANGED <<clock, ring, conf, hist, wind, reader, high>>

\* Slip: the list is taken to be what it was.
ChoiceRelockTrusting ==
    /\ Unlocked
    /\ choice.pc = "copyout"
    /\ choice' = [choice EXCEPT !.pc = "next"]
    /\ UNCHANGED <<clock, ring, conf, hist, wind, reader, high>>

\* The walk starts again when the list has changed in the meantime ...
ChoiceRelock ==
    /\ Unlocked
    /\ choice.pc = "copyout"
    /\ choice' = IF choice.mods # timecounter_mods
                 THEN [choice EXCEPT !.pc = "locked", !.tc = timecounters[1]]
                 ELSE [choice EXCEPT !.pc = "next"]
    /\ UNCHANGED <<clock, ring, conf, hist, wind, reader, high>>

\* ... and goes on to tc->tc_next otherwise.
ChoiceNext ==
    /\ choice.pc = "next"
    /\ LET i == CHOOSE j \in 1 .. Len(timecounters) :
                   timecounters[j] = choice.tc
       IN choice' = IF i = Len(timecounters) THEN [pc |-> "idle"]
                    ELSE [choice EXCEPT !.pc = "locked",
                                        !.tc = timecounters[i + 1]]
    /\ UNCHANGED <<clock, ring, conf, hist, wind, reader, high>>

-----------------------------------------------------------------------------
\* Time passes.  A clock interrupt is at most "Late" units late.
Advance ==
    /\ now < MaxNow
    /\ now < due + Late
    /\ now < wound + Tick + Late
    /\ now' = now + 1
    /\ UNCHANGED <<due, wound, ring, conf, hist, wind, reader, choice, high>>

Init ==
    /\ now = 0 /\ due = Tick /\ wound = 0
    /\ hands = [i \in 0 .. Hands - 1 |->
                   [counter |-> First, scale |-> Scale(First), count |-> 0,
                    offset |-> 0, gen |-> IF i = 0 THEN 1 ELSE 0]]
    /\ timehands = 0
    /\ timecounter = First
    /\ timecounters = <<First>>
    /\ tc_quality = Quality
    /\ timecounter_mods = 0 /\ timecounter_bad = 0
    /\ wind = Idle
    /\ reader = [r \in Reader |-> [pc |-> "idle"]]
    /\ choice = [pc |-> "idle"]
    /\ failing = {} /\ gone = {}
    /\ steps = 0 /\ lost = 0
    /\ replaced = {} /\ forced = FALSE
    /\ high = 0

Next ==
    \/ \E r \in Reader :
          \/ \E get \in BOOLEAN : Start(r, get)
          \/ Gen(r) \/ Offset(r) \/ Count(r) \/ Check(r) \/ Return(r)
    \/ tc_windup
    \/ tc_ticktock
    \/ \E c \in Counter :
          \/ tc_init(c) \/ tc_detach(c) \/ tc_gonebad(c)
          \/ sysctl_kern_timecounter_hardware(c)
    \/ ChoiceStart \/ ChoiceCopy \/ ChoiceRelock \/ ChoiceNext
    \/ Advance

Spec == Init /\ [][Next]_vars

-----------------------------------------------------------------------------
(* What is true of it. *)

TypeOK ==
    /\ timehands \in 0 .. Hands - 1
    /\ timecounter \in Counter
    /\ Registered \subseteq Counter
    /\ \A i \in 0 .. Hands - 1 :
          /\ hands[i].counter \in Counter
          /\ hands[i].count \in 0 .. Mask[hands[i].counter]

Coarse == LET p == CHOOSE p \in {Period[c] : c \in Counter} :
                      \A c \in Counter : Period[c] <= p
          IN p - 1

\* What binuptime() returns is the uptime at the moment it read the counter,
\* however the reader was delayed and the hands rewritten meanwhile: late by
\* what was lost when counters were changed and by the grain of a counter,
\* and early by no more than the grain of each counter that was changed to.
\* getbinuptime() is not ahead of it.  In particular no counter overflows
\* unnoticed, and no reader uses a hand that is half filled in.
ReadsTheTime ==
    \A r \in Reader :
        reader[r].pc = "done" =>
            /\ reader[r].bt <= reader[r].at + steps * Coarse
            /\ ~reader[r].get =>
                  reader[r].bt >= reader[r].at - lost - (steps + 1) * Coarse

\* The uptime does not go back while the counter stays: binuptime() returns
\* no less than what any function had returned when it was called.  (This is
\* not so of getbinuptime(): a reader that was held up for a whole turn of
\* the ring may use a hand just before it becomes the current one.)
Monotone ==
    \A r \in Reader :
        reader[r].pc = "done" /\ ~reader[r].get =>
            reader[r].bt >= reader[r].floor

\* "Force users of the old timehand to move on": between two windups, only
\* what was read from the current hand passes for a time.
UsersMoveOn ==
    \A r \in Reader :
        /\ wind.pc = "idle"
        /\ reader[r].pc \in {"offset", "count", "check"}
        /\ Unchanged(r)
        => reader[r].th = timehands

\* "Stop using a timecounter and remove it": a counter for which tc_detach()
\* has returned is not read any more for the time; with one exception.  The
\* sysctl that replaces the counter leaves the current hand as it is, so that
\* tc_detach() of the counter it replaced finds another one wanted and does not
\* wind up: that counter is read until the next tc_windup().
StoppedUsing ==
    Unlocked =>
        /\ timecounter \notin gone
        /\ hands[timehands].counter \in gone =>
              hands[timehands].counter \in replaced

\* When the counter in use has gone bad and there is a better one, the next
\* clock tick will know: timecounter_bad is not lost between tc_gonebad(),
\* which takes no lock, and tc_ticktock().  (A counter that was bad already
\* when the sysctl asked for it stays in use.)
BadNoticed ==
    /\ Unlocked
    /\ tc_quality[timecounter] < 0 /\ ~forced
    /\ timecounter \notin failing
    /\ \E d \in Registered : Better(d, timecounter, tc_quality)
    => timecounter_bad # 0

\* The sysctl that lists the counters does not follow the link of one that
\* was detached while the lock was left.
ChoiceOnList ==
    choice.pc \in {"locked", "next"} => choice.tc \in Registered
=============================================================================
