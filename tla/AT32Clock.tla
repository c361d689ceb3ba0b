------------------------------ MODULE AT32Clock ------------------------------
(***************************************************************************)
(* The clock interrupt of the AVR32 port (sys/arch/avr32/avr32/            *)
(* at32clock.c): a COUNT register that runs freely and wraps, and a        *)
(* COMPARE register that at32clock_intr() moves ahead at every tick.  An   *)
(* interrupt is raised when COUNT reaches COMPARE; a write to COMPARE      *)
(* takes it back.                                                          *)
(*                                                                         *)
(* A definition marked "Slip" is the one that follows it with a plausible  *)
(* mistake: the properties are shown to reject it.                         *)
(***************************************************************************)
EXTENDS Integers

CONSTANTS
    Word,          \* 2^32: the registers are unsigned and this wide
    CyclesPerHz,   \* ci_cycles_per_hz
    MaxLate,       \* cycles until a pending interrupt is taken,
    MaxHandler     \* and from there to the last write to COMPARE

\* How long the handler may take not to be overtaken by the next tick, and
\* how late it may be for its test of the sign to work; the interrupt may
\* have been raised while the handler was still at the last one.
AT32ClockAssumption ==
    /\ {Word, CyclesPerHz, MaxLate, MaxHandler} \subseteq Nat
    /\ MaxHandler \in 1..CyclesPerHz - 1
    /\ MaxLate + 2 * MaxHandler <= CyclesPerHz + Word \div 2

VARIABLES
    count, compare,  \* the registers
    pending,         \* is the interrupt raised?
    next_clk_intr, new_cnt,
    pc,              \* where at32clock_intr() is
    late,            \* cycles since the interrupt was raised or taken
    gap              \* cycles since the last hardclock()

vars == <<count, compare, pending, next_clk_intr, new_cnt, pc, late, gap>>

\* Slip: a sum is wider than the register.
AddWide(x, y) == x + y

Add(x, y) == (x + y) % Word
Minus(x, y) == (x - y) % Word

\* at32clock_init()
Init ==
    /\ count \in 0..Word - 1
    /\ next_clk_intr = Add(count, CyclesPerHz)
    /\ compare = next_clk_intr
    /\ pending = FALSE
    /\ new_cnt = 0
    /\ pc = "idle"
    /\ late = 0
    /\ gap = 0

Cycle ==
    /\ IF pc = "idle" THEN pending => late < MaxLate ELSE late < MaxHandler
    /\ count' = Add(count, 1)
    /\ pending' = (pending \/ count' = compare)
    /\ late' = IF pc # "idle" \/ pending THEN late + 1 ELSE 0
    /\ gap' = gap + 1
    /\ UNCHANGED <<compare, next_clk_intr, new_cnt, pc>>

\* The interrupt is taken, and COMPARE written ...
Intr ==
    /\ pc = "idle" /\ pending
    /\ next_clk_intr' = Add(next_clk_intr, CyclesPerHz)
    /\ compare' = next_clk_intr'
    /\ pending' = FALSE
    /\ pc' = "read"
    /\ late' = 0
    /\ UNCHANGED <<count, new_cnt, gap>>

\* ... then, at least a cycle later, COUNT is read ...
Read ==
    /\ pc = "read" /\ late > 0
    /\ new_cnt' = count
    /\ pc' = "test"
    /\ UNCHANGED <<count, compare, pending, next_clk_intr, late, gap>>

\* Slip: the registers are compared as they are.
MissedUnsigned == next_clk_intr < new_cnt

\* (next_clk_intr - new_cnt) & 0x80000000
Missed == Minus(next_clk_intr, new_cnt) >= Word \div 2

\* ... and COMPARE written again if it was too late; the clock ticks.
Test ==
    /\ pc = "test"
    /\ IF Missed
       THEN /\ next_clk_intr' = Add(new_cnt, CyclesPerHz)
            /\ compare' = next_clk_intr'
            /\ pending' = FALSE
       ELSE UNCHANGED <<next_clk_intr, compare, pending>>
    /\ pc' = "idle"
    /\ late' = 0
    /\ gap' = 0
    /\ UNCHANGED <<count, new_cnt>>

Next == Cycle \/ Intr \/ Read \/ Test

Spec == Init /\ [][Next]_vars

-----------------------------------------------------------------------------
(* What is true of it. *)

TypeOK ==
    /\ {count, compare, next_clk_intr, new_cnt} \subseteq 0..Word - 1
    /\ pending \in BOOLEAN
    /\ pc \in {"idle", "read", "test"}
    /\ late \in 0..MaxLate + MaxHandler

\* However late an interrupt was served the clock does not stop until COUNT
\* has wrapped: hardclock() is called at least once in a tick and the time
\* that the interrupt and its handler may be late.
ClockTicks == gap <= CyclesPerHz + MaxLate + MaxHandler
=============================================================================
