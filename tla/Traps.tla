-------------------------------- MODULE Traps --------------------------------
(***************************************************************************)
(* How the processor enters the kernel of the AVR32 port and leaves it     *)
(* (sys/arch/avr32/avr32/avr32_xcpt.S, locore.S, trap.c): system calls,    *)
(* exceptions, the interrupts of the clock (INT2) and of the serial line   *)
(* (INT0), context switches and asynchronous software traps (ASTs).        *)
(*                                                                         *)
(* Each execution mode has registers of its own, RAR and RSR, in which the *)
(* processor leaves where it was; a handler saves them on the kernel stack *)
(* and puts them back before it returns.  cpu_switchto() does not change   *)
(* the mode, so that an LWP may go on in another one than it slept in.     *)
(*                                                                         *)
(* A context is a place the processor can be sent back to: an LWP, the     *)
(* number of handlers below it on the kernel stack, and the status         *)
(* register.  The other registers are left out, and so are critical        *)
(* exceptions and INT1 and INT3, which nothing uses.                       *)
(*                                                                         *)
(* A definition marked "Slip" is the one that follows it with a plausible  *)
(* mistake: the properties are shown to reject it.                         *)
(***************************************************************************)
EXTENDS Integers, Sequences, SequencesExt

CONSTANTS
    LWP,
    First,       \* the LWP that runs; the others are new
    AstLWP,      \* the LWPs that ASTs are posted to
    MaxDepth     \* bound: handlers on a kernel stack

TrapsAssumption ==
    /\ First \in LWP /\ AstLWP \subseteq LWP
    /\ MaxDepth \in Nat \ {0}

VARIABLES
    avr32_curlwp,
    sr,            \* the status register
    reg,           \* per mode, RAR and RSR: a context
    kstack,        \* per LWP, its handlers, the last one running; "own" and
                   \* "slept" are history: where the handler was entered
                   \* from, and whether it was switched away
    pcb,           \* per LWP, its interrupt mask when it was switched away
    md_astpending, \* per LWP
    lost           \* has the processor returned to where it never was?

vars == <<avr32_curlwp, sr, reg, kstack, pcb, md_astpending, lost>>

\* "im" is the number of interrupt levels masked: 1 is I0M, 3 is I0M to I2M.
UserSR == [mode |-> "USER", im |-> 0, gm |-> FALSE, em |-> FALSE]

l == avr32_curlwp
InUser == kstack[l] = <<>>
Top == Last(kstack[l])
In(kinds, place) == ~lost /\ ~InUser /\ Top.kind \in kinds /\ Top.at = place

Here == [lwp |-> l, depth |-> Len(kstack[l]), sr |-> sr]
UserContext(x) == [lwp |-> x, depth |-> 0, sr |-> UserSR]

\* The handler on top of the stack goes on.
Go(place) ==
    kstack' = [kstack EXCEPT ![l] =
                  Append(Front(@), [Top EXCEPT !.at = place])]

-----------------------------------------------------------------------------
(* The processor enters a handler. *)

Push(kind) ==
    kstack' = [kstack EXCEPT ![l] =
        Append(@, [kind |-> kind, at |-> "entry", frame |-> Here,
                   own |-> Here, slept |-> FALSE])]

Enter(kind, mode, newsr) ==
    /\ Len(kstack[l]) < MaxDepth
    /\ Push(kind)
    /\ sr' = [newsr EXCEPT !.mode = mode]
    /\ reg' = [reg EXCEPT ![mode] = Here]
    /\ UNCHANGED <<avr32_curlwp, pcb, md_astpending, lost>>

\* "scall" masks nothing.
Syscall == ~lost /\ InUser /\ Enter("syscall", "SUP", sr)

\* Where C code runs that may touch memory that is mapped.
Working ==
    \E k \in {"syscall", "user", "kern", "intr0", "intr2", "fork"},
       place \in {"body", "astbody"} : In({k}, place)

\* avr32_tlb_miss() finds the page and returns at once: all it leaves is
\* what the processor put into RAR_EX and RSR_EX.
TLBMiss ==
    /\ ~lost /\ ~sr.em
    /\ InUser \/ Working
    /\ reg' = [reg EXCEPT !["EX"] = Here]
    /\ UNCHANGED <<avr32_curlwp, sr, kstack, pcb, md_astpending, lost>>

\* avr32_slow_fault() for user mode, and for the kernel.
Fault ==
    /\ ~lost /\ ~sr.em
    /\ \/ InUser /\ Enter("user", "EX", [sr EXCEPT !.gm = TRUE, !.em = TRUE])
       \/ /\ \E k \in {"syscall", "user", "kern"} : In({k}, "body")
          /\ Enter("kern", "EX", [sr EXCEPT !.gm = TRUE, !.em = TRUE])

Intr0 ==
    /\ ~lost /\ ~sr.gm /\ sr.im = 0
    /\ Enter("intr0", "INT0", [sr EXCEPT !.im = 1])

\* Slip: a level is added to the mask.
Intr2Wraps ==
    /\ ~lost /\ ~sr.gm /\ sr.im < 3
    /\ Enter("intr2", "INT2", [sr EXCEPT !.im = @ + 3])

Intr2 ==
    /\ ~lost /\ ~sr.gm /\ sr.im < 3
    /\ Enter("intr2", "INT2", [sr EXCEPT !.im = 3])

-----------------------------------------------------------------------------
(* Handlers. *)

Mode(kind) == CASE kind = "syscall" -> "SUP"
                [] kind \in {"user", "kern"} -> "EX"
                [] kind = "intr0" -> "INT0"
                [] kind = "intr2" -> "INT2"

\* The registers are saved.  After that an exception handler enables
\* exceptions, and trap() interrupts "just as it was before the trap".
Save ==
    /\ ~lost /\ ~InUser /\ Top.at = "entry"
    /\ LET saved == reg[Mode(Top.kind)] IN
       /\ kstack' = [kstack EXCEPT ![l] =
             Append(Front(@), [Top EXCEPT !.at = "body", !.frame = saved])]
       /\ sr' = IF Top.kind \in {"user", "kern"}
                THEN [sr EXCEPT !.em = FALSE, !.gm = FALSE,
                                !.im = saved.sr.im]
                ELSE sr
    /\ UNCHANGED <<avr32_curlwp, reg, pcb, md_astpending, lost>>

\* aston(), for the LWP that runs or another one.
Aston(x) ==
    /\ In({"syscall", "intr0", "intr2"}, "body")
    /\ ~md_astpending[x]
    /\ md_astpending' = [md_astpending EXCEPT ![x] = TRUE]
    /\ UNCHANGED <<avr32_curlwp, sr, reg, kstack, pcb, lost>>

\* mi_switch() and cpu_switchto(), when the handler sleeps or is preempted:
\* the mode stays what it is.
Switch(x) ==
    /\ x # l
    /\ \/ In({"syscall", "user", "fork"}, "body")
       \/ In({"kern"}, "body")
       \/ In({"syscall", "user", "intr2"}, "astbody")
    /\ kstack' = [kstack EXCEPT ![l] =
                     Append(Front(@), [Top EXCEPT !.slept = Top.kind = "kern"])]
    /\ pcb' = [pcb EXCEPT ![l] = sr.im]
    /\ avr32_curlwp' = x
    /\ sr' = [sr EXCEPT !.im = pcb[x]]
    /\ UNCHANGED <<reg, md_astpending, lost>>

\* Slip: the clock's handler does not look for ASTs.
BodyEndsNoCheck ==
    /\ ~lost /\ ~InUser /\ Top.at = "body"
    /\ Go(CASE Top.kind \in {"syscall", "user"} -> "check"
            [] Top.kind \in {"kern", "fork"} -> "mask"
            [] Top.kind \in {"intr0", "intr2"} -> "load")
    /\ UNCHANGED <<avr32_curlwp, sr, reg, pcb, md_astpending, lost>>

\* The C code returns.
BodyEnds ==
    /\ ~lost /\ ~InUser /\ Top.at = "body"
    /\ Go(CASE Top.kind \in {"syscall", "user"} -> "check"
            [] Top.kind \in {"kern", "fork"} -> "mask"
            [] Top.kind = "intr0" -> "load"
            [] Top.kind = "intr2" ->
                 IF Top.frame.sr.mode = "USER" THEN "check" ELSE "load")
    /\ UNCHANGED <<avr32_curlwp, sr, reg, pcb, md_astpending, lost>>

\* The interrupt handler leaves nothing to be masked.
AfterAst == IF Top.kind = "intr2" THEN "load" ELSE "mask"

\* The test of md_astpending, in the handler and in the loop of ast().
Check ==
    /\ In({"syscall", "user", "intr2"}, "check")
    /\ IF md_astpending[l]
       THEN /\ md_astpending' = [md_astpending EXCEPT ![l] = FALSE]
            /\ Go("astbody")
       ELSE Go(AfterAst) /\ UNCHANGED md_astpending
    /\ UNCHANGED <<avr32_curlwp, sr, reg, pcb, lost>>

AstBodyEnds ==
    /\ In({"syscall", "user", "intr2"}, "astbody")
    /\ Go("check")
    /\ UNCHANGED <<avr32_curlwp, sr, reg, pcb, md_astpending, lost>>

\* Slip: exceptions and interrupts are not disabled.
MaskForgotten ==
    /\ ~lost /\ ~InUser /\ Top.at = "mask"
    /\ Go("load")
    /\ UNCHANGED <<avr32_curlwp, sr, reg, pcb, md_astpending, lost>>

\* "Disable them to avoid interrupt and exception handling racing over the
\* system registers."
Mask ==
    /\ ~lost /\ ~InUser /\ Top.at = "mask"
    /\ sr' = [sr EXCEPT !.gm = TRUE, !.em = TRUE]
    /\ Go("load")
    /\ UNCHANGED <<avr32_curlwp, reg, pcb, md_astpending, lost>>

\* The registers that are loaded: those of the current mode, but for two of
\* the handlers.
LoadMode == CASE Top.kind = "kern" -> "EX"
              [] Top.kind = "intr0" -> "INT0"
              [] OTHER -> sr.mode

Load ==
    /\ ~lost /\ ~InUser /\ Top.at = "load"
    /\ reg' = [reg EXCEPT ![LoadMode] = Top.frame]
    /\ Go("ret")
    /\ UNCHANGED <<avr32_curlwp, sr, pcb, md_astpending, lost>>

\* "rets" and "rete": to the context in the registers of the current mode.
\* "rete" in supervisor mode, which has no meaning, goes anywhere.
Ret ==
    /\ ~lost /\ ~InUser /\ Top.at = "ret"
    /\ LET good == /\ reg[sr.mode] = Top.own
                   /\ Top.kind = "kern" => sr.mode # "SUP"
       IN IF good
          THEN /\ kstack' = [kstack EXCEPT ![l] = Front(@)]
               /\ sr' = reg[sr.mode].sr
               /\ UNCHANGED lost
          ELSE lost' = TRUE /\ UNCHANGED <<kstack, sr>>
    /\ UNCHANGED <<avr32_curlwp, reg, pcb, md_astpending>>

Handler ==
    Save \/ BodyEnds \/ Check \/ AstBodyEnds \/ Mask \/ Load \/ Ret

-----------------------------------------------------------------------------
Modes == {"SUP", "EX", "INT0", "INT2"}

\* cpu_lwp_fork(): a new LWP starts in lwp_trampoline(), with a frame for
\* user mode.
Init ==
    /\ avr32_curlwp = First
    /\ sr = UserSR
    /\ reg = [m \in Modes |-> UserContext(First)]
    /\ kstack = [x \in LWP |->
          IF x = First THEN <<>>
          ELSE <<[kind |-> "fork", at |-> "body", frame |-> UserContext(x),
                  own |-> UserContext(x), slept |-> FALSE]>>]
    /\ pcb = [x \in LWP |-> 0]
    /\ md_astpending = [x \in LWP |-> FALSE]
    /\ lost = FALSE

Next ==
    \/ Syscall \/ TLBMiss \/ Fault \/ Intr0 \/ Intr2
    \/ \E x \in AstLWP : Aston(x)
    \/ \E x \in LWP : Switch(x)
    \/ Handler

Spec == Init /\ [][Next]_vars

\* Handlers run to their end, for interrupts and faults leave them time to,
\* and the clock ticks in user mode, too.
HandlerAt(x, d) == x = l /\ d = Len(kstack[x]) /\ Handler

FairSpec ==
    /\ Spec
    /\ \A x \in LWP, d \in 1..MaxDepth : SF_vars(HandlerAt(x, d))
    /\ SF_vars(InUser /\ Intr2)

-----------------------------------------------------------------------------
(* What is true of it. *)

Contexts ==
    [lwp : LWP, depth : 0..MaxDepth,
     sr : [mode : Modes \cup {"USER"}, im : {0, 1, 3}, gm : BOOLEAN,
           em : BOOLEAN]]

TypeOK ==
    /\ avr32_curlwp \in LWP
    /\ sr \in [mode : Modes \cup {"USER"}, im : {0, 1, 3}, gm : BOOLEAN,
               em : BOOLEAN]
    /\ reg \in [Modes -> Contexts]
    /\ \A x \in LWP : /\ Len(kstack[x]) <= MaxDepth
                      /\ \A i \in DOMAIN kstack[x] :
                            {kstack[x][i].frame, kstack[x][i].own}
                               \subseteq Contexts
    /\ pcb \in [LWP -> {0, 1, 3}]
    /\ md_astpending \in [LWP -> BOOLEAN]
    /\ lost \in BOOLEAN

\* Every return is to the context that was interrupted: no handler loses
\* RAR and RSR to another one before it has saved them or after it has put
\* them back, whatever mode an LWP goes on in after it was switched away.
ReturnsOwn == ~lost

\* The same, but for the handler of a fault of the kernel that has slept: it
\* loads RAR_EX and RSR_EX and returns through the registers of the mode that
\* it goes on in.  All the others return to where they came from, those that
\* sleep in turn with such a handler included.
OthersReturnOwn == lost => Top.kind = "kern" /\ Top.slept

\* "AST pending on return to userland": with one pending there is no return.
AstBeforeUser == InUser => ~md_astpending[l]

\* An AST of the LWP that runs is served at the next tick of the clock in
\* user mode, at the latest, unless the LWP is switched away.
AstServed ==
    \A x \in LWP :
        (x = l /\ md_astpending[x]) ~> (x # l \/ ~md_astpending[x])
=============================================================================
