------------------------------ MODULE FileDesc ------------------------------
(***************************************************************************)
(* The file descriptors of a process with several LWPs                     *)
(* (sys/kern/kern_descrip.c, sys_descrip.c): descriptors are looked up     *)
(* without a lock, and closed while others still use them.                 *)
(*                                                                         *)
(* An LWP that uses a descriptor has a reference to its slot (ff_refcnt),  *)
(* a slot has a reference to its file (f_count).  Each action is an access *)
(* to shared memory or a section under fd_lock, ff_lock or f_lock; where   *)
(* the words changed in a section are also read without the lock, each     *)
(* change is an action and ff_lock is explicit.                            *)
(*                                                                         *)
(* Left out: growing the table, knotes, advisory locks, close on exec.     *)
(* fo_drain() makes those that use the file come back, which they do here  *)
(* by themselves.                                                          *)
(*                                                                         *)
(* A definition marked "Slip" is the one that follows it with a plausible  *)
(* mistake: the properties are shown to reject it.                         *)
(***************************************************************************)
EXTENDS Naturals, FiniteSets

CONSTANTS
    LWP,
    FD,      \* descriptors
    File,    \* the memory of file_cache
    Null,
    MaxCalls \* bound: system calls of an LWP

ASSUME FDAssumption ==
    /\ IsFiniteSet(LWP) /\ IsFiniteSet(FD)
    /\ Null \notin LWP \cup FD \cup File
    /\ MaxCalls \in Nat

VARIABLES
    fd_used,   \* the descriptors with a bit in fd_lomap (and ff_allocated)
    ff_file,
    ff_refcnt, \* the references to a slot, without FR_CLOSING
    closing,   \* FR_CLOSING
    ff_lock,   \* who has it
    f_count,   \* 0 for a file that is free or not yet visible
    pc, fd, fp,
    u,         \* the copy of ff_refcnt that fd_putfile() compares
    held, new, \* the file that dup2 has a reference to, and where it is to go
    calls      \* the system calls made

dup == <<held, new>>
slots == <<fd_used, ff_file, ff_refcnt, closing, ff_lock>>
vars == <<fd_used, ff_file, ff_refcnt, closing, ff_lock, f_count, pc, fd, fp, u,
          held, new, calls>>

-----------------------------------------------------------------------------
\* Where an LWP goes that is done with a descriptor: dup2 looks again.
Back(t) == IF held[t] = Null THEN "Idle" ELSE "Dup2"

Goto(t, where) == pc' = [pc EXCEPT ![t] = where]

\* A system call begins.
Call(t, d, where) ==
    /\ pc[t] = "Idle" /\ calls[t] < MaxCalls
    /\ calls' = [calls EXCEPT ![t] = @ + 1]
    /\ fd' = [fd EXCEPT ![t] = d]
    /\ Goto(t, where)

-----------------------------------------------------------------------------
\* fd_getfile()
Get(t, d) ==
    /\ Call(t, d, "GetInc")
    /\ UNCHANGED <<slots, f_count, fp, u, dup>>

GetInc(t) ==
    /\ pc[t] = "GetInc"
    /\ ff_refcnt' = [ff_refcnt EXCEPT ![fd[t]] = @ + 1]
    /\ Goto(t, "GetRead")
    /\ UNCHANGED <<fd_used, ff_file, closing, ff_lock, f_count, fd, fp, u, dup,
                   calls>>

GetRead(t) ==
    /\ pc[t] = "GetRead"
    /\ fp' = [fp EXCEPT ![t] = ff_file[fd[t]]]
    /\ Goto(t, IF ff_file[fd[t]] = Null THEN "Put"
               ELSE IF held[t] = Null THEN "Using" ELSE "Close")
    /\ UNCHANGED <<slots, f_count, fd, u, dup, calls>>

\* What the system call does with the file: it is done with it, or it is
\* sys_close(), or it is sys_dup2(), which takes a reference to the file.
Use(t) ==
    /\ pc[t] = "Using"
    /\ \/ Goto(t, "Put") /\ UNCHANGED <<f_count, dup>>
       \/ Goto(t, "Close") /\ UNCHANGED <<f_count, dup>>
       \/ /\ Goto(t, "Put")
          /\ f_count' = [f_count EXCEPT ![fp[t]] = @ + 1]
          /\ held' = [held EXCEPT ![t] = fp[t]]
          /\ \E d \in FD \ {fd[t]} : new' = [new EXCEPT ![t] = d]
    /\ UNCHANGED <<slots, fd, fp, u, calls>>

\* fd_putfile()
Put(t) ==
    /\ pc[t] = "Put"
    /\ u' = [u EXCEPT ![t] = ff_refcnt[fd[t]]]
    /\ fp' = [fp EXCEPT ![t] = Null]
    /\ Goto(t, "PutCAS")
    /\ UNCHANGED <<slots, f_count, fd, dup, calls>>

\* Slip: the last reference is dropped although somebody waits for it.
PutCASBlind(t) ==
    /\ pc[t] = "PutCAS"
    /\ ff_refcnt[fd[t]] = u[t]
    /\ ff_refcnt' = [ff_refcnt EXCEPT ![fd[t]] = u[t] - 1]
    /\ Goto(t, Back(t))
    /\ u' = [u EXCEPT ![t] = 0]
    /\ UNCHANGED <<fd_used, ff_file, closing, ff_lock, f_count, fd, fp, dup, calls>>

\* The compare-and-swap takes the flag for part of the word.
PutCAS(t) ==
    /\ pc[t] = "PutCAS"
    /\ ff_refcnt[fd[t]] = u[t] /\ ~closing[fd[t]]
    /\ ff_refcnt' = [ff_refcnt EXCEPT ![fd[t]] = u[t] - 1]
    /\ Goto(t, Back(t))
    /\ u' = [u EXCEPT ![t] = 0]
    /\ UNCHANGED <<fd_used, ff_file, closing, ff_lock, f_count, fd, fp, dup, calls>>

PutCASFails(t) ==
    /\ pc[t] = "PutCAS"
    /\ ff_refcnt[fd[t]] # u[t] \/ closing[fd[t]]
    /\ IF closing[fd[t]]
       THEN Goto(t, "Join") /\ u' = [u EXCEPT ![t] = 0]
       ELSE UNCHANGED pc /\ u' = [u EXCEPT ![t] = ff_refcnt[fd[t]]]
    /\ UNCHANGED <<slots, f_count, fd, fp, dup, calls>>

-----------------------------------------------------------------------------
\* cv_broadcast(&ff->ff_closing)
Woken(d) ==
    {t \in LWP : pc[t] = "CloseSleep" /\ fd[t] = d}

\* Slip: EBADF is returned with the reference.
CloseClosingKeeps(t) ==
    /\ pc[t] \in {"Close", "Join"}
    /\ ff_lock[fd[t]] = Null
    /\ ff_file[fd[t]] = Null
    /\ pc' = [x \in LWP |-> IF x = t THEN Back(t)
                            ELSE IF x \in Woken(fd[t]) THEN "CloseCheck"
                            ELSE pc[x]]
    /\ fp' = [fp EXCEPT ![t] = Null]
    /\ UNCHANGED <<slots, f_count, fd, u, dup, calls>>

\* fd_close() when another LWP is closing the descriptor: EBADF.
CloseClosing(t) ==
    /\ pc[t] \in {"Close", "Join"}
    /\ ff_lock[fd[t]] = Null
    /\ ff_file[fd[t]] = Null
    /\ ff_refcnt' = [ff_refcnt EXCEPT ![fd[t]] = @ - 1]
    /\ pc' = [x \in LWP |-> IF x = t THEN Back(t)
                            ELSE IF x \in Woken(fd[t]) THEN "CloseCheck"
                            ELSE pc[x]]
    /\ fp' = [fp EXCEPT ![t] = Null]
    /\ UNCHANGED <<fd_used, ff_file, closing, ff_lock, f_count, fd, u, dup, calls>>

\* fd_close(): the LWP takes the file out of the slot ...
CloseTake(t) ==
    /\ pc[t] \in {"Close", "Join"}
    /\ ff_lock[fd[t]] = Null
    /\ ff_file[fd[t]] # Null
    /\ ff_lock' = [ff_lock EXCEPT ![fd[t]] = t]
    /\ fp' = [fp EXCEPT ![t] = ff_file[fd[t]]]
    /\ ff_file' = [ff_file EXCEPT ![fd[t]] = Null]
    /\ Goto(t, "CloseDec")
    /\ UNCHANGED <<fd_used, ff_refcnt, closing, f_count, fd, u, dup, calls>>

\* ... and drops its reference to the slot.
CloseDec(t) ==
    /\ pc[t] = "CloseDec"
    /\ ff_refcnt' = [ff_refcnt EXCEPT ![fd[t]] = @ - 1]
    /\ IF ff_refcnt[fd[t]] = 1
       THEN /\ ff_lock' = [ff_lock EXCEPT ![fd[t]] = Null]
            /\ Goto(t, "CloseUnused")
       ELSE Goto(t, "CloseFlag") /\ UNCHANGED ff_lock
    /\ UNCHANGED <<fd_used, ff_file, closing, f_count, fd, fp, u, dup, calls>>

\* There are others: it tells them, and waits until there are none.
CloseFlag(t) ==
    /\ pc[t] = "CloseFlag"
    /\ closing' = [closing EXCEPT ![fd[t]] = TRUE]
    /\ ff_lock' = [ff_lock EXCEPT ![fd[t]] = Null]
    /\ Goto(t, "CloseCheck")
    /\ UNCHANGED <<fd_used, ff_file, ff_refcnt, f_count, fd, fp, u, dup, calls>>

\* Slip: it waits no more than once.
CloseCheckOnce(t) ==
    /\ pc[t] = "CloseCheck"
    /\ ff_lock[fd[t]] = Null
    /\ ff_lock' = [ff_lock EXCEPT ![fd[t]] = t]
    /\ Goto(t, "CloseClear")
    /\ UNCHANGED <<fd_used, ff_file, ff_refcnt, closing, f_count, fd, fp, u, dup,
                   calls>>

CloseCheck(t) ==
    /\ pc[t] = "CloseCheck"
    /\ ff_lock[fd[t]] = Null
    /\ IF ff_refcnt[fd[t]] # 0
       THEN Goto(t, "CloseSleep") /\ UNCHANGED ff_lock
       ELSE /\ Goto(t, "CloseClear")
            /\ ff_lock' = [ff_lock EXCEPT ![fd[t]] = t]
    /\ UNCHANGED <<fd_used, ff_file, ff_refcnt, closing, f_count, fd, fp, u, dup,
                   calls>>

CloseClear(t) ==
    /\ pc[t] = "CloseClear"
    /\ closing' = [closing EXCEPT ![fd[t]] = FALSE]
    /\ ff_lock' = [ff_lock EXCEPT ![fd[t]] = Null]
    /\ Goto(t, "CloseUnused")
    /\ UNCHANGED <<fd_used, ff_file, ff_refcnt, f_count, fd, fp, u, dup, calls>>

\* fd_unused()
CloseUnused(t) ==
    /\ pc[t] = "CloseUnused"
    /\ fd_used' = fd_used \ {fd[t]}
    /\ Goto(t, "Closef")
    /\ UNCHANGED <<ff_file, ff_refcnt, closing, ff_lock, f_count, fd, fp, u, dup,
                   calls>>

\* closef(): the file is freed with its last reference.
Closef(t) ==
    /\ pc[t] = "Closef"
    /\ f_count' = [f_count EXCEPT ![fp[t]] = @ - 1]
    /\ fp' = [fp EXCEPT ![t] = Null]
    /\ Goto(t, Back(t))
    /\ UNCHANGED <<slots, fd, u, dup, calls>>

-----------------------------------------------------------------------------
\* fd_allocfile(): a slot and a file, which nobody sees yet.
Open(t, d) ==
    /\ d \notin fd_used
    /\ Call(t, d, "Affix")
    /\ \E f \in File :
          /\ f_count[f] = 0 /\ \A x \in LWP : fp[x] # f
          /\ fp' = [fp EXCEPT ![t] = f]
    /\ fd_used' = fd_used \cup {d}
    /\ UNCHANGED <<ff_file, ff_refcnt, closing, ff_lock, f_count, u, dup>>

\* fd_affix()
Affix(t) ==
    /\ pc[t] = "Affix"
    /\ f_count' = [f_count EXCEPT ![fp[t]] = @ + 1]
    /\ ff_file' = [ff_file EXCEPT ![fd[t]] = fp[t]]
    /\ fp' = [fp EXCEPT ![t] = held[t]]
    /\ held' = [held EXCEPT ![t] = Null]
    /\ new' = [new EXCEPT ![t] = Null]
    /\ Goto(t, IF held[t] = Null THEN "Idle" ELSE "Closef")
    /\ UNCHANGED <<fd_used, ff_refcnt, closing, ff_lock, fd, u, calls>>

\* fd_abort()
Abort(t) ==
    /\ pc[t] = "Affix" /\ held[t] = Null
    /\ fd_used' = fd_used \ {fd[t]}
    /\ fp' = [fp EXCEPT ![t] = Null]
    /\ Goto(t, "Idle")
    /\ UNCHANGED <<ff_file, ff_refcnt, closing, ff_lock, f_count, fd, u, dup, calls>>

\* fd_dup2(): the slot is made free first.  (After a failed fd_getfile() the
\* LWP pauses for a tick and looks again.)
Dup2Used(t) ==
    /\ pc[t] = "Dup2"
    /\ new[t] \in fd_used
    /\ fd' = [fd EXCEPT ![t] = new[t]]
    /\ Goto(t, "GetInc")
    /\ UNCHANGED <<slots, f_count, fp, u, dup, calls>>

Dup2Free(t) ==
    /\ pc[t] = "Dup2"
    /\ new[t] \notin fd_used
    /\ fd' = [fd EXCEPT ![t] = new[t]]
    /\ fd_used' = fd_used \cup {new[t]}
    /\ fp' = [fp EXCEPT ![t] = held[t]]
    /\ Goto(t, "Affix")
    /\ UNCHANGED <<ff_file, ff_refcnt, closing, ff_lock, f_count, u, dup,
                   calls>>

\* fd_getfile2(), for procfs or sysctl; the reference is dropped by closef().
GetFile2(t, d) ==
    /\ ff_lock[d] = Null
    /\ ff_file[d] # Null
    /\ Call(t, d, "Closef")
    /\ fp' = [fp EXCEPT ![t] = ff_file[d]]
    /\ f_count' = [f_count EXCEPT ![ff_file[d]] = @ + 1]
    /\ UNCHANGED <<slots, u, dup>>

-----------------------------------------------------------------------------
Init ==
    /\ fd_used = {}
    /\ ff_file = [d \in FD |-> Null]
    /\ ff_refcnt = [d \in FD |-> 0]
    /\ closing = [d \in FD |-> FALSE]
    /\ ff_lock = [d \in FD |-> Null]
    /\ f_count = [f \in File |-> 0]
    /\ pc = [t \in LWP |-> "Idle"]
    /\ fd = [t \in LWP |-> Null]
    /\ fp = [t \in LWP |-> Null]
    /\ u = [t \in LWP |-> 0]
    /\ held = [t \in LWP |-> Null]
    /\ new = [t \in LWP |-> Null]
    /\ calls = [t \in LWP |-> 0]

\* What an LWP does in the kernel once a system call has begun.
Step(t) ==
    \/ GetInc(t) \/ GetRead(t) \/ Use(t) \/ Put(t) \/ PutCAS(t) \/ PutCASFails(t)
    \/ CloseClosing(t) \/ CloseTake(t) \/ CloseDec(t) \/ CloseFlag(t)
    \/ CloseCheck(t) \/ CloseClear(t) \/ CloseUnused(t) \/ Closef(t)
    \/ Affix(t) \/ Abort(t) \/ Dup2Used(t) \/ Dup2Free(t)

Next == \E t \in LWP :
    \/ \E d \in FD : Get(t, d) \/ Open(t, d) \/ GetFile2(t, d)
    \/ Step(t)

Spec == Init /\ [][Next]_vars

FairSpec == Spec /\ \A t \in LWP : WF_vars(Step(t))

-----------------------------------------------------------------------------
Places == {"Idle", "GetInc", "GetRead", "Using", "Put", "PutCAS", "Join", "Close",
           "CloseDec", "CloseFlag", "CloseCheck", "CloseSleep", "CloseClear",
           "CloseUnused", "Closef", "Affix", "Dup2"}

\* Where an LWP has a reference to the slot; where it has the reference that
\* the slot had to the file; where the empty slot is its own; where it has set
\* FR_CLOSING; where there may still be users of the file it took.
Referring == {"GetRead", "Using", "Put", "PutCAS", "Join", "Close", "CloseDec"}
Taken == {"CloseDec", "CloseFlag", "CloseCheck", "CloseSleep", "CloseClear",
          "CloseUnused", "Closef"}
Owning == (Taken \ {"Closef"}) \cup {"Affix"}
Flagged == {"CloseCheck", "CloseSleep", "CloseClear"}
Draining == {"CloseDec", "CloseFlag", "CloseCheck", "CloseSleep"}

\* The references to a slot, and the three kinds of references to a file.
SlotRefs(d) == {t \in LWP : fd[t] = d /\ pc[t] \in Referring}
InSlots(f) == {d \in FD : ff_file[d] = f}
Takers(f) == {t \in LWP : pc[t] \in Taken /\ fp[t] = f}
Dups(f) == {t \in LWP : held[t] = f}

TypeOK ==
    /\ fd_used \subseteq FD
    /\ ff_file \in [FD -> File \cup {Null}]
    /\ ff_refcnt \in [FD -> Nat]
    /\ closing \in [FD -> BOOLEAN]
    /\ ff_lock \in [FD -> LWP \cup {Null}]
    /\ f_count \in [File -> Nat]
    /\ pc \in [LWP -> Places]
    /\ fd \in [LWP -> FD \cup {Null}]
    /\ fp \in [LWP -> File \cup {Null}]
    /\ u \in [LWP -> Nat]
    /\ held \in [LWP -> File \cup {Null}]
    /\ new \in [LWP -> FD \cup {Null}]
    /\ calls \in [LWP -> Nat]

\* What an LWP has where it is.
ControlInv ==
    \A t \in LWP :
        /\ pc[t] # "Idle" => fd[t] \in FD
        /\ held[t] # Null => new[t] \in FD
        /\ pc[t] \in {"Idle", "Using"} => held[t] = Null
        /\ pc[t] = "Dup2" => held[t] # Null
        /\ pc[t] \in Taken \cup {"Using", "Affix"} => fp[t] # Null
        /\ pc[t] = "Affix" /\ held[t] # Null => fp[t] = held[t]

\* A file is in an allocated slot only.  The slot that an LWP closes or is
\* about to fill is allocated and empty, and no other LWP's.
OwnerInv ==
    /\ \A d \in FD : ff_file[d] # Null => d \in fd_used
    /\ \A t \in LWP : pc[t] \in Owning =>
          /\ fd[t] \in fd_used /\ ff_file[fd[t]] = Null
          /\ \A x \in LWP \ {t} : pc[x] \in Owning => fd[x] # fd[t]

\* FR_CLOSING is the mark of a closer that waits.
ClosingInv ==
    /\ \A d \in FD : closing[d] =>
          \E t \in LWP : pc[t] \in Flagged /\ fd[t] = d
    /\ \A t \in LWP : pc[t] \in Flagged => closing[fd[t]]

\* The file that an LWP uses is in the slot that it got it from, or with the
\* LWP that closes this slot and has not seen its users gone.
UsersInv ==
    \A x \in LWP : pc[x] = "Using" =>
        /\ fd[x] \in fd_used
        /\ \/ ff_file[fd[x]] = fp[x]
           \/ \E t \in LWP :
                 pc[t] \in Draining /\ fd[t] = fd[x] /\ fp[t] = fp[x]

\* ff_refcnt and f_count are the numbers of references.
SlotsCounted == \A d \in FD : ff_refcnt[d] = Cardinality(SlotRefs(d))
FilesCounted ==
    \A f \in File :
        f_count[f] = Cardinality(InSlots(f)) + Cardinality(Takers(f))
                   + Cardinality(Dups(f))

\* What every step preserves.
DescInv ==
    /\ TypeOK /\ ControlInv /\ OwnerInv /\ ClosingInv /\ UsersInv
    /\ SlotsCounted /\ FilesCounted

(***************************************************************************)
(* An LWP that uses a file has one that is not freed.  A file is in an     *)
(* allocated slot only that nobody closes, the slot that a closer frees or *)
(* that a file is put into is empty, and a closer that sleeps is told of,  *)
(* so that it is woken.  (The assertions of fd_close(), fd_unused(),       *)
(* fd_used(), fd_affix() and closef().)                                    *)
(***************************************************************************)
RefInv ==
    /\ \A d \in FD :
          /\ ff_file[d] # Null => d \in fd_used /\ ~closing[d]
          /\ ~closing[d] => \A t \in LWP : pc[t] = "CloseSleep" => fd[t] # d
    /\ \A t \in LWP :
          /\ pc[t] = "Using" => f_count[fp[t]] > 0
          /\ pc[t] \in {"CloseUnused", "Affix"} =>
                fd[t] \in fd_used /\ ff_file[fd[t]] = Null

(***************************************************************************)
(* When a closer frees the slot, those that had got the file from it are   *)
(* done with it: fd_close() returns after "all pre-existing references     *)
(* have been drained".                                                     *)
(***************************************************************************)
Drained ==
    \A t, x \in LWP :
        pc[t] = "CloseUnused" /\ fd[x] = fd[t] => pc[x] # "Using"

\* fd_getfile(), fd_putfile(), fd_close() and fd_dup2(): ff_refcnt and f_count
\* are the references that there are (DescInv), and neither a file nor a slot is
\* freed under an LWP that uses it.
DescriptorsSafe == DescInv /\ RefInv /\ Drained

(***************************************************************************)
(* An LWP that gives back a reference does not close a file: "If the file  *)
(* is not open or is being closed then put the reference back".            *)
(***************************************************************************)
PutDoesNotClose ==
    [][\A t \in LWP : pc[t] = "Join" => pc'[t] # "CloseDec"]_vars

(***************************************************************************)
(* A closer that waits for others, closes.                                 *)
(***************************************************************************)
CloseReturns == \A t \in LWP : pc[t] = "CloseFlag" ~> pc[t] \in {"Idle", "Dup2"}
=============================================================================
