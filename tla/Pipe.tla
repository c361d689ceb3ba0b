--------------------------------- MODULE Pipe ---------------------------------
(***************************************************************************)
(* Pipes (sys/kern/sys_pipe.c, built with PIPE_NODIRECT).                  *)
(*                                                                         *)
(* The buffer, the flags and the waiting places are those of the struct    *)
(* pipe of the read end; of the one of the write end only the link to its  *)
(* peer matters.  "lock" is the mutex that both share and "LOCKFL" the     *)
(* long-term lock of pipelock(), which is kept while the mutex is dropped  *)
(* for uiomove().  Under the mutex nobody else sees the intermediate       *)
(* states.  A byte is a tuple of its writer, the writer's call, the size   *)
(* of that call and its place in it; "wrote" and "got" are the bytes put   *)
(* into the buffer and taken out of it, in order.                          *)
(*                                                                         *)
(* An LWP that uses an end holds a reference to its file, so an end is     *)
(* closed only when nobody is in a call on it.  One LWP polls each end.    *)
(*                                                                         *)
(* A definition marked "Slip" is the one that follows it with a plausible  *)
(* mistake: the properties are shown to reject it.                         *)
(***************************************************************************)
EXTENDS Naturals, Sequences, FiniteSets

CONSTANTS
    Writer, Reader, None,
    PIPE_SIZE, BIG_PIPE_SIZE, PIPE_BUF, MINPIPESIZE,
    Lens,         \* the sizes of the calls
    MaxCalls,     \* bound: calls of write() of a writer
    Closable,     \* the ends that may be closed, of {"r", "w"}
    Signals,      \* TRUE: signals reach the LWPs that sleep
    Faults,       \* TRUE: uiomove() may fail
    NonBlock,     \* TRUE: some calls are FNONBLOCK
    Polled        \* the ends that are polled

PipeAssumption ==
    /\ PIPE_SIZE \in Nat /\ BIG_PIPE_SIZE \in Nat /\ PIPE_SIZE < BIG_PIPE_SIZE
    /\ PIPE_BUF \in Nat \ {0} /\ MINPIPESIZE \in Nat \ {0}
    /\ PIPE_BUF + MINPIPESIZE <= PIPE_SIZE
    /\ Lens \subseteq Nat \ {0}
    /\ Closable \subseteq {"r", "w"} /\ Polled \subseteq {"r", "w"}
    /\ Writer \cap Reader = {} /\ None \notin Writer \cup Reader

Users == Writer \cup Reader

VARIABLES
    th,       \* the LWPs: where each is, and its locals
    lock,     \* the owner of pipe_lock
    state,    \* pipe_state
    busy,     \* pipe_busy
    bp,       \* pipe_buffer
    peer,     \* the ends are linked by pipe_peer
    open,     \* the ends that are open
    closer,   \* the LWP in pipeclose() of the read end
    poll,     \* the LWPs that poll the two ends, for POLLIN and POLLOUT
    calls,    \* calls made by each writer
    wrote, got

vars == <<th, lock, state, busy, bp, peer, open, closer, poll, calls,
          wrote, got>>

\* Where: pc, or "cv" asleep and "woken" with cv the condition variable.
Idle == [pc |-> "idle", cv |-> "none", then |-> "none", n |-> 0, resid |-> 0,
         size |-> 0, seg |-> 0, nread |-> 0, ocnt |-> 0, nb |-> FALSE,
         err |-> "none", data |-> <<>>]

Least(a, b) == IF a < b THEN a ELSE b

\* cv_broadcast() of a set of condition variables
Wake(f, cvs) ==
    [t \in Users |-> IF f[t].pc = "cv" /\ f[t].cv \in cvs
                     THEN [f[t] EXCEPT !.pc = "woken"] ELSE f[t]]

WakeCloser(cvs) ==
    IF closer = "asleep" /\ "draincv" \in cvs THEN "woken" ELSE closer

\* selnotify() on the pipe_sel of the read end, where both pollers record
Selnotify == [e \in {"r", "w"} |-> IF poll[e] = "asleep" THEN "again"
                                   ELSE poll[e]]

\* pipeunlock(): the flags it leaves and the condition variables it broadcasts
Unlocked == state \ {"LOCKFL", "LWANT"}
UnlockWakes == IF "LWANT" \in state THEN {"lkcv"} ELSE {}

Sleep(t, cv, then) ==
    [th EXCEPT ![t].pc = "cv", ![t].cv = cv, ![t].then = then]

-----------------------------------------------------------------------------
(* pipelock(), called with the mutex *)

PipeLock(t) ==
    /\ th[t].pc = "plock" /\ lock = t
    /\ IF "LOCKFL" \in state
       THEN /\ state' = state \cup {"LWANT"}
            /\ th' = Sleep(t, "lkcv", th[t].then)
            /\ lock' = None
       ELSE /\ state' = state \cup {"LOCKFL"}
            /\ th' = [th EXCEPT ![t].pc = th[t].then, ![t].cv = "none"]
            /\ UNCHANGED lock
    /\ UNCHANGED <<busy, bp, peer, open, closer, poll, calls, wrote, got>>

\* cv_wait() returns with the mutex; each caller takes LOCKFL next.
Relock(t) ==
    /\ th[t].pc = "woken" /\ lock = None
    /\ lock' = t
    /\ th' = [th EXCEPT ![t].pc = "plock"]
    /\ UNCHANGED <<state, busy, bp, peer, open, closer, poll, calls,
                   wrote, got>>

\* cv_wait_sig() returns an error.  A writer takes LOCKFL again, except when
\* it was waiting for it the first time; the wait of pipelock(wpipe, 0) is not
\* interruptible.
Interrupt(t) ==
    /\ Signals
    /\ th[t].pc \in {"cv", "woken"} /\ lock = None
    /\ th[t].cv = "lkcv" => th[t].then # "wresume"
    /\ lock' = t
    /\ th' = [th EXCEPT ![t].err = "EINTR",
                        ![t].pc = CASE t \in Reader -> "rfail"
                                    [] th[t].cv = "wcv" -> "plock"
                                    [] OTHER -> "wfail"]
    /\ UNCHANGED <<state, busy, bp, peer, open, closer, poll, calls,
                   wrote, got>>

-----------------------------------------------------------------------------
(* pipe_read() *)

ReadStart(t, n, nb) ==
    /\ th[t] = Idle /\ "r" \in open /\ lock = None
    /\ lock' = t
    /\ busy' = busy + 1
    /\ th' = [th EXCEPT ![t] = [Idle EXCEPT
                !.pc = "plock", !.then = "rloop", !.n = n, !.resid = n,
                !.ocnt = bp.cnt, !.nb = nb]]
    /\ UNCHANGED <<state, bp, peer, open, closer, poll, calls, wrote, got>>

ReadSome(t) ==
    /\ th[t].pc = "rloop" /\ th[t].resid > 0 /\ bp.cnt > 0
    /\ lock' = None
    /\ th' = [th EXCEPT ![t].pc = "rcopy",
                ![t].size = Least(Least(bp.size - bp.out, bp.cnt),
                                  th[t].resid)]
    /\ UNCHANGED <<state, busy, bp, peer, open, closer, poll, calls,
                   wrote, got>>

\* uiomove(), without the mutex
ReadCopy(t) ==
    /\ th[t].pc = "rcopy"
    /\ th' = [th EXCEPT ![t].pc = "rdone",
                ![t].resid = @ - th[t].size,
                ![t].data = [i \in 1 .. th[t].size |->
                                bp.buf[bp.out + i - 1]]]
    /\ UNCHANGED <<lock, state, busy, bp, peer, open, closer, poll, calls,
                   wrote, got>>

Fault(t) ==
    /\ Faults
    /\ th[t].pc \in {"rcopy", "wcopy", "wcopy2"} /\ lock = None
    /\ lock' = t
    /\ th' = [th EXCEPT ![t].err = "EFAULT",
                        ![t].pc = IF t \in Reader THEN "rend" ELSE "wend"]
    /\ UNCHANGED <<state, busy, bp, peer, open, closer, poll, calls,
                   wrote, got>>

ReadDoneSlip(t) ==
    /\ th[t].pc = "rdone" /\ lock = None
    /\ lock' = t
    /\ LET out == bp.out + th[t].size
           cnt == bp.cnt - th[t].size
       IN bp' = [bp EXCEPT !.cnt = cnt,
                           !.out = IF cnt = 0 \/ out >= bp.size THEN 0
                                   ELSE out]
    /\ got' = got \o th[t].data
    /\ th' = [th EXCEPT ![t].pc = "rloop", ![t].data = <<>>, ![t].size = 0,
                        ![t].nread = @ + th[t].size]
    /\ UNCHANGED <<state, busy, peer, open, closer, poll, calls, wrote>>

ReadDone(t) ==
    /\ th[t].pc = "rdone" /\ lock = None
    /\ lock' = t
    /\ LET out == bp.out + th[t].size
           cnt == bp.cnt - th[t].size
       IN bp' = [bp EXCEPT !.cnt = cnt,
                           !.in  = IF cnt = 0 THEN 0 ELSE @,
                           !.out = IF cnt = 0 \/ out >= bp.size THEN 0
                                   ELSE out]
    /\ got' = got \o th[t].data
    /\ th' = [th EXCEPT ![t].pc = "rloop", ![t].data = <<>>, ![t].size = 0,
                        ![t].nread = @ + th[t].size]
    /\ UNCHANGED <<state, busy, peer, open, closer, poll, calls, wrote>>

\* The loop ends: all is read, or the buffer is empty and there is no reason
\* to wait.
ReadStop(t) ==
    /\ th[t].pc = "rloop"
    /\ \/ th[t].resid = 0
       \/ bp.cnt = 0 /\ (th[t].nread > 0 \/ "EOF" \in state \/ th[t].nb)
    /\ th' = [th EXCEPT ![t].pc = "rend"]
    /\ UNCHANGED <<lock, state, busy, bp, peer, open, closer, poll, calls,
                   wrote, got>>

ReadWait(t) ==
    /\ th[t].pc = "rloop" /\ th[t].resid > 0
    /\ bp.cnt = 0 /\ th[t].nread = 0 /\ "EOF" \notin state /\ ~th[t].nb
    /\ state' = Unlocked
    /\ poll' = Selnotify
    /\ th' = Wake(Sleep(t, "rcv", "rloop"), UnlockWakes \cup {"wcv"})
    /\ lock' = None
    /\ UNCHANGED <<busy, bp, peer, open, closer, calls, wrote, got>>

\* The end of pipe_read(), with LOCKFL ("rend") or without it ("rfail")
ReadEnd(t) ==
    /\ th[t].pc \in {"rend", "rfail"}
    /\ busy' = busy - 1
    /\ LET unlock == th[t].pc = "rend"
           cvs == (IF unlock THEN UnlockWakes ELSE {})
                  \cup (IF busy = 1 THEN {"draincv"} ELSE {})
                  \cup (IF bp.cnt < MINPIPESIZE THEN {"wcv"} ELSE {})
           flags == IF unlock THEN Unlocked ELSE state
           tell == /\ bp.size - bp.cnt >= PIPE_BUF
                   /\ th[t].ocnt # bp.cnt \/ "SIGNALR" \in state
       IN /\ th' = Wake([th EXCEPT ![t] = Idle], cvs)
          /\ closer' = WakeCloser(cvs)
          /\ state' = IF tell THEN flags \ {"SIGNALR"} ELSE flags
          /\ poll' = IF tell THEN Selnotify ELSE poll
    /\ lock' = None
    /\ UNCHANGED <<bp, peer, open, calls, wrote, got>>

-----------------------------------------------------------------------------
(* pipe_write() *)

WriteStart(t, n, nb) ==
    /\ th[t] = Idle /\ "w" \in open /\ lock = None
    /\ calls[t] < MaxCalls
    /\ calls' = [calls EXCEPT ![t] = @ + 1]
    /\ IF ~peer \/ "EOF" \in state
       THEN UNCHANGED <<lock, busy, th>>
       ELSE /\ lock' = t
            /\ busy' = busy + 1
            /\ th' = [th EXCEPT ![t] = [Idle EXCEPT
                        !.pc = "plock", !.then = "wfirst", !.n = n,
                        !.resid = n, !.nb = nb]]
    /\ UNCHANGED <<state, bp, peer, open, closer, poll, wrote, got>>

\* The first pipelock() was interrupted.
WriteFail(t) ==
    /\ th[t].pc = "wfail"
    /\ busy' = busy - 1
    /\ LET cvs == IF busy = 1 THEN {"draincv"} ELSE {}
       IN closer' = WakeCloser(cvs)
    /\ th' = [th EXCEPT ![t] = Idle]
    /\ lock' = None
    /\ UNCHANGED <<state, bp, peer, open, poll, calls, wrote, got>>

\* pipespace() with a larger buffer, which may fail; nbigpipe is left out.
Grow(t) ==
    /\ th[t].n > PIPE_SIZE
    /\ bp.size <= PIPE_SIZE /\ bp.cnt = 0
    /\ bp' = [bp EXCEPT !.size = BIG_PIPE_SIZE, !.in = 0, !.out = 0, !.cnt = 0]

WriteFirst(t) ==
    /\ th[t].pc = "wfirst"
    /\ Grow(t) \/ UNCHANGED bp
    /\ th' = [th EXCEPT ![t].pc = "wloop"]
    /\ UNCHANGED <<lock, state, busy, peer, open, closer, poll, calls,
                   wrote, got>>

SpaceSlip(t) == bp.size - bp.cnt

\* The space there is for what is left; a small write is not split.
Space(t) ==
    LET space == bp.size - bp.cnt
    IN IF space < th[t].resid /\ th[t].resid <= PIPE_BUF THEN 0 ELSE space

WriteSome(t) ==
    /\ th[t].pc = "wloop" /\ th[t].resid > 0 /\ Space(t) > 0
    /\ LET size == Least(Space(t), th[t].resid)
       IN th' = [th EXCEPT ![t].pc = "wcopy", ![t].size = size,
                           ![t].seg = Least(bp.size - bp.in, size)]
    /\ lock' = None
    /\ UNCHANGED <<state, busy, bp, peer, open, closer, poll, calls,
                   wrote, got>>

\* The i-th byte of the call that t is in
Byte(t, i) == <<t, calls[t], th[t].n, i>>

\* The bytes that a writer moves, from the one after "done" of them
Move(t, at, done, size) ==
    [k \in DOMAIN bp.buf |->
        IF k \in at .. at + size - 1
        THEN Byte(t, th[t].n - th[t].resid + done + k - at + 1)
        ELSE bp.buf[k]]

\* The first segment, and the second at the start of the buffer; without the
\* mutex.  uio_resid is brought up to date in WriteDone.
WriteCopy(t) ==
    /\ th[t].pc = "wcopy"
    /\ bp' = [bp EXCEPT !.buf = Move(t, bp.in, 0, th[t].seg)]
    /\ th' = [th EXCEPT ![t].pc = IF th[t].seg < th[t].size THEN "wcopy2"
                                  ELSE "wdone"]
    /\ UNCHANGED <<lock, state, busy, peer, open, closer, poll, calls,
                   wrote, got>>

WriteCopy2(t) ==
    /\ th[t].pc = "wcopy2"
    /\ bp' = [bp EXCEPT !.buf =
                Move(t, 0, th[t].seg, th[t].size - th[t].seg)]
    /\ th' = [th EXCEPT ![t].pc = "wdone"]
    /\ UNCHANGED <<lock, state, busy, peer, open, closer, poll, calls,
                   wrote, got>>

WriteDoneSlip(t) ==
    /\ th[t].pc = "wdone" /\ lock = None
    /\ lock' = t
    /\ LET in == bp.in + th[t].size
       IN bp' = [bp EXCEPT !.cnt = @ + th[t].size,
                           !.in = IF in > bp.size
                                  THEN th[t].size - th[t].seg ELSE in]
    /\ wrote' = wrote \o [i \in 1 .. th[t].size |->
                            Byte(t, th[t].n - th[t].resid + i)]
    /\ th' = [th EXCEPT ![t].pc = "wloop", ![t].size = 0, ![t].seg = 0,
                        ![t].resid = @ - th[t].size]
    /\ UNCHANGED <<state, busy, peer, open, closer, poll, calls, got>>

WriteDone(t) ==
    /\ th[t].pc = "wdone" /\ lock = None
    /\ lock' = t
    /\ LET in == bp.in + th[t].size
       IN bp' = [bp EXCEPT !.cnt = @ + th[t].size,
                           !.in = IF in >= bp.size
                                  THEN th[t].size - th[t].seg ELSE in]
    /\ wrote' = wrote \o [i \in 1 .. th[t].size |->
                            Byte(t, th[t].n - th[t].resid + i)]
    /\ th' = [th EXCEPT ![t].pc = "wloop", ![t].size = 0, ![t].seg = 0,
                        ![t].resid = @ - th[t].size]
    /\ UNCHANGED <<state, busy, peer, open, closer, poll, calls, got>>

\* No space, and FNONBLOCK
WriteAgain(t) ==
    /\ th[t].pc = "wloop" /\ th[t].resid > 0 /\ Space(t) = 0 /\ th[t].nb
    /\ th' = Wake([th EXCEPT ![t].pc = "wend", ![t].err = "EAGAIN"], {"rcv"})
    /\ UNCHANGED <<lock, state, busy, bp, peer, open, closer, poll, calls,
                   wrote, got>>

WriteWaitSlip(t) ==
    /\ th[t].pc = "wloop" /\ th[t].resid > 0 /\ Space(t) = 0 /\ ~th[t].nb
    /\ state' = Unlocked
    /\ poll' = IF bp.cnt > 0 THEN Selnotify ELSE poll
    /\ th' = Wake(Sleep(t, "wcv", "wresume"), UnlockWakes)
    /\ lock' = None
    /\ UNCHANGED <<busy, bp, peer, open, closer, calls, wrote, got>>

WriteWait(t) ==
    /\ th[t].pc = "wloop" /\ th[t].resid > 0 /\ Space(t) = 0 /\ ~th[t].nb
    /\ state' = Unlocked
    /\ poll' = IF bp.cnt > 0 THEN Selnotify ELSE poll
    /\ th' = Wake(Sleep(t, "wcv", "wresume"), UnlockWakes \cup {"rcv"})
    /\ lock' = None
    /\ UNCHANGED <<busy, bp, peer, open, closer, calls, wrote, got>>

\* LOCKFL is taken again after the wait.
WriteResume(t) ==
    /\ th[t].pc = "wresume"
    /\ th' = [th EXCEPT
         ![t].pc = IF th[t].err # "none" \/ "EOF" \in state THEN "wend"
                   ELSE "wloop",
         ![t].err = IF @ = "none" /\ "EOF" \in state THEN "EPIPE" ELSE @]
    /\ UNCHANGED <<lock, state, busy, bp, peer, open, closer, poll, calls,
                   wrote, got>>

WriteEndSlip(t) ==
    /\ \/ th[t].pc = "wend"
       \/ th[t].pc = "wloop" /\ th[t].resid = 0
    /\ busy' = busy - 1
    /\ LET cvs == UnlockWakes
                  \cup (IF busy = 1 THEN {"draincv"} ELSE {})
                  \cup (IF bp.cnt > 0 THEN {"rcv"} ELSE {})
       IN /\ th' = Wake([th EXCEPT ![t] = Idle], cvs)
          /\ closer' = WakeCloser(cvs)
    /\ state' = Unlocked
    /\ poll' = IF bp.cnt > 0 THEN Selnotify ELSE poll
    /\ lock' = None
    /\ UNCHANGED <<bp, peer, open, calls, wrote, got>>

WriteEnd(t) ==
    /\ \/ th[t].pc = "wend"
       \/ th[t].pc = "wloop" /\ th[t].resid = 0
    /\ busy' = busy - 1
    /\ LET cvs == UnlockWakes
                  \cup (IF busy = 1 THEN {"draincv"} ELSE {})
                  \cup (IF bp.cnt > 0 THEN {"rcv"} ELSE {})
       IN /\ th' = Wake([th EXCEPT ![t] = Idle], cvs)
          /\ closer' = WakeCloser(cvs)
    /\ state' = Unlocked \cup {"SIGNALR"}
    /\ poll' = IF bp.cnt > 0 THEN Selnotify ELSE poll
    /\ lock' = None
    /\ UNCHANGED <<bp, peer, open, calls, wrote, got>>

-----------------------------------------------------------------------------
(* pipe_poll(), for POLLIN on the read end and POLLOUT on the write end *)

Ready(e) ==
    \/ "EOF" \in state \/ ~peer
    \/ e = "r" /\ bp.cnt > 0
    \/ e = "w" /\ bp.size - bp.cnt >= PIPE_BUF

Poll(e) ==
    /\ e \in open \cap Polled /\ lock = None
    /\ poll[e] # "asleep"
    /\ poll' = [poll EXCEPT ![e] = IF Ready(e) THEN "none" ELSE "asleep"]
    /\ UNCHANGED <<th, lock, state, busy, bp, peer, open, closer, calls,
                   wrote, got>>

-----------------------------------------------------------------------------
(* pipeclose() *)

Unused(e) ==
    /\ \A t \in (IF e = "r" THEN Reader ELSE Writer) : th[t] = Idle
    /\ poll[e] = "none"

DrainSlip == peer' = FALSE /\ closer' = "done" /\ UNCHANGED th

\* Waits until nobody is in a call on the pipe, then leaves the peer.
Drain ==
    IF busy > 0
    THEN /\ th' = Wake(th, {"wcv"})
         /\ closer' = "asleep"
         /\ UNCHANGED peer
    ELSE /\ peer' = FALSE
         /\ closer' = "done"
         /\ UNCHANGED th

CloseRead ==
    /\ "r" \in open \cap Closable /\ Unused("r") /\ lock = None
    /\ open' = open \ {"r"}
    /\ state' = state \cup {"EOF"}
    /\ poll' = Selnotify
    /\ Drain
    /\ UNCHANGED <<lock, busy, bp, calls, wrote, got>>

\* cv_wait_sig() returns, woken or by a signal; its result is not looked at.
CloseReadAgain ==
    /\ closer = "woken" \/ (closer = "asleep" /\ Signals)
    /\ lock = None
    /\ Drain
    /\ UNCHANGED <<lock, state, busy, bp, open, poll, calls, wrote, got>>

\* Nobody is in a call on the struct pipe of the write end.
CloseWrite ==
    /\ "w" \in open \cap Closable /\ Unused("w") /\ lock = None
    /\ open' = open \ {"w"}
    /\ IF peer
       THEN /\ peer' = FALSE
            /\ state' = state \cup {"EOF"}
            /\ poll' = Selnotify
            /\ th' = Wake(th, {"rcv"})
       ELSE UNCHANGED <<peer, state, poll, th>>
    /\ UNCHANGED <<lock, busy, bp, closer, calls, wrote, got>>

-----------------------------------------------------------------------------

Init ==
    /\ th = [t \in Users |-> Idle]
    /\ lock = None
    /\ state \in {{}, {"SIGNALR"}}
    /\ busy = 0
    /\ bp = [size |-> PIPE_SIZE, cnt |-> 0, in |-> 0, out |-> 0,
             buf |-> [k \in 0 .. BIG_PIPE_SIZE - 1 |-> <<>>]]
    /\ peer = TRUE
    /\ open = {"r", "w"}
    /\ closer = "none"
    /\ poll = [e \in {"r", "w"} |-> "none"]
    /\ calls = [t \in Writer |-> 0]
    /\ wrote = <<>> /\ got = <<>>

Flags == IF NonBlock THEN BOOLEAN ELSE {FALSE}

ReadStep(t) ==
    \/ \E n \in Lens, nb \in Flags : ReadStart(t, n, nb)
    \/ ReadSome(t) \/ ReadCopy(t) \/ ReadDone(t) \/ ReadStop(t)
    \/ ReadWait(t) \/ ReadEnd(t)

WriteStep(t) ==
    \/ WriteFail(t) \/ WriteFirst(t) \/ WriteSome(t) \/ WriteCopy(t)
    \/ WriteCopy2(t) \/ WriteDone(t) \/ WriteAgain(t) \/ WriteWait(t)
    \/ WriteResume(t) \/ WriteEnd(t)

Step(t) ==
    \/ t \in Reader /\ ReadStep(t)
    \/ t \in Writer /\ WriteStep(t)
    \/ PipeLock(t) \/ Relock(t)

CloseStep == CloseRead \/ CloseReadAgain

Next ==
    \/ \E t \in Users : Step(t) \/ Interrupt(t) \/ Fault(t)
    \/ \E t \in Writer, n \in Lens, nb \in Flags : WriteStart(t, n, nb)
    \/ \E e \in {"r", "w"} : Poll(e)
    \/ CloseStep \/ CloseWrite

Spec == Init /\ [][Next]_vars

\* Everybody who can run does, whoever waits for the mutex gets it in the end,
\* and readers read again as long as their end is open.
Fairness ==
    /\ \A t \in Users : SF_vars(Step(t))
    /\ SF_vars(CloseReadAgain)
    /\ \A e \in {"r", "w"} : SF_vars(poll[e] = "again" /\ Poll(e))

FairSpec == Spec /\ Fairness

-----------------------------------------------------------------------------

TypeOK ==
    /\ lock \in Users \cup {None}
    /\ state \subseteq {"LOCKFL", "LWANT", "EOF", "SIGNALR"}
    /\ busy \in 0 .. Cardinality(Users)
    /\ bp.size \in {PIPE_SIZE, BIG_PIPE_SIZE}
    /\ bp.cnt \in 0 .. bp.size
    /\ bp.in \in 0 .. bp.size - 1 /\ bp.out \in 0 .. bp.size - 1
    /\ closer \in {"none", "asleep", "woken", "done"}
    /\ \A e \in {"r", "w"} : poll[e] \in {"none", "asleep", "again"}

\* What the buffer holds
Contents == [i \in 1 .. bp.cnt |-> bp.buf[(bp.out + i - 1) % bp.size]]

\* Readers get every byte once and in the order in which the writers put them
\* into the buffer, although pipe_read() and pipe_write() drop the mutex while
\* they copy and the buffer wraps around, is reset and is replaced.
InOrder == got \o Contents = wrote

\* The bytes of a write of at most PIPE_BUF bytes stand next to each other in
\* the pipe, and none or all of them are there ("Writes of size <= PIPE_BUF
\* must be atomic").
SmallWritesAtomic ==
    \A i \in 1 .. Len(wrote) :
        LET b == wrote[i]
            first == i - b[4]
        IN b[3] <= PIPE_BUF =>
              /\ first + b[3] <= Len(wrote)
              /\ \A k \in 1 .. b[3] :
                    wrote[first + k] = <<b[1], b[2], b[3], k>>

\* When pipeclose() goes on to free the pipe, no LWP is in a call on it and
\* nobody has LOCKFL (the last assertion of pipeclose()).
FreedUnused ==
    closer = "done" =>
        /\ \A t \in Users : th[t] = Idle
        /\ "LOCKFL" \notin state

\* Nobody runs: everybody is outside the calls or asleep on a condition
\* variable.
Still ==
    /\ lock = None
    /\ \A t \in Users : th[t].pc \in {"idle", "cv"}
    /\ closer # "woken"

\* A write that does not fit into the buffer sleeps, or has ended and nothing
\* was read since.
LargeWrite ==
    /\ \E i \in DOMAIN wrote : wrote[i][3] > PIPE_SIZE
    /\ \/ \E t \in Writer : th[t].pc = "cv" /\ th[t].cv = "wcv"
       \/ "SIGNALR" \in state

\* An LWP does not stay asleep in poll() on an end that has become ready, but
\* for one case.  While a large write sleeps, SIGNALR, which makes the next
\* read tell, is not set yet, and pipe_read() compares the bytes in the buffer
\* with those it saw before it had LOCKFL: if there are as many, an LWP that
\* polls for writing is told only by the first read after that write.
PollersTold ==
    Still => \A e \in {"r", "w"} :
                poll[e] = "asleep" => ~Ready(e) \/ (e = "w" /\ LargeWrite)

\* As long as somebody reads, every write comes to its end.
WriteEnds(t) == th[t] # Idle ~> th[t] = Idle

WritesEnd == \A t \in Writer : WriteEnds(t)

\* pipeclose() of the read end returns: whoever is blocked in a write gives up.
CloseReturns == closer \in {"asleep", "woken"} ~> closer = "done"
=============================================================================
