------------------------------ MODULE MCFiles -------------------------------
(***************************************************************************)
(* Descriptors, advisory locks, select(), pipes and files in flight, one   *)
(* component at a time: "part" names the component that a behaviour is     *)
(* about. FileDesc is the module extended, and stays in its initial state  *)
(* in the behaviours of the others; the variables of the others are None   *)
(* when they are not the part.                                             *)
(***************************************************************************)
EXTENDS FileDesc, TLC

CONSTANTS
    l1, l2, l3, d1, d2, f1, f2, c1, c2, s1, s2, None

VARIABLES
    part,
    head, req, lf_asleep,
    sel_pc, todo, obj, other, ncoll, found, selflag, selcpu, selwait,
    sel_asleep, sel_lwp, sel_cpu, sel_chain, sel_collision, ready, live,
    sel_lock, mask, sc_ncoll, sc_lock,
    th, pipe_lock, state, busy, bp, peer, open, closer, poll, pipe_calls,
    wrote, got,
    fds, unp_f_count, f_msgcount, f_unpcount, f_flag, unp_closing, rcv,
    cantrcv, hand, unp_rights, unp_defer, gc, forgotten, moved

FileDescVars == <<fd_used, ff_file, ff_refcnt, closing, ff_lock, f_count,
                  pc, fd, fp, u, held, new, calls>>
LockFVars == <<head, req, lf_asleep>>
SelectVars == <<sel_pc, todo, obj, other, ncoll, found, selflag, selcpu,
                selwait, sel_asleep, sel_lwp, sel_cpu, sel_chain,
                sel_collision, ready, live, sel_lock, mask, sc_ncoll,
                sc_lock>>
PipeVars == <<th, pipe_lock, state, busy, bp, peer, open, closer, poll,
              pipe_calls, wrote, got>>
UnpGCVars == <<fds, unp_f_count, f_msgcount, f_unpcount, f_flag,
               unp_closing, rcv, cantrcv, hand, unp_rights, unp_defer, gc,
               forgotten, moved>>
partsvars == <<part, FileDescVars, LockFVars, SelectVars, PipeVars,
               UnpGCVars>>

LWPs == {l1, l2, l3}
TwoLWPs == {l1, l2}

\* The list of open files.
TwoFiles == <<s1, s2>>

LF == INSTANCE LockF WITH
    Owner <- {l1, l2, f1}, Flock <- {f1}, Types <- {"R", "W"}, MaxByte <- 0,
    maxlockdepth <- 5, asleep <- lf_asleep
LFBytes == INSTANCE LockF WITH
    Owner <- {l1, f1}, Flock <- {f1}, Types <- {"R", "W"}, MaxByte <- 2,
    maxlockdepth <- 5, asleep <- lf_asleep
LFCircle == INSTANCE LockF WITH
    Owner <- LWPs, Flock <- {}, Types <- {"W"}, MaxByte <- 1,
    maxlockdepth <- 5, asleep <- lf_asleep
SEL == INSTANCE Select WITH
    LWP <- TwoLWPs, Obj <- {f1}, CPU <- {c1, c2}, Destroyable <- {f1},
    Smp <- TRUE, MaxColl <- 1, pc <- sel_pc, asleep <- sel_asleep,
    lock <- sel_lock
SELUP == INSTANCE Select WITH
    LWP <- {l1}, Obj <- {f1, f2}, CPU <- {c1}, Destroyable <- {f1, f2},
    Smp <- FALSE, MaxColl <- 1, pc <- sel_pc, asleep <- sel_asleep,
    lock <- sel_lock
PI == INSTANCE Pipe WITH
    Writer <- TwoLWPs, Reader <- {f1}, Lens <- {2, 4}, MaxCalls <- 1,
    Closable <- {"r", "w"}, Signals <- TRUE, Faults <- TRUE,
    NonBlock <- TRUE, Polled <- {}, PIPE_SIZE <- 3, BIG_PIPE_SIZE <- 5,
    PIPE_BUF <- 2, MINPIPESIZE <- 1, lock <- pipe_lock, calls <- pipe_calls
PIPoll == INSTANCE Pipe WITH
    Writer <- {l1}, Reader <- {f1}, Lens <- {1, 2, 4}, MaxCalls <- 2,
    Closable <- {"w"}, Signals <- TRUE, Faults <- FALSE, NonBlock <- FALSE,
    Polled <- {"r", "w"}, PIPE_SIZE <- 3, BIG_PIPE_SIZE <- 5, PIPE_BUF <- 2,
    MINPIPESIZE <- 1, lock <- pipe_lock, calls <- pipe_calls
UN == INSTANCE UnpGC WITH
    LWP <- TwoLWPs, FileList <- <<s1>>, Stream <- {s1}, Dgram <- {},
    MaxFds <- 1, MaxRights <- 2, MaxQueue <- 1, f_count <- unp_f_count,
    closing <- unp_closing
UNScan == INSTANCE UnpGC WITH
    LWP <- {l1}, FileList <- TwoFiles, Stream <- {s1}, Dgram <- {s2},
    MaxFds <- 1, MaxRights <- 2, MaxQueue <- 1, f_count <- unp_f_count,
    closing <- unp_closing

ASSUME
    /\ LF!LockFAssumption
    /\ LFBytes!LockFAssumption
    /\ LFCircle!LockFAssumption
    /\ SEL!SelectAssumption
    /\ SELUP!SelectAssumption
    /\ PI!PipeAssumption
    /\ PIPoll!PipeAssumption
    /\ UN!UnpGCAssumption
    /\ UNScan!UnpGCAssumption

FileDescOff == Init
LockFOff ==
    /\ head = None /\ req = None /\ lf_asleep = None
SelectOff ==
    /\ sel_pc = None /\ todo = None /\ obj = None /\ other = None
    /\ ncoll = None /\ found = None /\ selflag = None /\ selcpu = None
    /\ selwait = None /\ sel_asleep = None /\ sel_lwp = None
    /\ sel_cpu = None /\ sel_chain = None /\ sel_collision = None
    /\ ready = None /\ live = None /\ sel_lock = None /\ mask = None
    /\ sc_ncoll = None /\ sc_lock = None
PipeOff ==
    /\ th = None /\ pipe_lock = None /\ state = None /\ busy = None
    /\ bp = None /\ peer = None /\ open = None /\ closer = None
    /\ poll = None /\ pipe_calls = None /\ wrote = None /\ got = None
UnpGCOff ==
    /\ fds = None /\ unp_f_count = None /\ f_msgcount = None
    /\ f_unpcount = None /\ f_flag = None /\ unp_closing = None
    /\ rcv = None /\ cantrcv = None /\ hand = None /\ unp_rights = None
    /\ unp_defer = None /\ gc = None /\ forgotten = None /\ moved = None

PartsInit ==
    \/ /\ part = "descriptors" /\ Init
       /\ LockFOff /\ SelectOff /\ PipeOff /\ UnpGCOff
    \/ /\ part = "locks" /\ LF!Init
       /\ FileDescOff /\ SelectOff /\ PipeOff /\ UnpGCOff
    \/ /\ part = "locks on ranges" /\ LFBytes!Init
       /\ FileDescOff /\ SelectOff /\ PipeOff /\ UnpGCOff
    \/ /\ part = "waits for locks" /\ LFCircle!Init
       /\ FileDescOff /\ SelectOff /\ PipeOff /\ UnpGCOff
    \/ /\ part = "select" /\ SEL!Init
       /\ FileDescOff /\ LockFOff /\ PipeOff /\ UnpGCOff
    \/ /\ part = "select, uniprocessor" /\ SELUP!Init
       /\ FileDescOff /\ LockFOff /\ PipeOff /\ UnpGCOff
    \/ /\ part = "pipe" /\ PI!Init
       /\ FileDescOff /\ LockFOff /\ SelectOff /\ UnpGCOff
    \/ /\ part = "pipe, polled" /\ PIPoll!Init
       /\ FileDescOff /\ LockFOff /\ SelectOff /\ UnpGCOff
    \/ /\ part = "files in flight" /\ UN!Init
       /\ FileDescOff /\ LockFOff /\ SelectOff /\ PipeOff
    \/ /\ part = "files in flight, scanned" /\ UNScan!Init
       /\ FileDescOff /\ LockFOff /\ SelectOff /\ PipeOff


PartsNext ==
    \/ /\ part = "descriptors" /\ Next
       /\ UNCHANGED <<part, LockFVars, SelectVars, PipeVars, UnpGCVars>>
    \/ /\ part = "locks" /\ LF!Next
       /\ UNCHANGED <<part, FileDescVars, SelectVars, PipeVars, UnpGCVars>>
    \/ /\ part = "locks on ranges" /\ LFBytes!Next
       /\ UNCHANGED <<part, FileDescVars, SelectVars, PipeVars, UnpGCVars>>
    \/ /\ part = "waits for locks" /\ LFCircle!Next
       /\ UNCHANGED <<part, FileDescVars, SelectVars, PipeVars, UnpGCVars>>
    \/ /\ part = "select" /\ SEL!Next
       /\ UNCHANGED <<part, FileDescVars, LockFVars, PipeVars, UnpGCVars>>
    \/ /\ part = "select, uniprocessor" /\ SELUP!Next
       /\ UNCHANGED <<part, FileDescVars, LockFVars, PipeVars, UnpGCVars>>
    \/ /\ part = "pipe" /\ PI!Next
       /\ UNCHANGED <<part, FileDescVars, LockFVars, SelectVars, UnpGCVars>>
    \/ /\ part = "pipe, polled" /\ PIPoll!Next
       /\ UNCHANGED <<part, FileDescVars, LockFVars, SelectVars, UnpGCVars>>
    \/ /\ part = "files in flight" /\ UN!Next
       /\ UNCHANGED <<part, FileDescVars, LockFVars, SelectVars, PipeVars>>
    \/ /\ part = "files in flight, scanned" /\ UNScan!Next
       /\ UNCHANGED <<part, FileDescVars, LockFVars, SelectVars, PipeVars>>

PartsSpec == PartsInit /\ [][PartsNext]_partsvars

\* lf_setlock() and lf_clearlock(): locks of different owners that are both
\* held do not conflict and a sleeper waits on the list of a lock that
\* blocks it (this with locks on one byte); for every byte the list says
\* what the calls so far have locked there, whatever they split, shorten or
\* join; and owners do not wait for each other in a circle.
LockFSafe ==
    /\ part = "locks" => LF!ListInv
    /\ part = "locks on ranges" => LFBytes!BytesExact
    /\ part = "waits for locks" => LFCircle!NoCircle

\* selcommon(), selrecord() and selnotify(): no LWP sleeps in select()
\* although an event it polls for has happened since it looked, on one CPU
\* or two; and on one CPU what an object and an LWP have recorded of each
\* other agrees.
SelectSafe ==
    /\ part = "select" => SEL!NoEventLost
    /\ part = "select, uniprocessor" => SELUP!NoEventLost
    /\ part = "select, uniprocessor" => SELUP!RecordsExact

\* pipe_read(), pipe_write() and pipe_close(): bytes are read in the order
\* written, a write of up to PIPE_BUF bytes is not split, a pipe is not used
\* after it is freed, and a poller is told when the pipe becomes ready, or
\* by the first read after a write larger than the buffer if it polls for
\* writing during that write.
PipeSafe ==
    /\ part = "pipe" => PI!InOrder
    /\ part = "pipe" => PI!SmallWritesAtomic
    /\ part = "pipe" => PI!FreedUnused
    /\ part = "pipe, polled" => PIPoll!PollersTold

\* unp_internalize(), unp_externalize() and unp_gc(): f_count and f_msgcount
\* are the references that exist and unp_rights counts the files in flight,
\* messages that were forgotten when the peer of a stream socket went away
\* included. A collection during which no message is in the hands of an LWP
\* flushes only sockets that no descriptor leads to, although files are
\* opened and closed meanwhile.
UnpGCSafe ==
    /\ part = "files in flight" => UN!CountsExact
    /\ part = "files in flight" => UN!FilesInFlight
    /\ part = "files in flight, scanned" => UNScan!CountsExact
    /\ part = "files in flight, scanned" => UNScan!FilesInFlight
    /\ part = "files in flight, scanned" => UNScan!SweepsOnlyGarbage

\* The LWPs are interchangeable, and so are the descriptors and the files.
Symmetry ==
    Permutations(LWPs) \cup Permutations({d1, d2}) \cup Permutations({f1, f2})

=============================================================================
