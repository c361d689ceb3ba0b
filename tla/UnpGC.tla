-------------------------------- MODULE UnpGC --------------------------------
(***************************************************************************)
(* Descriptors in flight over UNIX domain sockets and the thread that      *)
(* collects those that nobody can receive any more (sys/kern/              *)
(* uipc_usrreq.c): unp_internalize() and unp_externalize() in the sender   *)
(* and the receiver, unp_thread() with its mark and sweep passes, and the  *)
(* closes that are deferred to it.                                         *)
(*                                                                         *)
(* A file is a file_t; the list of all files is fixed, for a file_t stays  *)
(* on it when it is closed and used again.  A message carries one file.    *)
(* The receive buffer of a socket stands for that of the connections which *)
(* wait to be accepted on it, too.  A step is a stretch in which the       *)
(* filelist_lock, or the lock of a socket or a file, is held throughout;   *)
(* only unp_discard_now(), which takes three, is one step when the thread  *)
(* itself does it: nobody else compares f_count and f_msgcount.  Every     *)
(* descriptor of the system is in the one table "fds".                     *)
(*                                                                         *)
(* A definition marked "Slip" is the one that follows it with a plausible  *)
(* mistake: the properties are shown to reject it.                         *)
(***************************************************************************)
EXTENDS Integers, Sequences, FiniteSets, FiniteSetsExt, SequencesExt

CONSTANTS
    LWP,       \* the senders and receivers
    FileList,  \* the file_t structures, in the order of the list
    Stream,    \* those used for stream sockets,
    Dgram,     \* and for datagram sockets; the others hold no files
    MaxFds,    \* the descriptors a file may have
    MaxRights, \* the limit to files in flight
    MaxQueue   \* the room in a receive buffer

Files == ToSet(FileList)
Sockets == Stream \cup Dgram

UnpGCAssumption ==
    /\ Sockets \subseteq Files
    /\ IsInjective(FileList)

VARIABLES
    fds,         \* per file, the descriptors for it
    f_count, f_msgcount,
    f_unpcount,  \* not 0: the file is on the list unp_thread_discard
    f_flag,      \* per file, those of "SCAN", "MARK", "DEFER" that are set
    closing,     \* per file, who is in fo_close() for it, or "none"
    rcv,         \* per socket, the files in its receive buffer
    cantrcv,     \* the sockets that were flushed
    hand,        \* per LWP, the message it is sending or receiving
    unp_rights, unp_defer,
    gc,          \* where unp_thread() is
    forgotten,   \* history: per file, the messages that were never freed
    moved        \* history: has a message been in the hands of an LWP while
                 \* the collector was marking and sweeping?

hist == <<forgotten, moved>>
vars == <<fds, f_count, f_msgcount, f_unpcount, f_flag, closing, rcv, cantrcv,
          hand, unp_rights, unp_defer, gc, forgotten, moved>>

NoHand == [op |-> "none"]
TooMany == [op |-> "over"]
Go(p) == gc' = [gc EXCEPT !.pc = p]

\* A failed KASSERT() stops the machine.
Running == gc.pc # "panic"

IsOpen(f) == f_count[f] > 0

-----------------------------------------------------------------------------
(* Parts of operations. *)

\* closef() by "who", which takes f_count to c: who drops the last reference
\* goes on to close the file.
closef(f, c, who) ==
    /\ f_count' = [f_count EXCEPT ![f] = c]
    /\ closing' = IF c = 0 THEN [closing EXCEPT ![f] = who] ELSE closing

\* unp_discard_later() of every file of a sequence.
unp_discard_later(s) ==
    f_unpcount' = [f \in Files |->
        f_unpcount[f] + Cardinality({i \in DOMAIN s : s[i] = f})]

\* Slip: the file is still counted as in flight.
unp_discard_now_counted(f, who) ==
    /\ f_msgcount' = [f_msgcount EXCEPT ![f] = @ - 1]
    /\ closef(f, f_count[f] - 1, who)
    /\ UNCHANGED unp_rights

\* unp_discard_now()
unp_discard_now(f, who) ==
    /\ f_msgcount' = [f_msgcount EXCEPT ![f] = @ - 1]
    /\ unp_rights' = unp_rights - 1
    /\ closef(f, f_count[f] - 1, who)

\* unp_thread_kick(): cv_signal() of the collector.
Kicked(discarded) ==
    gc' = IF /\ gc.pc \in {"wait", "timedwait"}
             /\ discarded \/ unp_rights # 0
          THEN [gc EXCEPT !.pc = "discard"] ELSE gc

-----------------------------------------------------------------------------
(* LWPs. *)

\* Is the collector between the clearing of the marks and its last sweep?
Collecting == gc.pc \notin {"top", "wait", "timedwait", "discard", "now"}

\* The states of "hand" in which a message is in neither a buffer nor the list.
InTransit == {"send", "recv", "affix", "msgcount", "rights", "closef"}

\* An LWP takes a message into its hands.
TakesUp(l, message) ==
    /\ hand' = [hand EXCEPT ![l] = message]
    /\ moved' = (moved \/ Collecting)

GoOn(l, op) == hand' = [hand EXCEPT ![l].op = op]

\* A socket or another file is opened in a file_t that is free.
Open(f) ==
    /\ Running
    /\ ~IsOpen(f) /\ closing[f] = "none"
    /\ fds' = [fds EXCEPT ![f] = 1]
    /\ f_count' = [f_count EXCEPT ![f] = 1]
    /\ f_flag' = [f_flag EXCEPT ![f] = @ \ {"SCAN"}]
    /\ cantrcv' = cantrcv \ {f}
    /\ UNCHANGED <<f_msgcount, f_unpcount, closing, rcv, hand, unp_rights,
                   unp_defer, gc, hist>>

Close(f) ==
    /\ Running
    /\ fds[f] > 0
    /\ fds' = [fds EXCEPT ![f] = @ - 1]
    /\ closef(f, f_count[f] - 1, "lwp")
    /\ UNCHANGED <<f_msgcount, f_unpcount, f_flag, rcv, cantrcv, hand,
                   unp_rights, unp_defer, gc, hist>>

\* fo_close(): for a socket that is soclose() and unp_detach(), which leaves
\* the files in the receive buffer to the collector and kicks it.
FoClose(f) ==
    /\ Running
    /\ closing[f] # "none"
    /\ closing' = [closing EXCEPT ![f] = "none"]
    /\ IF f \in Sockets
       THEN /\ unp_discard_later(rcv[f])
            /\ rcv' = [rcv EXCEPT ![f] = <<>>]
            /\ IF unp_rights # 0
               THEN Kicked(rcv[f] # <<>>) ELSE UNCHANGED gc
       ELSE UNCHANGED <<f_unpcount, rcv, gc>>
    /\ UNCHANGED <<fds, f_count, f_msgcount, f_flag, cantrcv, hand, unp_rights,
                   unp_defer, hist>>

\* PRU_SEND: unp_internalize(), with the sending socket unlocked.  The file is
\* counted as in flight ...
SendCount(l, f, s) ==
    /\ Running
    /\ hand[l] = NoHand
    /\ s \in Stream => IsOpen(s)
    /\ fds[f] > 0
    /\ unp_rights' = unp_rights + 1
    /\ hand' = [hand EXCEPT ![l] =
          IF unp_rights < MaxRights THEN [op |-> "count", f |-> f, s |-> s]
          ELSE TooMany]
    /\ UNCHANGED <<fds, f_count, f_msgcount, f_unpcount, f_flag, closing, rcv,
                   cantrcv, unp_defer, gc, hist>>

\* ... but there are too many, or the descriptor has been closed ...
SendBacksOut(l) ==
    /\ Running
    /\ \/ hand[l] = TooMany
       \/ hand[l].op = "count" /\ fds[hand[l].f] = 0
    /\ unp_rights' = unp_rights - 1
    /\ hand' = [hand EXCEPT ![l] = NoHand]
    /\ UNCHANGED <<fds, f_count, f_msgcount, f_unpcount, f_flag, closing, rcv,
                   cantrcv, unp_defer, gc, hist>>

\* Slip: a message in flight is not counted as a reference to the file.
SendInternalizeUncounted(l) ==
    LET f == hand[l].f IN
    /\ Running
    /\ hand[l].op = "count" /\ fds[f] > 0
    /\ f_count' = [f_count EXCEPT ![f] = @ + 1]
    /\ TakesUp(l, [hand[l] EXCEPT !.op = "send"])
    /\ UNCHANGED <<fds, f_msgcount, f_unpcount, f_flag, closing, rcv, cantrcv,
                   unp_rights, unp_defer, gc, forgotten>>

\* ... or the message gets a reference to the file, which fd_getfile() keeps
\* the descriptor from dropping meanwhile ...
SendInternalize(l) ==
    LET f == hand[l].f IN
    /\ Running
    /\ hand[l].op = "count" /\ fds[f] > 0
    /\ f_count' = [f_count EXCEPT ![f] = @ + 1]
    /\ f_msgcount' = [f_msgcount EXCEPT ![f] = @ + 1]
    /\ TakesUp(l, [hand[l] EXCEPT !.op = "send"])
    /\ UNCHANGED <<fds, f_unpcount, f_flag, closing, rcv, cantrcv, unp_rights,
                   unp_defer, gc, forgotten>>

Room(s) == IsOpen(s) /\ s \notin cantrcv /\ Len(rcv[s]) < MaxQueue

\* ... then the message is appended to the receive buffer of the peer ...
SendAppend(l) ==
    /\ Running
    /\ hand[l].op = "send"
    /\ Room(hand[l].s)
    /\ rcv' = [rcv EXCEPT ![hand[l].s] = Append(@, hand[l].f)]
    /\ hand' = [hand EXCEPT ![l] = NoHand]
    /\ UNCHANGED <<fds, f_count, f_msgcount, f_unpcount, f_flag, closing,
                   cantrcv, unp_rights, unp_defer, gc, hist>>

\* ... or disposed of.  When the peer of a stream socket has gone in the
\* meantime it is only forgotten.
SendFails(l) ==
    LET f == hand[l].f
        gone == hand[l].s \in Stream /\ ~IsOpen(hand[l].s)
    IN
    /\ Running
    /\ hand[l].op = "send"
    /\ ~Room(hand[l].s)
    /\ IF gone THEN UNCHANGED f_unpcount ELSE unp_discard_later(<<f>>)
    /\ forgotten' = IF gone THEN [forgotten EXCEPT ![f] = @ + 1] ELSE forgotten
    /\ hand' = [hand EXCEPT ![l] = NoHand]
    /\ UNCHANGED <<fds, f_count, f_msgcount, f_flag, closing, rcv, cantrcv,
                   unp_rights, unp_defer, gc, moved>>

\* soreceive() takes a message from the receive buffer and unlocks the
\* socket ...
RecvTake(l, s) ==
    /\ Running
    /\ hand[l] = NoHand
    /\ fds[s] > 0 /\ rcv[s] # <<>>
    /\ TakesUp(l, [op |-> "recv", f |-> Head(rcv[s])])
    /\ rcv' = [rcv EXCEPT ![s] = Tail(@)]
    /\ UNCHANGED <<fds, f_count, f_msgcount, f_unpcount, f_flag, closing,
                   cantrcv, unp_rights, unp_defer, gc, forgotten>>

\* The descriptors that unp_externalize() has allocated for f.
Allocated(f) == {l \in LWP : hand[l].op = "affix" /\ hand[l].f = f}

\* ... unp_externalize() has a descriptor: the file is no longer in flight ...
RecvExternalize(l) ==
    LET f == hand[l].f IN
    /\ Running
    /\ hand[l].op = "recv"
    /\ fds[f] + Cardinality(Allocated(f)) < MaxFds
    /\ unp_rights' = unp_rights - 1
    /\ GoOn(l, "affix")
    /\ UNCHANGED <<fds, f_count, f_msgcount, f_unpcount, f_flag, closing, rcv,
                   cantrcv, unp_defer, gc, hist>>

\* ... fd_affix() adds a reference ...
RecvAffix(l) ==
    LET f == hand[l].f IN
    /\ Running
    /\ hand[l].op = "affix"
    /\ fds' = [fds EXCEPT ![f] = @ + 1]
    /\ f_count' = [f_count EXCEPT ![f] = @ + 1]
    /\ GoOn(l, "msgcount")
    /\ UNCHANGED <<f_msgcount, f_unpcount, f_flag, closing, rcv, cantrcv,
                   unp_rights, unp_defer, gc, hist>>

RecvMsgcount(l) ==
    /\ Running
    /\ hand[l].op = "msgcount"
    /\ f_msgcount' = [f_msgcount EXCEPT ![hand[l].f] = @ - 1]
    /\ GoOn(l, "closef")
    /\ UNCHANGED <<fds, f_count, f_unpcount, f_flag, closing, rcv, cantrcv,
                   unp_rights, unp_defer, gc, hist>>

\* ... and closef() drops that of the message.
RecvClosef(l) ==
    /\ Running
    /\ hand[l].op = "closef"
    /\ closef(hand[l].f, f_count[hand[l].f] - 1, "lwp")
    /\ hand' = [hand EXCEPT ![l] = NoHand]
    /\ UNCHANGED <<fds, f_msgcount, f_unpcount, f_flag, rcv, cantrcv,
                   unp_rights, unp_defer, gc, hist>>

\* Or there is no descriptor to be had, or the receiver may not see the file:
\* unp_discard_now(), which ends in closef(), too.
RecvRefused(l) ==
    /\ Running
    /\ hand[l].op = "recv"
    /\ f_msgcount' = [f_msgcount EXCEPT ![hand[l].f] = @ - 1]
    /\ GoOn(l, "rights")
    /\ UNCHANGED <<fds, f_count, f_unpcount, f_flag, closing, rcv, cantrcv,
                   unp_rights, unp_defer, gc, hist>>

RecvRights(l) ==
    /\ Running
    /\ hand[l].op = "rights"
    /\ unp_rights' = unp_rights - 1
    /\ GoOn(l, "closef")
    /\ UNCHANGED <<fds, f_count, f_msgcount, f_unpcount, f_flag, closing, rcv,
                   cantrcv, unp_defer, gc, hist>>

\* Or it was read() and takes no control messages.
RecvDisposes(l) ==
    /\ Running
    /\ hand[l].op = "recv"
    /\ unp_discard_later(<<hand[l].f>>)
    /\ hand' = [hand EXCEPT ![l] = NoHand]
    /\ UNCHANGED <<fds, f_count, f_msgcount, f_flag, closing, rcv, cantrcv,
                   unp_rights, unp_defer, gc, hist>>

\* unp_detach() of a socket that never carried a file kicks the collector.
OtherDetach ==
    /\ Running
    /\ unp_rights # 0
    /\ Kicked(\E f \in Files : f_unpcount[f] # 0)
    /\ gc' # gc
    /\ UNCHANGED <<fds, f_count, f_msgcount, f_unpcount, f_flag, closing, rcv,
                   cantrcv, hand, unp_rights, unp_defer, hist>>

-----------------------------------------------------------------------------
(* unp_thread() and unp_gc(). *)

\* The file the thread is at.
Cursor == FileList[gc.i]

\* The thread closes a file itself before it goes on.
GCRuns(p) == gc.pc = p /\ \A f \in Files : closing[f] # "gc"

\* unp_thread(): with nothing to discard it waits, for a second when there
\* are files in flight.
Rest ==
    /\ GCRuns("top")
    /\ Go(IF \E f \in Files : f_unpcount[f] # 0 THEN "discard"
          ELSE IF unp_rights # 0 THEN "timedwait" ELSE "wait")
    /\ UNCHANGED <<fds, f_count, f_msgcount, f_unpcount, f_flag, closing, rcv,
                   cantrcv, hand, unp_rights, unp_defer, hist>>

Timeout ==
    /\ GCRuns("timedwait")
    /\ Go("discard")
    /\ UNCHANGED <<fds, f_count, f_msgcount, f_unpcount, f_flag, closing, rcv,
                   cantrcv, hand, unp_rights, unp_defer, hist>>

\* The deferred closes: a file is taken off the list ...
Discard(i) ==
    LET f == FileList[i] IN
    /\ GCRuns("discard")
    /\ f_unpcount[f] # 0
    /\ gc' = [gc EXCEPT !.pc = "now", !.i = i, !.n = f_unpcount[f]]
    /\ f_unpcount' = [f_unpcount EXCEPT ![f] = 0]
    /\ UNCHANGED <<fds, f_count, f_msgcount, f_flag, closing, rcv, cantrcv,
                   hand, unp_rights, unp_defer, hist>>

\* ... and, with the list unlocked, closed as often as it was put there.
DiscardNow ==
    /\ GCRuns("now")
    /\ unp_discard_now(Cursor, "gc")
    /\ gc' = [gc EXCEPT !.n = @ - 1,
                        !.pc = IF gc.n = 1 THEN "discard" ELSE "now"]
    /\ UNCHANGED <<fds, f_unpcount, f_flag, rcv, cantrcv, hand, unp_defer,
                   hist>>

\* The marks are cleared.
ClearMarks ==
    /\ GCRuns("discard")
    /\ \A f \in Files : f_unpcount[f] = 0
    /\ unp_defer' = 0
    /\ moved' = \E l \in LWP : hand[l].op \in InTransit
    /\ f_flag' = [f \in Files |-> {"SCAN"}]
    /\ gc' = [gc EXCEPT !.pc = "mark", !.i = 1, !.didwork = FALSE]
    /\ UNCHANGED <<fds, f_count, f_msgcount, f_unpcount, closing, rcv,
                   cantrcv, hand, unp_rights, forgotten>>

\* Slip: a file that is only in flight is a root, too.
SkipNotInFlight(f) ==
    \/ f_count[f] = 0
    \/ "MARK" \in f_flag[f]
    \/ f_unpcount[f] # 0

\* A file is no root if it is only referenced by messages.
Skip(f) ==
    \/ f_count[f] = 0
    \/ "MARK" \in f_flag[f]
    \/ f_count[f] = f_msgcount[f]
    \/ f_unpcount[f] # 0

NextFile == [gc EXCEPT !.i = @ + 1, !.pc = IF @ = "unmark" THEN "mark" ELSE @]

\* The mark pass, for the next file of the list.
Mark ==
    LET f == Cursor
        deferred == "DEFER" \in f_flag[f]
    IN
    /\ GCRuns("mark")
    /\ gc.i <= Len(FileList)
    /\ unp_defer' = IF deferred THEN unp_defer - 1 ELSE unp_defer
    /\ IF ~deferred /\ Skip(f)
       THEN /\ gc' = NextFile
            /\ UNCHANGED <<f_flag, f_count>>
       ELSE /\ f_flag' = [f_flag EXCEPT ![f] = (@ \ {"DEFER"}) \cup {"MARK"}]
            /\ IF f_count[f] = 0
               THEN Go("panic") /\ UNCHANGED f_count
               ELSE IF f \in Sockets
               THEN /\ f_count' = [f_count EXCEPT ![f] = @ + 1]
                    /\ gc' = [gc EXCEPT !.pc = "scan", !.didwork = TRUE]
               ELSE gc' = NextFile /\ UNCHANGED f_count
    /\ UNCHANGED <<fds, f_msgcount, f_unpcount, closing, rcv, cantrcv, hand,
                   unp_rights, hist>>

\* Slip: sockets are marked, and what is in them not looked at.
NewMarkShallow(f) == IF f_flag[f] \cap {"MARK", "DEFER"} # {} THEN f_flag[f]
                     ELSE f_flag[f] \cup {"MARK"}

\* unp_mark(): a socket is left to the next pass.
NewMark(f) == IF f_flag[f] \cap {"MARK", "DEFER"} # {} THEN f_flag[f]
              ELSE f_flag[f] \cup {IF f \in Sockets THEN "DEFER" ELSE "MARK"}

\* unp_scan() with unp_mark(), with the socket locked and the list not.
Scan ==
    LET held == ToSet(rcv[Cursor])
        flag == [f \in Files |-> IF f \in held THEN NewMark(f) ELSE f_flag[f]]
    IN
    /\ GCRuns("scan")
    /\ f_flag' = flag
    /\ unp_defer' = unp_defer + Cardinality({f \in Files :
                       "DEFER" \in flag[f] \ f_flag[f]})
    /\ Go("unmark")
    /\ UNCHANGED <<fds, f_count, f_msgcount, f_unpcount, closing, rcv, cantrcv,
                   hand, unp_rights, hist>>

Scanned ==
    /\ GCRuns("unmark")
    /\ closef(Cursor, f_count[Cursor] - 1, "gc")
    /\ gc' = NextFile
    /\ UNCHANGED <<fds, f_msgcount, f_unpcount, f_flag, rcv, cantrcv, hand,
                   unp_rights, unp_defer, hist>>

\* Slip: one pass over the files will do.
AgainNever == FALSE

Again == unp_defer # 0 /\ gc.didwork

MarkEnds ==
    /\ GCRuns("mark")
    /\ gc.i > Len(FileList)
    /\ gc' = [gc EXCEPT !.i = 1, !.didwork = FALSE,
                        !.pc = IF Again THEN "mark" ELSE "sweep"]
    /\ UNCHANGED <<fds, f_count, f_msgcount, f_unpcount, f_flag, closing, rcv,
                   cantrcv, hand, unp_rights, unp_defer, hist>>

Garbage(f) ==
    /\ f \in Sockets
    /\ f_count[f] # 0 /\ f_unpcount[f] = 0
    /\ f_count[f] = f_msgcount[f]
    /\ f_flag[f] \cap {"MARK", "SCAN"} = {"SCAN"}

\* The sweep pass, for the next file of the list.
Sweep ==
    /\ GCRuns("sweep")
    /\ gc.i <= Len(FileList)
    /\ IF Garbage(Cursor)
       THEN /\ f_count' = [f_count EXCEPT ![Cursor] = @ + 1]
            /\ Go("flush")
       ELSE gc' = NextFile /\ UNCHANGED f_count
    /\ UNCHANGED <<fds, f_msgcount, f_unpcount, f_flag, closing, rcv, cantrcv,
                   hand, unp_rights, unp_defer, hist>>

\* sorflush()
Flush ==
    /\ GCRuns("flush")
    /\ cantrcv' = cantrcv \cup {Cursor}
    /\ unp_discard_later(rcv[Cursor])
    /\ rcv' = [rcv EXCEPT ![Cursor] = <<>>]
    /\ Go("flushed")
    /\ UNCHANGED <<fds, f_count, f_msgcount, f_flag, closing, hand, unp_rights,
                   unp_defer, hist>>

Flushed ==
    /\ GCRuns("flushed")
    /\ closef(Cursor, f_count[Cursor] - 1, "gc")
    /\ gc' = [gc EXCEPT !.pc = "sweep", !.i = @ + 1]
    /\ UNCHANGED <<fds, f_msgcount, f_unpcount, f_flag, rcv, cantrcv, hand,
                   unp_rights, unp_defer, hist>>

SweepEnds ==
    /\ GCRuns("sweep")
    /\ gc.i > Len(FileList)
    /\ Go("top")
    /\ moved' = FALSE
    /\ UNCHANGED <<fds, f_count, f_msgcount, f_unpcount, f_flag, closing, rcv,
                   cantrcv, hand, unp_rights, unp_defer, forgotten>>

unp_gc ==
    \/ Rest \/ Timeout \/ DiscardNow \/ ClearMarks \/ Mark \/ Scan \/ Scanned
    \/ MarkEnds \/ Sweep \/ Flush \/ Flushed \/ SweepEnds
    \/ \E i \in DOMAIN FileList : Discard(i)

-----------------------------------------------------------------------------
Init ==
    /\ fds = [f \in Files |-> 0]
    /\ f_count = fds /\ f_msgcount = fds /\ f_unpcount = fds
    /\ f_flag = [f \in Files |-> {}]
    /\ closing = [f \in Files |-> "none"]
    /\ rcv = [s \in Sockets |-> <<>>]
    /\ cantrcv = {}
    /\ hand = [l \in LWP |-> NoHand]
    /\ forgotten = fds /\ moved = FALSE
    /\ unp_rights = 0 /\ unp_defer = 0
    /\ gc = [pc |-> "top", n |-> 0, i |-> 1, didwork |-> FALSE]

Finish(l) ==
    \/ SendBacksOut(l) \/ SendInternalize(l) \/ SendAppend(l) \/ SendFails(l)
    \/ RecvExternalize(l) \/ RecvAffix(l) \/ RecvMsgcount(l) \/ RecvClosef(l)
    \/ RecvRefused(l) \/ RecvRights(l) \/ RecvDisposes(l)

Next ==
    \/ \E f \in Files : Open(f) \/ Close(f) \/ FoClose(f)
    \/ \E l \in LWP, s \in Sockets :
          \/ RecvTake(l, s)
          \/ \E f \in Files : SendCount(l, f, s)
    \/ \E l \in LWP : Finish(l)
    \/ OtherDetach
    \/ unp_gc

Spec == Init /\ [][Next]_vars

Send == \E l \in LWP, f \in Files, s \in Sockets : SendCount(l, f, s)

\* Whoever is in the middle of an operation goes on, and so does the thread
\* unless it waits to be kicked.  At some time no more files are sent: the
\* list of deferred closes is last in, first out, and need not come to an
\* end otherwise.
Fairness ==
    /\ <>[][~Send]_vars
    /\ WF_vars(unp_gc)
    /\ \A f \in Files : WF_vars(FoClose(f))
    /\ \A l \in LWP : WF_vars(Finish(l))

FairSpec == Spec /\ Fairness

\* Sockets of the UNIX domain keep being closed somewhere.
BusySpec == FairSpec /\ WF_vars(OtherDetach)

-----------------------------------------------------------------------------
(* What is true of it. *)

\* The messages for file f: in receive buffers, in hand, left to the thread,
\* of which it has some in hand itself, or forgotten.
InBuffers(f) ==
    MapThenSumSet(LAMBDA s : Cardinality({i \in DOMAIN rcv[s] :
                                             rcv[s][i] = f}), Sockets)
Hands(ops, f) ==
    Cardinality({l \in LWP : hand[l].op \in ops /\ hand[l].f = f})
InDiscard(f) ==
    f_unpcount[f] + IF gc.pc = "now" /\ Cursor = f THEN gc.n ELSE 0
Messages(f, ops) == InBuffers(f) + InDiscard(f) + forgotten[f] + Hands(ops, f)

\* The reference the thread takes while it looks into a socket.
Scanning(f) ==
    IF gc.pc \in {"scan", "unmark", "flush", "flushed"} /\ Cursor = f
    THEN 1 ELSE 0

\* The reference counts are exact however sends, receives, closes and the
\* collector interleave: f_msgcount counts the messages, and f_count those,
\* the descriptors and the collector.  So no file is closed that a message
\* refers to, and each one is in the end, unless a message for it was
\* forgotten: that happens when the peer of a stream socket goes away while a
\* file is sent to it.
CountsExact ==
    \A f \in Files :
        /\ f_msgcount[f] = Messages(f, {"send", "recv", "affix", "msgcount"})
        /\ f_count[f] = fds[f] + Messages(f, InTransit) + Scanning(f)
        /\ closing[f] # "none" => f_count[f] = 0

\* "files in flight": unp_rights counts the messages that hold a file, those
\* that were forgotten and those that are being refused included.
FilesInFlight ==
    unp_rights =
        Cardinality({l \in LWP : hand[l] = TooMany}) + MapThenSumSet(
            LAMBDA f : Messages(f, {"count", "send", "recv", "rights"}), Files)

\* What a descriptor, or a message that is being sent or received, gives
\* access to, now or through messages that can still be received.
Holds(s, f) == s \in Sockets /\ f \in ToSet(rcv[s])
Root(f) == fds[f] > 0 \/ Hands(InTransit, f) > 0
Reachable ==
    {f \in Files :
        \A S \in SUBSET Files :
            /\ {r \in Files : Root(r)} \subseteq S
            /\ \A s \in S : {g \in Files : Holds(s, g)} \subseteq S
            => f \in S}

\* The sweep pass flushes only sockets "that are not otherwise accessible", if
\* no message was in the hands of an LWP since the marks were cleared; files
\* may be opened and closed meanwhile.  A message that is taken from a buffer
\* before the scan, or put into one after it, is not seen: its socket may be
\* flushed although it can be reached again.
SweepsOnlyGarbage == gc.pc = "flush" /\ ~moved => Cursor \notin Reachable

\* KASSERT(fp->f_count != 0) of a file that was deferred.
DeferredIsOpen == gc.pc # "panic"

\* A file that no descriptor gives access to any more, in a circle of
\* sockets that hold each other or not, is closed.
GarbageCloses ==
    \A f \in Files :
        (IsOpen(f) /\ f \notin Reachable) ~> (closing[f] # "none")
=============================================================================
