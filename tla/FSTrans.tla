------------------------------- MODULE FSTrans -------------------------------
(***************************************************************************)
(* File system transactions and suspension (sys/kern/vfs_trans.c), with    *)
(* the suspension of an ffs (sys/ufs/ffs/ffs_vfsops.c).                    *)
(*                                                                         *)
(* An LWP keeps a list of records, one per file system it is busy with;    *)
(* records that are not in use are taken over for another file system.     *)
(* The first transaction of an LWP on a file system takes the lazy or the  *)
(* shared lock, further ones only count.  Suspending takes the shared lock *)
(* for writing, then, after a sync, the lazy lock.                         *)
(*                                                                         *)
(* The reader/writer locks are what RWLock shows them to be: a reader is   *)
(* held off by a writer that has or wants the lock.  Only the waiting is a *)
(* step of its own.  Mounting and unmounting are left out: nobody is in a  *)
(* transaction then.  A file system has one copy-on-write handler at most, *)
(* as ffs_snapshot.c, the only caller, establishes it: for the first       *)
(* snapshot.                                                               *)
(*                                                                         *)
(* A definition marked "Slip" is the one that follows it with a plausible  *)
(* mistake: the properties are shown to reject it.                         *)
(***************************************************************************)
EXTENDS Naturals, Sequences, FiniteSets

CONSTANTS
    LWP,
    Mount,
    None,
    MaxNest     \* bound: transactions and copy-on-write runs an LWP is in

ASSUME FSTransAssumption ==
    /\ None \notin LWP \cup Mount
    /\ None \notin {"LAZY", "SHARED", "EXCL"}
    /\ MaxNest \in Nat \ {0}

VARIABLES
    fli,      \* the list of each LWP: fli_mount, fli_trans_cnt, fli_cow_cnt,
              \* fli_lock_type (None when it means nothing)
    rwl,      \* the locks of each mount, "lazy", "shared" and "cow": the
              \* readers, the writer, and the writers that wait
    state,    \* fmi_state
    handlers, \* fmi_cow_handler: is the handler of the snapshots on the list
    running,  \* the LWPs that are in the handler
    suspend,  \* the owner of vfs_suspend_lock and syncer_mutex,
    phase,    \* how far its suspension is, and of which file system
    smount,
    wait,     \* what each LWP waits for
    stack     \* the transactions and runs each LWP is in, the last one first:
              \* calls that begin one and end it are nested properly

fmivars == <<state, handlers, running>>
suspendvars == <<suspend, phase, smount>>
vars == <<fli, rwl, fmivars, suspendvars, wait, stack>>

-----------------------------------------------------------------------------
Locks == {"lazy", "shared", "cow"}
FreeLock == [readers |-> {}, writer |-> None, wanted |-> {}]
Nothing == [what |-> "nothing", mount |-> None, type |-> None]

CanRead(m, k) == rwl[m][k].writer = None /\ rwl[m][k].wanted = {}
CanWrite(m, k) == rwl[m][k].writer = None /\ rwl[m][k].readers = {}

ReadLock(l, m, k) == [rwl EXCEPT ![m][k].readers = @ \cup {l}]
WriteLock(l, m, k) ==
    [rwl EXCEPT ![m][k].writer = l, ![m][k].wanted = @ \ {l}]
Want(l, m, k) == [rwl EXCEPT ![m][k].wanted = @ \cup {l}]
\* rw_exit()
Unlock(l, m, k) ==
    [rwl EXCEPT ![m][k].readers = @ \ {l},
                ![m][k].wanted = @ \ {l},
                ![m][k].writer = IF @ = l THEN None ELSE @]

LockOf(type) == IF type = "LAZY" THEN "lazy" ELSE "shared"

Entries(l, m) == {i \in DOMAIN fli[l] : fli[l][i].mount = m}

\* Slip: a record with copy-on-write runs only is taken for unused.
UnusedTrans(l) == {i \in DOMAIN fli[l] : fli[l][i].trans = 0}

Unused(l) == {i \in DOMAIN fli[l] : fli[l][i].trans = 0 /\ fli[l][i].cow = 0}

First(I) == CHOOSE i \in I : \A j \in I : i <= j

NewEntry(m) == [mount |-> m, trans |-> 0, cow |-> 0, type |-> None]

\* fstrans_get_lwp_info(): the list, with a record for m ...
WithEntry(l, m) ==
    IF Entries(l, m) # {} THEN fli[l]
    ELSE IF Unused(l) # {} THEN [fli[l] EXCEPT ![First(Unused(l))].mount = m]
    ELSE <<NewEntry(m)>> \o fli[l]

\* ... and where it is.
At(list, m) == First({i \in DOMAIN list : list[i].mount = m})
Info(l, m) == LET list == WithEntry(l, m) IN list[At(list, m)]

SetEntry(l, m, e) ==
    LET list == WithEntry(l, m)
    IN  fli' = [fli EXCEPT ![l] = [list EXCEPT ![At(list, m)] = e]]

\* The phases in which the LWP that suspends is inside fstrans_setstate().
Busy == {"excl", "synced", "resuming", "normal"}

\* The LWP is not in the middle of one of the operations below.
Running(l) ==
    /\ wait[l] = Nothing
    /\ l = suspend => phase \notin Busy

Waits(l, what, m, type) ==
    wait' = [wait EXCEPT ![l] = [what |-> what, mount |-> m, type |-> type]]

Push(l, what, m) == stack' = [stack EXCEPT ![l] = <<[what |-> what, mount |-> m]>> \o @]
Pop(l) == stack' = [stack EXCEPT ![l] = Tail(@)]
Top(l, what, m) == stack[l] # <<>> /\ Head(stack[l]) = [what |-> what, mount |-> m]
Room(l) == Len(stack[l]) < MaxNest
Inside(l, what, m) ==
    \E i \in DOMAIN stack[l] : stack[l][i] = [what |-> what, mount |-> m]

Goes(l) == wait' = [wait EXCEPT ![l] = Nothing]

-----------------------------------------------------------------------------
(* _fstrans_start() and fstrans_done() *)

\* Slip: a shared transaction inside a lazy one takes its lock as well.
StartNestedSame(l, m, type) ==
    /\ Running(l)
    /\ Room(l) /\ Info(l, m).trans > 0
    /\ SetEntry(l, m, [Info(l, m) EXCEPT !.trans = @ + 1])
    /\ rwl' = IF type = "SHARED" /\ Info(l, m).type = "LAZY"
              THEN ReadLock(l, m, "shared") ELSE rwl
    /\ Push(l, "trans", m)
    /\ UNCHANGED <<fmivars, suspendvars, wait>>

StartNested(l, m, type) ==
    /\ Running(l)
    /\ Room(l) /\ Info(l, m).trans > 0
    /\ SetEntry(l, m, [Info(l, m) EXCEPT !.trans = @ + 1])
    /\ Push(l, "trans", m)
    /\ UNCHANGED <<rwl, fmivars, suspendvars, wait>>

Granted(l, m, type) ==
    /\ SetEntry(l, m, [Info(l, m) EXCEPT !.trans = 1, !.type = type])
    /\ rwl' = IF type = "EXCL" THEN WriteLock(l, m, "shared")
              ELSE ReadLock(l, m, LockOf(type))

\* The handler of a file system, ffs_copyonwrite(), starts no transaction.
MayStart(l, m) ==
    /\ Running(l) /\ Room(l)
    /\ Info(l, m).trans = 0
    /\ ~Inside(l, "run", m)

StartFirst(l, m, type) ==
    /\ MayStart(l, m)
    /\ CanRead(m, LockOf(type))
    /\ Granted(l, m, type)
    /\ Push(l, "trans", m)
    /\ UNCHANGED <<fmivars, suspendvars, wait>>

\* The lock is taken: rw_tryenter() fails, or rw_enter() sleeps.
StartBusy(l, m, type) ==
    /\ MayStart(l, m)
    /\ ~CanRead(m, LockOf(type))
    /\ SetEntry(l, m, Info(l, m))
    /\ Waits(l, "start", m, type) \/ UNCHANGED wait
    /\ UNCHANGED <<rwl, fmivars, suspendvars, stack>>

StartGranted(l) ==
    /\ wait[l].what = "start"
    /\ CanRead(wait[l].mount, LockOf(wait[l].type))
    /\ Granted(l, wait[l].mount, wait[l].type)
    /\ Push(l, "trans", wait[l].mount)
    /\ Goes(l)
    /\ UNCHANGED <<fmivars, suspendvars>>

Done(l, m) ==
    LET e == Info(l, m)
    IN  /\ Running(l) /\ Top(l, "trans", m)
        /\ SetEntry(l, m, [e EXCEPT !.trans = @ - 1,
                                    !.type = IF e.trans = 1 THEN None ELSE @])
        /\ rwl' = IF e.trans > 1 THEN rwl ELSE Unlock(l, m, LockOf(e.type))
        /\ Pop(l)
        /\ UNCHANGED <<fmivars, suspendvars, wait>>

-----------------------------------------------------------------------------
(* vfs_suspend(), ffs_suspendctl(), fstrans_setstate() and vfs_resume() *)

\* The mutexes are taken and the shared lock asked for, by an LWP that is in
\* no transaction.
Suspend(l, m) ==
    /\ Running(l)
    /\ stack[l] = <<>>
    /\ suspend = None
    /\ suspend' = l /\ phase' = "excl" /\ smount' = m
    /\ SetEntry(l, m, Info(l, m))
    /\ rwl' = Want(l, m, "shared")
    /\ UNCHANGED <<fmivars, wait, stack>>

Suspending(l) ==
    /\ l = suspend /\ phase = "excl"
    /\ CanWrite(smount, "shared")
    /\ Granted(l, smount, "EXCL")
    /\ state' = [state EXCEPT ![smount] = "SUSPENDING"]
    /\ phase' = "suspending"
    /\ UNCHANGED <<handlers, running, suspend, smount, wait, stack>>

\* ffs_sync() was successful: the lazy lock is asked for.
SyncDone(l) ==
    /\ Running(l)
    /\ l = suspend /\ phase = "suspending"
    /\ stack[l] = <<>>
    /\ rwl' = Want(l, smount, "lazy")
    /\ phase' = "synced"
    /\ UNCHANGED <<fli, fmivars, suspend, smount, wait, stack>>

\* Slip: the lazy lock is not waited for.
SuspendedEarly(l) ==
    /\ l = suspend /\ phase = "synced"
    /\ rwl' = WriteLock(l, smount, "lazy")
    /\ state' = [state EXCEPT ![smount] = "SUSPENDED"]
    /\ phase' = "suspended"
    /\ UNCHANGED <<fli, handlers, running, suspend, smount, wait, stack>>

Suspended(l) ==
    /\ l = suspend /\ phase = "synced"
    /\ CanWrite(smount, "lazy")
    /\ rwl' = WriteLock(l, smount, "lazy")
    /\ state' = [state EXCEPT ![smount] = "SUSPENDED"]
    /\ phase' = "suspended"
    /\ UNCHANGED <<fli, handlers, running, suspend, smount, wait, stack>>

\* FSTRANS_NORMAL, from vfs_resume() or because ffs_sync() failed: the lazy
\* lock is let go, if the file system was suspended, ...
Resume(l) ==
    /\ Running(l) /\ l = suspend
    /\ stack[l] = <<>>
    /\ rwl' = IF state[smount] = "SUSPENDED" THEN Unlock(l, smount, "lazy") ELSE rwl
    /\ phase' = "resuming"
    /\ UNCHANGED <<fli, fmivars, suspend, smount, wait, stack>>

\* ... the state changes, ...
ResumeNormal(l) ==
    /\ l = suspend /\ phase = "resuming"
    /\ state' = [state EXCEPT ![smount] = "NORMAL"]
    /\ phase' = "normal"
    /\ UNCHANGED <<fli, rwl, handlers, running, suspend, smount, wait, stack>>

\* ... and the exclusive transaction ends; the mutexes.
Resumed(l) ==
    /\ l = suspend /\ phase = "normal"
    /\ SetEntry(l, smount, [Info(l, smount) EXCEPT !.trans = 0,
                                                       !.type = None])
    /\ rwl' = Unlock(l, smount, "shared")
    /\ suspend' = None /\ phase' = "none" /\ smount' = None
    /\ UNCHANGED <<fmivars, wait, stack>>

-----------------------------------------------------------------------------
(* Copy on write: fscow_run(), fscow_establish(), fscow_disestablish() *)

RunHandler(l, m) ==
    running' = IF handlers[m] THEN [running EXCEPT ![m] = @ \cup {l}] ELSE running

\* Slip: the lock is taken again for a run inside a run.
RunEnterAgain(l, m) ==
    /\ Running(l)
    /\ Room(l)
    /\ SetEntry(l, m, [Info(l, m) EXCEPT !.cow = @ + 1])
    /\ IF CanRead(m, "cow")
       THEN /\ rwl' = ReadLock(l, m, "cow")
            /\ RunHandler(l, m)
            /\ Push(l, "run", m)
            /\ UNCHANGED wait
       ELSE /\ Waits(l, "run", m, None)
            /\ UNCHANGED <<rwl, running, stack>>
    /\ UNCHANGED <<state, handlers, suspendvars>>

RunEnter(l, m) ==
    /\ Running(l)
    /\ Room(l)
    /\ SetEntry(l, m, [Info(l, m) EXCEPT !.cow = @ + 1])
    /\ IF Info(l, m).cow > 0 \/ CanRead(m, "cow")
       THEN /\ rwl' = ReadLock(l, m, "cow")
            /\ RunHandler(l, m)
            /\ Push(l, "run", m)
            /\ UNCHANGED wait
       ELSE /\ Waits(l, "run", m, None)
            /\ UNCHANGED <<rwl, running, stack>>
    /\ UNCHANGED <<state, handlers, suspendvars>>

RunGranted(l) ==
    /\ wait[l].what = "run"
    /\ CanRead(wait[l].mount, "cow")
    /\ rwl' = ReadLock(l, wait[l].mount, "cow")
    /\ RunHandler(l, wait[l].mount)
    /\ Push(l, "run", wait[l].mount)
    /\ Goes(l)
    /\ UNCHANGED <<fli, state, handlers, suspendvars>>

RunExit(l, m) ==
    LET e == Info(l, m)
    IN  /\ Running(l) /\ Top(l, "run", m)
        /\ SetEntry(l, m, [e EXCEPT !.cow = @ - 1])
        /\ rwl' = IF e.cow = 1 THEN Unlock(l, m, "cow") ELSE rwl
        /\ running' = IF e.cow = 1 THEN [running EXCEPT ![m] = @ \ {l}] ELSE running
        /\ Pop(l)
        /\ UNCHANGED <<state, handlers, suspendvars, wait>>

\* To establish or disestablish the handler, outside of its runs, the lock is
\* asked for.  ffs_snapshot.c establishes it once.
Change(l, m, what) ==
    /\ Running(l)
    /\ \A x \in Mount : ~Inside(l, "run", x)
    /\ what = "establish" =>
          /\ ~handlers[m]
          /\ \A k \in LWP : wait[k].what = "establish" => wait[k].mount # m
    /\ rwl' = Want(l, m, "cow")
    /\ Waits(l, what, m, None)
    /\ UNCHANGED <<fli, fmivars, suspendvars, stack>>

\* The lock is had, and given back.  Who disestablishes a handler that is not
\* on the list finds none and changes nothing (EINVAL).
Changed(l) ==
    LET m == wait[l].mount
    IN  /\ wait[l].what \in {"establish", "disestablish"}
        /\ CanWrite(m, "cow")
        /\ handlers' = [handlers EXCEPT ![m] = wait[l].what = "establish"]
        /\ rwl' = Unlock(l, m, "cow")
        /\ Goes(l)
        /\ UNCHANGED <<fli, state, running, suspendvars, stack>>

-----------------------------------------------------------------------------
Init ==
    /\ fli = [l \in LWP |-> <<>>]
    /\ rwl = [m \in Mount |-> [k \in Locks |-> FreeLock]]
    /\ state = [m \in Mount |-> "NORMAL"]
    /\ handlers = [m \in Mount |-> FALSE]
    /\ running = [m \in Mount |-> {}]
    /\ suspend = None /\ phase = "none" /\ smount = None
    /\ wait = [l \in LWP |-> Nothing]
    /\ stack = [l \in LWP |-> <<>>]

Start(l, m) == \E type \in {"LAZY", "SHARED"} :
    \/ StartNested(l, m, type) \/ StartFirst(l, m, type)
    \/ StartBusy(l, m, type)

\* What an LWP that has begun something does.
Continue(l) ==
    \/ StartGranted(l) \/ RunGranted(l) \/ Changed(l)
    \/ Suspending(l) \/ Suspended(l) \/ ResumeNormal(l) \/ Resumed(l)

Next == \E l \in LWP :
    \/ Continue(l) \/ SyncDone(l) \/ Resume(l)
    \/ \E m \in Mount :
          \/ Start(l, m) \/ Done(l, m) \/ Suspend(l, m)
          \/ RunEnter(l, m) \/ RunExit(l, m)
          \/ \E what \in {"establish", "disestablish"} : Change(l, m, what)

Spec == Init /\ [][Next]_vars

(***************************************************************************)
(* A lock that becomes free now and then is had in the end (RWLock hands   *)
(* it over).  Transactions, runs and suspensions end, however often others *)
(* are nested in them before.                                              *)
(***************************************************************************)
End(l, n) ==
    /\ Len(stack[l]) = n
    /\ \E m \in Mount : Done(l, m) \/ RunExit(l, m)

LiveSpec ==
    /\ Spec
    /\ \A l \in LWP :
          /\ SF_vars(Continue(l)) /\ SF_vars(Resume(l))
          /\ \A n \in 1..MaxNest : SF_vars(End(l, n))

-----------------------------------------------------------------------------
InTrans(l, m) == \E i \in Entries(l, m) : fli[l][i].trans > 0
TypeOf(l, m) == fli[l][First(Entries(l, m))].type
Count(l, what, m) ==
    Cardinality({i \in DOMAIN stack[l] : stack[l][i] = [what |-> what, mount |-> m]})

(***************************************************************************)
(* From the time fstrans_setstate() reports a file system as suspended to  *)
(* the time vfs_resume() lets the lazy lock go, nobody but the LWP that    *)
(* suspended it is in a transaction.  From the shared lock to the change   *)
(* of fmi_state back to normal, others are in lazy ones only: for a moment *)
(* fmi_state still says SUSPENDED when a lazy transaction may start (line  *)
(* 338).  A handler runs only while it is established.                     *)
(***************************************************************************)
Quiescent ==
    \A m \in Mount :
        /\ \A l \in LWP \ {suspend} :
              /\ state[m] = "SUSPENDED" /\ phase # "resuming" => ~InTrans(l, m)
              /\ state[m] # "NORMAL" /\ InTrans(l, m) => TypeOf(l, m) = "LAZY"
        /\ running[m] # {} => handlers[m]

(***************************************************************************)
(* The records are exact, though they are taken over from one file system  *)
(* for another and count transactions of different types: they count the   *)
(* transactions and the runs that the LWP is in, and each lock is held as  *)
(* long as the LWP is in a transaction of those the first of which took    *)
(* it.                                                                     *)
(***************************************************************************)
RecordsExact ==
    \A l \in LWP, m \in Mount :
        LET Recorded(f) == IF Entries(l, m) = {} THEN 0
                           ELSE fli[l][First(Entries(l, m))][f]
            Excl == IF InTrans(l, m) /\ TypeOf(l, m) = "EXCL" THEN 1 ELSE 0
            Waiting == IF wait[l].what = "run" /\ wait[l].mount = m THEN 1 ELSE 0
        IN  /\ Cardinality(Entries(l, m)) <= 1
            /\ Recorded("trans") = Count(l, "trans", m) + Excl
            /\ Recorded("cow") = Count(l, "run", m) + Waiting
            /\ l \in rwl[m].lazy.readers
                  <=> InTrans(l, m) /\ TypeOf(l, m) = "LAZY"
            /\ l \in rwl[m].shared.readers
                  <=> InTrans(l, m) /\ TypeOf(l, m) = "SHARED"
            /\ l = rwl[m].shared.writer <=> Excl = 1
            /\ l \in rwl[m].cow.readers <=> Count(l, "run", m) > 0

\* fstrans_start(), fstrans_done() and fstrans_setstate(): the records of LWPs
\* and mounts agree, and a file system that is suspended is quiescent: no LWP
\* other than the one that suspended it is inside a transaction that the
\* suspension excludes.
FSTransSafe == RecordsExact /\ Quiescent

(***************************************************************************)
(* What is inductive.  A list has one record at most for a file system,    *)
(* and one that is not in use has no lock type, so that it may be taken    *)
(* over.  Rec is what the list says of a file system, with or without a    *)
(* record for it.                                                          *)
(***************************************************************************)
Record == [mount : Mount, trans : Nat, cow : Nat,
           type : {"LAZY", "SHARED", "EXCL", None}]
Held == [readers : SUBSET LWP, writer : LWP \cup {None}, wanted : SUBSET LWP]

TypeOK ==
    /\ fli \in [LWP -> Seq(Record)]
    /\ rwl \in [Mount -> [Locks -> Held]]
    /\ state \in [Mount -> {"NORMAL", "SUSPENDING", "SUSPENDED"}]
    /\ handlers \in [Mount -> BOOLEAN]
    /\ running \in [Mount -> SUBSET LWP]
    /\ wait \in [LWP -> [what : {"nothing", "start", "run",
                                 "establish", "disestablish"},
                         mount : Mount \cup {None},
                         type : {"LAZY", "SHARED", None}]]
    /\ \A l \in LWP :
          /\ wait[l].what = "nothing" => wait[l] = Nothing
          /\ wait[l].what # "nothing" => wait[l].mount \in Mount
          /\ wait[l].what = "start" => wait[l].type \in {"LAZY", "SHARED"}
    /\ stack \in [LWP -> Seq([what : {"trans", "run"}, mount : Mount])]
    /\ \/ suspend = None /\ phase = "none" /\ smount = None
       \/ /\ suspend \in LWP /\ smount \in Mount
          /\ phase \in Busy \cup {"suspending", "suspended"}

ListInv ==
    \A l \in LWP : \A i \in DOMAIN fli[l] :
        /\ \A j \in DOMAIN fli[l] : fli[l][i].mount = fli[l][j].mount => i = j
        /\ fli[l][i].trans = 0 <=> fli[l][i].type = None

Rec(l, m) == IF Entries(l, m) = {} THEN NewEntry(m)
             ELSE fli[l][First(Entries(l, m))]

\* The records count what the LWP is in.
CountInv ==
    \A l \in LWP, m \in Mount :
        /\ Rec(l, m).trans =
              Count(l, "trans", m) + IF Rec(l, m).type = "EXCL" THEN 1 ELSE 0
        /\ Rec(l, m).cow =
              Count(l, "run", m)
              + IF wait[l].what = "run" /\ wait[l].mount = m THEN 1 ELSE 0
        /\ wait[l].what = "start" /\ wait[l].mount = m => Rec(l, m).trans = 0

\* The readers of the locks are those whose records say so.
ReaderInv ==
    \A l \in LWP, m \in Mount :
        /\ l \in rwl[m].lazy.readers <=> Rec(l, m).type = "LAZY"
        /\ l \in rwl[m].shared.readers <=> Rec(l, m).type = "SHARED"
        /\ l = rwl[m].shared.writer <=> Rec(l, m).type = "EXCL"
        /\ l \in rwl[m].cow.readers <=> Count(l, "run", m) > 0

\* The writers are as far as the suspension is, and keep readers out.
WriterOf(m) ==
    /\ rwl[m].shared.writer =
          IF m = smount /\ phase # "excl" THEN suspend ELSE None
    /\ rwl[m].lazy.writer =
          IF m = smount /\ phase = "suspended" THEN suspend ELSE None
    /\ rwl[m].cow.writer = None
    /\ rwl[m].shared.writer # None => rwl[m].shared.readers = {}
    /\ rwl[m].lazy.writer # None => rwl[m].lazy.readers = {}
    /\ state[m] \in IF m # smount \/ phase \in {"excl", "normal"} THEN {"NORMAL"}
                    ELSE IF phase = "suspended" THEN {"SUSPENDED"}
                    ELSE IF phase = "resuming" THEN {"SUSPENDING", "SUSPENDED"}
                    ELSE {"SUSPENDING"}
    /\ running[m] \subseteq rwl[m].cow.readers
    /\ running[m] # {} => handlers[m]

WriterInv == \A m \in Mount : WriterOf(m)

\* While it is inside fstrans_setstate() the LWP does nothing else.
OwnerInv == phase \in Busy => stack[suspend] = <<>> /\ wait[suspend] = Nothing

FSTransInv ==
    TypeOK /\ ListInv /\ CountInv /\ ReaderInv /\ WriterInv /\ OwnerInv

(***************************************************************************)
(* With one file system, whoever waits for a transaction, for a suspension *)
(* or its end, or to change the handlers goes on in the end: nested        *)
(* transactions and runs do not wait behind a writer that waits for them.  *)
(* With two it does not hold of every program that calls these functions:  *)
(* an LWP that suspends one file system and then changes the handlers of   *)
(* the other waits for the runs of that one, and a run in which a          *)
(* transaction is started on the first waits for it.                       *)
(***************************************************************************)
GoesOn(l) == (~Running(l)) ~> Running(l)

WaitersGoOn == \A l \in LWP : GoesOn(l)
=============================================================================
