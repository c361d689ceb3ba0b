-------------------------------- MODULE LockF --------------------------------
(***************************************************************************)
(* Advisory locks on the bytes of a file (sys/kern/vfs_lockf.c).           *)
(*                                                                         *)
(* The locks of a file are a list of ranges, in which those of one owner   *)
(* are in order and do not overlap.  A request goes through the list and   *)
(* splits, shortens, joins or removes the owner's locks.  A request that   *)
(* is blocked waits on the list of one lock of another owner, after a look *)
(* along the chain of those that wait.                                     *)
(*                                                                         *)
(* The list is a sequence; a position in it stands for the code's pair of  *)
(* prev and overlap.  Everything between mutex_enter(interlock) and the    *)
(* next sleep is one action.  Owners are processes with one LWP (F_POSIX)  *)
(* or open files (F_FLOCK).  There is one file.  F_GETLK only reads; the    *)
(* limit on locks per user is left out: a failed lf_alloc() changes        *)
(* nothing.                                                                *)
(*                                                                         *)
(* A definition marked "Slip" is the one that follows it with a plausible  *)
(* mistake: the properties are shown to reject it.                         *)
(***************************************************************************)
EXTENDS Integers, Sequences, FiniteSets, SequencesExt

CONSTANTS
    Owner,
    Flock,        \* the owners that are open files
    None,
    Types,        \* the types of the requests, of F_RDLCK "R" and F_WRLCK "W"
    MaxByte,      \* bound: ranges end here, or at the end of the file
    maxlockdepth

LockFAssumption ==
    /\ Flock \subseteq Owner
    /\ None \notin Owner
    /\ Types \subseteq {"R", "W"}
    /\ MaxByte \in Nat
    /\ maxlockdepth > Cardinality(Owner)

VARIABLES
    head,   \* the list of locks, each with lf_id, lf_start, lf_end (-1: end of
            \* the file), lf_type and the owners whose requests are on lf_blkhd
    req,    \* the request of each owner that waits, or None
    asleep  \* the owners that sleep in lf_setlock()

vars == <<head, req, asleep>>

-----------------------------------------------------------------------------
Covers(l, b) == l.start <= b /\ (l.end = -1 \/ b <= l.end)

\* Not case 0 of lf_findoverlap()
Overlaps(lf, lock) ==
    /\ lf.end = -1 \/ lock.start <= lf.end
    /\ lock.end = -1 \/ lf.start <= lock.end

\* Cases 1 to 5 of lf_findoverlap(), in the order they are tested.
OverlapCase(lf, lock) ==
    CASE lf.start = lock.start /\ lf.end = lock.end -> 1
      [] /\ lf.start <= lock.start /\ lock.end # -1
         /\ lf.end >= lock.end \/ lf.end = -1
         /\ ~(lf.start = lock.start /\ lf.end = lock.end) -> 2
      [] /\ lock.start <= lf.start
         /\ lock.end = -1 \/ (lf.end # -1 /\ lock.end >= lf.end)
         /\ ~(lf.start = lock.start /\ lf.end = lock.end) -> 3
      [] /\ lf.start < lock.start
         /\ lock.end = -1 \/ (lf.end # -1 /\ lf.end < lock.end) -> 4
      [] /\ lf.start > lock.start
         /\ lock.end # -1
         /\ lf.end > lock.end \/ lf.end = -1 -> 5

\* lf_findoverlap(SELF) from position i on: the case, and the position.
FindOverlap(list, i, lock) ==
    LET J == {j \in i..Len(list) :
                 /\ list[j].id = lock.id
                 /\ \/ Overlaps(list[j], lock)
                    \/ lock.end # -1 /\ list[j].start > lock.end}
    IN  IF J = {} THEN [ovcase |-> 0, at |-> Len(list) + 1]
        ELSE LET j == CHOOSE x \in J : \A y \in J : x <= y
             IN  [ovcase |-> IF Overlaps(list[j], lock)
                             THEN OverlapCase(list[j], lock) ELSE 0,
                  at |-> j]

\* Slip: nobody is woken.
WakeNobody(lf) == lf

\* lf_wakelock(): those blocked on the lock are on its list no more.
Wake(lf) == [lf EXCEPT !.blk = <<>>]

\* Slip: the rest begins with the last byte of what is cut out.
SplitShort(list, j, lock, mid) ==
    LET lf == list[j]
        first == [lf EXCEPT !.end = lock.start - 1]
        last == [lf EXCEPT !.start = lock.end, !.blk = <<>>]
    IN  SubSeq(list, 1, j - 1)
        \o (IF lf.start = lock.start THEN mid \o <<[lf EXCEPT !.start = lock.end]>>
            ELSE IF lf.end = lock.end THEN <<first>> \o mid
            ELSE <<first>> \o mid \o <<last>>)
        \o SubSeq(list, j + 1, Len(list))

\* lf_split(): the lock at j becomes two or three, mid in the middle.
Split(list, j, lock, mid) ==
    LET lf == list[j]
        first == [lf EXCEPT !.end = lock.start - 1]
        last == [lf EXCEPT !.start = lock.end + 1, !.blk = <<>>]
    IN  SubSeq(list, 1, j - 1)
        \o (IF lf.start = lock.start THEN mid \o <<[lf EXCEPT !.start = lock.end + 1]>>
            ELSE IF lf.end = lock.end THEN <<first>> \o mid
            ELSE <<first>> \o mid \o <<last>>)
        \o SubSeq(list, j + 1, Len(list))

\* The loop of lf_clearlock()
RECURSIVE ClearFrom(_, _, _)
ClearFrom(list, i, unlock) ==
    LET r == FindOverlap(list, i, unlock)
        j == r.at
        l == [list EXCEPT ![j] = Wake(@)]
    IN  CASE r.ovcase = 0 -> list
          [] r.ovcase = 1 -> RemoveAt(list, j)
          [] r.ovcase = 2 -> Split(l, j, unlock, <<>>)
          [] r.ovcase = 3 -> ClearFrom(RemoveAt(list, j), j, unlock)
          [] r.ovcase = 4 -> ClearFrom([l EXCEPT ![j].end = unlock.start - 1],
                                       j + 1, unlock)
          [] r.ovcase = 5 -> [l EXCEPT ![j].start = unlock.end + 1]

\* The loop at the end of lf_setlock(): lock is linked before position i or is
\* at position k already.
RECURSIVE PlaceFrom(_, _, _, _)
PlaceFrom(list, i, lock, k) ==
    LET r == FindOverlap(list, i, lock)
        j == r.at
        lf == list[j]
        needtolink == k = 0
        downgrade == lock.type = "R" /\ lf.type = "W"
        taken == IF downgrade THEN <<>> ELSE lf.blk
    IN  CASE r.ovcase = 0 -> IF needtolink THEN InsertAt(list, j, lock) ELSE list
          [] r.ovcase = 1 ->
                [list EXCEPT ![j].type = lock.type,
                             ![j].blk = IF downgrade THEN <<>> ELSE @]
          [] r.ovcase = 2 ->
                IF lf.type = lock.type THEN list
                ELSE Split([list EXCEPT ![j] = Wake(@)], j, lock, <<lock>>)
          [] r.ovcase = 3 ->
                IF needtolink
                THEN PlaceFrom([list EXCEPT ![j] = [lock EXCEPT !.blk = @ \o taken]],
                               j + 1, lock, j)
                ELSE PlaceFrom(RemoveAt([list EXCEPT ![k].blk = @ \o taken], j),
                               j, lock, k)
          [] r.ovcase = 4 ->
                PlaceFrom(InsertAt([list EXCEPT
                                       ![j] = [Wake(@) EXCEPT !.end = lock.start - 1]],
                                   j + 1, lock),
                          j + 2, lock, j + 1)
          [] r.ovcase = 5 ->
                LET l == [list EXCEPT
                             ![j] = [Wake(@) EXCEPT !.start = lock.end + 1]]
                IN  IF needtolink THEN InsertAt(l, j, lock) ELSE l

\* The positions of the locks that block a request; lf_getblock() finds the
\* first.
Blocking(o, r) ==
    {j \in DOMAIN head : /\ head[j].id # o
                         /\ Overlaps(head[j], r)
                         /\ r.type = "W" \/ head[j].type = "W"}

First(J) == CHOOSE j \in J : \A x \in J : j <= x

\* The lock that an owner's request is blocked on, lf_next.
BlockedOn(o) == CHOOSE j \in DOMAIN head : o \in ToSet(head[j].blk)

Posix(o) == o \notin Flock

\* Slip: only the owner of the lock is looked at.
DeadlockShort(o, block) ==
    /\ Posix(o) /\ Posix(head[block].id)
    /\ LET p == head[block].id
       IN  p \in asleep /\ head[BlockedOn(p)].id = o

\* The search of lf_setlock() for a deadlock: p[i] is the process it has come
\* to after i steps, None if there was nothing to follow any more.
Deadlock(o, block) ==
    /\ Posix(o) /\ Posix(head[block].id)
    /\ LET p[i \in 0..maxlockdepth] ==
             IF i = 0 THEN head[block].id
             ELSE IF p[i-1] \notin asleep \/ ~Posix(head[BlockedOn(p[i-1])].id)
             THEN None
             ELSE head[BlockedOn(p[i-1])].id
       IN  \/ \E i \in 1..maxlockdepth :
                 p[i] = o /\ \A k \in 1..i : p[k] # None
           \/ \A i \in 0..(maxlockdepth - 1) : p[i] # None

\* Those whose requests are on a list in head but on none in list.
Woken(list) ==
    LET Blk(l) == UNION {ToSet(l[j].blk) : j \in DOMAIN l}
    IN  Blk(head) \ Blk(list)

-----------------------------------------------------------------------------
Ranges(o) ==
    IF o \in Flock THEN {<<0, -1>>}
    ELSE {r \in (0..MaxByte) \X (-1..MaxByte) : r[2] = -1 \/ r[1] <= r[2]}

Lock(o, r, type) ==
    [id |-> o, start |-> r[1], end |-> r[2], type |-> type, blk |-> <<>>]

\* lf_setlock() when nothing blocks the request.
Grant(o, lock) ==
    /\ Blocking(o, lock) = {}
    /\ head' = PlaceFrom(head, 1, lock, 0)
    /\ asleep' = asleep \ Woken(head')
    /\ req' = [req EXCEPT ![o] = None]

\* EAGAIN, or EDEADLK
Refuse(o, lock, wait) ==
    /\ Blocking(o, lock) # {}
    /\ ~wait \/ Deadlock(o, First(Blocking(o, lock)))
    /\ req' = [req EXCEPT ![o] = None]
    /\ UNCHANGED <<head, asleep>>

\* The request waits.  A file that waits to write gives up its lock first.
Block(o, lock, wait) ==
    /\ Blocking(o, lock) # {}
    /\ wait /\ ~Deadlock(o, First(Blocking(o, lock)))
    /\ LET block == First(Blocking(o, lock))
           l == [head EXCEPT ![block].blk = Append(@, o)]
       IN  head' = IF o \in Flock /\ lock.type = "W"
                   THEN ClearFrom(l, 1, lock) ELSE l
    /\ asleep' = (asleep \ Woken(head')) \cup {o}
    /\ req' = [req EXCEPT ![o] = lock]

\* F_SETLK, with or without F_WAIT
SetLock(o, r, type, wait) ==
    /\ req[o] = None
    /\ LET lock == Lock(o, r, type)
       IN  Grant(o, lock) \/ Refuse(o, lock, wait) \/ Block(o, lock, wait)

\* The sleeper has been woken by lf_wakelock(), and looks again.
Retry(o) ==
    /\ req[o] # None /\ o \notin asleep
    /\ Grant(o, req[o]) \/ Refuse(o, req[o], TRUE) \/ Block(o, req[o], TRUE)

\* cv_wait_sig() returns an error because of a signal, for a sleeper or for
\* one that has just been woken: the request is abandoned.
Interrupted(o) ==
    /\ req[o] # None
    /\ head' = IF o \in asleep
               THEN [head EXCEPT ![BlockedOn(o)].blk = SelectSeq(@, LAMBDA x : x # o)]
               ELSE head
    /\ asleep' = asleep \ {o}
    /\ req' = [req EXCEPT ![o] = None]

\* F_UNLCK
ClearLock(o, r) ==
    /\ req[o] = None
    /\ head' = ClearFrom(head, 1, Lock(o, r, "UNLCK"))
    /\ asleep' = asleep \ Woken(head')
    /\ UNCHANGED req

-----------------------------------------------------------------------------
Init ==
    /\ head = <<>>
    /\ req = [o \in Owner |-> None]
    /\ asleep = {}

Next == \E o \in Owner :
    \/ \E r \in Ranges(o), type \in Types, wait \in BOOLEAN :
          SetLock(o, r, type, wait)
    \/ Retry(o) \/ Interrupted(o)
    \/ \E r \in Ranges(o) : ClearLock(o, r)

Spec == Init /\ [][Next]_vars

-----------------------------------------------------------------------------
(***************************************************************************)
(* The list is what the search in it takes for granted: the ranges of an   *)
(* owner are in order and apart.  A request that sleeps is on the list of  *)
(* one lock, and that lock is in its way: whatever takes a lock out of a   *)
(* request's way, splitting, shortening or downgrading it, wakes it up.    *)
(***************************************************************************)
ListInv ==
    /\ \A i, j \in DOMAIN head :
          i < j /\ head[i].id = head[j].id
              => head[i].end # -1 /\ head[i].end < head[j].start
    /\ \A i \in DOMAIN head : head[i].end = -1 \/ head[i].start <= head[i].end
    /\ \A o \in Owner :
          Cardinality({j \in DOMAIN head : o \in ToSet(head[j].blk)})
              = IF o \in asleep THEN 1 ELSE 0
    /\ \A o \in asleep : BlockedOn(o) \in Blocking(o, req[o])

(***************************************************************************)
(* Processes do not wait for each other in a circle: whoever sleeps waits, *)
(* through however many others, for a process that runs, or for a file.    *)
(***************************************************************************)
NoCircle ==
    \A o \in {x \in asleep : Posix(x)} :
        LET p[i \in 0..Cardinality(Owner)] ==
              IF i = 0 THEN o
              ELSE IF p[i-1] \in asleep /\ Posix(p[i-1])
              THEN head[BlockedOn(p[i-1])].id ELSE None
        IN  \A i \in 1..Cardinality(Owner) : p[i] # o

(***************************************************************************)
(* Byte by byte: nobody else has a lock on what one owner has locked to    *)
(* write.  A request that is granted locks its bytes, all of them and no   *)
(* others, and changes nobody else's; one to unlock does the same.  (The   *)
(* byte after MaxByte stands for the rest of the file.)                    *)
(***************************************************************************)
HeldBy(list, o, b) ==
    {list[j].type : j \in {x \in DOMAIN list : list[x].id = o /\ Covers(list[x], b)}}

BytesExact ==
    LET Byte == 0..(MaxByte + 1)
        Becomes(list, lock, types) ==
            \A o \in Owner, b \in Byte :
                HeldBy(list, o, b) = IF o = lock.id /\ Covers(lock, b) THEN types
                                     ELSE HeldBy(head, o, b)
    IN  /\ \A o, x \in Owner, b \in Byte :
              o # x /\ HeldBy(head, o, b) = {"W"} => HeldBy(head, x, b) = {}
        /\ \A o \in {x \in Owner : req[x] = None}, type \in Types :
              \A r \in Ranges(o) :
                  LET lock == Lock(o, r, type)
                  IN  /\ Blocking(o, lock) = {} =>
                            Becomes(PlaceFrom(head, 1, lock, 0), lock, {type})
                      /\ Becomes(ClearFrom(head, 1, lock), lock, {})
=============================================================================
