------------------------------ MODULE BufCache ------------------------------
(***************************************************************************)
(* The buffer cache: vfs_bio.c, with what vfs_subr.c does to the buffers   *)
(* of a vnode (bgetvp, brelvp, reassignbuf, vwakeup, vflushbuf).           *)
(*                                                                         *)
(* One block device vnode; every block hashes to the same chain.  LWPs     *)
(* read blocks (bread, breadn with one block of read-ahead), overwrite     *)
(* them (getblk), write them in the three ways (bwrite, bawrite, bdwrite), *)
(* discard them (brelse with BC_INVAL) and flush the vnode.  The disk      *)
(* completes requests in any order, with or without an error, and the soft *)
(* interrupt biointr() runs biodone2().                                    *)
(*                                                                         *)
(* An action is a section under bufcache_lock or under the vnode's         *)
(* interlock; "lock" is the holder of bufcache_lock where a section takes  *)
(* more than one action.  A busy buffer belongs to one LWP or to the disk, *)
(* so what its owner does to it between two sections is merged with the    *)
(* next one.                                                               *)
(*                                                                         *)
(* The hash chain is kept as the code keeps it, in le_next and le_prev,    *)
(* with lh_first for the place of the head.  A buffer is on the vnode's    *)
(* dirty list when BO_DELWRI is set and on its clean list otherwise:       *)
(* reassignbuf() is called in the sections that change the flag.           *)
(*                                                                         *)
(* The contents of a block are abstracted to whether a copy is the newest  *)
(* one: "fresh" in a buffer, "current" on the disk.  All buffers have the  *)
(* same size, so memory is counted in buffers.                             *)
(*                                                                         *)
(* Left out: B_LOCKED, WAPBL, soft updates (bioopsp), tapes, MNT_ASYNC,    *)
(* signals and timeouts of getblk(), geteblk(), nested buffers, the page   *)
(* daemon as a caller, and statistics.                                     *)
(*                                                                         *)
(* A definition whose name ends in Slip is the one after it with a         *)
(* plausible mistake.  No slip is part of the specification.               *)
(***************************************************************************)
EXTENDS Naturals, Sequences, FiniteSets, SequencesExt

CONSTANTS
  Lwp, Blk, Buf,
  lh_first, Null,   \* the address of the chain's first pointer; NULL
  LoWater, HiWater,   \* bufmem_lowater and bufmem_hiwater, in buffers
  Ops,                \* what LWPs do: see Start
  StructShort,        \* may pool_cache_get() fail (structures)?
  MemShort,           \* may pool_get() fail (memory)?
  IOErrors,           \* may the disk fail?
  Bounded, Rounds     \* does each LWP stop after so many operations?

BufAssumption ==
  /\ Null \notin Lwp \cup Blk \cup Buf /\ lh_first \notin Buf \cup {Null}
  /\ LoWater \in Nat /\ HiWater \in Nat /\ LoWater < HiWater
  /\ StructShort \in BOOLEAN /\ MemShort \in BOOLEAN /\ IOErrors \in BOOLEAN
  /\ Bounded \in BOOLEAN /\ Rounds \in Nat
  /\ Ops \subseteq {"read", "ahead", "write", "flush"}

VARIABLES
  buf,        \* the buffer structures
  age, lru,   \* bufqueues[BQ_AGE], bufqueues[BQ_LRU]
  hash,       \* the chain: next is le_next (and lh_first), prev is le_prev
  lock,       \* who holds bufcache_lock across actions
  pc, op,     \* where each LWP is, and in which operation
  blk, at,    \* the block it wants, the buffer it has or waits for
  first,      \* breadn(): the first block's buffer
  victim,     \* the buffer it calls bawrite() with
  why,        \* who called buf_trim(): buf_malloc() or allocbuf()
  io,         \* the requests the driver has: buffers
  done,       \* ci_data.cpu_biodone
  intr,       \* the buffer that biodone2() has to release, or Null
  numoutput,  \* v_numoutput
  current,    \* the blocks whose newest contents are on the disk
  owed,       \* what was not on the disk when each LWP called vflushbuf()
  left        \* the operations each LWP may still start

cvars == <<buf, age, lru, hash>>
wvars == <<blk, first, op, why, owed, left>>
lvars == <<at, victim, wvars>>
dvars == <<io, done, intr, numoutput, current>>
vars == <<cvars, lock, pc, lvars, dvars>>

(* A structure in the pool: buf_destroy() and pool_cache_put(). *)
Pooled ==
  [refcnt |-> 0, vp |-> FALSE, lblkno |-> Null, c |-> {}, o |-> {},
   read |-> FALSE, async |-> FALSE, error |-> FALSE, mem |-> FALSE,
   fresh |-> FALSE]

(* memset() and buf_init() in getnewbuf(). *)
buf_init == [Pooled EXCEPT !.refcnt = 1, !.c = {"BUSY"}]

Busy(b) == "BUSY" \in buf[b].c
Valid(b) == buf[b].o \cap {"DONE", "DELWRI"} # {}
bufmem == Cardinality({b \in Buf : buf[b].mem})
DirtyList == {b \in Buf : buf[b].vp /\ "DELWRI" \in buf[b].o}

-----------------------------------------------------------------------------
(***************************************************************************)
(* Hash chain and free lists.                                              *)
(***************************************************************************)

(* The buffer n places down the chain; a chain that has been damaged may   *)
(* be circular, so nobody looks further than there are buffers.            *)
Place[n \in 0 .. Cardinality(Buf)] ==
  IF n = 0 THEN lh_first
  ELSE IF Place[n - 1] = Null THEN Null ELSE hash.next[Place[n - 1]]

Chain == {Place[n] : n \in 1 .. Cardinality(Buf)} \ {Null}

(* LIST_FOREACH finds the first match. *)
Matches(k) == {b \in Chain : buf[b].vp /\ buf[b].lblkno = k
                             /\ "INVAL" \notin buf[b].c}
incore(k) ==
  IF Matches(k) = {} THEN Null
  ELSE LET n == CHOOSE n \in 1 .. Cardinality(Buf) :
                  /\ Place[n] \in Matches(k)
                  /\ \A i \in 1 .. n - 1 : Place[i] \notin Matches(k)
       IN  Place[n]

(* LIST_INSERT_HEAD into the chain h. *)
InsertHead(h, b) ==
  [next |-> [h.next EXCEPT ![b] = h.next[lh_first], ![lh_first] = b],
   prev |-> [c \in Buf |-> IF c = b THEN lh_first
                           ELSE IF c = h.next[lh_first] THEN b ELSE h.prev[c]]]

(* LIST_REMOVE, whether or not the buffer is on the chain. *)
Unlink(h, b) ==
  [next |-> [h.next EXCEPT ![h.prev[b]] = h.next[b]],
   prev |-> IF h.next[b] = Null THEN h.prev
            ELSE [h.prev EXCEPT ![h.next[b]] = h.prev[b]]]

bremfree(q, b) == Remove(q, b)

-----------------------------------------------------------------------------
(***************************************************************************)
(* Sleeping and waking.                                                    *)
(***************************************************************************)

(* Who sleeps on needbuffer_cv: "need" is getnewbuf() without a timeout,   *)
(* "tick" getnewbuf() called by buf_trim(), "memwait" buf_malloc().        *)
NeedSleepers(p) == {l \in Lwp : p[l] \in {"need", "tick", "memwait"}}

(* buf_trim() has returned 0. *)
TrimFailed(l) == IF why[l] = "malloc" THEN "memwait" ELSE "ready"

AfterNeed(p, l) == CASE p[l] = "need"    -> "getblk"
                     [] p[l] = "tick"    -> TrimFailed(l)
                     [] p[l] = "memwait" -> "alloc"

(* cv_signal(&needbuffer_cv): which sleeper it takes depends on priority.  *)
SignalNeed(p) ==
  IF NeedSleepers(p) = {} THEN {p}
  ELSE {[p EXCEPT ![l] = AfterNeed(p, l)] : l \in NeedSleepers(p)}

(* cv_broadcast(&bp->b_busy). *)
BroadcastBusy(p, b) ==
  [l \in Lwp |-> IF p[l] = "busy" /\ at[l] = b THEN "woken" ELSE p[l]]

(* The wake-ups of brelsel(), after which the LWPs are at p. *)
WakeUpsSlip(p, b) == SignalNeed(p)
WakeUps(p, b) == SignalNeed(BroadcastBusy(p, b))

-----------------------------------------------------------------------------
(***************************************************************************)
(* brelsel(): what becomes of the buffer, of the free lists, and of the    *)
(* structure.                                                              *)
(***************************************************************************)

Discarded(r) == ~r.mem \/ "INVAL" \in r.c

(* BC_INVAL is set on an error; b_error is looked at once. *)
Marked(r, set) ==
  [r EXCEPT !.c = (IF "WANTED" \in @ THEN @ \ {"WANTED", "AGE"} ELSE @)
                  \cup set \cup (IF r.error THEN {"INVAL"} ELSE {})]

ReleasedSlip(r) ==
  LET s == IF Discarded(r) THEN [r EXCEPT !.o = {}, !.vp = FALSE] ELSE r
  IN  [s EXCEPT !.c = @ \ {"BUSY", "AGE", "VFLUSH"}, !.async = FALSE]
Released(r) ==
  LET s == IF Discarded(r)
           THEN [r EXCEPT !.o = {}, !.vp = FALSE]
           ELSE r
      t == [s EXCEPT !.c = @ \ {"BUSY", "AGE", "VFLUSH"}, !.async = FALSE]
  IN  IF r.mem THEN t
      ELSE IF r.refcnt = 1 THEN Pooled ELSE [t EXCEPT !.refcnt = @ - 1]

(* The free lists, which were a and q.  A buffer that vflushbuf() has      *)
(* written is still on its list.                                           *)
RequeuedSlip(r, b, a, q) ==
  IF ~r.mem THEN age' = a /\ lru' = q
  ELSE IF "INVAL" \in r.c THEN age' = <<b>> \o a /\ lru' = q
  ELSE IF "AGE" \in r.c THEN age' = Append(a, b) /\ lru' = q
  ELSE age' = a /\ lru' = Append(q, b)
Requeued(r, b, a, q) ==
  LET flushed == "VFLUSH" \in r.c
      a1 == IF flushed THEN bremfree(a, b) ELSE a
      q1 == IF flushed THEN bremfree(q, b) ELSE q
  IN  IF flushed /\ r.c \cap {"INVAL", "AGE"} = {} THEN age' = a /\ lru' = q
      ELSE IF ~r.mem THEN age' = a1 /\ lru' = q1
      ELSE IF "INVAL" \in r.c THEN age' = <<b>> \o a1 /\ lru' = q1
      ELSE IF "AGE" \in r.c THEN age' = Append(a1, b) /\ lru' = q1
      ELSE age' = a1 /\ lru' = Append(q1, b)

(* f are the buffers and a and q the free lists as the caller leaves them, *)
(* p is where the LWPs are afterwards.                                     *)
brelsel(f, b, set, a, q, p) ==
  /\ buf' = [f EXCEPT ![b] = Released(Marked(f[b], set))]
  /\ Requeued(Marked(f[b], set), b, a, q)
  /\ pc' \in WakeUps(p, b)

-----------------------------------------------------------------------------
(***************************************************************************)
(* getblk() and getnewbuf().                                               *)
(***************************************************************************)

LockFree(l) == lock \in {Null, l}

Go(l, p) == pc' = [pc EXCEPT ![l] = p]

(* bbusy() of a busy buffer, up to its sleep. *)
WantedSlip(r) == [r EXCEPT !.c = @ \cup {"WANTED"}]
Wanted(r) == [r EXCEPT !.c = @ \cup {"WANTED"}, !.refcnt = @ + 1]

(* incore() and bbusy(). *)
GetblkFound(l) ==
  LET b == incore(blk[l]) IN
  /\ pc[l] = "getblk" /\ LockFree(l) /\ b # Null
  /\ at' = [at EXCEPT ![l] = b]
  /\ IF Busy(b)
     THEN /\ buf' = [buf EXCEPT ![b] = Wanted(@)]
          /\ Go(l, "busy") /\ UNCHANGED <<age, lru>>
     ELSE /\ buf' = [buf EXCEPT ![b].c = @ \cup {"BUSY"}]
          /\ age' = bremfree(age, b) /\ lru' = bremfree(lru, b)
          /\ Go(l, "ready")
  /\ lock' = Null
  /\ UNCHANGED <<hash, victim, wvars, dvars>>

(* The rest of bbusy(): brele(), then EPASSTHROUGH. *)
BusyWoken(l) ==
  LET b == at[l] IN
  /\ pc[l] = "woken" /\ LockFree(l)
  /\ buf' = [buf EXCEPT ![b] = IF @.refcnt = 1 THEN Pooled
                               ELSE [@ EXCEPT !.refcnt = @ - 1]]
  /\ at' = [at EXCEPT ![l] = Null]
  /\ lock' = l
  /\ Go(l, "getblk")
  /\ UNCHANGED <<age, lru, hash, victim, wvars, dvars>>

GetblkMissing(l) ==
  /\ pc[l] = "getblk" /\ LockFree(l) /\ incore(blk[l]) = Null
  /\ lock' = l
  /\ Go(l, "new")
  /\ UNCHANGED <<cvars, lvars, dvars>>

(* The values that buf_lotsfree() may return. *)
buf_lotsfree == IF bufmem < LoWater THEN {TRUE}
                ELSE IF bufmem >= HiWater \/ age # <<>> THEN {FALSE}
                ELSE IF bufmem = LoWater THEN {TRUE}
                ELSE BOOLEAN

NewFromPool(l) ==
  /\ pc[l] = "new" /\ TRUE \in buf_lotsfree
  /\ lock' = Null
  /\ Go(l, "pool")
  /\ UNCHANGED <<cvars, lvars, dvars>>

(* getnewbuf() has returned b, as r and off the chain h: the second half   *)
(* of getblk().                                                            *)
HashNew(l, b, r, h, a, q) ==
  /\ buf' = [buf EXCEPT ![b] = [r EXCEPT !.vp = TRUE, !.lblkno = blk[l]]]
  /\ hash' = InsertHead(h, b)
  /\ at' = [at EXCEPT ![l] = b]
  /\ lock' = Null
  /\ age' = a /\ lru' = q
  /\ Go(l, "alloc")

AgainstDuplicateSlip(l, b, r, h, a, q) == HashNew(l, b, r, h, a, q)
AgainstDuplicate(l, b, r, h, a, q) ==
  \/ incore(blk[l]) = Null /\ HashNew(l, b, r, h, a, q)
  \/ /\ incore(blk[l]) # Null
     /\ brelsel([buf EXCEPT ![b] = r], b, {}, a, q, [pc EXCEPT ![l] = "getblk"])
     /\ hash' = h
     /\ lock' = l
     /\ UNCHANGED at

(* The head of the free lists, which getnewbuf() looks at. *)
Candidate == IF age # <<>> THEN age[1] ELSE lru[1]

(* A delayed write has to be done before the buffer is used again. *)
NeedsWriteSlip(b) == FALSE
NeedsWrite(b) == "DELWRI" \in buf[b].o

(* getnewbuf() without a new structure has four outcomes.  The first: a    *)
(* buffer that vflushbuf() is writing is taken off its list, and the       *)
(* search starts again with the lock held.                                 *)
TakeFlushed(l) ==
  /\ age \o lru # <<>> /\ "VFLUSH" \in buf[Candidate].c
  /\ buf' = [buf EXCEPT ![Candidate].c = (@ \ {"VFLUSH"}) \cup {"AGE"}]
  /\ age' = bremfree(age, Candidate) /\ lru' = bremfree(lru, Candidate)
  /\ lock' = l
  /\ UNCHANGED <<hash, victim>>

(* The second: a dirty buffer is written, and there is no buffer yet. *)
TakeDirty(l) ==
  /\ age \o lru # <<>> /\ "VFLUSH" \notin buf[Candidate].c
  /\ NeedsWrite(Candidate)
  /\ buf' = [buf EXCEPT ![Candidate].c = @ \cup {"BUSY", "AGE"}]
  /\ age' = bremfree(age, Candidate) /\ lru' = bremfree(lru, Candidate)
  /\ victim' = [victim EXCEPT ![l] = Candidate]
  /\ lock' = Null
  /\ Go(l, "bawrite")
  /\ UNCHANGED hash

(* The third: there is none, and the LWP sleeps on needbuffer_cv. *)
TakeNone(l, p) ==
  /\ age \o lru = <<>>
  /\ lock' = Null
  /\ Go(l, p)
  /\ UNCHANGED <<cvars, victim>>

(* The fourth: a clean one is cleared and taken off its chain. *)
CanTake == /\ age \o lru # <<>> /\ "VFLUSH" \notin buf[Candidate].c
           /\ ~NeedsWrite(Candidate)
Cleared(b) == [buf_init EXCEPT !.refcnt = buf[b].refcnt, !.mem = buf[b].mem]

FromQueue(l) ==
  \/ TakeFlushed(l) /\ Go(l, "new") /\ UNCHANGED at
  \/ TakeDirty(l) /\ UNCHANGED at
  \/ TakeNone(l, "need") /\ UNCHANGED at
  \/ /\ CanTake
     /\ AgainstDuplicate(l, Candidate, Cleared(Candidate),
                         Unlink(hash, Candidate),
                         bremfree(age, Candidate), bremfree(lru, Candidate))
     /\ UNCHANGED victim

NewFromQueue(l) ==
  /\ pc[l] = "new" /\ FALSE \in buf_lotsfree
  /\ FromQueue(l)
  /\ UNCHANGED <<wvars, dvars>>

(* pool_cache_get() was called without the lock; it may have failed. *)
PoolGot(l) ==
  /\ pc[l] = "pool" /\ LockFree(l)
  /\ \E b \in Buf :
       /\ buf[b].refcnt = 0
       /\ AgainstDuplicate(l, b, buf_init,
            [hash EXCEPT !.next[b] = Null, !.prev[b] = Null], age, lru)
  /\ UNCHANGED <<victim, wvars, dvars>>

PoolEmpty(l) ==
  /\ pc[l] = "pool" /\ LockFree(l)
  /\ StructShort
  /\ FromQueue(l)
  /\ UNCHANGED <<wvars, dvars>>

-----------------------------------------------------------------------------
(***************************************************************************)
(* allocbuf(), buf_malloc() and buf_trim().                                *)
(***************************************************************************)

AllocHasIt(l) ==
  /\ pc[l] = "alloc" /\ buf[at[l]].mem
  /\ Go(l, "ready")
  /\ UNCHANGED <<cvars, lock, lvars, dvars>>

AllocGot(l) ==
  /\ pc[l] = "alloc" /\ ~buf[at[l]].mem /\ LockFree(l)
  /\ buf' = [buf EXCEPT ![at[l]].mem = TRUE]
  /\ IF bufmem + 1 > HiWater
     THEN /\ why' = [why EXCEPT ![l] = "hiwater"]
          /\ lock' = l
          /\ Go(l, "trim")
     ELSE /\ why' = [why EXCEPT ![l] = "none"]
          /\ lock' = Null
          /\ Go(l, "ready")
  /\ UNCHANGED <<age, lru, hash, at, victim, blk, first, op, owed, left, dvars>>

(* pool_get() has failed: buf_drain(1), and a sleep if that is no help. *)
AllocFailed(l) ==
  /\ pc[l] = "alloc" /\ ~buf[at[l]].mem /\ LockFree(l)
  /\ MemShort
  /\ IF bufmem > LoWater
     THEN /\ why' = [why EXCEPT ![l] = "malloc"]
          /\ lock' = l
          /\ Go(l, "trimming")
     ELSE /\ why' = [why EXCEPT ![l] = "none"]
          /\ lock' = Null
          /\ Go(l, "memwait")
  /\ UNCHANGED <<cvars, at, victim, blk, first, op, owed, left, dvars>>

(* The values that buf_canrelease() may say: the demand for pages is that  *)
(* of the whole system.                                                    *)
buf_canrelease == IF bufmem < LoWater THEN {FALSE}
                  ELSE IF bufmem > HiWater \/ age # <<>> THEN {TRUE}
                  ELSE IF MemShort THEN BOOLEAN ELSE {FALSE}

(* The loop of allocbuf(). *)
TrimOn(l) ==
  /\ pc[l] = "trim" /\ LockFree(l)
  /\ TRUE \in buf_canrelease
  /\ lock' = l
  /\ Go(l, "trimming")
  /\ UNCHANGED <<cvars, lvars, dvars>>

TrimEnough(l) ==
  /\ pc[l] = "trim" /\ LockFree(l)
  /\ FALSE \in buf_canrelease
  /\ why' = [why EXCEPT ![l] = "none"]
  /\ lock' = Null
  /\ Go(l, "ready")
  /\ UNCHANGED <<cvars, at, victim, blk, first, op, owed, left, dvars>>

(* getnewbuf(PCATCH, 1, 1) has found a buffer, which loses its memory and  *)
(* goes back to the pool.  In allocbuf() the lock may be given up for      *)
(* preempt().                                                              *)
TrimFree(l) ==
  /\ CanTake
  /\ hash' = Unlink(hash, Candidate)
  /\ brelsel([buf EXCEPT ![Candidate] =
                            [Cleared(Candidate) EXCEPT !.mem = FALSE]],
             Candidate, {},
             bremfree(age, Candidate), bremfree(lru, Candidate),
             [pc EXCEPT ![l] = IF why[l] = "malloc" THEN "alloc" ELSE "trim"])
  /\ lock' \in IF why[l] = "malloc" THEN {Null} ELSE {l, Null}
  /\ UNCHANGED victim

buf_trim(l) ==
  /\ pc[l] = "trimming"
  /\ \/ TakeFlushed(l) /\ Go(l, "trimming")
     \/ TakeDirty(l)
     \/ TakeNone(l, "tick")
     \/ TrimFree(l)
  /\ UNCHANGED <<at, wvars, dvars>>

(* The sleeps of buf_trim() and buf_malloc() are timed. *)
Timeout(l) ==
  /\ pc[l] \in {"tick", "memwait"}
  /\ Go(l, AfterNeed(pc, l))
  /\ UNCHANGED <<cvars, lock, lvars, dvars>>

-----------------------------------------------------------------------------
(***************************************************************************)
(* Reading.                                                                *)
(***************************************************************************)

(* An LWP calls bread(), breadn(), getblk() or vflushbuf(). *)
Start(l) ==
  /\ pc[l] = "idle"
  /\ left[l] > 0
  /\ left' = IF Bounded THEN [left EXCEPT ![l] = @ - 1] ELSE left
  /\ \E o \in Ops : \E k \in Blk :
       /\ op' = [op EXCEPT ![l] = o]
       /\ blk' = [blk EXCEPT ![l] = IF o = "flush" THEN Null ELSE k]
       /\ owed' = [owed EXCEPT ![l] = IF o = "flush" THEN Blk \ current ELSE {}]
       /\ Go(l, IF o = "flush" THEN "flush" ELSE "getblk")
  /\ UNCHANGED <<cvars, lock, at, victim, first, why, dvars>>

(* bio_doread() of the block to be returned: VOP_STRATEGY() if needed. *)
DoRead(l) ==
  LET b == at[l] IN
  /\ pc[l] = "ready" /\ op[l] # "write" /\ first[l] = Null
  /\ IF Valid(b) THEN UNCHANGED <<buf, io>>
     ELSE /\ buf' = [buf EXCEPT ![b].read = TRUE]
          /\ io' = io \cup {b}
  /\ why' = [why EXCEPT ![l] = "none"]
  /\ Go(l, IF op[l] = "ahead" THEN "ahead" ELSE "biowait")
  /\ UNCHANGED <<age, lru, hash, lock, at, victim, blk, first, op, owed, left,
                 done, intr, numoutput, current>>

(* breadn(): is the other block in the cache? *)
ReadAheadSlip(l) ==
  /\ pc[l] = "ahead" /\ LockFree(l)
  /\ \E k \in Blk \ {blk[l]} :
       /\ first' = [first EXCEPT ![l] = at[l]]
       /\ at' = [at EXCEPT ![l] = Null]
       /\ blk' = [blk EXCEPT ![l] = k]
       /\ Go(l, "getblk")
  /\ UNCHANGED <<cvars, lock, victim, op, why, owed, left, dvars>>
ReadAhead(l) ==
  /\ pc[l] = "ahead" /\ LockFree(l)
  /\ \E k \in Blk \ {blk[l]} :
       IF incore(k) # Null
       THEN Go(l, "biowait") /\ UNCHANGED <<at, first, blk>>
       ELSE /\ first' = [first EXCEPT ![l] = at[l]]
            /\ at' = [at EXCEPT ![l] = Null]
            /\ blk' = [blk EXCEPT ![l] = k]
            /\ Go(l, "getblk")
  /\ UNCHANGED <<cvars, lock, victim, op, why, owed, left, dvars>>

(* bio_doread() with B_ASYNC. *)
DoReadAhead(l) ==
  LET b == at[l] IN
  /\ pc[l] = "ready" /\ first[l] # Null
  /\ at' = [at EXCEPT ![l] = first[l]]
  /\ first' = [first EXCEPT ![l] = Null]
  /\ why' = [why EXCEPT ![l] = "none"]
  /\ \/ /\ ~Valid(b)
        /\ buf' = [buf EXCEPT ![b].read = TRUE, ![b].async = TRUE]
        /\ io' = io \cup {b}
        /\ Go(l, "biowait")
        /\ UNCHANGED <<age, lru>>
     \/ /\ Valid(b) /\ LockFree(l)
        /\ brelsel(buf, b, {}, age, lru, [pc EXCEPT ![l] = "biowait"])
        /\ UNCHANGED io
  /\ UNCHANGED <<hash, lock, victim, blk, op, owed, left,
                 done, intr, numoutput, current>>

(* biowait() returns when the transfer is done. *)
biowaitSlip(l) ==
  /\ pc[l] = "biowait"
  /\ Go(l, "have")
  /\ UNCHANGED <<cvars, lock, lvars, dvars>>
biowait(l) ==
  /\ pc[l] = "biowait" /\ Valid(at[l])
  /\ Go(l, "have")
  /\ UNCHANGED <<cvars, lock, lvars, dvars>>

GetblkForWrite(l) ==
  /\ pc[l] = "ready" /\ op[l] = "write"
  /\ why' = [why EXCEPT ![l] = "none"]
  /\ Go(l, "have")
  /\ UNCHANGED <<cvars, lock, at, victim, blk, first, op, owed, left, dvars>>

-----------------------------------------------------------------------------
(***************************************************************************)
(* What the caller does with the buffer.                                   *)
(***************************************************************************)

(* LWP l is back in its caller, without a buffer. *)
Home(l) ==
  /\ at' = [at EXCEPT ![l] = Null]
  /\ blk' = [blk EXCEPT ![l] = Null]
  /\ op' = [op EXCEPT ![l] = "none"]
  /\ UNCHANGED <<victim, first, why, left>>

Filled(l) == op[l] # "write" /\ ~buf[at[l]].error

(* brelse(bp, 0), after an error too. *)
brelse(l) ==
  /\ pc[l] = "have" /\ op[l] # "write" /\ LockFree(l)
  /\ brelsel(buf, at[l], {}, age, lru, [pc EXCEPT ![l] = "idle"])
  /\ Home(l)
  /\ UNCHANGED <<owed, hash, lock, dvars>>

(* brelse(bp, BC_INVAL): the caller gives up what was in the buffer. *)
Discard(l) ==
  /\ pc[l] = "have" /\ Filled(l) /\ LockFree(l)
  /\ brelsel(buf, at[l], {"INVAL"}, age, lru,
             [pc EXCEPT ![l] = "idle"])
  /\ current' = current \cup {buf[at[l]].lblkno}
  /\ owed' = [k \in Lwp |-> owed[k] \ {buf[at[l]].lblkno}]
  /\ Home(l)
  /\ UNCHANGED <<hash, lock, io, done, intr, numoutput>>

(* The caller has changed the block: its buffer is the only new copy. *)
Changed(b) ==
  [c \in Buf |-> [buf[c] EXCEPT !.fresh =
                    IF c = b THEN TRUE
                    ELSE @ /\ buf[c].lblkno # buf[b].lblkno]]

(* bdwrite(): the buffer goes to the dirty list. *)
bdwrite(l) ==
  LET b == at[l] IN
  /\ pc[l] = "have" /\ (op[l] = "write" \/ Filled(l)) /\ LockFree(l)
  /\ brelsel([Changed(b) EXCEPT ![b].o = {"DELWRI"}], b, {}, age, lru,
             [pc EXCEPT ![l] = "idle"])
  /\ current' = current \ {buf[b].lblkno}
  /\ Home(l)
  /\ UNCHANGED <<owed, hash, lock, io, done, intr, numoutput>>

(* bwrite() up to VOP_STRATEGY(), for the buffers f.  BO_DELWRI is cleared *)
(* and the write counted in the same section.                              *)
StrategySlip(f, b, async) ==
  /\ buf' = [f EXCEPT ![b].o = {}, ![b].read = FALSE, ![b].error = FALSE,
                      ![b].async = async]
  /\ io' = io \cup {b}
  /\ UNCHANGED numoutput
Strategy(f, b, async) ==
  /\ buf' = [f EXCEPT ![b].o = {}, ![b].read = FALSE, ![b].error = FALSE,
                      ![b].async = async]
  /\ io' = io \cup {b}
  /\ numoutput' = numoutput + 1

bwrite(l) ==
  LET b == at[l] IN
  /\ pc[l] = "have" /\ (op[l] = "write" \/ Filled(l)) /\ LockFree(l)
  /\ Strategy(Changed(b), b, FALSE)
  /\ current' = current \ {buf[b].lblkno}
  /\ Go(l, "synced")
  /\ UNCHANGED <<age, lru, hash, lock, lvars, done, intr>>

(* The end of bwrite(): biowait() and brelse(). *)
bwriteDone(l) ==
  /\ pc[l] = "synced" /\ Valid(at[l]) /\ LockFree(l)
  /\ brelsel(buf, at[l], {}, age, lru, [pc EXCEPT ![l] = "idle"])
  /\ Home(l)
  /\ UNCHANGED <<owed, hash, lock, dvars>>

bawrite(l) ==
  LET b == at[l] IN
  /\ pc[l] = "have" /\ (op[l] = "write" \/ Filled(l)) /\ LockFree(l)
  /\ Strategy(Changed(b), b, TRUE)
  /\ current' = current \ {buf[b].lblkno}
  /\ Go(l, "idle")
  /\ Home(l)
  /\ UNCHANGED <<owed, age, lru, hash, lock, done, intr>>

(* bawrite() in getnewbuf(), which then returns NULL, and in vflushbuf(). *)
bawriteVictim(l) ==
  /\ pc[l] = "bawrite" /\ LockFree(l)
  /\ Strategy(buf, victim[l], TRUE)
  /\ victim' = [victim EXCEPT ![l] = Null]
  /\ Go(l, IF op[l] = "flush" THEN "flush"
           ELSE IF why[l] = "none" THEN "getblk" ELSE TrimFailed(l))
  /\ UNCHANGED <<age, lru, hash, lock, at, wvars, done, intr, current>>

-----------------------------------------------------------------------------
(***************************************************************************)
(* vflushbuf(vp, 1).                                                       *)
(***************************************************************************)

FlushOne(l) ==
  /\ pc[l] = "flush" /\ LockFree(l)
  /\ \E b \in DirtyList :
       /\ ~Busy(b)
       /\ buf' = [buf EXCEPT ![b].c = @ \cup {"BUSY", "VFLUSH"}]
       /\ victim' = [victim EXCEPT ![l] = b]
  /\ Go(l, "bawrite")
  /\ UNCHANGED <<age, lru, hash, lock, at, wvars, dvars>>

FlushScanned(l) ==
  /\ pc[l] = "flush" /\ LockFree(l)
  /\ \A b \in DirtyList : Busy(b)
  /\ Go(l, "drain")
  /\ UNCHANGED <<cvars, lock, lvars, dvars>>

(* Under the interlock: no output in progress, and nothing dirty? *)
FlushDrained(l) ==
  /\ pc[l] = "drain" /\ numoutput = 0
  /\ Go(l, IF DirtyList = {} THEN "flushed" ELSE "flush")
  /\ UNCHANGED <<cvars, lock, lvars, dvars>>

FlushReturn(l) ==
  /\ pc[l] = "flushed"
  /\ owed' = [owed EXCEPT ![l] = {}]
  /\ op' = [op EXCEPT ![l] = "none"]
  /\ Go(l, "idle")
  /\ UNCHANGED <<cvars, lock, at, victim, blk, first, why, left, dvars>>

-----------------------------------------------------------------------------
(***************************************************************************)
(* The disk, and the completion of a request.                              *)
(***************************************************************************)

(* The driver completes a request and calls biodone() in its interrupt.    *)
(* When a write fails, what remains of the block is what the disk has.     *)
DiskDone(b, failed) ==
  LET k == buf[b].lblkno IN
  /\ b \in io
  /\ failed => IOErrors
  /\ io' = io \ {b}
  /\ done' = Append(done, b)
  /\ buf' = [buf EXCEPT
       ![b].error = failed,
       ![b].fresh = ~failed /\ IF buf[b].read THEN k \in current ELSE @]
  /\ current' = IF buf[b].read THEN current
                ELSE IF failed \/ buf[b].fresh THEN current \cup {k}
                ELSE current \ {k}
  /\ owed' = IF buf[b].read THEN owed
             ELSE [l \in Lwp |-> owed[l] \ {k}]
  /\ UNCHANGED <<age, lru, hash, lock, pc, at, victim, blk, first, op, why,
                 left, intr, numoutput>>

(* biodone2() under the interlock: BO_DONE, vwakeup(), and the wake-up of  *)
(* biowait(); the release of an asynchronous buffer comes after it.        *)
biodone2 ==
  LET b == done[1] IN
  /\ done # <<>> /\ intr = Null
  /\ done' = Tail(done)
  /\ buf' = [buf EXCEPT ![b].o = @ \cup {"DONE"}]
  /\ numoutput' = IF buf[b].read THEN numoutput ELSE numoutput - 1
  /\ intr' = IF buf[b].async THEN b ELSE Null
  /\ UNCHANGED <<age, lru, hash, lock, pc, lvars, io, current>>

biodoneRelease ==
  /\ intr # Null /\ lock = Null
  /\ brelsel(buf, intr, {}, age, lru, pc)
  /\ intr' = Null
  /\ UNCHANGED <<hash, lock, lvars, io, done, numoutput, current>>

-----------------------------------------------------------------------------
Init ==
  /\ buf = [b \in Buf |-> Pooled]
  /\ age = <<>> /\ lru = <<>>
  /\ hash = [next |-> [x \in Buf \cup {lh_first} |-> Null],
             prev |-> [b \in Buf |-> Null]]
  /\ lock = Null
  /\ pc = [l \in Lwp |-> "idle"] /\ op = [l \in Lwp |-> "none"]
  /\ blk = [l \in Lwp |-> Null] /\ at = [l \in Lwp |-> Null]
  /\ first = [l \in Lwp |-> Null] /\ victim = [l \in Lwp |-> Null]
  /\ why = [l \in Lwp |-> "none"]
  /\ io = {} /\ done = <<>> /\ intr = Null /\ numoutput = 0
  /\ current = Blk
  /\ owed = [l \in Lwp |-> {}]
  /\ left = [l \in Lwp |-> Rounds]

(* What an LWP does without being woken by a clock. *)
Step(l) ==
  \/ GetblkFound(l) \/ BusyWoken(l) \/ GetblkMissing(l)
  \/ NewFromPool(l) \/ NewFromQueue(l) \/ PoolGot(l) \/ PoolEmpty(l)
  \/ AllocHasIt(l) \/ AllocGot(l) \/ AllocFailed(l)
  \/ TrimOn(l) \/ TrimEnough(l) \/ buf_trim(l)
  \/ DoRead(l) \/ ReadAhead(l) \/ DoReadAhead(l) \/ biowait(l)
  \/ GetblkForWrite(l)
  \/ brelse(l) \/ Discard(l) \/ bdwrite(l) \/ bwrite(l) \/ bwriteDone(l)
  \/ bawrite(l) \/ bawriteVictim(l)
  \/ FlushOne(l) \/ FlushScanned(l) \/ FlushDrained(l) \/ FlushReturn(l)

Disk == \E b \in Buf, failed \in BOOLEAN : DiskDone(b, failed)

Next ==
  \/ \E l \in Lwp : Start(l) \/ Step(l) \/ Timeout(l)
  \/ Disk \/ biodone2 \/ biodoneRelease

Spec == Init /\ [][Next]_vars

(* Runnable LWPs run, the disk answers, the soft interrupt and the timeouts *)
(* come.  An LWP at FlushScanned and FlushDrained may go round for ever.    *)
FairSpec ==
  /\ Spec
  /\ \A l \in Lwp : SF_vars(Step(l)) /\ WF_vars(Timeout(l))
  /\ WF_vars(Disk) /\ WF_vars(biodone2) /\ SF_vars(biodoneRelease)

-----------------------------------------------------------------------------
(* Each buffer with memory that nobody uses is on one free list, once; a   *)
(* busy one is on none, unless vflushbuf() is writing it.                  *)
QueuesExact ==
  LET free == age \o lru IN
  /\ \A i, j \in 1 .. Len(free) : free[i] = free[j] => i = j
  /\ \A b \in Buf :
       (\E i \in 1 .. Len(free) : free[i] = b)
         <=> buf[b].mem /\ (Busy(b) => "VFLUSH" \in buf[b].c)

(* incore(), "Just look on what would be its hash chain" (vfs_bio.c:1141): *)
(* every buffer of the vnode is on the chain, and a block has one valid    *)
(* buffer at most.                                                         *)
InCoreFound ==
  /\ \A b \in Buf : buf[b].vp => b \in Chain
  /\ \A b, c \in Buf :
       /\ buf[b].vp /\ buf[c].vp
       /\ "INVAL" \notin buf[b].c \cup buf[c].c
       /\ buf[b].lblkno = buf[c].lblkno
       => b = c

(* Whoever reads a block gets what was last written to it, wherever that   *)
(* is: in the cache, on its way to the disk or on the disk.                *)
Coherent ==
  \A l \in Lwp : pc[l] = "have" /\ Filled(l) => buf[at[l]].fresh

(* When vflushbuf(vp, 1) returns, what was written before it was called is *)
(* on the disk, or its write has failed.                                   *)
FlushedIsOnDisk == \A l \in Lwp : pc[l] = "flushed" => owed[l] = {}

(* A structure that has gone back to the pool is not waited for, used or   *)
(* on its way to the disk, and its reference count says who is left.       *)
PooledUnused ==
  \A b \in Buf :
    LET waiting == {l \in Lwp : pc[l] \in {"busy", "woken"} /\ at[l] = b} IN
    IF buf[b].refcnt = 0
    THEN /\ \A l \in Lwp : b \notin {at[l], first[l], victim[l]}
         /\ b \notin io \cup {intr} \cup {done[i] : i \in 1 .. Len(done)}
    ELSE buf[b].refcnt - Cardinality(waiting) \in
           IF buf[b].mem \/ Busy(b) THEN {1} ELSE {0}

(* No wake-up is lost and nobody waits for everybody else: LWPs that read, *)
(* write and flush so many times come to an end.                           *)
AllFinish == <>[](\A l \in Lwp : pc[l] = "idle")
=============================================================================
